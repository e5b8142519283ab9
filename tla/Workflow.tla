------------------------------ MODULE Workflow ------------------------------
(***************************************************************************)
(* The shared enumerations of backend/internal/constants and the two       *)
(* transition tables every state change of a run or of a gap must follow.  *)
(* A table is the set of its edges; a state is "Valid" when the table has  *)
(* a row for it.                                                           *)
(***************************************************************************)

RunStates == {"imported", "quality_checked", "processing", "processed",
              "rejected", "superseded"}

(* Slips in the table: a rejected run is checked again ("重处理"), and        *)
(* rejection from any step at all ("任一步可到 rejected").                    *)
runTransitionsReopened ==
  { <<"imported",        "quality_checked">>, <<"imported",        "rejected">>,
    <<"quality_checked", "processing">>,      <<"quality_checked", "rejected">>,
    <<"processing",      "processed">>,       <<"rejected",        "quality_checked">>,
    <<"processed",       "superseded">> }
runTransitionsAnyRejected ==
  { <<"imported",        "quality_checked">>, <<"quality_checked", "processing">>,
    <<"processing",      "processed">>,       <<"processed",       "superseded">>,
    <<"processed",       "rejected">> }

runTransitions ==
  { <<"imported",        "quality_checked">>, <<"imported",        "rejected">>,
    <<"quality_checked", "processing">>,      <<"quality_checked", "rejected">>,
    <<"processing",      "processed">>,       <<"processing",      "rejected">>,
    <<"processed",       "superseded">> }

RunCanTransition(from, to) == <<from, to>> \in runTransitions

GapStates == {"detected", "reviewed", "accepted", "false_positive",
              "resurveyed", "closed"}

gapTransitions ==
  { <<"detected",       "reviewed">>,
    <<"reviewed",       "accepted">>, <<"reviewed", "false_positive">>,
    <<"accepted",       "resurveyed">>,
    <<"false_positive", "closed">>,
    <<"resurveyed",     "closed">> }

GapCanTransition(from, to) == <<from, to>> \in gapTransitions

(* The targets the request bindings accept (oneof=...): every state but the *)
(* one a row is created in.                                                 *)
RunTargets == RunStates \ {"imported"}
GapTargets == GapStates \ {"detected"}
=============================================================================
