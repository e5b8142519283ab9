----------------------------- MODULE RunRegistry -----------------------------
(***************************************************************************)
(* What the sonar-run component promises, with every handler collapsed to  *)
(* one atomic step: a table of runs that grows by imports against locked   *)
(* plans and whose rows only ever advance along the run state machine, one *)
(* version at a time.  SonarRun.tla is the statement-by-statement program  *)
(* that has to implement it; CoverageGap.tla uses it as its environment.   *)
(***************************************************************************)
EXTENDS Naturals, Workflow

CONSTANTS
  RunIds,   \* primary keys of sonar_runs that may be handed out
  Plans,    \* transect plans
  Codes,    \* run codes
  Tracks,   \* a track with its swath and time span: all that checksumRun hashes but the plan
  Navs,     \* navigation qualities that imports carry
  SeedTrack,  \* the track of the demonstration run that seed() writes
  NoRun     \* the value of a primary key that has no row

(* The checksum in seed() is a literal and its times are the clock's: no     *)
(* import has the checksum of the seeded run.                                *)
ASSUME RegistryAssumption ==
  /\ SeedTrack \notin Tracks
  /\ "good" \in Navs
  /\ NoRun \notin [plan : Plans, code : Codes, track : Tracks \cup {SeedTrack}, nav : Navs,
                   state : RunStates, version : Nat \ {0}]

VARIABLES
  runs,     \* the table sonar_runs, by primary key
  locked    \* the plans whose plan_state is "locked"

registry == <<runs, locked>>

Row == [plan : Plans, code : Codes, track : Tracks \cup {SeedTrack}, nav : Navs,
        state : RunStates, version : Nat \ {0}]

(* checksumRun: a digest of the track and of the plan; neither the run code *)
(* nor the navigation quality takes part in it.                             *)
Checksum(r) == <<r.plan, r.track>>

(* A slip: no unique index on source_checksum. *)
UniqueByCodeOnly(row) ==
  \A id \in RunIds : runs[id] # NoRun => runs[id].code # row.code

(* The unique indexes of sonar_runs. *)
Unique(row) ==
  \A id \in RunIds : runs[id] # NoRun =>
    /\ Checksum(runs[id]) # Checksum(row)
    /\ runs[id].code # row.code

(* A slip: the literal leaves Version out. *)
NewRowUnversioned(q) == [plan |-> q.plan, code |-> q.code, track |-> q.track, nav |-> q.nav,
                         state |-> "imported", version |-> 0]

(* Import writes this row: the request's columns, the first state, version 1. *)
NewRow(q) == [plan |-> q.plan, code |-> q.code, track |-> q.track, nav |-> q.nav,
              state |-> "imported", version |-> 1]

NoRuns == [id \in RunIds |-> NoRun]
SeedRun(plan, code) == [plan |-> plan, code |-> code, track |-> SeedTrack, nav |-> "good",
                        state |-> "processed", version |-> 1]

(* OpenDatabase seeds row by row and outside a transaction: the server may   *)
(* start on nothing, on the locked demonstration plan, or on its run as well.*)
(* The seeded run is "processed" in version 1, as no imported run ever is.   *)
RegistryInit ==
  \/ runs = NoRuns /\ locked = {}
  \/ \E plan \in Plans :
       /\ locked = {plan}
       /\ \/ runs = NoRuns
          \/ \E id \in RunIds, code \in Codes : runs = [NoRuns EXCEPT ![id] = SeedRun(plan, code)]

(* TransectPlanService.Lock, the only operation on plans a run can observe.  *)
(* Nothing in the program unlocks a plan.                                    *)
LockPlan(plan) ==
  /\ locked' = locked \cup {plan}
  /\ UNCHANGED runs

Register(id, q) ==
  /\ runs[id] = NoRun
  /\ q.plan \in locked
  /\ Unique(q)
  /\ runs' = [runs EXCEPT ![id] = NewRow(q)]
  /\ UNCHANGED locked

Advanced(row, target) == [row EXCEPT !.state = target, !.version = row.version + 1]

Advance(id, target) ==
  /\ runs[id] # NoRun
  /\ RunCanTransition(runs[id].state, target)
  /\ target = "quality_checked" => runs[id].nav # "invalid"
  /\ runs' = [runs EXCEPT ![id] = Advanced(runs[id], target)]
  /\ UNCHANGED locked

ImportRequests == [plan : Plans, code : Codes, track : Tracks, nav : Navs]

RegistryNext ==
  \/ \E plan \in Plans : LockPlan(plan)
  \/ \E id \in RunIds, q \in ImportRequests : Register(id, q)
  \/ \E id \in RunIds, target \in RunTargets : Advance(id, target)

RegistrySpec == RegistryInit /\ [][RegistryNext]_registry
=============================================================================
