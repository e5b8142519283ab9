------------------------------- MODULE Planning -------------------------------
(***************************************************************************)
(* Survey areas and transect plans: the seven mutations of                 *)
(* SurveyAreaService and TransectPlanService over their repositories.      *)
(* As in SonarRun.tla every statement commits by itself and handlers       *)
(* interleave between statements; a request that a check refuses changes   *)
(* nothing and is no step here.                                            *)
(*                                                                         *)
(* A client may send any expected_version above zero (dto/), one that no   *)
(* row has yet among them.                                                 *)
(***************************************************************************)
EXTENDS Naturals, FiniteSets

CONSTANTS
  AreaCodes,    \* area_code, the natural key of survey_areas
  PlanIds,      \* primary keys of transect_plans
  Boundaries,   \* polygons of areas
  Lines,        \* hand-drawn sets of transect lines
  Malformed,    \* the boundaries and lines that fail validation
  Untraversed,  \* the boundaries Generate lays no line over
  Statuses,     \* the area statuses that clients ask for
  Handlers,     \* request slots of the server
  MaxVersion,   \* bound: no row gets a version above it
  None          \* a row, a request or an id that is not there

ASSUME PlanningAssumption ==
  /\ MaxVersion \in Nat \ {0}
  /\ Malformed \subseteq Boundaries \cup Lines
  /\ Untraversed \subseteq Boundaries
  /\ Statuses \subseteq {"draft", "active", "archived"}

VARIABLES
  areas,    \* the table survey_areas, by area_code
  plans,    \* the table transect_plans, by id
  audits,   \* the rows of audit_events about areas and plans
  pc,       \* the statement each handler executes next
  req,      \* the request each handler is serving
  before,   \* the row the handler read first
  item,     \* the row it inserts, or has read back after its UPDATE
  key       \* the id its INSERT into transect_plans was given

locals == <<pc, req, before, item, key>>
vars == <<areas, plans, audits, pc, req, before, item, key>>

AreaStatus == {"draft", "active", "archived"}
Versions == 1..MaxVersion
Expected == 1..(MaxVersion - 1)   \* so that no UPDATE exceeds the bound

AreaRow == [status : AreaStatus, boundary : Boundaries, version : Versions]
PlanRow == [area : AreaCodes, lines : Lines \cup Boundaries,
            state : {"draft", "locked"}, version : Versions]

(* SQL's "no such row" is no row. *)
ASSUME NoneAssumption == None \notin AreaRow /\ None \notin PlanRow

(* Generated lines are told apart by the boundary they were laid over. *)
LinesOver(boundary) == boundary

NewArea(boundary) == [status |-> "draft", boundary |-> boundary, version |-> 1]

(* A slip: the literal leaves Version out. *)
NewPlanUnversioned(area, lines) ==
  [area |-> area, lines |-> lines, state |-> "draft", version |-> 0]
NewPlan(area, lines) == [area |-> area, lines |-> lines, state |-> "draft", version |-> 1]
CopyOf(plan) == [plan EXCEPT !.state = "draft", !.version = @ + 1]

CreateAreaRequests == [op : {"area.create"}, area : AreaCodes, boundary : Boundaries]
UpdateAreaRequests ==
  [op : {"area.update"}, area : AreaCodes, boundary : Boundaries,
   status : Statuses, expected : Expected]
CreatePlanRequests == [op : {"plan.create"}, area : AreaCodes, lines : Lines]
GenerateRequests == [op : {"plan.generate"}, area : AreaCodes]
UpdatePlanRequests ==
  [op : {"plan.update"}, plan : PlanIds, lines : Lines, expected : Expected]
LockRequests == [op : {"plan.lock"}, plan : PlanIds, expected : Expected]
CopyRequests == [op : {"plan.copy"}, plan : PlanIds]

Requests == UNION {CreateAreaRequests, UpdateAreaRequests, CreatePlanRequests,
                   GenerateRequests, UpdatePlanRequests, LockRequests, CopyRequests}

(* seed(): nothing, the demonstration area, or the area and its locked plan. *)
SeededTables ==
  LET noAreas == [code \in AreaCodes |-> None]
      noPlans == [id \in PlanIds |-> None]
  IN \/ areas = noAreas /\ plans = noPlans
     \/ \E code \in AreaCodes, boundary \in Boundaries \ Malformed :
          /\ areas = [noAreas EXCEPT ![code] =
                        [status |-> "active", boundary |-> boundary, version |-> 1]]
          /\ \/ plans = noPlans
             \/ \E id \in PlanIds, lines \in Lines \ Malformed :
                  plans = [noPlans EXCEPT ![id] =
                             [area |-> code, lines |-> lines, state |-> "locked", version |-> 1]]

Init ==
  /\ SeededTables
  /\ audits = {}
  /\ pc = [p \in Handlers |-> "idle"]
  /\ req = [p \in Handlers |-> None]
  /\ before = [p \in Handlers |-> None]
  /\ item = [p \in Handlers |-> None]
  /\ key = [p \in Handlers |-> None]

Goto(p, statement) == pc' = [pc EXCEPT ![p] = statement]

Return(p) ==
  /\ Goto(p, "idle")
  /\ req' = [req EXCEPT ![p] = None]
  /\ before' = [before EXCEPT ![p] = None]
  /\ item' = [item EXCEPT ![p] = None]
  /\ key' = [key EXCEPT ![p] = None]

(* A request arrives; row is what its first SELECT reads, new the row it     *)
(* would insert.                                                             *)
Accept(p, q, statement, row, new) ==
  /\ pc[p] = "idle"
  /\ Goto(p, statement)
  /\ req' = [req EXCEPT ![p] = q]
  /\ before' = [before EXCEPT ![p] = row]
  /\ item' = [item EXCEPT ![p] = new]
  /\ UNCHANGED <<areas, plans, audits, key>>

-----------------------------------------------------------------------------
(* First reads and the checks on them *)

CreateArea(p, q) ==
  /\ q.boundary \notin Malformed
  /\ Accept(p, q, "insert", None, NewArea(q.boundary))

(* A slip: the status is not looked at. *)
UpdateAreaArchived(p, q) ==
  /\ areas[q.area] # None
  /\ q.boundary \notin Malformed
  /\ Accept(p, q, "update", areas[q.area], None)

UpdateArea(p, q) ==
  /\ areas[q.area] # None
  /\ areas[q.area].status # "archived"
  /\ q.boundary \notin Malformed
  /\ Accept(p, q, "update", areas[q.area], None)

CreatePlan(p, q) ==
  /\ areas[q.area] # None
  /\ areas[q.area].status # "archived"
  /\ q.lines \notin Malformed
  /\ Accept(p, q, "insert", None, NewPlan(q.area, q.lines))

(* Generate does not look at the status: it lays its lines and calls Create, *)
(* which reads the area again.                                               *)
Generate(p, q) ==
  /\ areas[q.area] # None
  /\ areas[q.area].boundary \notin Untraversed
  /\ Accept(p, q, "create", None, NewPlan(q.area, LinesOver(areas[q.area].boundary)))

GenerateCreates(p) ==
  /\ pc[p] = "create"
  /\ IF areas[req[p].area].status # "archived"
       THEN Goto(p, "insert") /\ UNCHANGED <<req, before, item, key>>
       ELSE Return(p)
  /\ UNCHANGED <<areas, plans, audits>>

UpdatePlan(p, q) ==
  /\ plans[q.plan] # None
  /\ plans[q.plan].state = "draft"
  /\ q.lines \notin Malformed
  /\ Accept(p, q, "update", plans[q.plan], None)

Lock(p, q) ==
  /\ plans[q.plan] # None
  /\ plans[q.plan].state = "draft"
  /\ Accept(p, q, "update", plans[q.plan], None)

(* Copy looks neither at the state of the plan nor at its area. *)
Copy(p, q) ==
  /\ plans[q.plan] # None
  /\ plans[q.plan].version < MaxVersion
  /\ Accept(p, q, "insert", plans[q.plan], CopyOf(plans[q.plan]))

-----------------------------------------------------------------------------
(* The statements that follow *)

InsertArea(p) ==
  /\ pc[p] = "insert" /\ req[p].op = "area.create"
  /\ IF areas[req[p].area] = None
       THEN /\ areas' = [areas EXCEPT ![req[p].area] = item[p]]
            /\ Goto(p, "audit")
            /\ UNCHANGED <<req, before, item, key>>
       ELSE Return(p) /\ UNCHANGED areas          \* DUPLICATE_RESOURCE
  /\ UNCHANGED <<plans, audits>>

InsertPlan(p) ==
  /\ pc[p] = "insert" /\ req[p].op # "area.create"
  /\ \E id \in PlanIds :
       /\ plans[id] = None
       /\ plans' = [plans EXCEPT ![id] = item[p]]
       /\ key' = [key EXCEPT ![p] = id]
  /\ Goto(p, "audit")
  /\ UNCHANGED <<areas, audits, req, before, item>>

Stored(q) == IF q.op = "area.update" THEN areas[q.area] ELSE plans[q.plan]

(* A slip: the row is updated by its id alone. *)
MatchesIdOnly(p) == pc[p] = "update"

(* SurveyAreaRepository.Update, TransectPlanRepository.Update: WHERE id = ?  *)
(* AND version = ?; TransectPlanRepository.Transition: AND plan_state = 'draft'. *)
Matches(p) ==
  /\ Stored(req[p]).version = req[p].expected
  /\ req[p].op = "plan.lock" => Stored(req[p]).state = "draft"

WriteArea(p) ==
  /\ pc[p] = "update" /\ req[p].op = "area.update"
  /\ Matches(p)
  /\ areas' = [areas EXCEPT ![req[p].area] =
                 [status |-> req[p].status, boundary |-> req[p].boundary,
                  version |-> @.version + 1]]
  /\ Goto(p, "reload")
  /\ UNCHANGED <<plans, audits, req, before, item, key>>

(* A slip: the row read first is saved back whole, whatever its version. *)
WritePlanWhole(p) ==
  /\ pc[p] = "update" /\ req[p].op = "plan.update"
  /\ plans' = [plans EXCEPT ![req[p].plan] = [before[p] EXCEPT !.lines = req[p].lines]]
  /\ Goto(p, "reload")
  /\ UNCHANGED <<areas, audits, req, before, item, key>>

WritePlan(p) ==
  /\ pc[p] = "update" /\ req[p].op = "plan.update"
  /\ Matches(p)
  /\ plans' = [plans EXCEPT ![req[p].plan].lines = req[p].lines,
                            ![req[p].plan].version = @ + 1]
  /\ Goto(p, "reload")
  /\ UNCHANGED <<areas, audits, req, before, item, key>>

LockDraft(p) ==
  /\ pc[p] = "update" /\ req[p].op = "plan.lock"
  /\ Matches(p)
  /\ plans' = [plans EXCEPT ![req[p].plan].state = "locked",
                            ![req[p].plan].version = @ + 1]
  /\ Goto(p, "reload")
  /\ UNCHANGED <<areas, audits, req, before, item, key>>

VersionConflict(p) ==
  /\ pc[p] = "update"
  /\ ~Matches(p)
  /\ Return(p)
  /\ UNCHANGED <<areas, plans, audits>>

Reload(p) ==
  /\ pc[p] = "reload"
  /\ item' = [item EXCEPT ![p] = Stored(req[p])]
  /\ Goto(p, "audit")
  /\ UNCHANGED <<areas, plans, audits, req, before, key>>

Subject(p) ==
  CASE req[p].op \in {"area.create", "area.update"} -> req[p].area
    [] req[p].op \in {"plan.update", "plan.lock"} -> req[p].plan
    [] OTHER -> key[p]

(* The reads that some handlers make after the audit, for their answer, see  *)
(* the tables and change nothing.                                            *)
Record(p) ==
  /\ pc[p] = "audit"
  /\ audits' = audits \cup {[op |-> req[p].op, subject |-> Subject(p),
                             before |-> before[p], after |-> item[p]]}
  /\ Return(p)
  /\ UNCHANGED <<areas, plans>>

(* A statement fails, or the process is killed and restarted. *)
StatementError(p) ==
  /\ pc[p] # "idle"
  /\ Return(p)
  /\ UNCHANGED <<areas, plans, audits>>

Next ==
  \E p \in Handlers :
    \/ \E q \in CreateAreaRequests : CreateArea(p, q)
    \/ \E q \in UpdateAreaRequests : UpdateArea(p, q)
    \/ \E q \in CreatePlanRequests : CreatePlan(p, q)
    \/ \E q \in GenerateRequests : Generate(p, q)
    \/ \E q \in UpdatePlanRequests : UpdatePlan(p, q)
    \/ \E q \in LockRequests : Lock(p, q)
    \/ \E q \in CopyRequests : Copy(p, q)
    \/ GenerateCreates(p) \/ InsertArea(p) \/ InsertPlan(p)
    \/ WriteArea(p) \/ WritePlan(p) \/ LockDraft(p) \/ VersionConflict(p)
    \/ Reload(p) \/ Record(p) \/ StatementError(p)

Spec == Init /\ [][Next]_vars

-----------------------------------------------------------------------------
(* Properties *)

LockedPlans == {id \in PlanIds : plans[id] # None /\ plans[id].state = "locked"}
ArchivedAreas == {code \in AreaCodes : areas[code] # None /\ areas[code].status = "archived"}

Updates == {"area.update", "plan.update", "plan.lock"}
Table(op) == IF op \in {"area.create", "area.update"} THEN "survey_areas" ELSE "transect_plans"
Row(table, id) == IF table = "survey_areas" THEN areas[id] ELSE plans[id]

(* The rows of its subject that an event shows; a copy's "before" is a row   *)
(* of another plan.                                                          *)
Snapshots(e) == {e.after} \cup (IF e.op \in Updates THEN {e.before} ELSE {})

(* Every variable has its type; a pending UPDATE has read the row it is      *)
(* about, and a pending INSERT has built its row.                            *)
TypeOK ==
  /\ areas \in [AreaCodes -> AreaRow \cup {None}]
  /\ plans \in [PlanIds -> PlanRow \cup {None}]
  /\ audits \subseteq [op : {q.op : q \in Requests}, subject : AreaCodes \cup PlanIds,
                       before : AreaRow \cup PlanRow \cup {None}, after : AreaRow \cup PlanRow]
  /\ pc \in [Handlers -> {"idle", "create", "insert", "update", "reload", "audit"}]
  /\ req \in [Handlers -> Requests \cup {None}]
  /\ before \in [Handlers -> AreaRow \cup PlanRow \cup {None}]
  /\ item \in [Handlers -> AreaRow \cup PlanRow \cup {None}]
  /\ key \in [Handlers -> PlanIds \cup {None}]
  /\ \A p \in Handlers :
       /\ pc[p] \in {"update", "reload"} => before[p] # None /\ Stored(req[p]) # None
       /\ pc[p] \in {"create", "insert", "audit"} => item[p] # None

(* The client sends back a version that it was shown: its handler reads that *)
(* row or a later one.                                                       *)
Echoes(p) == req[p].expected <= before[p].version
Writes(p) == pc[p] = "update" /\ pc'[p] = "reload"

(* No lost update: what an UPDATE replaces is what its handler read, checked *)
(* and will name as "before" in the audit, if its client sends back what it  *)
(* was shown; whatever versions the clients of racing requests make up.      *)
EchoReplacesRead ==
  [][\A p \in Handlers : Writes(p) /\ Echoes(p) => before[p] = Stored(req[p])]_vars

(* A locked plan is not edited, though Update decides on an earlier read and *)
(* its WHERE clause does not repeat the check, but by a handler that read it *)
(* as a draft and was given a version ahead of its read.                     *)
OnlyForesightEditsLocked ==
  [][\A id \in LockedPlans :
       \/ plans'[id] = plans[id]
       \/ \E p \in Handlers : /\ Writes(p) /\ req[p].op = "plan.update" /\ req[p].plan = id
                              /\ before[p].state = "draft" /\ ~Echoes(p)]_vars

(* Likewise an archived area.                                                *)
OnlyForesightEditsArchived ==
  [][\A code \in ArchivedAreas :
       \/ areas'[code] = areas[code]
       \/ \E p \in Handlers : /\ Writes(p) /\ req[p].op = "area.update" /\ req[p].area = code
                              /\ before[p].status # "archived" /\ ~Echoes(p)]_vars

(* The log tells one story of each area and plan, whatever clients send: its *)
(* snapshots with one version are one row, none is ahead of the table, each  *)
(* change leads forward.  A plan is locked at most once and is so still, and *)
(* so is a plan that was locked when it was copied.                          *)
LogConsistent ==
  \A e \in audits :
    /\ \A row \in Snapshots(e) : row.version <= Row(Table(e.op), e.subject).version
    /\ \A f \in audits : Table(f.op) = Table(e.op) /\ f.subject = e.subject =>
         \A one \in Snapshots(e), other \in Snapshots(f) \cup {Row(Table(e.op), e.subject)} :
           one.version = other.version => one = other
    /\ e.op \in Updates => e.before.version < e.after.version
    /\ e.op = "plan.lock" =>
         /\ e.subject \in LockedPlans /\ e.after.state = "locked"
         /\ \A f \in audits : f.op = "plan.lock" /\ f.subject = e.subject => f = e
    /\ e.op = "plan.copy" /\ e.before.state = "locked" =>
         \E id \in LockedPlans : plans[id].area = e.before.area /\ e.before.version <= plans[id].version

(* What the program says of itself: a locked plan is frozen                 *)
(* ("已锁定规划只能复制新版本", transect_plan.go:101).  That does not hold of    *)
(* a client that names the version which a racing Lock is about to give.     *)
LockedPlanFrozen == [][\A id \in LockedPlans : plans'[id] = plans[id]]_vars

(* The plans SonarRun may import against: to it, locking a plan is one step  *)
(* that is never taken back.                                                 *)
Registry == INSTANCE RunRegistry WITH
  RunIds <- {}, Plans <- PlanIds, Codes <- {}, Tracks <- {}, Navs <- {"good"}, SeedTrack <- None, NoRun <- None,
  runs <- << >>, locked <- LockedPlans
LocksAreForGood == Registry!RegistrySpec
=============================================================================
