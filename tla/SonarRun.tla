------------------------------- MODULE SonarRun -------------------------------
(***************************************************************************)
(* POST /runs/import and POST /runs/:id/transition: SonarRunService.Import *)
(* and .Transition over SonarRunRepository and AuditService.  Every request*)
(* is served by a goroutine of its own, and every statement it sends to    *)
(* the database commits by itself: between two statements of one handler   *)
(* any statement of any other may run, and the process may be killed.      *)
(*                                                                         *)
(* A handler p is a slot that serves one request after another.  pc[p]     *)
(* names the statement it is about to execute; the arrival of a request is *)
(* one step with its first SELECT and with the checks on what that read.   *)
(***************************************************************************)
EXTENDS RunRegistry, FiniteSets

CONSTANTS
  Handlers,          \* request slots of the server
  Malformed,         \* the tracks that do not parse, or end before they start
  ExpectedVersions,  \* what clients put in expected_version, right or wrong
  NoRequest,         \* the request of an idle slot
  NoId               \* the id in an answer that names no run

VARIABLES
  audits,   \* the rows of audit_events about runs: what changed, before, after
  pc,       \* the statement each handler executes next
  req,      \* the request each handler is serving
  rid,      \* item.ID once Import has inserted its row
  before,   \* Transition's first read of the run
  after,    \* Transition's read of the run after its UPDATE
  reply     \* the last answer each handler gave

locals == <<pc, req, rid, before, after>>
vars == <<runs, locked, audits, pc, req, rid, before, after, reply>>

TransitionRequests ==
  [run : RunIds, target : RunTargets, expected : ExpectedVersions, reasoned : BOOLEAN]

ImportStatements == {"lookup", "insert", "audit_import", "fetch"}
TransitionStatements == {"update", "reload", "audit_transition"}

Outcomes == {"created", "existing", "transitioned", "refused", "conflict", "error"}
NoReply == [outcome |-> "none", request |-> NoRequest, id |-> NoId, row |-> NoRun]
Failure(outcome) == [outcome |-> outcome, request |-> NoRequest, id |-> NoId, row |-> NoRun]
Success(outcome, q, id, row) == [outcome |-> outcome, request |-> q, id |-> id, row |-> row]

AuditImport(id, row) == [action |-> "run.import", run |-> id, before |-> NoRun, after |-> row]

(* A slip: the snapshots change places. *)
AuditTransitionSwapped(id, old, new) ==
  [action |-> "run.transition", run |-> id, before |-> new, after |-> old]
AuditTransition(id, old, new) ==
  [action |-> "run.transition", run |-> id, before |-> old, after |-> new]

Init ==
  /\ RegistryInit
  /\ audits = {}
  /\ pc = [p \in Handlers |-> "idle"]
  /\ req = [p \in Handlers |-> NoRequest]
  /\ rid = [p \in Handlers |-> NoId]
  /\ before = [p \in Handlers |-> NoRun]
  /\ after = [p \in Handlers |-> NoRun]
  /\ reply = [p \in Handlers |-> NoReply]

Goto(p, statement) == pc' = [pc EXCEPT ![p] = statement]

(* The handler answers and its goroutine ends. *)
Return(p, answer) ==
  /\ Goto(p, "idle")
  /\ req' = [req EXCEPT ![p] = NoRequest]
  /\ rid' = [rid EXCEPT ![p] = NoId]
  /\ before' = [before EXCEPT ![p] = NoRun]
  /\ after' = [after EXCEPT ![p] = NoRun]
  /\ reply' = [reply EXCEPT ![p] = answer]

(* A request arrives: its slot forgets what it answered to the one before. *)
Serve(p, q, statement) ==
  /\ Goto(p, statement)
  /\ req' = [req EXCEPT ![p] = q]
  /\ reply' = [reply EXCEPT ![p] = NoReply]

-----------------------------------------------------------------------------
(* Import *)

(* A slip: the plan may still be a draft. *)
ImportableIntoDraft(q) == q.track \notin Malformed
Importable(q) == q.plan \in locked /\ q.track \notin Malformed

AcceptImport(p, q) ==
  /\ pc[p] = "idle"
  /\ Importable(q)
  /\ Serve(p, q, "lookup")
  /\ UNCHANGED <<runs, locked, audits, rid, before, after>>

(* PLAN_NOT_LOCKED, GEOJSON_INVALID, RUN_TIME_INVALID *)
RefuseImport(p, q) ==
  /\ pc[p] = "idle"
  /\ ~Importable(q)
  /\ reply' = [reply EXCEPT ![p] = Failure("refused")]
  /\ UNCHANGED <<runs, locked, audits, locals>>

(* SELECT ... WHERE source_checksum = ? *)
WithChecksum(q) == {id \in RunIds : runs[id] # NoRun /\ Checksum(runs[id]) = Checksum(q)}

ReturnExisting(p) ==
  /\ pc[p] = "lookup"
  /\ \E id \in WithChecksum(req[p]) :
       Return(p, Success("existing", req[p], id, runs[id]))
  /\ UNCHANGED <<runs, locked, audits>>

ChecksumUnknown(p) ==
  /\ pc[p] = "lookup"
  /\ WithChecksum(req[p]) = {}
  /\ Goto(p, "insert")
  /\ UNCHANGED <<runs, locked, audits, req, rid, before, after, reply>>

(* INSERT under the two unique indexes.  The sequence hands out any unused id. *)
InsertRun(p) ==
  /\ pc[p] = "insert"
  /\ Unique(req[p])
  /\ \E id \in RunIds :
       /\ runs[id] = NoRun
       /\ runs' = [runs EXCEPT ![id] = NewRow(req[p])]
       /\ rid' = [rid EXCEPT ![p] = id]
  /\ Goto(p, "audit_import")
  /\ UNCHANGED <<locked, audits, req, before, after, reply>>

InsertDuplicate(p) ==
  /\ pc[p] = "insert"
  /\ ~Unique(req[p])
  /\ Return(p, Failure("conflict"))
  /\ UNCHANGED <<runs, locked, audits>>

(* The snapshot is the item Import built, not a read of the table. *)
RecordImport(p) ==
  /\ pc[p] = "audit_import"
  /\ audits' = audits \cup {AuditImport(rid[p], NewRow(req[p]))}
  /\ Goto(p, "fetch")
  /\ UNCHANGED <<runs, locked, req, rid, before, after, reply>>

FetchCreated(p) ==
  /\ pc[p] = "fetch"
  /\ Return(p, Success("created", req[p], rid[p], runs[rid[p]]))
  /\ UNCHANGED <<runs, locked, audits>>

-----------------------------------------------------------------------------
(* Transition *)

(* A slip: the quality check is not asked of the navigation. *)
PermittedUnnavigated(row, q) ==
  /\ row # NoRun
  /\ RunCanTransition(row.state, q.target)
  /\ q.target = "rejected" => q.reasoned

(* The checks of Transition, all of them on the row it has read.  That the  *)
(* row carries the expected version is not one of them.                     *)
Permitted(row, q) ==
  /\ row # NoRun
  /\ RunCanTransition(row.state, q.target)
  /\ q.target = "quality_checked" => row.nav # "invalid"
  /\ q.target = "rejected" => q.reasoned

AcceptTransition(p, q) ==
  /\ pc[p] = "idle"
  /\ Permitted(runs[q.run], q)
  /\ Serve(p, q, "update")
  /\ before' = [before EXCEPT ![p] = runs[q.run]]
  /\ UNCHANGED <<runs, locked, audits, rid, after>>

RefuseTransition(p, q) ==
  /\ pc[p] = "idle"
  /\ ~Permitted(runs[q.run], q)
  /\ reply' = [reply EXCEPT ![p] = Failure("refused")]
  /\ UNCHANGED <<runs, locked, audits, locals>>

(* Slips: WHERE id = ? AND version = ?, and WHERE id = ?. *)
MatchesVersionOnly(p) == runs[req[p].run].version = req[p].expected
MatchesIdOnly(p) == pc[p] = "update"

(* UPDATE ... WHERE id = ? AND version = ? AND run_state = ? *)
Matches(p) ==
  /\ runs[req[p].run].version = req[p].expected
  /\ runs[req[p].run].state = before[p].state

UpdateRun(p) ==
  /\ pc[p] = "update"
  /\ Matches(p)
  /\ runs' = [runs EXCEPT ![req[p].run] = Advanced(runs[req[p].run], req[p].target)]
  /\ Goto(p, "reload")
  /\ UNCHANGED <<locked, audits, req, rid, before, after, reply>>

VersionConflict(p) ==
  /\ pc[p] = "update"
  /\ ~Matches(p)
  /\ Return(p, Failure("conflict"))
  /\ UNCHANGED <<runs, locked, audits>>

(* SonarRunRepository.Transition ends in a SELECT of its own. *)
ReloadRun(p) ==
  /\ pc[p] = "reload"
  /\ after' = [after EXCEPT ![p] = runs[req[p].run]]
  /\ Goto(p, "audit_transition")
  /\ UNCHANGED <<runs, locked, audits, req, rid, before, reply>>

RecordTransition(p) ==
  /\ pc[p] = "audit_transition"
  /\ audits' = audits \cup {AuditTransition(req[p].run, before[p], after[p])}
  /\ Return(p, Success("transitioned", req[p], req[p].run, after[p]))
  /\ UNCHANGED <<runs, locked>>

-----------------------------------------------------------------------------
(* What may happen between two statements *)

(* A statement fails: the handler answers 500 and undoes nothing. *)
StatementError(p) ==
  /\ pc[p] # "idle"
  /\ Return(p, Failure("error"))
  /\ UNCHANGED <<runs, locked, audits>>

(* The process is killed, or Shutdown's ten seconds run out: every request  *)
(* in flight is dropped where it stands, and a new process starts.          *)
Crash ==
  /\ \E p \in Handlers : pc[p] # "idle"
  /\ pc' = [p \in Handlers |-> "idle"]
  /\ req' = [p \in Handlers |-> NoRequest]
  /\ rid' = [p \in Handlers |-> NoId]
  /\ before' = [p \in Handlers |-> NoRun]
  /\ after' = [p \in Handlers |-> NoRun]
  /\ reply' = [p \in Handlers |-> IF pc[p] = "idle" THEN reply[p] ELSE NoReply]
  /\ UNCHANGED <<runs, locked, audits>>

PlanLocked(plan) ==
  /\ LockPlan(plan)
  /\ UNCHANGED <<audits, locals, reply>>

Import(p) ==
  \/ \E q \in ImportRequests : AcceptImport(p, q) \/ RefuseImport(p, q)
  \/ ReturnExisting(p) \/ ChecksumUnknown(p)
  \/ InsertRun(p) \/ InsertDuplicate(p)
  \/ RecordImport(p) \/ FetchCreated(p)

Transition(p) ==
  \/ \E q \in TransitionRequests : AcceptTransition(p, q) \/ RefuseTransition(p, q)
  \/ UpdateRun(p) \/ VersionConflict(p)
  \/ ReloadRun(p) \/ RecordTransition(p)

Next ==
  \/ \E p \in Handlers : Import(p) \/ Transition(p) \/ StatementError(p)
  \/ \E plan \in Plans : PlanLocked(plan)
  \/ Crash

Spec == Init /\ [][Next]_vars

-----------------------------------------------------------------------------
(* Properties *)

Snapshots == Row \cup {NoRun}
Replies == [outcome : Outcomes \cup {"none"},
            request : ImportRequests \cup TransitionRequests \cup {NoRequest},
            id : RunIds \cup {NoId}, row : Snapshots]

(* Every variable has its type, and a handler holds exactly what the code    *)
(* before its next statement has computed.                                   *)
TypeOK ==
  /\ runs \in [RunIds -> Snapshots]
  /\ locked \subseteq Plans
  /\ audits \subseteq [action : {"run.import", "run.transition"}, run : RunIds,
                       before : Snapshots, after : Row]
  /\ pc \in [Handlers -> {"idle"} \cup ImportStatements \cup TransitionStatements]
  /\ req \in [Handlers -> ImportRequests \cup TransitionRequests \cup {NoRequest}]
  /\ rid \in [Handlers -> RunIds \cup {NoId}]
  /\ before \in [Handlers -> Snapshots]
  /\ after \in [Handlers -> Snapshots]
  /\ reply \in [Handlers -> Replies]
  /\ \A p \in Handlers :
       /\ pc[p] \in ImportStatements => req[p] \in ImportRequests
       /\ pc[p] \in {"audit_import", "fetch"} => rid[p] \in RunIds
       /\ pc[p] \in TransitionStatements =>
            req[p] \in TransitionRequests /\ before[p] \in Row /\ runs[req[p].run] \in Row
       /\ pc[p] = "audit_transition" => after[p] \in Row

(* Every row of run id that somebody holds: the table, the audit events, the *)
(* handlers that are about to write one of those.                            *)
Changing(id) == {p \in Handlers : pc[p] \in TransitionStatements /\ req[p].run = id}
Importing(id) == {p \in Handlers : pc[p] = "audit_import" /\ rid[p] = id}
Seen(id) ==
  ( {runs[id]}
    \cup {before[p] : p \in Changing(id)}
    \cup {after[p] : p \in {o \in Changing(id) : pc[o] = "audit_transition"}}
    \cup {NewRow(req[p]) : p \in Importing(id)}
    \cup {e.before : e \in {f \in audits : f.run = id}}
    \cup {e.after : e \in {f \in audits : f.run = id}} ) \ {NoRun}

(* The version and the state of a run are one key, and not two: of all the   *)
(* rows of it that anybody ever sees, two have the same version exactly if   *)
(* they have the same state.  The optimistic lock rests on it: the UPDATE    *)
(* compares the version with the client's word and the state with a read.    *)
VersionIsKey ==
  \A id \in RunIds : \A old, new \in Seen(id) :
    (old.version = new.version) <=> (old.state = new.state)

(* A run whose navigation is invalid can only be rejected (Transition's      *)
(* NAVIGATION_INVALID), whatever requests race: the check is made on the     *)
(* first read, the write happens two statements later.                       *)
InvalidNavigationStops ==
  \A id \in RunIds : runs[id] # NoRun /\ runs[id].nav = "invalid" =>
    runs[id].state \in {"imported", "rejected"}

(* The handlers that have replaced a row and have not yet audited it. *)
Unaudited(p) == pc[p] \in {"reload", "audit_transition"}

(* No lost update: of the transitions that replaced a row of one run, on     *)
(* their way to the audit or there already, no two replaced the same version.*)
NoLostUpdate ==
  \A p \in Handlers : Unaudited(p) =>
    /\ \A o \in Handlers \ {p} :
         Unaudited(o) /\ req[o].run = req[p].run => before[o].version # before[p].version
    /\ \A e \in audits :
         e.action = "run.transition" /\ e.run = req[p].run => e.before.version # before[p].version

(* The row an UPDATE replaces is the row Transition read, checked and will   *)
(* hand to the audit as "before", although the WHERE clause compares only    *)
(* the state with that read, and the version with the client's word.         *)
BeforeIsReplaced ==
  [][\A p \in Handlers : pc[p] = "update" /\ pc'[p] = "reload" =>
       runs[req[p].run] = before[p]]_vars

(* Retried imports are safe: imports answered with a run are answered with   *)
(* the one run that holds their track, and rejected duplicates leave it be.  *)
ImportIdempotent ==
  \A p, o \in Handlers :
    LET a == reply[p]  b == reply[o] IN
    a.outcome \in {"created", "existing"} =>
      /\ runs[a.id] # NoRun /\ Checksum(runs[a.id]) = Checksum(a.request)
      /\ b.outcome \in {"created", "existing"} /\ Checksum(a.request) = Checksum(b.request)
           => a.id = b.id

(* What the audit log says is true: the snapshots of a transition are two    *)
(* rows the run really went through, the later one no later than the table,  *)
(* and what a client was told was done is in the log.                        *)
SameRun(old, new) ==
  /\ old.plan = new.plan /\ old.code = new.code
  /\ old.track = new.track /\ old.nav = new.nav
Follows(old, new) == SameRun(old, new) /\ old.version < new.version
AuditsTruthful ==
  /\ \A e \in audits :
       /\ runs[e.run] # NoRun
       /\ e.after = runs[e.run] \/ Follows(e.after, runs[e.run])
       /\ e.action = "run.transition" => Follows(e.before, e.after)
  /\ \A p \in Handlers :
       /\ reply[p].outcome = "created" =>
            \E e \in audits : e.action = "run.import" /\ e.run = reply[p].id
       /\ reply[p].outcome = "transitioned" =>
            \E e \in audits : e.action = "run.transition" /\ e.after = reply[p].row

(* Every change of a run has its event once no handler is at work: the       *)
(* "所有变更记录前后快照" of gb-532.md.                                      *)
EveryChangeAudited ==
  (\A p \in Handlers : pc[p] = "idle") =>
    \A id \in RunIds : runs[id] # NoRun =>
      Cardinality({e \in audits : e.run = id}) =
        IF runs[id].track = SeedTrack THEN runs[id].version - 1 ELSE runs[id].version
=============================================================================
