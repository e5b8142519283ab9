----------------------------- MODULE CoverageGap -----------------------------
(***************************************************************************)
(* POST /coverage-gaps/detect and POST /coverage-gaps/:id/transition:      *)
(* CoverageGapService.Detect and .Transition over CoverageGapRepository,   *)
(* statement by statement as in SonarRun.tla.  Around them the rest of the *)
(* program goes on, one atomic step at a time: the runs as RunRegistry     *)
(* promises and SonarRun implements, the areas as Planning writes them.    *)
(*                                                                         *)
(* What CalculateCoverage returns is a function of the boundary, the tracks*)
(* and the resolution; of the three only the boundary is not told by the   *)
(* hash, so a gap remembers the boundary in place of the ratios it gives.  *)
(***************************************************************************)
EXTENDS RunRegistry, FiniteSets, Sequences

CONSTANTS
  Areas,             \* primary keys of survey_areas
  AreaOf,            \* the area of each plan
  Boundaries,        \* polygons of areas
  Resolutions,       \* grid resolutions, of areas and in requests
  Incalculable,      \* the boundaries CalculateCoverage refuses
  Algorithms,        \* values of algorithm_version
  GapIds,            \* primary keys of coverage_gaps
  Notes,             \* review notes, each given by its length with its prefix
  Base,              \* the length of the explanation Detect writes
  Capacity,          \* the size of the column explanation
  ExpectedVersions,  \* what reviewers put in expected_version
  Handlers,          \* request slots of the server
  None               \* a row, a request or an id that is not there

ASSUME CoverageAssumption ==
  /\ AreaOf \in [Plans -> Areas]
  /\ Notes \subseteq Nat \ {0}
  /\ Base \in Nat
  /\ Capacity \in Nat
  /\ ExpectedVersions \subseteq Nat

VARIABLES
  areas,    \* the table survey_areas: the columns Detect reads
  gaps,     \* the table coverage_gaps, by id
  audits,   \* the rows of audit_events about gaps
  pc,       \* the statement each handler executes next
  req,      \* the request each handler is serving
  area,     \* Detect's read of the area
  item,     \* the row Detect inserts; Transition's read after its UPDATE
  before,   \* Transition's first read of the gap
  key,      \* the id Detect's INSERT was given
  reply     \* the last answer each handler gave to Detect

tables == <<runs, locked, areas, gaps, audits>>
locals == <<pc, req, area, item, before, key>>
vars == <<runs, locked, areas, gaps, audits, pc, req, area, item, before, key, reply>>

AreaRow == [boundary : Boundaries, resolution : Resolutions]

(* resolution None stands for the 0 that asks for the area's own.  Of the    *)
(* Idempotency-Key Detect asks only that it has 8 to 120 characters.         *)
DetectRequests ==
  [area : Areas, runs : SUBSET RunIds \ {{}}, algorithm : Algorithms,
   resolution : Resolutions \cup {None}]
TransitionRequests ==
  [gap : GapIds, target : GapTargets, expected : ExpectedVersions, note : Notes]

(* StableInputHash over the checksums of the runs, sorted. *)
StableInputHash(a, algorithm, sources, resolution) ==
  <<a, algorithm, {Checksum(runs[r]) : r \in sources}, resolution>>

(* A slip: the literal leaves Version out. *)
NewGapUnversioned(q, read, hash) ==
  [area |-> q.area, sources |-> q.runs, hash |-> hash, boundary |-> read.boundary,
   state |-> "detected", explanation |-> << >>, version |-> 0]
NewGap(q, read, hash) ==
  [area |-> q.area, sources |-> q.runs, hash |-> hash, boundary |-> read.boundary,
   state |-> "detected", explanation |-> << >>, version |-> 1]

Written(notes) ==
  LET upTo[n \in 0..Len(notes)] == IF n = 0 THEN 0 ELSE upTo[n - 1] + notes[n]
  IN  upTo[Len(notes)]
Fits(notes) == Base + Written(notes) <= Capacity

NoReply == [outcome |-> "none", request |-> None, read |-> None, id |-> None, row |-> None]

Init ==
  /\ RegistryInit
  /\ areas \in [Areas -> AreaRow]
  /\ gaps = [id \in GapIds |-> None]
  /\ audits = {}
  /\ pc = [p \in Handlers |-> "idle"]
  /\ req = [p \in Handlers |-> None]
  /\ area = [p \in Handlers |-> None]
  /\ item = [p \in Handlers |-> None]
  /\ before = [p \in Handlers |-> None]
  /\ key = [p \in Handlers |-> None]
  /\ reply = [p \in Handlers |-> NoReply]

Goto(p, statement) == pc' = [pc EXCEPT ![p] = statement]

Return(p, answer) ==
  /\ Goto(p, "idle")
  /\ req' = [req EXCEPT ![p] = None]
  /\ area' = [area EXCEPT ![p] = None]
  /\ item' = [item EXCEPT ![p] = None]
  /\ before' = [before EXCEPT ![p] = None]
  /\ key' = [key EXCEPT ![p] = None]
  /\ reply' = [reply EXCEPT ![p] = answer]

Answer(p, outcome, id, row) ==
  [outcome |-> outcome, request |-> req[p], read |-> area[p], id |-> id, row |-> row]

-----------------------------------------------------------------------------
(* Detect *)

ReadArea(p, q) ==
  /\ pc[p] = "idle"
  /\ Goto(p, "runs")
  /\ req' = [req EXCEPT ![p] = q]
  /\ area' = [area EXCEPT ![p] = areas[q.area]]
  /\ reply' = [reply EXCEPT ![p] = NoReply]
  /\ UNCHANGED <<tables, item, before, key>>

Usable(q) ==
  \A r \in q.runs : /\ runs[r] # NoRun
                    /\ AreaOf[runs[r].plan] = q.area
                    /\ runs[r].state = "processed"

Resolution(p) == IF req[p].resolution = None THEN area[p].resolution ELSE req[p].resolution

(* One SELECT reads the runs; their checks and the hash follow. *)
ReadRuns(p) ==
  /\ pc[p] = "runs"
  /\ Usable(req[p])
  /\ LET q == req[p]
         hash == StableInputHash(q.area, q.algorithm, q.runs, Resolution(p))
     IN item' = [item EXCEPT ![p] = NewGap(q, area[p], hash)]
  /\ Goto(p, "lookup")
  /\ UNCHANGED <<tables, req, area, before, key, reply>>

(* RUN_SET_INCOMPLETE, RUN_AREA_MISMATCH, RUN_NOT_PROCESSED *)
RefuseRuns(p) ==
  /\ pc[p] = "runs"
  /\ ~Usable(req[p])
  /\ Return(p, NoReply)
  /\ UNCHANGED tables

WithHash(hash) == {id \in GapIds : gaps[id] # None /\ gaps[id].hash = hash}

ReturnExisting(p) ==
  /\ pc[p] = "lookup"
  /\ \E id \in WithHash(item[p].hash) : Return(p, Answer(p, "idempotent", id, gaps[id]))
  /\ UNCHANGED tables

Calculate(p) ==
  /\ pc[p] = "lookup"
  /\ WithHash(item[p].hash) = {}
  /\ area[p].boundary \notin Incalculable
  /\ Goto(p, "insert")
  /\ UNCHANGED <<tables, req, area, item, before, key, reply>>

CannotCalculate(p) ==
  /\ pc[p] = "lookup"
  /\ WithHash(item[p].hash) = {}
  /\ area[p].boundary \in Incalculable
  /\ Return(p, NoReply)
  /\ UNCHANGED tables

(* A slip: no unique index on input_hash. *)
InsertGapUnindexed(p) ==
  /\ pc[p] = "insert"
  /\ \E id \in GapIds :
       /\ gaps[id] = None
       /\ gaps' = [gaps EXCEPT ![id] = item[p]]
       /\ key' = [key EXCEPT ![p] = id]
  /\ Goto(p, "audit_detect")
  /\ UNCHANGED <<runs, locked, areas, audits, req, area, item, before, reply>>

InsertGap(p) ==
  /\ pc[p] = "insert"
  /\ WithHash(item[p].hash) = {}
  /\ \E id \in GapIds :
       /\ gaps[id] = None
       /\ gaps' = [gaps EXCEPT ![id] = item[p]]
       /\ key' = [key EXCEPT ![p] = id]
  /\ Goto(p, "audit_detect")
  /\ UNCHANGED <<runs, locked, areas, audits, req, area, item, before, reply>>

InsertDuplicate(p) ==
  /\ pc[p] = "insert"
  /\ WithHash(item[p].hash) # {}
  /\ Return(p, NoReply)
  /\ UNCHANGED tables

RecordDetect(p) ==
  /\ pc[p] = "audit_detect"
  /\ audits' = audits \cup {[action |-> "coverage.detect", gap |-> key[p],
                             before |-> None, after |-> item[p]]}
  /\ Return(p, Answer(p, "created", key[p], item[p]))
  /\ UNCHANGED <<runs, locked, areas, gaps>>

-----------------------------------------------------------------------------
(* Transition *)

Review(p, q) ==
  /\ pc[p] = "idle"
  /\ gaps[q.gap] # None
  /\ GapCanTransition(gaps[q.gap].state, q.target)
  /\ Goto(p, "update")
  /\ req' = [req EXCEPT ![p] = q]
  /\ before' = [before EXCEPT ![p] = gaps[q.gap]]
  /\ reply' = [reply EXCEPT ![p] = NoReply]
  /\ UNCHANGED <<tables, area, item, key>>

(* A slip: the note replaces the explanation. *)
ExplanationReplaced(p) == <<req[p].note>>

(* The explanation is put together from the row read first. *)
Explanation(p) == Append(before[p].explanation, req[p].note)

(* A slip: the gap's state is not in the WHERE clause. *)
MatchesVersionOnly(p) == gaps[req[p].gap].version = req[p].expected
Matches(p) ==
  /\ gaps[req[p].gap].version = req[p].expected
  /\ gaps[req[p].gap].state = before[p].state

UpdateGap(p) ==
  /\ pc[p] = "update"
  /\ Matches(p)
  /\ Fits(Explanation(p))
  /\ gaps' = [gaps EXCEPT ![req[p].gap].state = req[p].target,
                          ![req[p].gap].explanation = Explanation(p),
                          ![req[p].gap].version = @ + 1]
  /\ Goto(p, "reload")
  /\ UNCHANGED <<runs, locked, areas, audits, req, area, item, before, key, reply>>

(* No row matches: VERSION_CONFLICT.  Or the value is too long for its       *)
(* column: the statement fails, the answer is 500.                           *)
UpdateFails(p) ==
  /\ pc[p] = "update"
  /\ ~(Matches(p) /\ Fits(Explanation(p)))
  /\ Return(p, NoReply)
  /\ UNCHANGED tables

ReloadGap(p) ==
  /\ pc[p] = "reload"
  /\ item' = [item EXCEPT ![p] = gaps[req[p].gap]]
  /\ Goto(p, "audit_transition")
  /\ UNCHANGED <<tables, req, area, before, key, reply>>

RecordTransition(p) ==
  /\ pc[p] = "audit_transition"
  /\ audits' = audits \cup {[action |-> "coverage.transition", gap |-> req[p].gap,
                             before |-> before[p], after |-> item[p]]}
  /\ Return(p, NoReply)
  /\ UNCHANGED <<runs, locked, areas, gaps>>

-----------------------------------------------------------------------------

(* A statement fails, or the process is killed and restarted. *)
StatementError(p) ==
  /\ pc[p] # "idle"
  /\ Return(p, NoReply)
  /\ UNCHANGED tables

(* SurveyAreaService.Update *)
AreaUpdated(a) ==
  /\ \E row \in AreaRow : areas' = [areas EXCEPT ![a] = row]
  /\ UNCHANGED <<runs, locked, gaps, audits, locals, reply>>

RegistryStep ==
  /\ RegistryNext
  /\ UNCHANGED <<areas, gaps, audits, locals, reply>>

Detect(p) ==
  \/ \E q \in DetectRequests : ReadArea(p, q)
  \/ ReadRuns(p) \/ RefuseRuns(p)
  \/ ReturnExisting(p) \/ Calculate(p) \/ CannotCalculate(p)
  \/ InsertGap(p) \/ InsertDuplicate(p) \/ RecordDetect(p)

Transition(p) ==
  \/ \E q \in TransitionRequests : Review(p, q)
  \/ UpdateGap(p) \/ UpdateFails(p)
  \/ ReloadGap(p) \/ RecordTransition(p)

Next ==
  \/ \E p \in Handlers : Detect(p) \/ Transition(p) \/ StatementError(p)
  \/ \E a \in Areas : AreaUpdated(a)
  \/ RegistryStep

Spec == Init /\ [][Next]_vars

-----------------------------------------------------------------------------
(* Properties *)

Hashes == Areas \X Algorithms \X (SUBSET (Plans \X (Tracks \cup {SeedTrack}))) \X Resolutions
GapRow == [area : Areas, sources : SUBSET RunIds, hash : Hashes, boundary : Boundaries,
           state : GapStates, explanation : Seq(Notes), version : 1..5]

(* SQL's "no such row" is no row. *)
ASSUME NoneAssumption == None \notin AreaRow /\ None \notin GapRow

(* Every variable has its type, and a handler holds what the statements      *)
(* before its next one have read.                                            *)
TypeOK ==
  /\ areas \in [Areas -> AreaRow]
  /\ \A id \in GapIds : gaps[id] \in GapRow \cup {None}
  /\ pc \in [Handlers -> {"idle", "runs", "lookup", "insert", "audit_detect",
                         "update", "reload", "audit_transition"}]
  /\ req \in [Handlers -> DetectRequests \cup TransitionRequests \cup {None}]
  /\ \A p \in Handlers :
       /\ pc[p] \in {"runs", "lookup", "insert", "audit_detect"} =>
            req[p] \in DetectRequests /\ area[p] \in AreaRow
       /\ pc[p] \in {"lookup", "insert", "audit_detect"} => item[p] \in GapRow
       /\ pc[p] \in {"update", "reload", "audit_transition"} =>
            req[p] \in TransitionRequests /\ before[p] \in GapRow
  /\ \A e \in audits : gaps[e.gap] # None /\ e.after \in GapRow

(* A gap's sources were fit for the calculation and still vouch for it: they *)
(* belong to its area, and none has been rejected or has invalid navigation  *)
(* ("仅已处理运行可用于覆盖计算"), although nothing holds them still between   *)
(* ByIDs and the INSERT.                                                     *)
SourcesProcessed ==
  \A id \in GapIds : gaps[id] # None => \A r \in gaps[id].sources :
    /\ runs[r] # NoRun
    /\ AreaOf[runs[r].plan] = gaps[id].area
    /\ runs[r].state \in {"processed", "superseded"}

(* Detect is idempotent in its inputs: whoever is answered with a gap is     *)
(* answered with the one gap of the runs, algorithm and resolution asked for,*)
(* the resolution being the area's where none was given.                     *)
DetectIdempotent ==
  \A p \in Handlers :
    LET a == reply[p]
        wanted == IF a.request.resolution = None THEN a.read.resolution ELSE a.request.resolution
    IN
    a.outcome \in {"created", "idempotent"} =>
      /\ a.row.hash = StableInputHash(a.request.area, a.request.algorithm, a.request.runs, wanted)
      /\ \A id \in GapIds : gaps[id] # None /\ gaps[id].hash = a.row.hash => id = a.id
      /\ gaps[a.id] # None /\ gaps[a.id].sources = a.request.runs

(* No review is lost: the explanation a transition writes, put together from *)
(* an earlier read, extends the one it overwrites by its own note, and what  *)
(* the audit will call "before" is the row overwritten.                      *)
NotesAccumulate ==
  [][\A p \in Handlers : pc[p] = "update" /\ pc'[p] = "reload" =>
       LET id == req[p].gap IN
       /\ gaps'[id].explanation = Append(gaps[id].explanation, req[p].note)
       /\ before[p] = gaps[id]]_vars

(* As many notes as transitions, and every transition along the table.       *)
OneNotePerReview ==
  \A id \in GapIds : gaps[id] # None =>
    /\ Len(gaps[id].explanation) + 1 = gaps[id].version
    /\ (gaps[id].state = "detected") <=> (gaps[id].version = 1)
    /\ gaps[id].state = "closed" => gaps[id].version \in {4, 5}

(* The hash identifies the input ("冻结输入哈希"): a gap returned as the       *)
(* result of the same input was calculated on the boundary Detect has read.  *)
HashIdentifiesInput ==
  \A p \in Handlers : reply[p].outcome = "idempotent" =>
    reply[p].row.boundary = reply[p].read.boundary

(* A gap under review can still be closed: there is room for a note.         *)
RoomToClose ==
  \A id \in GapIds : gaps[id] # None /\ gaps[id].state # "closed" =>
    \E note \in Notes : Fits(Append(gaps[id].explanation, note))
=============================================================================
