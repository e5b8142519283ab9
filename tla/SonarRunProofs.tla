---------------------------- MODULE SonarRunProofs ----------------------------
(***************************************************************************)
(* Theorems about SonarRun for every number of runs, plans and handlers,   *)
(* every set of requests and every history of crashes and failures.        *)
(***************************************************************************)
EXTENDS SonarRun, RunRegistryProofs

(* The rows of the table are of the right type from the first state on. *)
LEMMA TypeInit == Init => TypeOK
<1> SUFFICES ASSUME Init PROVE TypeOK
  OBVIOUS
<1>1. \A plan \in Plans, code \in Codes : SeedRun(plan, code) \in Row
  BY RegistryAssumption DEF SeedRun, Row, RunStates
<1>2. runs \in [RunIds -> Snapshots] /\ locked \subseteq Plans
  BY <1>1 DEF Init, RegistryInit, NoRuns, Snapshots
<1> QED
  BY <1>2 DEF Init, TypeOK, Replies, NoReply, Snapshots, ImportStatements, TransitionStatements

(* A handler that ends its request leaves every local typed. *)
LEMMA ReturnType ==
  ASSUME TypeOK, NEW p \in Handlers, NEW answer \in Replies, Return(p, answer),
         UNCHANGED <<runs, locked>>,
         audits' \subseteq [action : {"run.import", "run.transition"}, run : RunIds,
                            before : Snapshots, after : Row]
  PROVE  TypeOK'
  BY DEF TypeOK, Return, Goto, ImportStatements, TransitionStatements, Snapshots, Replies, Row, ImportRequests, TransitionRequests

(* A step that is no answer keeps the types its own writes have. *)
LEMMA TypeStep == TypeOK /\ [Next]_vars => TypeOK'
<1> SUFFICES ASSUME TypeOK, [Next]_vars PROVE TypeOK'
  OBVIOUS
<1> USE DEF Snapshots, ImportStatements, TransitionStatements
<1>f. \A outcome \in {"refused", "conflict", "error"} : Failure(outcome) \in Replies
  BY DEF Failure, Replies, Outcomes
<1>n. NoReply \in Replies
  BY DEF NoReply, Replies
<1>1. ASSUME NEW p \in Handlers, NEW q \in ImportRequests, AcceptImport(p, q)
      PROVE  TypeOK'
  BY <1>1, <1>n DEF TypeOK, AcceptImport, Serve, Goto
<1>2. ASSUME NEW p \in Handlers, NEW q \in ImportRequests, RefuseImport(p, q)
      PROVE  TypeOK'
  BY <1>2, <1>f DEF TypeOK, RefuseImport, locals
<1>3. ASSUME NEW p \in Handlers, ReturnExisting(p)
      PROVE  TypeOK'
  <2>1. PICK id \in WithChecksum(req[p]) : Return(p, Success("existing", req[p], id, runs[id]))
    BY <1>3 DEF ReturnExisting
  <2>2. Success("existing", req[p], id, runs[id]) \in Replies
    BY <1>3, <2>1 DEF ReturnExisting, TypeOK, Success, Replies, Outcomes, WithChecksum
  <2> QED
    BY <1>3, <2>1, <2>2, ReturnType DEF ReturnExisting, TypeOK
<1>4. ASSUME NEW p \in Handlers, ChecksumUnknown(p)
      PROVE  TypeOK'
  BY <1>4 DEF TypeOK, ChecksumUnknown, Goto
<1>5. ASSUME NEW p \in Handlers, InsertRun(p)
      PROVE  TypeOK'
  <2>1. NewRow(req[p]) \in Row
    BY <1>5, NewRowType DEF InsertRun, TypeOK
  <2> QED
    BY <1>5, <2>1 DEF TypeOK, InsertRun, Goto
<1>6. ASSUME NEW p \in Handlers, InsertDuplicate(p)
      PROVE  TypeOK'
  BY <1>6, <1>f, ReturnType DEF InsertDuplicate, TypeOK
<1>7. ASSUME NEW p \in Handlers, RecordImport(p)
      PROVE  TypeOK'
  <2>1. NewRow(req[p]) \in Row
    BY <1>7, NewRowType DEF RecordImport, TypeOK
  <2> QED
    BY <1>7, <2>1 DEF TypeOK, RecordImport, AuditImport, Goto
<1>8. ASSUME NEW p \in Handlers, FetchCreated(p)
      PROVE  TypeOK'
  <2>1. Success("created", req[p], rid[p], runs[rid[p]]) \in Replies
    BY <1>8 DEF FetchCreated, TypeOK, Success, Replies, Outcomes
  <2> QED
    BY <1>8, <2>1, ReturnType DEF FetchCreated, TypeOK
<1>9. ASSUME NEW p \in Handlers, NEW q \in TransitionRequests, AcceptTransition(p, q)
      PROVE  TypeOK'
  <2>1. runs[q.run] \in Row
    BY <1>9 DEF AcceptTransition, Permitted, TypeOK, TransitionRequests
  <2> QED
    BY <1>9, <1>n, <2>1 DEF TypeOK, AcceptTransition, Serve, Goto
<1>10. ASSUME NEW p \in Handlers, NEW q \in TransitionRequests, RefuseTransition(p, q)
       PROVE  TypeOK'
  BY <1>10, <1>f DEF TypeOK, RefuseTransition, locals
<1>11. ASSUME NEW p \in Handlers, UpdateRun(p)
       PROVE  TypeOK'
  <2> DEFINE id == req[p].run
  <2>1. id \in RunIds /\ runs[id] \in Row /\ req[p].target \in RunStates
    BY <1>11 DEF UpdateRun, TypeOK, TransitionRequests, RunTargets
  <2>2. runs' = [runs EXCEPT ![id] = Advanced(runs[id], req[p].target)]
    BY <1>11 DEF UpdateRun
  <2>3. Advanced(runs[id], req[p].target) \in Row
    BY <2>1, AdvancedRow
  <2> HIDE DEF id
  <2>4. \A i \in RunIds : runs[i] \in Row => runs'[i] \in Row
    BY <2>1, <2>2, <2>3 DEF TypeOK
  <2>5. runs' \in [RunIds -> Snapshots]
    BY <2>1, <2>2, <2>3 DEF TypeOK
  <2>6. \A o \in Handlers : pc'[o] \in TransitionStatements =>
          req[o] \in TransitionRequests /\ before[o] \in Row /\ runs'[req[o].run] \in Row
    BY <1>11, <2>4 DEF UpdateRun, Goto, TypeOK, TransitionRequests
  <2> QED
    BY <1>11, <2>5, <2>6 DEF TypeOK, UpdateRun, Goto
<1>12. ASSUME NEW p \in Handlers, VersionConflict(p)
       PROVE  TypeOK'
  BY <1>12, <1>f, ReturnType DEF VersionConflict, TypeOK
<1>13. ASSUME NEW p \in Handlers, ReloadRun(p)
       PROVE  TypeOK'
  BY <1>13 DEF TypeOK, ReloadRun, Goto
<1>14. ASSUME NEW p \in Handlers, RecordTransition(p)
       PROVE  TypeOK'
  <2>1. req[p].run \in RunIds /\ before[p] \in Row /\ after[p] \in Row
    BY <1>14 DEF RecordTransition, TypeOK, TransitionRequests
  <2>2. Success("transitioned", req[p], req[p].run, after[p]) \in Replies
    BY <1>14, <2>1 DEF RecordTransition, TypeOK, Success, Replies, Outcomes
  <2> QED
    BY <1>14, <2>1, <2>2, ReturnType DEF RecordTransition, TypeOK, AuditTransition
<1>15. ASSUME NEW p \in Handlers, StatementError(p)
       PROVE  TypeOK'
  BY <1>15, <1>f, ReturnType DEF StatementError, TypeOK
<1>16. ASSUME NEW plan \in Plans, PlanLocked(plan)
       PROVE  TypeOK'
  BY <1>16 DEF TypeOK, PlanLocked, LockPlan, locals
<1>17. CASE Crash
  BY <1>17, <1>n DEF TypeOK, Crash
<1>18. CASE UNCHANGED vars
  BY <1>18 DEF TypeOK, vars
<1> QED
  BY <1>1, <1>2, <1>3, <1>4, <1>5, <1>6, <1>7, <1>8, <1>9, <1>10, <1>11, <1>12, <1>13,
     <1>14, <1>15, <1>16, <1>17, <1>18 DEF Next, Import, Transition

(* The tables and the locals of SonarRunService's handlers are well typed in *)
(* every reachable state.                                                    *)
THEOREM TypeCorrect == Spec => []TypeOK
  BY TypeInit, TypeStep, PTL DEF Spec

-----------------------------------------------------------------------------
(* The inductive invariant.  The property to carry over an UPDATE is that    *)
(* version and state are one key.  It holds among the rows seen so far; the  *)
(* row an UPDATE writes must differ from all of them in both, and it does    *)
(* because every row seen is the current one or older than it, in its version*)
(* and in its rank along the state machine.                                  *)

Rank(state) ==
  CASE state = "imported"        -> 1
    [] state = "quality_checked" -> 2
    [] state = "processing"      -> 3
    [] state = "processed"       -> 4
    [] OTHER                     -> 5

Older(old, new) ==
  SameRun(old, new) /\ old.version < new.version /\ Rank(old.state) < Rank(new.state)

SeenIsPast ==
  \A id \in RunIds : \A row \in Seen(id) :
    runs[id] \in Row /\ row \in Row /\ (row = runs[id] \/ Older(row, runs[id]))

(* A transition in flight has read a row that allows its target; once its    *)
(* UPDATE is through, that row is not the current one any more.              *)
ReadAllows ==
  \A p \in Handlers : pc[p] \in TransitionStatements =>
    /\ Permitted(before[p], req[p])
    /\ Unaudited(p) => before[p].version < runs[req[p].run].version

AuditsArePast ==
  \A e \in audits : e.action = "run.transition" =>
    e.before \in Row /\ runs[e.run] \in Row /\ e.before.version < runs[e.run].version

AcceptedPlansLocked ==
  \A p \in Handlers : pc[p] \in {"lookup", "insert"} => req[p].plan \in locked

IInv ==
  /\ VersionIsKey
  /\ SeenIsPast
  /\ InvalidNavigationStops
  /\ ReadAllows
  /\ AuditsArePast
  /\ AcceptedPlansLocked
  /\ NoLostUpdate

(* A transition along the table leads to a later rank.                       *)
LEMMA TableAscends ==
  ASSUME NEW from, NEW to, RunCanTransition(from, to)
  PROVE  from \in RunStates /\ to \in RunStates /\ Rank(from) < Rank(to)
  BY DEF RunCanTransition, runTransitions, RunStates, Rank

(* The row a transition has read is among the rows seen of its run.          *)
LEMMA ReadIsSeen ==
  ASSUME TypeOK, IInv, NEW p \in Handlers, pc[p] \in TransitionStatements
  PROVE  /\ req[p] \in TransitionRequests /\ req[p].run \in RunIds
         /\ before[p] \in Row /\ runs[req[p].run] \in Row
         /\ before[p] = runs[req[p].run] \/ Older(before[p], runs[req[p].run])
<1>1. /\ req[p] \in TransitionRequests /\ req[p].run \in RunIds
      /\ before[p] \in Row /\ runs[req[p].run] \in Row
  BY DEF TypeOK, TransitionRequests
<1>2. before[p] \in Seen(req[p].run)
  BY <1>1, RegistryAssumption DEF Seen, Changing, Row
<1> QED
  BY <1>1, <1>2 DEF IInv, SeenIsPast

(* The row that matches the WHERE clause is the row that was read: one that  *)
(* is older has another state.                                               *)
LEMMA MatchIsRead ==
  ASSUME TypeOK, IInv, NEW p \in Handlers, UpdateRun(p)
  PROVE  runs[req[p].run] = before[p]
<1>1. pc[p] \in TransitionStatements /\ runs[req[p].run].state = before[p].state
  BY DEF UpdateRun, Matches, TransitionStatements
<1>2. ~Older(before[p], runs[req[p].run])
  <2> SUFFICES ASSUME Older(before[p], runs[req[p].run]) PROVE FALSE
    OBVIOUS
  <2>1. Rank(before[p].state) < Rank(before[p].state)
    BY <1>1 DEF Older
  <2>2. Rank(before[p].state) \in Nat
    BY DEF Rank
  <2> QED
    BY <2>1, <2>2
<1> QED
  BY <1>1, <1>2, ReadIsSeen

LEMMA InvInit == Init => IInv
<1> SUFFICES ASSUME Init PROVE IInv
  OBVIOUS
<1>1. \A id \in RunIds : Seen(id) \subseteq {runs[id]} \ {NoRun}
  BY DEF Init, Seen, Changing, Importing, TransitionStatements
<1>2. TypeOK
  BY TypeInit
<1>3. SeenIsPast
  BY <1>1, <1>2 DEF SeenIsPast, TypeOK, Snapshots
<1>4. VersionIsKey
  BY <1>1 DEF VersionIsKey
<1>5. InvalidNavigationStops
  BY DEF Init, RegistryInit, NoRuns, SeedRun, InvalidNavigationStops
<1>6. ReadAllows /\ AuditsArePast /\ AcceptedPlansLocked /\ NoLostUpdate
  BY DEF Init, ReadAllows, AuditsArePast, AcceptedPlansLocked, NoLostUpdate, Unaudited,
     TransitionStatements
<1> QED
  BY <1>3, <1>4, <1>5, <1>6 DEF IInv

(* Where no row is seen that was not seen before, the first two conjuncts    *)
(* stay.                                                                     *)
LEMMA NothingNewSeen ==
  ASSUME IInv, runs' = runs, \A id \in RunIds : Seen(id)' \subseteq Seen(id)
  PROVE  SeenIsPast' /\ VersionIsKey'
  BY DEF IInv, SeenIsPast, VersionIsKey

(* Steps that leave the runs alone and in which no handler starts or moves   *)
(* on with a transition.                                                     *)
Quiet(o) ==
  \/ pc'[o] = "idle"
  \/ pc'[o] = pc[o] /\ req'[o] = req[o] /\ before'[o] = before[o] /\ after'[o] = after[o]
     /\ rid'[o] = rid[o]
  \/ pc'[o] \in ImportStatements \ {"audit_import"}
     /\ (pc'[o] \in {"lookup", "insert"} => req'[o].plan \in locked)

LEMMA QuietStep ==
  ASSUME TypeOK, IInv, runs' = runs, locked \subseteq locked', audits' = audits,
         \A o \in Handlers : Quiet(o)
  PROVE  IInv'
<1>1. \A o \in Handlers : pc'[o] \in TransitionStatements \cup {"audit_import"} =>
        /\ pc'[o] = pc[o] /\ req'[o] = req[o] /\ before'[o] = before[o]
        /\ after'[o] = after[o] /\ rid'[o] = rid[o]
  BY DEF Quiet, TransitionStatements, ImportStatements
<1>2. SeenIsPast' /\ VersionIsKey'
  <2>1. \A id \in RunIds : Seen(id)' \subseteq Seen(id)
    BY <1>1 DEF Seen, Changing, Importing, NewRow, TransitionStatements
  <2> QED
    BY <2>1, NothingNewSeen
<1>3. InvalidNavigationStops'
  BY DEF IInv, InvalidNavigationStops
<1>4. ReadAllows'
  BY <1>1 DEF IInv, ReadAllows, Permitted, Unaudited
<1>5. AuditsArePast'
  BY DEF IInv, AuditsArePast
<1>6. AcceptedPlansLocked'
  BY DEF IInv, AcceptedPlansLocked, Quiet
<1>7. NoLostUpdate'
  BY <1>1 DEF IInv, NoLostUpdate, Unaudited, TransitionStatements
<1> QED
  BY <1>2, <1>3, <1>4, <1>5, <1>6, <1>7 DEF IInv

LEMMA ReturnIsQuiet ==
  ASSUME TypeOK, NEW p \in Handlers, NEW answer, Return(p, answer)
  PROVE  \A o \in Handlers : Quiet(o)
  BY DEF Return, Goto, Quiet, TypeOK

LEMMA InsertKeepsInv == ASSUME TypeOK, IInv, NEW p \in Handlers, InsertRun(p) PROVE IInv'
<1> DEFINE new == NewRow(req[p])
<1>1. PICK id \in RunIds : runs[id] = NoRun /\ runs' = [runs EXCEPT ![id] = new]
                           /\ rid' = [rid EXCEPT ![p] = id]
  BY DEF InsertRun
<1>2. /\ new \in Row /\ new # NoRun /\ new.state = "imported"
      /\ pc[p] = "insert" /\ pc'[p] = "audit_import" /\ req' = req /\ before' = before
      /\ after' = after /\ audits' = audits /\ locked' = locked
      /\ \A o \in Handlers \ {p} : pc'[o] = pc[o]
  BY NewRowType, RegistryAssumption
     DEF InsertRun, Goto, TypeOK, ImportStatements, NewRow, Row
<1> HIDE DEF new
<1>3. /\ runs'[id] = new /\ rid'[p] = id
      /\ \A i \in RunIds \ {id} : runs'[i] = runs[i]
      /\ \A o \in Handlers \ {p} : rid'[o] = rid[o]
  BY <1>1 DEF TypeOK
<1>4. Seen(id) = {}
  BY <1>1, RegistryAssumption DEF IInv, SeenIsPast, Row
<1>5. Seen(id)' \subseteq {new}
  BY <1>2, <1>3, <1>4 DEF Seen, Changing, Importing, TransitionStatements, new
<1>6. \A i \in RunIds \ {id} : Seen(i)' \subseteq Seen(i)
  BY <1>2, <1>3 DEF Seen, Changing, Importing, TransitionStatements, NewRow
<1>7. SeenIsPast'
  BY <1>2, <1>3, <1>5, <1>6 DEF IInv, SeenIsPast
<1>8. VersionIsKey'
  BY <1>5, <1>6 DEF IInv, VersionIsKey
<1>9. InvalidNavigationStops'
  BY <1>2, <1>3 DEF IInv, InvalidNavigationStops
<1>10. \A o \in Handlers : pc'[o] \in TransitionStatements =>
         o # p /\ pc[o] = pc'[o] /\ req[o].run \in RunIds /\ runs'[req[o].run] = runs[req[o].run]
  BY <1>1, <1>2, <1>3, RegistryAssumption
     DEF TypeOK, TransitionStatements, TransitionRequests, Row
<1>11. ReadAllows'
  BY <1>2, <1>10 DEF IInv, ReadAllows, Permitted, Unaudited
<1>12. AuditsArePast'
  BY <1>1, <1>2, <1>3, RegistryAssumption DEF IInv, AuditsArePast, TypeOK, Row
<1>13. AcceptedPlansLocked'
  BY <1>2 DEF IInv, AcceptedPlansLocked
<1>14. NoLostUpdate'
  BY <1>2, <1>10 DEF IInv, NoLostUpdate, Unaudited, TransitionStatements
<1> QED
  BY <1>7, <1>8, <1>9, <1>11, <1>12, <1>13, <1>14 DEF IInv

LEMMA UpdateKeepsInv == ASSUME TypeOK, IInv, NEW p \in Handlers, UpdateRun(p) PROVE IInv'
<1> PICK id \in RunIds : id = req[p].run
  BY MatchIsRead, ReadIsSeen DEF UpdateRun, TransitionStatements
<1> DEFINE old == runs[id]
           new == Advanced(old, req[p].target)
<1>1. /\ req[p] \in TransitionRequests /\ id \in RunIds /\ old \in Row /\ old = before[p]
      /\ Permitted(old, req[p])
  BY MatchIsRead, ReadIsSeen DEF UpdateRun, TransitionStatements, IInv, ReadAllows
<1>2. Rank(old.state) < Rank(req[p].target) /\ req[p].target \in RunStates
  BY <1>1, TableAscends DEF Permitted
<1>3. /\ new \in Row /\ SameRun(old, new) /\ new.state = req[p].target
      /\ new.version = old.version + 1
  BY <1>1, <1>2, AdvancedRow DEF SameRun
<1>4. old.version \in Nat /\ new.version \in Nat /\ old.version < new.version /\ new # NoRun
  BY <1>1, <1>3, RegistryAssumption DEF Row
<1>5. /\ runs' = [runs EXCEPT ![id] = new] /\ audits' = audits /\ locked' = locked
      /\ req' = req /\ before' = before /\ after' = after /\ rid' = rid
      /\ pc[p] = "update" /\ pc'[p] = "reload"
      /\ \A o \in Handlers \ {p} : pc'[o] = pc[o]
  BY DEF UpdateRun, Goto, TypeOK
<1> HIDE DEF new, old
<1>6. runs'[id] = new /\ \A i \in RunIds \ {id} : runs'[i] = runs[i]
  BY <1>1, <1>5 DEF TypeOK
<1>7. Older(old, new)
  BY <1>2, <1>3, <1>4 DEF Older
<1>8. \A row \in Seen(id) : row \in Row /\ Older(row, new)
  <2> SUFFICES ASSUME NEW row \in Seen(id) PROVE row \in Row /\ Older(row, new)
    OBVIOUS
  <2>1. row \in Row /\ (row = old \/ Older(row, old))
    BY <1>1 DEF IInv, SeenIsPast, old
  <2>2. Older(row, old) => Older(row, new)
    <3>1. \A s : Rank(s) \in Nat
      BY DEF Rank
    <3> QED
      BY <1>7, <1>4, <2>1, <3>1 DEF Older, SameRun, Row
  <2> QED
    BY <2>1, <2>2, <1>7
<1>9. Seen(id)' \subseteq Seen(id) \cup {new}
  BY <1>4, <1>5, <1>6, RegistryAssumption
     DEF Seen, Changing, Importing, TransitionStatements, NewRow
<1>10. \A i \in RunIds \ {id} : Seen(i)' \subseteq Seen(i)
  BY <1>5, <1>6 DEF Seen, Changing, Importing, TransitionStatements, NewRow
<1>11. SeenIsPast'
  BY <1>3, <1>6, <1>8, <1>9, <1>10 DEF IInv, SeenIsPast
<1>12. VersionIsKey'
  <2>1. \A row \in Seen(id) : row.version # new.version /\ row.state # new.state
    <3>1. \A s : Rank(s) \in Nat
      BY DEF Rank
    <3> QED
      BY <1>4, <1>8, <3>1 DEF Older, Row
  <2> QED
    BY <1>1, <1>9, <1>10, <2>1 DEF IInv, VersionIsKey
<1>13. InvalidNavigationStops'
  <2>1. old.nav = "invalid" => old.state \in {"imported", "rejected"}
    BY <1>1, RegistryAssumption DEF IInv, InvalidNavigationStops, Row, old
  <2>2. new.nav = "invalid" => new.state \in {"imported", "rejected"}
    BY <1>1, <1>3, <2>1 DEF SameRun, Permitted, RunCanTransition, runTransitions
  <2> QED
    BY <1>6, <2>2 DEF IInv, InvalidNavigationStops
<1>14. \A o \in Handlers : pc[o] \in TransitionStatements =>
         before[o].version <= runs[req[o].run].version /\ before[o].version \in Nat
         /\ req[o].run \in RunIds
  BY ReadIsSeen DEF Older, Row
<1>15. ReadAllows'
  <2>1. SUFFICES ASSUME NEW o \in Handlers, pc'[o] \in TransitionStatements
                 PROVE  /\ Permitted(before[o], req[o])
                        /\ pc'[o] \in {"reload", "audit_transition"} =>
                             before[o].version < runs'[req[o].run].version
    BY <1>5 DEF ReadAllows, Permitted, Unaudited
  <2>2. pc[o] \in TransitionStatements
    BY <1>5, <2>1 DEF TransitionStatements
  <2>3. Permitted(before[o], req[o])
    BY <2>2 DEF IInv, ReadAllows
  <2>4. CASE req[o].run = id
    BY <1>4, <1>6, <1>14, <2>2, <2>3, <2>4 DEF old
  <2>5. CASE req[o].run # id
    BY <1>1, <1>5, <1>6, <1>14, <2>1, <2>2, <2>3, <2>5 DEF IInv, ReadAllows, Unaudited
  <2> QED
    BY <2>4, <2>5
<1>16. AuditsArePast'
  BY <1>1, <1>3, <1>4, <1>5, <1>6 DEF IInv, AuditsArePast, TypeOK, Row, old
<1>17. AcceptedPlansLocked'
  BY <1>5 DEF IInv, AcceptedPlansLocked
<1>18. NoLostUpdate'
  <2>1. \A o \in Handlers \ {p} : Unaudited(o) /\ req[o].run = id => before[o].version < old.version
    BY DEF IInv, ReadAllows, Unaudited, TransitionStatements, old
  <2>2. \A e \in audits : e.action = "run.transition" /\ e.run = id => e.before.version < old.version
    BY DEF IInv, AuditsArePast, old
  <2>3. \A e \in audits : e.action = "run.transition" => e.before.version \in Nat
    BY DEF IInv, AuditsArePast, Row
  <2> QED
    BY <1>1, <1>4, <1>5, <1>14, <2>1, <2>2, <2>3
       DEF IInv, NoLostUpdate, Unaudited, TransitionStatements
<1> QED
  BY <1>11, <1>12, <1>13, <1>15, <1>16, <1>17, <1>18 DEF IInv

LEMMA AcceptKeepsInv ==
  ASSUME TypeOK, IInv, NEW p \in Handlers, NEW q \in TransitionRequests, AcceptTransition(p, q)
  PROVE  IInv'
<1>1. /\ runs[q.run] \in Row /\ q.run \in RunIds /\ Permitted(runs[q.run], q)
  BY DEF AcceptTransition, Permitted, TypeOK, TransitionRequests, Snapshots
<1>2. /\ pc'[p] = "update" /\ req'[p] = q /\ before'[p] = runs[q.run]
      /\ runs' = runs /\ audits' = audits /\ locked' = locked /\ after' = after /\ rid' = rid
      /\ \A o \in Handlers \ {p} : pc'[o] = pc[o] /\ req'[o] = req[o] /\ before'[o] = before[o]
  BY DEF AcceptTransition, Serve, Goto, TypeOK
<1>3. SeenIsPast' /\ VersionIsKey'
  <2>1. \A id \in RunIds : Seen(id)' \subseteq Seen(id)
    BY <1>2 DEF Seen, Changing, Importing, TransitionStatements, NewRow
  <2> QED
    BY <1>2, <2>1, NothingNewSeen
<1>4. InvalidNavigationStops'
  BY <1>2 DEF IInv, InvalidNavigationStops
<1>5. ReadAllows'
  BY <1>1, <1>2 DEF IInv, ReadAllows, Permitted, Unaudited
<1>6. AuditsArePast'
  BY <1>2 DEF IInv, AuditsArePast
<1>7. AcceptedPlansLocked'
  BY <1>2 DEF IInv, AcceptedPlansLocked
<1>8. NoLostUpdate'
  BY <1>2 DEF IInv, NoLostUpdate, Unaudited
<1> QED
  BY <1>3, <1>4, <1>5, <1>6, <1>7, <1>8 DEF IInv

LEMMA ReloadKeepsInv == ASSUME TypeOK, IInv, NEW p \in Handlers, ReloadRun(p) PROVE IInv'
<1>1. /\ runs' = runs /\ audits' = audits /\ locked' = locked /\ req' = req
      /\ before' = before /\ rid' = rid
      /\ pc[p] = "reload" /\ pc'[p] = "audit_transition" /\ after'[p] = runs[req[p].run]
      /\ \A o \in Handlers \ {p} : pc'[o] = pc[o] /\ after'[o] = after[o]
  BY DEF ReloadRun, Goto, TypeOK
<1>2. SeenIsPast' /\ VersionIsKey'
  <2>1. \A id \in RunIds : Seen(id)' \subseteq Seen(id)
    BY <1>1 DEF Seen, Changing, Importing, TransitionStatements, NewRow
  <2> QED
    BY <1>1, <2>1, NothingNewSeen
<1>3. InvalidNavigationStops'
  BY <1>1 DEF IInv, InvalidNavigationStops
<1>4. ReadAllows'
  BY <1>1 DEF IInv, ReadAllows, Permitted, Unaudited, TransitionStatements
<1>5. AuditsArePast'
  BY <1>1 DEF IInv, AuditsArePast
<1>6. AcceptedPlansLocked'
  BY <1>1 DEF IInv, AcceptedPlansLocked
<1>7. NoLostUpdate'
  BY <1>1 DEF IInv, NoLostUpdate, Unaudited
<1> QED
  BY <1>2, <1>3, <1>4, <1>5, <1>6, <1>7 DEF IInv

LEMMA RecordImportKeepsInv ==
  ASSUME TypeOK, IInv, NEW p \in Handlers, RecordImport(p) PROVE IInv'
<1> DEFINE event == AuditImport(rid[p], NewRow(req[p]))
<1>1. /\ runs' = runs /\ locked' = locked /\ req' = req /\ before' = before /\ after' = after
      /\ rid' = rid /\ audits' = audits \cup {event}
      /\ pc[p] = "audit_import" /\ pc'[p] = "fetch"
      /\ \A o \in Handlers \ {p} : pc'[o] = pc[o]
  BY DEF RecordImport, Goto, TypeOK
<1>2. /\ event.action = "run.import" /\ event.run = rid[p] /\ event.before = NoRun
      /\ event.after = NewRow(req[p])
  BY DEF AuditImport
<1> HIDE DEF event
<1>3. SeenIsPast' /\ VersionIsKey'
  <2>1. \A id \in RunIds : Seen(id)' \subseteq Seen(id)
    BY <1>1, <1>2 DEF Seen, Changing, Importing, TransitionStatements, NewRow
  <2> QED
    BY <1>1, <2>1, NothingNewSeen
<1>4. InvalidNavigationStops'
  BY <1>1 DEF IInv, InvalidNavigationStops
<1>5. ReadAllows'
  BY <1>1 DEF IInv, ReadAllows, Permitted, Unaudited, TransitionStatements
<1>6. AuditsArePast'
  BY <1>1, <1>2 DEF IInv, AuditsArePast
<1>7. AcceptedPlansLocked'
  BY <1>1 DEF IInv, AcceptedPlansLocked
<1>8. NoLostUpdate'
  BY <1>1, <1>2 DEF IInv, NoLostUpdate, Unaudited
<1> QED
  BY <1>3, <1>4, <1>5, <1>6, <1>7, <1>8 DEF IInv

LEMMA RecordTransitionKeepsInv ==
  ASSUME TypeOK, IInv, NEW p \in Handlers, RecordTransition(p) PROVE IInv'
<1> DEFINE event == AuditTransition(req[p].run, before[p], after[p])
<1>1. /\ runs' = runs /\ locked' = locked /\ audits' = audits \cup {event}
      /\ pc[p] = "audit_transition" /\ pc'[p] = "idle"
      /\ \A o \in Handlers \ {p} : /\ pc'[o] = pc[o] /\ req'[o] = req[o] /\ before'[o] = before[o]
                                   /\ after'[o] = after[o] /\ rid'[o] = rid[o]
  BY DEF RecordTransition, Return, Goto, TypeOK
<1>2. /\ event.action = "run.transition" /\ event.run = req[p].run
      /\ event.before = before[p] /\ event.after = after[p]
  BY DEF AuditTransition
<1> HIDE DEF event
<1>3. /\ before[p] \in Row /\ runs[req[p].run] \in Row
      /\ before[p].version < runs[req[p].run].version
  BY <1>1, ReadIsSeen DEF TransitionStatements, IInv, ReadAllows, Unaudited
<1>4. SeenIsPast' /\ VersionIsKey'
  <2>1. \A id \in RunIds : Seen(id)' \subseteq Seen(id)
    BY <1>1, <1>2 DEF Seen, Changing, Importing, TransitionStatements, NewRow
  <2> QED
    BY <1>1, <2>1, NothingNewSeen
<1>5. InvalidNavigationStops'
  BY <1>1 DEF IInv, InvalidNavigationStops
<1>6. ReadAllows'
  BY <1>1 DEF IInv, ReadAllows, Permitted, Unaudited, TransitionStatements
<1>7. AuditsArePast'
  BY <1>1, <1>2, <1>3 DEF IInv, AuditsArePast
<1>8. AcceptedPlansLocked'
  BY <1>1 DEF IInv, AcceptedPlansLocked
<1>9. NoLostUpdate'
  BY <1>1, <1>2 DEF IInv, NoLostUpdate, Unaudited
<1> QED
  BY <1>4, <1>5, <1>6, <1>7, <1>8, <1>9 DEF IInv

LEMMA InvStep == TypeOK /\ IInv /\ [Next]_vars => IInv'
<1> SUFFICES ASSUME TypeOK, IInv, [Next]_vars PROVE IInv'
  OBVIOUS
<1>1. ASSUME NEW p \in Handlers, NEW q \in ImportRequests, AcceptImport(p, q)
      PROVE  IInv'
  <2>1. \A o \in Handlers : Quiet(o)
    BY <1>1 DEF AcceptImport, Importable, Serve, Goto, Quiet, TypeOK, ImportStatements
  <2> QED
    BY <1>1, <2>1, QuietStep DEF AcceptImport
<1>2. ASSUME NEW p \in Handlers, NEW q \in ImportRequests, RefuseImport(p, q)
      PROVE  IInv'
  BY <1>2, QuietStep DEF RefuseImport, locals, Quiet
<1>3. ASSUME NEW p \in Handlers, ReturnExisting(p)
      PROVE  IInv'
  BY <1>3, QuietStep, ReturnIsQuiet DEF ReturnExisting
<1>4. ASSUME NEW p \in Handlers, ChecksumUnknown(p)
      PROVE  IInv'
  <2>1. \A o \in Handlers : Quiet(o)
    BY <1>4 DEF ChecksumUnknown, Goto, Quiet, TypeOK, IInv, AcceptedPlansLocked, ImportStatements
  <2> QED
    BY <1>4, <2>1, QuietStep DEF ChecksumUnknown
<1>5. ASSUME NEW p \in Handlers, InsertDuplicate(p)
      PROVE  IInv'
  BY <1>5, QuietStep, ReturnIsQuiet DEF InsertDuplicate
<1>6. ASSUME NEW p \in Handlers, FetchCreated(p)
      PROVE  IInv'
  BY <1>6, QuietStep, ReturnIsQuiet DEF FetchCreated
<1>7. ASSUME NEW p \in Handlers, NEW q \in TransitionRequests, RefuseTransition(p, q)
      PROVE  IInv'
  BY <1>7, QuietStep DEF RefuseTransition, locals, Quiet
<1>8. ASSUME NEW p \in Handlers, VersionConflict(p)
      PROVE  IInv'
  BY <1>8, QuietStep, ReturnIsQuiet DEF VersionConflict
<1>9. ASSUME NEW p \in Handlers, StatementError(p)
      PROVE  IInv'
  BY <1>9, QuietStep, ReturnIsQuiet DEF StatementError
<1>10. ASSUME NEW plan \in Plans, PlanLocked(plan)
       PROVE  IInv'
  BY <1>10, QuietStep DEF PlanLocked, LockPlan, locals, Quiet
<1>11. CASE Crash
  BY <1>11, QuietStep DEF Crash, Quiet
<1>12. CASE UNCHANGED vars
  BY <1>12, QuietStep DEF vars, Quiet
<1> QED
  BY <1>1, <1>2, <1>3, <1>4, <1>5, <1>6, <1>7, <1>8, <1>9, <1>10, <1>11, <1>12,
     InsertKeepsInv, UpdateKeepsInv, AcceptKeepsInv, ReloadKeepsInv, RecordImportKeepsInv,
     RecordTransitionKeepsInv DEF Next, Import, Transition

-----------------------------------------------------------------------------
(* What follows from the invariant. *)

LEMMA Invariance == Spec => [](TypeOK /\ IInv)
<1>1. TypeOK /\ IInv /\ [Next]_vars => (TypeOK /\ IInv)'
  BY TypeStep, InvStep
<1> QED
  BY <1>1, TypeInit, InvInit, PTL DEF Spec

(* A run's version and state are one key: whatever versions clients guess    *)
(* and however the handlers of Transition interleave, fail or crash, two rows*)
(* anybody sees of a run agree in both or in neither.                        *)
THEOREM VersionTellsState == Spec => []VersionIsKey
  BY Invariance, PTL DEF IInv

(* SonarRunService.Transition's NAVIGATION_INVALID check holds of the table, *)
(* not only of the read it is made on.                                       *)
THEOREM NavigationGate == Spec => []InvalidNavigationStops
  BY Invariance, PTL DEF IInv

(* No two transitions of a run replace the same version of it, for any       *)
(* number of handlers and any mixture of crashes and failing statements.     *)
THEOREM UpdatesAreNotLost == Spec => []NoLostUpdate
  BY Invariance, PTL DEF IInv

(* Only the UPDATE of Transition takes a handler from "update" to "reload".  *)
LEMMA OnlyUpdateReplaces ==
  ASSUME TypeOK, [Next]_vars, NEW p \in Handlers, pc[p] = "update", pc'[p] = "reload"
  PROVE  UpdateRun(p)
<1>2. ASSUME NEW o \in Handlers, Import(o)
      PROVE  FALSE
  BY <1>2 DEF Import, AcceptImport, RefuseImport, ReturnExisting, ChecksumUnknown, InsertRun,
     InsertDuplicate, RecordImport, FetchCreated, Serve, Return, Goto, TypeOK, locals
<1>3. ASSUME NEW o \in Handlers, Transition(o), ~UpdateRun(p)
      PROVE  FALSE
  BY <1>3 DEF Transition, AcceptTransition, RefuseTransition, UpdateRun, VersionConflict,
     ReloadRun, RecordTransition, Serve, Return, Goto, TypeOK, locals
<1>4. ASSUME NEW o \in Handlers, StatementError(o)
      PROVE  FALSE
  BY <1>4 DEF StatementError, Return, Goto, TypeOK
<1>5. ASSUME NEW plan \in Plans, PlanLocked(plan)
      PROVE  FALSE
  BY <1>5 DEF PlanLocked, locals
<1>6. CASE Crash
  BY <1>6 DEF Crash
<1>7. CASE UNCHANGED vars
  BY <1>7 DEF vars
<1> QED
  BY <1>2, <1>3, <1>4, <1>5, <1>6, <1>7 DEF Next

(* The "before" of every transition's audit is the very row it replaced.     *)
THEOREM BeforeReplaced == Spec => BeforeIsReplaced
<1>1. TypeOK /\ IInv /\ [Next]_vars =>
        [\A p \in Handlers : pc[p] = "update" /\ pc'[p] = "reload" =>
           runs[req[p].run] = before[p]]_vars
  BY OnlyUpdateReplaces, MatchIsRead
<1> QED
  BY <1>1, Invariance, PTL DEF Spec, BeforeIsReplaced

(* Every step of the handlers is a step of the registry or no step of it.    *)
LEMMA RegistryStepSimulated == TypeOK /\ IInv /\ [Next]_vars => [RegistryNext]_registry
<1> SUFFICES ASSUME TypeOK, IInv, [Next]_vars PROVE [RegistryNext]_registry
  OBVIOUS
<1>1. ASSUME NEW p \in Handlers, InsertRun(p)
      PROVE  RegistryNext
  <2>1. req[p] \in ImportRequests /\ req[p].plan \in locked
    BY <1>1 DEF InsertRun, TypeOK, ImportStatements, IInv, AcceptedPlansLocked
  <2>2. \E id \in RunIds : Register(id, req[p])
    BY <1>1, <2>1 DEF InsertRun, Register
  <2> QED
    BY <2>1, <2>2 DEF RegistryNext
<1>2. ASSUME NEW p \in Handlers, UpdateRun(p)
      PROVE  RegistryNext
  <2>1. /\ req[p].run \in RunIds /\ req[p].target \in RunTargets
        /\ Permitted(runs[req[p].run], req[p])
    BY <1>2, MatchIsRead
       DEF UpdateRun, TypeOK, TransitionStatements, TransitionRequests, IInv, ReadAllows
  <2>2. Advance(req[p].run, req[p].target)
    BY <1>2, <2>1 DEF UpdateRun, Advance, Permitted
  <2> QED
    BY <2>1, <2>2 DEF RegistryNext
<1>3. ASSUME NEW plan \in Plans, PlanLocked(plan)
      PROVE  RegistryNext
  BY <1>3 DEF PlanLocked, RegistryNext
<1>4. ASSUME NEW p \in Handlers, Import(p), ~InsertRun(p)
      PROVE  UNCHANGED registry
  BY <1>4 DEF Import, AcceptImport, RefuseImport, ReturnExisting, ChecksumUnknown,
     InsertDuplicate, RecordImport, FetchCreated, registry
<1>5. ASSUME NEW p \in Handlers, Transition(p), ~UpdateRun(p)
      PROVE  UNCHANGED registry
  BY <1>5 DEF Transition, AcceptTransition, RefuseTransition, VersionConflict, ReloadRun,
     RecordTransition, registry
<1>6. ASSUME NEW p \in Handlers, StatementError(p)
      PROVE  UNCHANGED registry
  BY <1>6 DEF StatementError, registry
<1>7. CASE Crash
  BY <1>7 DEF Crash, registry
<1>8. CASE UNCHANGED vars
  BY <1>8 DEF vars, registry
<1> QED
  BY <1>1, <1>2, <1>3, <1>4, <1>5, <1>6, <1>7, <1>8 DEF Next

(* The statement-by-statement handlers implement the atomic registry: a      *)
(* check made on a stale read never lets a run be registered against a plan  *)
(* that is not locked, nor a state change through that is off the table.     *)
THEOREM HandlersImplementRegistry == Spec => RegistrySpec
<1>1. Init => RegistryInit
  BY DEF Init
<1> QED
  BY <1>1, RegistryStepSimulated, Invariance, PTL DEF Spec, RegistrySpec

-----------------------------------------------------------------------------
(* What clients are told, and what the log says.  Both speak of rows that    *)
(* may have moved on since: what carries them is that a run once there stays *)
(* the same run, and that an event once written stays.                       *)

Holds(id, q) == id \in RunIds /\ runs[id] \in Row /\ Checksum(runs[id]) = Checksum(q)
ImportLogged(id) == \E e \in audits : e.action = "run.import" /\ e.run = id
TransitionLogged(row) == \E e \in audits : e.action = "run.transition" /\ e.after = row

LogFollows == \A e \in audits : e.action = "run.transition" => Follows(e.before, e.after)

(* What handler p knows of the table and of the log.                         *)
Honest(p) ==
  /\ pc[p] \in {"audit_import", "fetch"} => Holds(rid[p], req[p])
  /\ pc[p] = "fetch" => ImportLogged(rid[p])
  /\ pc[p] = "audit_transition" => Follows(before[p], after[p])
  /\ reply[p].outcome \in {"created", "existing"} => Holds(reply[p].id, reply[p].request)
  /\ reply[p].outcome = "created" => ImportLogged(reply[p].id)
  /\ reply[p].outcome = "transitioned" => TransitionLogged(reply[p].row)

AnswersInv == ChecksumsDistinct /\ LogFollows /\ \A p \in Handlers : Honest(p)

LEMMA TypedTable == TypeOK => RegistryTyped
  BY DEF TypeOK, RegistryTyped, Snapshots

(* Where a step neither moves a handler on nor answers for it, or drops its  *)
(* request with nothing to say, what it knows stays true.                    *)
Untouched(p) ==
  /\ pc'[p] = pc[p] /\ req'[p] = req[p] /\ rid'[p] = rid[p]
  /\ before'[p] = before[p] /\ after'[p] = after[p]
Fresh(p) == pc'[p] \in {"idle", "lookup", "insert", "update", "reload"}
Silent(p) == reply'[p].outcome \in {"none", "refused", "conflict", "error"}

Calm(p) == (Untouched(p) \/ Fresh(p)) /\ (reply'[p] = reply[p] \/ Silent(p))

LEMMA HonestyLasts ==
  ASSUME TypeOK, [RegistryNext]_registry, audits \subseteq audits',
         NEW p \in Handlers, Honest(p),
         Calm(p)
  PROVE  Honest(p)'
<1>1. /\ pc'[p] \in {"audit_import", "fetch"} => Holds(rid[p], req[p])'
      /\ pc'[p] = "fetch" => ImportLogged(rid[p])'
      /\ pc'[p] = "audit_transition" => Follows(before[p], after[p])'
  <2>1. CASE Untouched(p)
    BY <2>1, RunsGoOn, TypedTable DEF Honest, Untouched, Holds, ImportLogged, Follows, SameRun, Checksum
  <2>2. CASE Fresh(p)
    BY <2>2 DEF Fresh
  <2> QED
    BY <2>1, <2>2 DEF Calm
<1>2. /\ reply'[p].outcome \in {"created", "existing"} => Holds(reply[p].id, reply[p].request)'
      /\ reply'[p].outcome = "created" => ImportLogged(reply[p].id)'
      /\ reply'[p].outcome = "transitioned" => TransitionLogged(reply[p].row)'
  BY RunsGoOn, TypedTable DEF Honest, Calm, Silent, Holds, ImportLogged, TransitionLogged, SameRun, Checksum
<1> QED
  BY <1>1, <1>2 DEF Honest

LEMMA FailureHonest ==
  ASSUME TypeOK, [RegistryNext]_registry, audits' = audits, \A o \in Handlers : Honest(o),
         NEW p \in Handlers, NEW outcome \in {"conflict", "error"}, Return(p, Failure(outcome))
  PROVE  \A o \in Handlers : Honest(o)'
<1>1. \A o \in Handlers : Calm(o)
  BY DEF Return, Goto, Failure, Calm, Untouched, Fresh, Silent, TypeOK
<1> QED
  BY <1>1, HonestyLasts

LEMMA AnswersInit == Init => AnswersInv
<1> SUFFICES ASSUME Init PROVE AnswersInv
  OBVIOUS
<1>1. ChecksumsDistinct
  BY DEF Init, RegistryInit, NoRuns, ChecksumsDistinct
<1>2. LogFollows /\ \A p \in Handlers : Honest(p)
  BY DEF Init, LogFollows, Honest, NoReply
<1> QED
  BY <1>1, <1>2 DEF AnswersInv

(* The log grows by true events: a transition's "after" was read after the   *)
(* UPDATE replaced its "before".                                             *)
LEMMA LogStaysTrue ==
  ASSUME TypeOK, IInv, AnswersInv, [Next]_vars
  PROVE  audits \subseteq audits' /\ LogFollows'
<1>1. ASSUME NEW p \in Handlers, RecordImport(p)
      PROVE  audits \subseteq audits' /\ LogFollows'
  BY <1>1 DEF RecordImport, AuditImport, AnswersInv, LogFollows
<1>2. ASSUME NEW p \in Handlers, RecordTransition(p)
      PROVE  audits \subseteq audits' /\ LogFollows'
  BY <1>2 DEF RecordTransition, AuditTransition, AnswersInv, LogFollows, Honest
<1>3. ASSUME NEW p \in Handlers, Import(p), ~RecordImport(p)
      PROVE  audits' = audits
  BY <1>3 DEF Import, AcceptImport, RefuseImport, ReturnExisting, ChecksumUnknown, InsertRun,
     InsertDuplicate, FetchCreated
<1>4. ASSUME NEW p \in Handlers, Transition(p), ~RecordTransition(p)
      PROVE  audits' = audits
  BY <1>4 DEF Transition, AcceptTransition, RefuseTransition, UpdateRun, VersionConflict, ReloadRun
<1>5. ASSUME NEW p \in Handlers, StatementError(p)
      PROVE  audits' = audits
  BY <1>5 DEF StatementError
<1>6. CASE Crash \/ (\E plan \in Plans : PlanLocked(plan)) \/ UNCHANGED vars
  BY <1>6 DEF Crash, PlanLocked, vars, AnswersInv, LogFollows
<1> QED
  BY <1>1, <1>2, <1>3, <1>4, <1>5, <1>6 DEF Next, AnswersInv, LogFollows

LEMMA ImportHonest ==
  ASSUME TypeOK, IInv, AnswersInv, [RegistryNext]_registry, audits \subseteq audits',
         NEW p \in Handlers, Import(p)
  PROVE  \A o \in Handlers : Honest(o)'
<1> USE DEF AnswersInv
<1>1. ASSUME NEW q \in ImportRequests, AcceptImport(p, q)
      PROVE  \A o \in Handlers : Honest(o)'
  <2>1. \A o \in Handlers : Calm(o)
    BY <1>1 DEF AcceptImport, Serve, Goto, Calm, Untouched, Fresh, Silent, NoReply, TypeOK
  <2> QED
    BY <2>1, HonestyLasts
<1>2. ASSUME NEW q \in ImportRequests, RefuseImport(p, q)
      PROVE  \A o \in Handlers : Honest(o)'
  <2>1. \A o \in Handlers : Calm(o)
    BY <1>2 DEF RefuseImport, locals, Calm, Untouched, Fresh, Silent, Failure, TypeOK
  <2> QED
    BY <2>1, HonestyLasts
<1>3. CASE ReturnExisting(p)
  <2>1. PICK id \in WithChecksum(req[p]) : Return(p, Success("existing", req[p], id, runs[id]))
    BY <1>3 DEF ReturnExisting
  <2> DEFINE answer == Success("existing", req[p], id, runs[id])
  <2>2. /\ answer.outcome = "existing" /\ answer.id = id /\ answer.request = req[p]
        /\ Return(p, answer)
    BY <2>1 DEF Success
  <2>3. runs' = runs /\ audits' = audits
    BY <1>3 DEF ReturnExisting
  <2>4. Holds(id, req[p])
    BY <2>1 DEF WithChecksum, Holds, TypeOK, Snapshots
  <2> HIDE DEF answer
  <2>5. Honest(p)'
    BY <2>2, <2>3, <2>4 DEF Honest, Holds, Return, Goto, TypeOK
  <2>6. \A o \in Handlers \ {p} : Calm(o)
    BY <2>2 DEF Return, Goto, Calm, Untouched, TypeOK
  <2> QED
    BY <2>5, <2>6, HonestyLasts
<1>4. CASE ChecksumUnknown(p)
  <2>1. \A o \in Handlers : Calm(o)
    BY <1>4 DEF ChecksumUnknown, Goto, Calm, Untouched, Fresh, TypeOK
  <2> QED
    BY <2>1, HonestyLasts
<1>5. CASE InsertRun(p)
  <2>1. PICK id \in RunIds : runs' = [runs EXCEPT ![id] = NewRow(req[p])]
                             /\ rid' = [rid EXCEPT ![p] = id]
    BY <1>5 DEF InsertRun
  <2>2. NewRow(req[p]) \in Row /\ Checksum(NewRow(req[p])) = Checksum(req[p])
    BY <1>5, NewRowType DEF InsertRun, TypeOK, ImportStatements, NewRow, Checksum
  <2>3. /\ pc'[p] = "audit_import" /\ req' = req /\ reply' = reply
        /\ rid'[p] = id /\ runs'[id] = NewRow(req[p])
    BY <1>5, <2>1 DEF InsertRun, Goto, TypeOK
  <2>4. Honest(p)'
    <3>1. Holds(rid[p], req[p])'
      BY <2>2, <2>3 DEF Holds
    <3>2. /\ reply[p].outcome \in {"created", "existing"} => Holds(reply[p].id, reply[p].request)'
          /\ reply[p].outcome = "created" => ImportLogged(reply[p].id)'
          /\ reply[p].outcome = "transitioned" => TransitionLogged(reply[p].row)'
      BY <2>3, RunsGoOn, TypedTable DEF Honest, Holds, ImportLogged, TransitionLogged, SameRun, Checksum
    <3> QED
      BY <2>3, <3>1, <3>2 DEF Honest
  <2>5. \A o \in Handlers \ {p} : Calm(o)
    BY <1>5, <2>1 DEF InsertRun, Goto, Calm, Untouched, TypeOK
  <2> QED
    BY <2>4, <2>5, HonestyLasts
<1>6. CASE InsertDuplicate(p)
  BY <1>6, FailureHonest DEF InsertDuplicate
<1>7. CASE RecordImport(p)
  <2>1. /\ pc[p] = "audit_import" /\ pc'[p] = "fetch"
        /\ runs' = runs /\ req' = req /\ rid' = rid /\ reply' = reply
    BY <1>7 DEF RecordImport, Goto, TypeOK
  <2> DEFINE event == AuditImport(rid[p], NewRow(req[p]))
  <2>a. audits' = audits \cup {event} /\ event.action = "run.import" /\ event.run = rid[p]
    BY <1>7 DEF RecordImport, AuditImport
  <2> HIDE DEF event
  <2>2. ImportLogged(rid[p])'
    BY <2>1, <2>a DEF ImportLogged
  <2>3. Honest(p)'
    BY <2>1, <2>2 DEF Honest, Holds, ImportLogged, TransitionLogged
  <2>4. \A o \in Handlers \ {p} : Calm(o)
    BY <1>7 DEF RecordImport, Goto, Calm, Untouched, TypeOK
  <2> QED
    BY <2>3, <2>4, HonestyLasts
<1>8. CASE FetchCreated(p)
  <2> DEFINE answer == Success("created", req[p], rid[p], runs[rid[p]])
  <2>1. /\ answer.outcome = "created" /\ answer.id = rid[p] /\ answer.request = req[p]
        /\ Return(p, answer)
    BY <1>8 DEF Success, FetchCreated
  <2>2. runs' = runs /\ audits' = audits /\ pc[p] = "fetch"
    BY <1>8 DEF FetchCreated
  <2> HIDE DEF answer
  <2>3. Honest(p)'
    BY <2>1, <2>2 DEF Honest, Holds, ImportLogged, Return, Goto, TypeOK
  <2>4. \A o \in Handlers \ {p} : Calm(o)
    BY <2>1 DEF Return, Goto, Calm, Untouched, TypeOK
  <2> QED
    BY <2>3, <2>4, HonestyLasts
<1> QED
  BY <1>1, <1>2, <1>3, <1>4, <1>5, <1>6, <1>7, <1>8 DEF Import

LEMMA TransitionHonest ==
  ASSUME TypeOK, IInv, AnswersInv, [RegistryNext]_registry, audits \subseteq audits',
         NEW p \in Handlers, Transition(p)
  PROVE  \A o \in Handlers : Honest(o)'
<1> USE DEF AnswersInv
<1>1. ASSUME NEW q \in TransitionRequests, AcceptTransition(p, q)
      PROVE  \A o \in Handlers : Honest(o)'
  <2>1. \A o \in Handlers : Calm(o)
    BY <1>1 DEF AcceptTransition, Serve, Goto, Calm, Untouched, Fresh, Silent, NoReply, TypeOK
  <2> QED
    BY <2>1, HonestyLasts
<1>2. ASSUME NEW q \in TransitionRequests, RefuseTransition(p, q)
      PROVE  \A o \in Handlers : Honest(o)'
  <2>1. \A o \in Handlers : Calm(o)
    BY <1>2 DEF RefuseTransition, locals, Calm, Untouched, Silent, Failure, TypeOK
  <2> QED
    BY <2>1, HonestyLasts
<1>3. CASE UpdateRun(p)
  <2>1. \A o \in Handlers : Calm(o)
    BY <1>3 DEF UpdateRun, Goto, Calm, Untouched, Fresh, TypeOK
  <2> QED
    BY <2>1, HonestyLasts
<1>4. CASE VersionConflict(p)
  BY <1>4, FailureHonest DEF VersionConflict
<1>5. CASE ReloadRun(p)
  <2>1. /\ pc[p] = "reload" /\ pc'[p] = "audit_transition" /\ before' = before
        /\ after'[p] = runs[req[p].run] /\ runs' = runs /\ audits' = audits /\ reply' = reply
    BY <1>5 DEF ReloadRun, Goto, TypeOK
  <2>2. Follows(before[p], runs[req[p].run])
    <3>1. /\ before[p].version < runs[req[p].run].version
          /\ before[p] \in Row
          /\ before[p] = runs[req[p].run] \/ Older(before[p], runs[req[p].run])
      BY <2>1, ReadIsSeen DEF IInv, ReadAllows, Unaudited, TransitionStatements
    <3> QED
      BY <3>1 DEF Older, Follows, SameRun
  <2>3. Honest(p)'
    BY <2>1, <2>2 DEF Honest, Holds, ImportLogged, TransitionLogged
  <2>4. \A o \in Handlers \ {p} : Calm(o)
    BY <1>5 DEF ReloadRun, Goto, Calm, Untouched, TypeOK
  <2> QED
    BY <2>3, <2>4, HonestyLasts
<1>6. CASE RecordTransition(p)
  <2> DEFINE answer == Success("transitioned", req[p], req[p].run, after[p])
             event == AuditTransition(req[p].run, before[p], after[p])
  <2>1. answer.outcome = "transitioned" /\ answer.row = after[p] /\ Return(p, answer)
    BY <1>6 DEF Success, RecordTransition
  <2>2. /\ audits' = audits \cup {event}
        /\ event.action = "run.transition" /\ event.after = after[p]
    BY <1>6 DEF RecordTransition, AuditTransition
  <2> HIDE DEF answer, event
  <2>3. pc'[p] = "idle" /\ reply'[p] = answer
    BY <2>1 DEF Return, Goto, TypeOK
  <2>4. TransitionLogged(reply[p].row)'
    BY <2>1, <2>2, <2>3 DEF TransitionLogged
  <2>5. Honest(p)'
    BY <2>1, <2>3, <2>4 DEF Honest
  <2>6. \A o \in Handlers \ {p} : Calm(o)
    BY <2>1 DEF Return, Goto, Calm, Untouched, TypeOK
  <2> QED
    BY <2>5, <2>6, HonestyLasts
<1> QED
  BY <1>1, <1>2, <1>3, <1>4, <1>5, <1>6 DEF Transition

LEMMA AnswersStep == TypeOK /\ IInv /\ AnswersInv /\ [Next]_vars => AnswersInv'
<1> SUFFICES ASSUME TypeOK, IInv, AnswersInv, [Next]_vars PROVE AnswersInv'
  OBVIOUS
<1>1. [RegistryNext]_registry
  BY RegistryStepSimulated
<1>2. audits \subseteq audits' /\ LogFollows'
  BY LogStaysTrue
<1>3. ChecksumsDistinct'
  BY <1>1, TypedTable, RegistryKeeps DEF AnswersInv, RegistryInv
<1>4. \A o \in Handlers : Honest(o)'
  <2>1. CASE \E p \in Handlers : Import(p) \/ Transition(p)
    BY <1>1, <1>2, <2>1, ImportHonest, TransitionHonest
  <2>2. CASE \E p \in Handlers : StatementError(p)
    BY <1>1, <2>2, FailureHonest DEF StatementError, AnswersInv
  <2>3. CASE (\E plan \in Plans : PlanLocked(plan)) \/ UNCHANGED vars
    <3>1. \A o \in Handlers : Calm(o)
      BY <2>3 DEF PlanLocked, vars, locals, Calm, Untouched
    <3> QED
      BY <1>1, <1>2, <3>1, HonestyLasts DEF AnswersInv
  <2>4. CASE Crash
    <3>1. \A o \in Handlers : Calm(o)
      BY <2>4 DEF Crash, Calm, Fresh, Silent, NoReply, TypeOK
    <3> QED
      BY <1>1, <1>2, <3>1, HonestyLasts DEF AnswersInv
  <2> QED
    BY <2>1, <2>2, <2>3, <2>4 DEF Next
<1> QED
  BY <1>2, <1>3, <1>4 DEF AnswersInv

LEMMA AnswersInvariance == Spec => [](TypeOK /\ IInv /\ AnswersInv)
  BY AnswersInit, AnswersStep, Invariance, PTL DEF Spec

(* README's "import is idempotent", for every number of handlers: whoever is *)
(* answered with a run for a track is answered with the same run, which is   *)
(* there and holds the track, whatever imports collide, fail or are retried. *)
THEOREM ImportsAreIdempotent == Spec => []ImportIdempotent
<1>1. AnswersInv => ImportIdempotent
  <2> SUFFICES ASSUME AnswersInv, NEW p \in Handlers, NEW o \in Handlers,
                      reply[p].outcome \in {"created", "existing"}
               PROVE  /\ runs[reply[p].id] # NoRun
                      /\ Checksum(runs[reply[p].id]) = Checksum(reply[p].request)
                      /\ /\ reply[o].outcome \in {"created", "existing"}
                         /\ Checksum(reply[p].request) = Checksum(reply[o].request)
                         => reply[p].id = reply[o].id
    BY DEF ImportIdempotent
  <2>1. Holds(reply[p].id, reply[p].request)
    BY DEF AnswersInv, Honest
  <2>2. reply[o].outcome \in {"created", "existing"} => Holds(reply[o].id, reply[o].request)
    BY DEF AnswersInv, Honest
  <2> QED
    BY <2>1, <2>2, RegistryAssumption DEF AnswersInv, ChecksumsDistinct, Holds, Row
<1> QED
  BY <1>1, AnswersInvariance, PTL

(* AuditService's snapshots are rows the run went through, in their order,   *)
(* and an answer that reports a change was preceded by its event, whichever  *)
(* handlers raced, failed or died in between.                                *)
THEOREM LogTellsTheTruth == Spec => []AuditsTruthful
<1>1. TypeOK /\ IInv /\ AnswersInv => AuditsTruthful
  <2> SUFFICES ASSUME TypeOK, IInv, AnswersInv PROVE AuditsTruthful
    OBVIOUS
  <2>1. ASSUME NEW e \in audits
        PROVE  /\ runs[e.run] # NoRun
               /\ e.after = runs[e.run] \/ Follows(e.after, runs[e.run])
               /\ e.action = "run.transition" => Follows(e.before, e.after)
    <3>1. e.run \in RunIds /\ e.after \in Row
      BY DEF TypeOK
    <3>2. e.after \in Seen(e.run)
      BY <3>1, RegistryAssumption DEF Seen, Row
    <3>3. runs[e.run] \in Row /\ (e.after = runs[e.run] \/ Older(e.after, runs[e.run]))
      BY <3>1, <3>2 DEF IInv, SeenIsPast
    <3> QED
      BY <3>3, RegistryAssumption DEF Older, Follows, AnswersInv, LogFollows, Row
  <2>2. ASSUME NEW p \in Handlers
        PROVE  /\ reply[p].outcome = "created" => ImportLogged(reply[p].id)
               /\ reply[p].outcome = "transitioned" => TransitionLogged(reply[p].row)
    BY DEF AnswersInv, Honest
  <2> QED
    BY <2>1, <2>2 DEF AuditsTruthful, ImportLogged, TransitionLogged
<1> QED
  BY <1>1, AnswersInvariance, PTL
=============================================================================
