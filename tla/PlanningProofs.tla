---------------------------- MODULE PlanningProofs ----------------------------
(***************************************************************************)
(* Theorems about Planning for every number of areas, plans, handlers and  *)
(* versions, every boundary and every set of lines, and clients that send  *)
(* whatever expected_version they like.                                    *)
(*                                                                         *)
(* The checks of Update and Lock are made on a read, and the WHERE clause  *)
(* compares the version alone.  All the rows of an area or a plan that the *)
(* table, the log or a handler holds (Seen) are told apart by their        *)
(* versions (Key), since a row only goes forward (Forward).  So a row that *)
(* has the version of the read is the read; and a client that names no     *)
(* later version than that can match no other.                             *)
(***************************************************************************)
EXTENDS Planning, TLAPS

Inserts == {"plan.create", "plan.generate", "plan.copy"}

Tables == {"survey_areas", "transect_plans"}
Ids(table) == IF table = "survey_areas" THEN AreaCodes ELSE PlanIds
Kind(table) == IF table = "survey_areas" THEN AreaRow ELSE PlanRow

(* What the check of an UPDATE's handler has passed.                         *)
Open(q, row) == IF q.op = "area.update" THEN row.status # "archived" ELSE row.state = "draft"
RowOf(q, row) == row \in Kind(Table(q.op))

(* The types that TypeOK leaves out, request by request.                     *)
Holds(p) ==
  /\ pc[p] # "idle" => req[p] \in Requests
  /\ pc[p] = "create" => req[p].op = "plan.generate" /\ areas[req[p].area] # None
  /\ pc[p] \in {"create", "insert"} /\ req[p].op # "area.create" =>
       req[p].op \in Inserts /\ item[p] \in PlanRow /\ item[p].state = "draft"
  /\ pc[p] = "insert" /\ req[p].op = "area.create" => item[p] \in AreaRow
  /\ pc[p] \in {"update", "reload"} =>
       req[p].op \in Updates /\ RowOf(req[p], before[p]) /\ RowOf(req[p], Stored(req[p]))
  /\ pc[p] = "update" => Open(req[p], before[p])
  /\ pc[p] = "audit" =>
       /\ item[p] \in AreaRow \cup PlanRow
       /\ req[p].op \in Inserts => key[p] \in PlanIds

(* The rows of its subject that a handler holds.                             *)
Kept(p) ==
  (IF pc[p] \in {"update", "reload", "audit"} /\ req[p].op \in Updates THEN {before[p]} ELSE {})
  \cup (IF pc[p] = "audit" THEN {item[p]} ELSE {})

KeptOf(table, id) ==
  UNION {Kept(p) : p \in {o \in Handlers : Kept(o) # {} /\ Table(req[o].op) = table /\ Subject(o) = id}}
LoggedOf(table, id) ==
  UNION {Snapshots(e) : e \in {f \in audits : Table(f.op) = table /\ f.subject = id}}

Seen(table, id) == ({Row(table, id)} \ {None}) \cup KeptOf(table, id) \cup LoggedOf(table, id)

(* Of a row that was seen the version says which one it is, and the present  *)
(* row's is the last.                                                        *)
Key(table, id) ==
  \A row \in Seen(table, id) :
    /\ row \in Kind(table) /\ Row(table, id) \in Kind(table)
    /\ row.version <= Row(table, id).version
    /\ \A other \in Seen(table, id) : row.version = other.version => row = other

(* A locked plan from which a row was copied, or of which it is.             *)
Came(row, id) ==
  id \in LockedPlans /\ plans[id].area = row.area /\ row.version <= plans[id].version

(* What the handlers are about to log.                                       *)
GoesForward(p) ==
  /\ pc[p] = "reload" => before[p].version < Stored(req[p]).version
  /\ pc[p] = "audit" /\ req[p].op \in Updates => before[p].version < item[p].version
  /\ pc[p] \in {"reload", "audit"} /\ req[p].op = "plan.lock" =>
       req[p].plan \in LockedPlans /\ (pc[p] = "audit" => item[p].state = "locked")
  /\ pc[p] \in {"insert", "audit"} /\ req[p].op = "plan.copy" =>
       before[p] \in PlanRow /\ (before[p].state = "locked" => Came(before[p], req[p].plan))

(* What is logged.                                                           *)
Event(e) ==
  /\ e.subject \in Ids(Table(e.op))
  /\ e.op \in Updates => e.before.version < e.after.version
  /\ e.op = "plan.lock" => e.subject \in LockedPlans /\ e.after.state = "locked"
  /\ e.op = "plan.copy" /\ e.before.state = "locked" =>
       e.before \in PlanRow /\ \E id \in PlanIds : Came(e.before, id)

(* A lock that is committed and not logged yet.  Of a plan there is one such *)
(* lock, or one event of a lock, or neither.                                 *)
Locks(p) == pc[p] \in {"reload", "audit"} /\ req[p].op = "plan.lock"

OneLock ==
  /\ \A p, o \in Handlers : Locks(p) /\ Locks(o) /\ req[p].plan = req[o].plan => p = o
  /\ \A e \in audits : e.op = "plan.lock" =>
       /\ \A p \in Handlers : Locks(p) => req[p].plan # e.subject
       /\ \A f \in audits : f.op = "plan.lock" /\ f.subject = e.subject => f = e

IInv ==
  /\ TypeOK
  /\ \A p \in Handlers : Holds(p) /\ GoesForward(p)
  /\ \A e \in audits : Event(e)
  /\ \A table \in Tables : \A id \in Ids(table) : Key(table, id)
  /\ OneLock

(* Rows only go forward; a plan stays in its area, and a locked plan locked. *)
Forward ==
  /\ \A code \in AreaCodes : areas[code] # None =>
       /\ areas'[code] \in AreaRow
       /\ areas'[code] = areas[code] \/ areas[code].version < areas'[code].version
  /\ \A id \in PlanIds : plans[id] # None =>
       /\ plans'[id] \in PlanRow
       /\ plans'[id] = plans[id] \/ plans[id].version < plans'[id].version
       /\ plans'[id].area = plans[id].area
       /\ plans[id].state = "locked" => plans'[id].state = "locked"

LEMMA RequestKinds ==
  ASSUME NEW q \in Requests
  PROVE  /\ q.op \in {"area.create", "area.update"} \cup {"plan.update", "plan.lock"} \cup Inserts
         /\ q.op = "area.create" => q \in CreateAreaRequests
         /\ q.op = "area.update" => q \in UpdateAreaRequests
         /\ q.op = "plan.create" => q \in CreatePlanRequests
         /\ q.op = "plan.generate" => q \in GenerateRequests
         /\ q.op = "plan.update" => q \in UpdatePlanRequests
         /\ q.op = "plan.lock" => q \in LockRequests
         /\ q.op = "plan.copy" => q \in CopyRequests
  BY DEF Requests, Inserts, CreateAreaRequests, UpdateAreaRequests, CreatePlanRequests,
     GenerateRequests, UpdatePlanRequests, LockRequests, CopyRequests

LEMMA RowsHaveVersions ==
  ASSUME NEW table \in Tables, NEW row \in Kind(table)
  PROVE  row # None /\ row.version \in Nat /\ row.version \in Versions
  BY NoneAssumption, PlanningAssumption DEF Kind, AreaRow, PlanRow, Versions

(* What an UPDATE is about.                                                  *)
LEMMA StoredIsRow ==
  ASSUME NEW p \in Handlers, req[p] \in Requests, req[p].op \in Updates
  PROVE  /\ Table(req[p].op) \in Tables /\ Subject(p) \in Ids(Table(req[p].op))
         /\ Stored(req[p]) = Row(Table(req[p].op), Subject(p))
         /\ req[p].expected \in Expected
         /\ req[p].op = "area.update" => Subject(p) = req[p].area
         /\ req[p].op # "area.update" => Subject(p) = req[p].plan
<1>1. CASE req[p].op = "area.update"
  BY <1>1, RequestKinds DEF UpdateAreaRequests, Table, Tables, Ids, Row, Stored, Subject
<1>2. CASE req[p].op \in {"plan.update", "plan.lock"}
  BY <1>2, RequestKinds
     DEF UpdatePlanRequests, LockRequests, Table, Tables, Ids, Row, Stored, Subject
<1> QED
  BY <1>1, <1>2 DEF Updates

LEMMA SeenIs ==
  ASSUME NEW table, NEW id, NEW row
  PROVE  row \in Seen(table, id) <=>
           \/ row = Row(table, id) /\ row # None
           \/ \E p \in Handlers : Table(req[p].op) = table /\ Subject(p) = id /\ row \in Kept(p)
           \/ \E e \in audits : Table(e.op) = table /\ e.subject = id /\ row \in Snapshots(e)
<1>1. row \in KeptOf(table, id) <=>
        \E p \in Handlers : Table(req[p].op) = table /\ Subject(p) = id /\ row \in Kept(p)
  BY DEF KeptOf
<1>2. row \in LoggedOf(table, id) <=>
        \E e \in audits : Table(e.op) = table /\ e.subject = id /\ row \in Snapshots(e)
  BY DEF LoggedOf
<1> QED
  BY <1>1, <1>2 DEF Seen

(* The row is the read or a later one; if its version is the read's, or no   *)
(* later than that, it is the read.                                          *)
LEMMA ReadIsPast ==
  ASSUME IInv, NEW p \in Handlers, pc[p] = "update"
  PROVE  /\ before[p].version <= Stored(req[p]).version
         /\ Stored(req[p]).version <= before[p].version => Stored(req[p]) = before[p]
         /\ before[p].version \in Nat /\ Stored(req[p]).version \in Nat
<1> DEFINE table == Table(req[p].op)
           id == Subject(p)
<1>1. /\ req[p] \in Requests /\ req[p].op \in Updates
      /\ before[p] \in Kind(table) /\ Stored(req[p]) \in Kind(table)
  BY DEF IInv, Holds, RowOf
<1>2. table \in Tables /\ id \in Ids(table) /\ Stored(req[p]) = Row(table, id)
  BY <1>1, StoredIsRow
<1>3. before[p].version \in Nat /\ Stored(req[p]).version \in Nat /\ Stored(req[p]) # None
  BY <1>1, <1>2, RowsHaveVersions
<1>4. before[p] \in Kept(p)
  BY <1>1 DEF Kept
<1> HIDE DEF table, id
<1>5. before[p] \in Seen(table, id) /\ Row(table, id) \in Seen(table, id)
  BY <1>2, <1>3, <1>4, SeenIs DEF table, id
<1>6. Key(table, id)
  BY <1>2 DEF IInv
<1> QED
  BY <1>2, <1>3, <1>5, <1>6 DEF Key

(* The row whose version an echoed version matches is the row that was read. *)
LEMMA MatchIsRead ==
  ASSUME IInv, NEW p \in Handlers, pc[p] = "update", Matches(p), Echoes(p)
  PROVE  Stored(req[p]) = before[p]
  BY ReadIsPast DEF Matches, Echoes

-----------------------------------------------------------------------------
(* The first state *)

LEMMA InitEstablishes == Init => IInv
<1> SUFFICES ASSUME Init PROVE IInv
  OBVIOUS
<1>1. areas \in [AreaCodes -> AreaRow \cup {None}]
  BY PlanningAssumption DEF Init, SeededTables, AreaRow, AreaStatus, Versions
<1>2. plans \in [PlanIds -> PlanRow \cup {None}]
  BY PlanningAssumption DEF Init, SeededTables, PlanRow, Versions
<1>3. TypeOK
  BY <1>1, <1>2 DEF Init, TypeOK
<1>4. \A p \in Handlers : Holds(p) /\ GoesForward(p)
  BY DEF Init, Holds, GoesForward
<1>5. (\A e \in audits : Event(e)) /\ OneLock
  BY DEF Init, OneLock, Locks
<1>6. ASSUME NEW table \in Tables, NEW id \in Ids(table)
      PROVE  Key(table, id)
  <2>1. Row(table, id) = None \/ Row(table, id) \in Kind(table)
    BY <1>1, <1>2 DEF Tables, Ids, Row, Kind
  <2>2. \A p \in Handlers : Kept(p) = {}
    BY DEF Init, Kept
  <2>3. \A row \in Seen(table, id) : row = Row(table, id) /\ row # None
    BY <2>2, SeenIs DEF Init
  <2>4. Row(table, id) \in Kind(table) => Row(table, id).version \in Nat
    BY RowsHaveVersions
  <2> QED
    BY <2>1, <2>3, <2>4 DEF Key
<1> QED
  BY <1>3, <1>4, <1>5, <1>6 DEF IInv

-----------------------------------------------------------------------------
(* The tables go forward *)

LEMMA UnchangedGoesForward == TypeOK /\ UNCHANGED <<areas, plans>> => Forward
  BY DEF TypeOK, Forward

LEMMA InsertsGoForward ==
  ASSUME IInv, NEW p \in Handlers, InsertArea(p) \/ InsertPlan(p)
  PROVE  Forward
<1>1. CASE InsertArea(p)
  BY <1>1 DEF InsertArea, Forward, IInv, TypeOK
<1>2. CASE InsertPlan(p)
  BY <1>2 DEF InsertPlan, Forward, IInv, TypeOK
<1> QED
  BY <1>1, <1>2

(* An UPDATE that matches finds a row with room for one more version.        *)
LEMMA UpdateFinds ==
  ASSUME IInv, NEW p \in Handlers, pc[p] = "update", Matches(p)
  PROVE  /\ RowOf(req[p], Stored(req[p]))
         /\ Stored(req[p]).version \in Nat /\ Stored(req[p]).version + 1 \in Versions
         /\ req[p] \in Requests /\ req[p].op \in Updates
<1>1. RowOf(req[p], Stored(req[p])) /\ req[p] \in Requests /\ req[p].op \in Updates
  BY DEF IInv, Holds
<1>2. Stored(req[p]).version \in Expected
  BY <1>1, StoredIsRow DEF Matches
<1> QED
  BY <1>1, <1>2, PlanningAssumption DEF Expected, Versions

TablesTyped ==
  areas \in [AreaCodes -> AreaRow \cup {None}] /\ plans \in [PlanIds -> PlanRow \cup {None}]

LEMMA WriteAreaGoesForward ==
  ASSUME IInv, NEW p \in Handlers, WriteArea(p)
  PROVE  Forward /\ TablesTyped' /\ areas[req[p].area].version < areas'[req[p].area].version
<1> DEFINE code == req[p].area
           new == [status |-> req[p].status, boundary |-> req[p].boundary,
                   version |-> areas[code].version + 1]
<1>1. /\ req[p] \in UpdateAreaRequests /\ code \in AreaCodes
      /\ areas[code] \in AreaRow
      /\ areas[code].version \in Nat /\ areas[code].version + 1 \in Versions
  BY UpdateFinds, RequestKinds DEF WriteArea, RowOf, Kind, Table, Stored, UpdateAreaRequests
<1>2. new \in AreaRow
  BY <1>1, PlanningAssumption DEF UpdateAreaRequests, AreaRow, AreaStatus
<1>3. areas' = [areas EXCEPT ![code] = new] /\ plans' = plans
  BY DEF WriteArea
<1>4. new.version = areas[code].version + 1
  OBVIOUS
<1> HIDE DEF new
<1> QED
  BY <1>1, <1>2, <1>3, <1>4 DEF Forward, TablesTyped, IInv, TypeOK

(* UPDATE transect_plans: a row becomes a later row of the same plan.        *)
LEMMA PlanWriteGoesForward ==
  ASSUME IInv, NEW id \in PlanIds, NEW new \in PlanRow,
         plans[id] \in PlanRow, plans[id].version < new.version,
         plans[id].area = new.area, plans[id].state = "locked" => new.state = "locked",
         plans' = [plans EXCEPT ![id] = new], areas' = areas
  PROVE  Forward /\ TablesTyped' /\ plans[id].version < plans'[id].version
  BY DEF Forward, TablesTyped, IInv, TypeOK

LEMMA WritePlanGoesForward ==
  ASSUME IInv, NEW p \in Handlers, WritePlan(p)
  PROVE  /\ Forward /\ TablesTyped' /\ plans[req[p].plan].version < plans'[req[p].plan].version
         /\ LockedPlans' = LockedPlans
<1> DEFINE id == req[p].plan
           mid == [plans[id] EXCEPT !.lines = req[p].lines]
           new == [mid EXCEPT !.version = @ + 1]
<1>1. /\ req[p] \in UpdatePlanRequests /\ id \in PlanIds /\ plans[id] \in PlanRow
      /\ plans[id].version \in Nat /\ plans[id].version + 1 \in Versions
  BY UpdateFinds, RequestKinds DEF WritePlan, RowOf, Kind, Table, Stored, UpdatePlanRequests
<1>2. /\ mid \in PlanRow /\ mid.version = plans[id].version
      /\ mid.state = plans[id].state /\ mid.area = plans[id].area
  BY <1>1 DEF UpdatePlanRequests, PlanRow
<1> HIDE DEF mid
<1>3. /\ new \in PlanRow /\ new.version = plans[id].version + 1
      /\ new.state = plans[id].state /\ new.area = plans[id].area
  BY <1>1, <1>2 DEF PlanRow
<1>4. plans' = [plans EXCEPT ![id] = new] /\ areas' = areas
  BY <1>1 DEF WritePlan, mid, IInv, TypeOK
<1> HIDE DEF new
<1>5. LockedPlans' = LockedPlans
  BY <1>1, <1>3, <1>4, NoneAssumption DEF LockedPlans, IInv, TypeOK
<1>6. plans[id].version < new.version
  BY <1>1, <1>3
<1> HIDE DEF id
<1>7. Forward /\ TablesTyped' /\ plans[id].version < plans'[id].version
  BY <1>1, <1>3, <1>4, <1>6, PlanWriteGoesForward
<1> QED
  BY <1>5, <1>7 DEF id

LEMMA LockDraftGoesForward ==
  ASSUME IInv, NEW p \in Handlers, LockDraft(p)
  PROVE  /\ Forward /\ TablesTyped' /\ plans[req[p].plan].version < plans'[req[p].plan].version
         /\ req[p].plan \in PlanIds /\ req[p].plan \notin LockedPlans
         /\ LockedPlans' = LockedPlans \cup {req[p].plan}
<1> DEFINE id == req[p].plan
           mid == [plans[id] EXCEPT !.state = "locked"]
           new == [mid EXCEPT !.version = @ + 1]
<1>1. /\ req[p] \in LockRequests /\ id \in PlanIds
      /\ plans[id] \in PlanRow /\ plans[id].state = "draft"
      /\ plans[id].version \in Nat /\ plans[id].version + 1 \in Versions
  BY UpdateFinds, RequestKinds DEF LockDraft, Matches, RowOf, Kind, Table, Stored, LockRequests
<1>2. /\ mid \in PlanRow /\ mid.version = plans[id].version
      /\ mid.state = "locked" /\ mid.area = plans[id].area
  BY <1>1 DEF PlanRow
<1> HIDE DEF mid
<1>3. /\ new \in PlanRow /\ new.version = plans[id].version + 1
      /\ new.state = "locked" /\ new.area = plans[id].area
  BY <1>1, <1>2 DEF PlanRow
<1>4. plans' = [plans EXCEPT ![id] = new] /\ areas' = areas
  BY <1>1 DEF LockDraft, mid, IInv, TypeOK
<1> HIDE DEF new
<1>5. id \notin LockedPlans /\ LockedPlans' = LockedPlans \cup {id}
  BY <1>1, <1>3, <1>4, NoneAssumption DEF LockedPlans, IInv, TypeOK
<1>6. plans[id].version < new.version
  BY <1>1, <1>3
<1> HIDE DEF id
<1>7. Forward /\ TablesTyped' /\ plans[id].version < plans'[id].version
  BY <1>1, <1>3, <1>4, <1>6, PlanWriteGoesForward
<1> QED
  BY <1>1, <1>5, <1>7 DEF id

-----------------------------------------------------------------------------
(* What a step of one handler leaves to the others *)

Same(o) ==
  /\ pc'[o] = pc[o] /\ req'[o] = req[o] /\ before'[o] = before[o]
  /\ item'[o] = item[o] /\ key'[o] = key[o]

AuditRows ==
  [op : {q.op : q \in Requests}, subject : AreaCodes \cup PlanIds,
   before : AreaRow \cup PlanRow \cup {None}, after : AreaRow \cup PlanRow]

LocalsTyped ==
  /\ pc \in [Handlers -> {"idle", "create", "insert", "update", "reload", "audit"}]
  /\ req \in [Handlers -> Requests \cup {None}]
  /\ before \in [Handlers -> AreaRow \cup PlanRow \cup {None}]
  /\ item \in [Handlers -> AreaRow \cup PlanRow \cup {None}]
  /\ key \in [Handlers -> PlanIds \cup {None}]

StoredNext(q) == IF q.op = "area.update" THEN areas'[q.area] ELSE plans'[q.plan]

(* A row that is there stays there and goes forward with its table.          *)
LEMMA StoredGoesForward ==
  ASSUME Forward, NEW q \in Requests, q.op \in Updates, RowOf(q, Stored(q))
  PROVE  /\ RowOf(q, StoredNext(q))
         /\ StoredNext(q) = Stored(q) \/ Stored(q).version < StoredNext(q).version
<1>1. CASE q.op = "area.update"
  <2>1. q.area \in AreaCodes /\ areas[q.area] \in AreaRow
    BY <1>1, RequestKinds DEF UpdateAreaRequests, RowOf, Kind, Table, Stored
  <2> QED
    BY <1>1, <2>1, NoneAssumption DEF Forward, RowOf, Kind, Table, Stored, StoredNext
<1>2. CASE q.op # "area.update"
  <2>1. q.plan \in PlanIds /\ plans[q.plan] \in PlanRow
    BY <1>2, RequestKinds
       DEF Updates, UpdatePlanRequests, LockRequests, RowOf, Kind, Table, Stored
  <2> QED
    BY <1>2, <2>1, NoneAssumption DEF Updates, Forward, RowOf, Kind, Table, Stored, StoredNext
<1> QED
  BY <1>1, <1>2

LEMMA LockedStays ==
  ASSUME Forward, NEW id \in LockedPlans
  PROVE  id \in LockedPlans'
  BY NoneAssumption DEF Forward, LockedPlans

LEMMA CameStays ==
  ASSUME TypeOK, Forward, NEW row \in PlanRow, NEW id, Came(row, id)
  PROVE  Came(row, id)'
<1>1. id \in PlanIds /\ plans[id] \in PlanRow /\ plans[id] # None
  BY DEF Came, LockedPlans, TypeOK
<1>2. /\ plans'[id] \in PlanRow /\ plans'[id].area = plans[id].area
      /\ plans'[id] = plans[id] \/ plans[id].version < plans'[id].version
  BY <1>1 DEF Forward
<1>3. row.version \in Nat /\ plans[id].version \in Nat /\ plans'[id].version \in Nat
  BY <1>1, <1>2, PlanningAssumption DEF PlanRow, Versions
<1>4. row.version <= plans'[id].version
  BY <1>2, <1>3 DEF Came
<1> QED
  BY <1>2, <1>4, LockedStays DEF Came

LEMMA FactsLast ==
  ASSUME IInv, Forward, NEW o \in Handlers, Same(o)
  PROVE  Holds(o)' /\ GoesForward(o)'
<1>1. Holds(o) /\ GoesForward(o) /\ TypeOK
  BY DEF IInv
<1>2. pc[o] # "idle" => req[o] \in Requests
  BY <1>1 DEF Holds
<1>3. pc[o] \in {"update", "reload"} =>
        /\ RowOf(req[o], Stored(req[o])) /\ RowOf(req[o], StoredNext(req[o]))
        /\ \/ StoredNext(req[o]) = Stored(req[o])
           \/ Stored(req[o]).version < StoredNext(req[o]).version
  BY <1>1, <1>2, StoredGoesForward DEF Holds
<1>4. Stored(req[o])' = StoredNext(req[o])
  BY DEF Same, Stored, StoredNext
<1>5. Holds(o)'
  <2>1. pc[o] = "create" => areas'[req[o].area] # None
    <3>1. pc[o] = "create" => req[o].area \in AreaCodes /\ areas[req[o].area] # None
      BY <1>1, <1>2, RequestKinds DEF Holds, GenerateRequests
    <3> QED
      BY <3>1, NoneAssumption DEF Forward
  <2>2. pc[o] \in {"update", "reload"} => RowOf(req[o], Stored(req[o]))'
    BY <1>3, <1>4 DEF Same, RowOf, Kind
  <2> QED
    BY <1>1, <2>1, <2>2 DEF Holds, Same, RowOf, Kind, Open
<1>6. GoesForward(o)'
  <2>1. pc[o] = "reload" => before[o].version < Stored(req[o])'.version
    <3> SUFFICES ASSUME pc[o] = "reload" PROVE before[o].version < Stored(req[o])'.version
      OBVIOUS
    <3>0. Table(req[o].op) \in Tables
      BY DEF Table, Tables
    <3>1. /\ before[o].version \in Nat /\ Stored(req[o]).version \in Nat
          /\ StoredNext(req[o]).version \in Nat
      BY <1>1, <1>3, <3>0, RowsHaveVersions DEF Holds, RowOf
    <3>2. before[o].version < Stored(req[o]).version
      BY <1>1 DEF GoesForward
    <3> QED
      BY <1>3, <1>4, <3>1, <3>2
  <2>2. Locks(o) => req[o].plan \in LockedPlans'
    BY <1>1, LockedStays DEF GoesForward, Locks
  <2>3. pc[o] \in {"insert", "audit"} /\ req[o].op = "plan.copy" /\ before[o].state = "locked" =>
          Came(before[o], req[o].plan)'
    <3> SUFFICES ASSUME pc[o] \in {"insert", "audit"}, req[o].op = "plan.copy",
                        before[o].state = "locked"
                 PROVE  Came(before[o], req[o].plan)'
      OBVIOUS
    <3>1. PICK row, id : row = before[o] /\ id = req[o].plan
      OBVIOUS
    <3>2. row \in PlanRow /\ Came(row, id)
      BY <1>1, <3>1 DEF GoesForward
    <3>3. Came(row, id)'
      BY <1>1, <3>2, CameStays
    <3> QED
      BY <3>1, <3>3 DEF Same, Came
  <2> QED
    BY <1>1, <2>1, <2>2, <2>3 DEF GoesForward, Same, Locks
<1> QED
  BY <1>5, <1>6

LEMMA EventsLast ==
  ASSUME TypeOK, Forward, NEW e, Event(e)
  PROVE  Event(e)'
<1>1. e.op = "plan.lock" => e.subject \in LockedPlans'
  BY LockedStays DEF Event
<1>2. e.op = "plan.copy" /\ e.before.state = "locked" =>
        \E id \in PlanIds : Came(e.before, id)'
  BY CameStays DEF Event
<1> QED
  BY <1>1, <1>2 DEF Event

(* What is seen after a step was seen before it, or is the present row.      *)
LEMMA KeyLasts ==
  ASSUME NEW table \in Tables, NEW id \in Ids(table), Key(table, id), TablesTyped, TablesTyped',
         Forward, Seen(table, id)' \subseteq Seen(table, id) \cup ({Row(table, id)'} \ {None})
  PROVE  Key(table, id)'
<1> DEFINE old == Row(table, id)
           new == Row(table, id)'
<1>1. old \in Kind(table) \cup {None} /\ new \in Kind(table) \cup {None}
  BY DEF TablesTyped, Tables, Ids, Row, Kind
<1>2. old # None => new \in Kind(table) /\ (new = old \/ old.version < new.version)
  BY DEF Forward, Tables, Ids, Row, Kind
<1>3. \A row \in Kind(table) : row # None /\ row.version \in Nat
  BY RowsHaveVersions
<1>4. old # None => old \in Seen(table, id)
  BY SeenIs
<1>5. \A row \in Seen(table, id) :
        /\ row \in Kind(table) /\ old \in Kind(table) /\ row.version <= old.version
        /\ \A other \in Seen(table, id) : row.version = other.version => row = other
  BY DEF Key
<1> HIDE DEF old, new
<1>6. ASSUME NEW row \in Seen(table, id)'
      PROVE  row \in Kind(table) /\ new \in Kind(table) /\ row.version <= new.version
  <2>1. row \in Seen(table, id) \/ (row = new /\ new # None)
    BY DEF new
  <2> QED
    BY <1>1, <1>2, <1>3, <1>5, <2>1
<1>7. ASSUME NEW row \in Seen(table, id)', NEW other \in Seen(table, id)',
             row.version = other.version
      PROVE  row = other
  <2>1. /\ row \in Seen(table, id) \/ (row = new /\ new # None)
        /\ other \in Seen(table, id) \/ (other = new /\ new # None)
    BY DEF new
  <2> QED
    BY <1>1, <1>2, <1>3, <1>4, <1>5, <1>7, <2>1
<1> QED
  BY <1>6, <1>7 DEF Key, new, Kind

LEMMA SeenLasts ==
  ASSUME NEW p \in Handlers, \A o \in Handlers \ {p} : Same(o), Forward, TypeOK,
         NEW table \in Tables, NEW id \in Ids(table),
         \A row \in Kept(p)' :
           \/ row \in Seen(Table(req'[p].op), Subject(p)')
           \/ row # None /\ row = Row(Table(req[p].op), Subject(p))',
         \A e \in audits' \ audits : \A row \in Snapshots(e) : row \in Seen(Table(e.op), e.subject)
  PROVE  Seen(table, id)' \subseteq Seen(table, id) \cup ({Row(table, id)'} \ {None})
<1> SUFFICES ASSUME NEW row \in Seen(table, id)', row # Row(table, id)' \/ row = None
             PROVE  row \in Seen(table, id)
  OBVIOUS
<1>1. \/ \E o \in Handlers : /\ Table(req'[o].op) = table /\ Subject(o)' = id
                             /\ row \in Kept(o)'
      \/ \E e \in audits' : /\ Table(e.op) = table /\ e.subject = id /\ row \in Snapshots(e)
  <2>1. row \in KeptOf(table, id)' \/ row \in LoggedOf(table, id)'
    BY DEF Seen
  <2>2. row \in KeptOf(table, id)' =>
          \E o \in Handlers : Table(req'[o].op) = table /\ Subject(o)' = id /\ row \in Kept(o)'
    BY DEF KeptOf, Table
  <2>3. row \in LoggedOf(table, id)' =>
          \E e \in audits' : Table(e.op) = table /\ e.subject = id /\ row \in Snapshots(e)
    BY DEF LoggedOf, Snapshots, Table
  <2> QED
    BY <2>1, <2>2, <2>3
<1>2. ASSUME NEW o \in Handlers, Table(req'[o].op) = table, Subject(o)' = id, row \in Kept(o)'
      PROVE  row \in Seen(table, id)
  <2>1. CASE o = p
    BY <1>2, <2>1 DEF Row, Table
  <2>2. CASE o # p
    <3>1. req'[o] = req[o] /\ Subject(o) = id /\ row \in Kept(o)
      BY <1>2, <2>2 DEF Same, Subject, Kept
    <3> QED
      BY <1>2, <3>1, SeenIs
  <2> QED
    BY <2>1, <2>2
<1>3. ASSUME NEW e \in audits', Table(e.op) = table, e.subject = id, row \in Snapshots(e)
      PROVE  row \in Seen(table, id)
  BY <1>3, SeenIs
<1> QED
  BY <1>1, <1>2, <1>3

LEMMA OneLockLasts ==
  ASSUME OneLock, NEW p \in Handlers, \A o \in Handlers \ {p} : Same(o), audits' = audits,
         Locks(p)' => Locks(p) /\ req'[p] = req[p]
  PROVE  OneLock'
<1>1. \A o \in Handlers : Locks(o)' => Locks(o) /\ req'[o] = req[o]
  BY DEF Same, Locks
<1> QED
  BY <1>1 DEF OneLock

(* It is enough to look at the handler that takes the step, and at its event.*)
LEMMA StepKeeps ==
  ASSUME IInv, Forward, TablesTyped', LocalsTyped', audits' \subseteq AuditRows,
         NEW p \in Handlers, \A o \in Handlers \ {p} : Same(o),
         Holds(p)', GoesForward(p)', OneLock',
         \A e \in audits' \ audits : Event(e)',
         \A row \in Kept(p)' :
           \/ row \in Seen(Table(req'[p].op), Subject(p)')
           \/ row # None /\ row = Row(Table(req[p].op), Subject(p))',
         \A e \in audits' \ audits : \A row \in Snapshots(e) : row \in Seen(Table(e.op), e.subject)
  PROVE  IInv'
<1>0. TypeOK /\ TablesTyped /\ \A table \in Tables : \A id \in Ids(table) : Key(table, id)
  BY DEF IInv, TypeOK, TablesTyped
<1>1. \A o \in Handlers : Holds(o)' /\ GoesForward(o)'
  BY FactsLast
<1>2. \A e \in audits' : Event(e)'
  BY <1>0, EventsLast DEF IInv
<1>3. TypeOK'
  <2>1. \A o \in Handlers : pc'[o] \in {"update", "reload"} => before'[o] # None /\ Stored(req[o])' # None
    BY <1>1, NoneAssumption DEF Holds, RowOf, Kind
  <2>2. \A o \in Handlers : pc'[o] \in {"create", "insert", "audit"} => item'[o] # None
    BY <1>1, NoneAssumption DEF Holds
  <2> QED
    BY <2>1, <2>2 DEF TypeOK, TablesTyped, LocalsTyped, AuditRows
<1>4. ASSUME NEW table \in Tables, NEW id \in Ids(table)
      PROVE  Key(table, id)'
  <2>1. Seen(table, id)' \subseteq Seen(table, id) \cup ({Row(table, id)'} \ {None})
    BY <1>0, SeenLasts
  <2> QED
    BY <1>0, <2>1, KeyLasts
<1>5. \A table \in Tables : \A id \in Ids(table)' : Key(table, id)'
  BY <1>4 DEF Ids
<1> QED
  BY <1>1, <1>2, <1>3, <1>5 DEF IInv, Ids

-----------------------------------------------------------------------------
(* The steps, one by one *)

LEMMA ReturnKeeps ==
  ASSUME IInv, NEW p \in Handlers, Return(p), UNCHANGED <<areas, plans>>,
         audits' \subseteq AuditRows, OneLock', \A e \in audits' \ audits : Event(e)',
         \A e \in audits' \ audits : \A row \in Snapshots(e) : row \in Seen(Table(e.op), e.subject)
  PROVE  IInv'
<1>1. Forward /\ TablesTyped'
  BY UnchangedGoesForward DEF IInv, TypeOK, TablesTyped
<1>2. LocalsTyped' /\ pc'[p] = "idle" /\ \A o \in Handlers \ {p} : Same(o)
  BY DEF IInv, TypeOK, Return, Goto, LocalsTyped, Same
<1>3. Holds(p)' /\ GoesForward(p)'
  BY <1>2 DEF Holds, GoesForward
<1>4. Kept(p)' = {}
  BY <1>2 DEF Kept
<1> QED
  BY <1>1, <1>2, <1>3, <1>4, StepKeeps

(* A handler that returns and logs nothing.                                  *)
LEMMA RefusalKeeps ==
  ASSUME IInv, NEW p \in Handlers, Return(p), UNCHANGED <<areas, plans, audits>>
  PROVE  IInv'
<1>1. pc'[p] = "idle" /\ \A o \in Handlers \ {p} : Same(o)
  BY DEF IInv, TypeOK, Return, Goto, Same
<1>2. OneLock'
  BY <1>1, OneLockLasts DEF Locks, IInv
<1>3. audits' \subseteq AuditRows
  BY DEF IInv, TypeOK, AuditRows
<1> QED
  BY <1>2, <1>3, ReturnKeeps

(* A request that only reads before its next statement; what an UPDATE has   *)
(* read is the row.                                                          *)
LEMMA AcceptKeeps ==
  ASSUME IInv, NEW p \in Handlers, NEW q \in Requests,
         NEW statement \in {"create", "insert", "update"},
         NEW row \in AreaRow \cup PlanRow \cup {None}, NEW new \in AreaRow \cup PlanRow \cup {None},
         Accept(p, q, statement, row, new),
         statement = "update" => q.op \in Updates /\ row = Stored(q) /\ row # None,
         Holds(p)', GoesForward(p)'
  PROVE  IInv'
<1>1. Forward /\ TablesTyped' /\ audits' = audits
  BY UnchangedGoesForward DEF Accept, IInv, TypeOK, TablesTyped
<1>2. LocalsTyped' /\ \A o \in Handlers \ {p} : Same(o)
  BY DEF IInv, TypeOK, Accept, Goto, LocalsTyped, Same
<1>3. audits' \subseteq AuditRows
  BY <1>1 DEF IInv, TypeOK, AuditRows
<1>4. /\ pc'[p] = statement /\ req'[p] = q /\ before'[p] = row
      /\ areas' = areas /\ plans' = plans
  BY DEF Accept, Goto, IInv, TypeOK
<1>5. OneLock'
  BY <1>1, <1>2, <1>4, OneLockLasts DEF Locks, IInv
<1>6. ASSUME NEW seen \in Kept(p)'
      PROVE  seen \in Seen(Table(req'[p].op), Subject(p)')
  <2>1. statement = "update" /\ seen = row
    BY <1>4, <1>6 DEF Kept
  <2>2. Stored(q) = Row(Table(q.op), Subject(p)')
    BY <1>4, <2>1 DEF Updates, Table, Row, Stored, Subject
  <2> QED
    BY <1>4, <2>1, <2>2, SeenIs
<1> QED
  BY <1>1, <1>2, <1>3, <1>5, <1>6, StepKeeps

LEMMA CreateAreaKeeps ==
  ASSUME IInv, NEW p \in Handlers, NEW q \in CreateAreaRequests, CreateArea(p, q)
  PROVE  IInv'
<1>1. q \in Requests /\ q.op = "area.create" /\ NewArea(q.boundary) \in AreaRow
  BY PlanningAssumption
     DEF Requests, CreateAreaRequests, NewArea, AreaRow, AreaStatus, Versions
<1>2. pc'[p] = "insert" /\ req'[p] = q /\ item'[p] = NewArea(q.boundary)
  BY DEF CreateArea, Accept, Goto, IInv, TypeOK
<1>3. Holds(p)' /\ GoesForward(p)'
  BY <1>1, <1>2 DEF Holds, GoesForward
<1> QED
  BY <1>1, <1>3, AcceptKeeps DEF CreateArea

(* The three handlers that go on to an UPDATE.                               *)
LEMMA UpdateAcceptKeeps ==
  ASSUME IInv, NEW p \in Handlers, NEW q \in Requests, q.op \in Updates,
         NEW row, row = Stored(q), RowOf(q, row), Open(q, row), Accept(p, q, "update", row, None)
  PROVE  IInv'
<1>1. /\ pc'[p] = "update" /\ req'[p] = q /\ before'[p] = row
      /\ areas' = areas /\ plans' = plans
  BY DEF Accept, Goto, IInv, TypeOK
<1>2. Stored(req[p])' = row
  BY <1>1 DEF Stored
<1>3. Holds(p)' /\ GoesForward(p)'
  BY <1>1, <1>2 DEF Holds, GoesForward, RowOf, Kind, Open
<1>4. row \in AreaRow \cup PlanRow /\ row # None
  BY NoneAssumption DEF RowOf, Kind
<1> QED
  BY <1>3, <1>4, AcceptKeeps

LEMMA UpdatersKeep ==
  ASSUME IInv, NEW p \in Handlers,
         \/ \E q \in UpdateAreaRequests : UpdateArea(p, q)
         \/ \E q \in UpdatePlanRequests : UpdatePlan(p, q)
         \/ \E q \in LockRequests : Lock(p, q)
  PROVE  IInv'
<1>1. ASSUME NEW q \in UpdateAreaRequests, UpdateArea(p, q)
      PROVE  IInv'
  <2>1. q \in Requests /\ q.op = "area.update" /\ q.area \in AreaCodes
    BY DEF Requests, UpdateAreaRequests
  <2>2. areas[q.area] = Stored(q) /\ areas[q.area] \in AreaRow
    BY <1>1, <2>1 DEF UpdateArea, Stored, IInv, TypeOK
  <2> QED
    BY <1>1, <2>1, <2>2, UpdateAcceptKeeps DEF UpdateArea, RowOf, Kind, Table, Open, Updates
<1>2. ASSUME NEW q \in UpdatePlanRequests, UpdatePlan(p, q)
      PROVE  IInv'
  <2>1. q \in Requests /\ q.op = "plan.update" /\ q.plan \in PlanIds
    BY DEF Requests, UpdatePlanRequests
  <2>2. plans[q.plan] = Stored(q) /\ plans[q.plan] \in PlanRow
    BY <1>2, <2>1 DEF UpdatePlan, Stored, IInv, TypeOK
  <2> QED
    BY <1>2, <2>1, <2>2, UpdateAcceptKeeps DEF UpdatePlan, RowOf, Kind, Table, Open, Updates
<1>3. ASSUME NEW q \in LockRequests, Lock(p, q)
      PROVE  IInv'
  <2>1. q \in Requests /\ q.op = "plan.lock" /\ q.plan \in PlanIds
    BY DEF Requests, LockRequests
  <2>2. plans[q.plan] = Stored(q) /\ plans[q.plan] \in PlanRow
    BY <1>3, <2>1 DEF Lock, Stored, IInv, TypeOK
  <2> QED
    BY <1>3, <2>1, <2>2, UpdateAcceptKeeps DEF Lock, RowOf, Kind, Table, Open, Updates
<1> QED
  BY <1>1, <1>2, <1>3

LEMMA NewPlanRow ==
  ASSUME NEW area \in AreaCodes, NEW lines \in Lines \cup Boundaries
  PROVE  NewPlan(area, lines) \in PlanRow /\ NewPlan(area, lines).state = "draft"
  BY PlanningAssumption DEF NewPlan, PlanRow, Versions

LEMMA CreatePlanKeeps ==
  ASSUME IInv, NEW p \in Handlers, NEW q \in CreatePlanRequests, CreatePlan(p, q)
  PROVE  IInv'
<1> DEFINE new == NewPlan(q.area, q.lines)
<1>1. q \in Requests /\ q.op = "plan.create" /\ new \in PlanRow /\ new.state = "draft"
  BY NewPlanRow DEF Requests, CreatePlanRequests
<1> HIDE DEF new
<1>2. pc'[p] = "insert" /\ req'[p] = q /\ item'[p] = new
  BY DEF CreatePlan, Accept, Goto, IInv, TypeOK, new
<1>3. Holds(p)' /\ GoesForward(p)'
  BY <1>1, <1>2 DEF Holds, GoesForward, Inserts
<1> QED
  BY <1>1, <1>3, AcceptKeeps DEF CreatePlan, new

LEMMA GenerateKeeps ==
  ASSUME IInv, NEW p \in Handlers, NEW q \in GenerateRequests, Generate(p, q)
  PROVE  IInv'
<1> DEFINE new == NewPlan(q.area, LinesOver(areas[q.area].boundary))
<1>1. q \in Requests /\ q.op = "plan.generate" /\ q.area \in AreaCodes
  BY DEF Requests, GenerateRequests
<1>2. areas[q.area] \in AreaRow /\ areas[q.area].boundary \in Boundaries
  BY <1>1 DEF Generate, IInv, TypeOK, AreaRow
<1>3. new \in PlanRow /\ new.state = "draft"
  BY <1>1, <1>2, NewPlanRow DEF LinesOver
<1> HIDE DEF new
<1>4. /\ pc'[p] = "create" /\ req'[p] = q /\ item'[p] = new
      /\ areas' = areas /\ areas[q.area] # None
  BY DEF Generate, Accept, Goto, IInv, TypeOK, new
<1>5. Holds(p)' /\ GoesForward(p)'
  BY <1>1, <1>3, <1>4 DEF Holds, GoesForward, Inserts
<1> QED
  BY <1>1, <1>3, <1>5, AcceptKeeps DEF Generate, new

LEMMA CopyKeeps ==
  ASSUME IInv, NEW p \in Handlers, NEW q \in CopyRequests, Copy(p, q)
  PROVE  IInv'
<1> DEFINE plan == plans[q.plan]
           new == CopyOf(plan)
<1>1. q \in Requests /\ q.op = "plan.copy" /\ q.plan \in PlanIds
  BY DEF Requests, CopyRequests
<1>2. plan \in PlanRow /\ plan.version < MaxVersion
  BY <1>1 DEF Copy, IInv, TypeOK
<1>3. new \in PlanRow /\ new.state = "draft"
  <2> DEFINE mid == [plan EXCEPT !.state = "draft"]
  <2>1. mid \in PlanRow /\ mid.state = "draft" /\ mid.version = plan.version
    BY <1>2 DEF PlanRow
  <2>2. new = [mid EXCEPT !.version = plan.version + 1]
    BY <2>1 DEF CopyOf
  <2>3. plan.version + 1 \in Versions
    BY <1>2, PlanningAssumption DEF PlanRow, Versions
  <2> HIDE DEF mid, plan
  <2> QED
    BY <2>1, <2>2, <2>3 DEF PlanRow
<1> HIDE DEF new
<1>4. /\ pc'[p] = "insert" /\ req'[p] = q /\ before'[p] = plan /\ item'[p] = new
      /\ plans' = plans
  BY DEF Copy, Accept, Goto, IInv, TypeOK, new
<1>5. Holds(p)' /\ GoesForward(p)'
  <2>1. plan.state = "locked" => Came(plan, q.plan)
    BY <1>1, <1>2, NoneAssumption, PlanningAssumption DEF Came, LockedPlans, PlanRow, Versions
  <2>2. Came(plan, q.plan)' <=> Came(plan, q.plan)
    BY <1>4 DEF Came, LockedPlans
  <2>3. before'[p] \in PlanRow /\ (before'[p].state = "locked" => Came(before[p], req[p].plan)')
    BY <1>2, <1>4, <2>1, <2>2 DEF Came
  <2> QED
    BY <1>1, <1>3, <1>4, <2>3 DEF Holds, GoesForward, Inserts
<1> QED
  BY <1>1, <1>2, <1>3, <1>5, AcceptKeeps DEF Copy, new

LEMMA GenerateCreatesKeeps ==
  ASSUME IInv, NEW p \in Handlers, GenerateCreates(p) PROVE IInv'
<1>1. audits' = audits /\ areas' = areas /\ plans' = plans /\ audits \subseteq AuditRows
  BY DEF GenerateCreates, IInv, TypeOK, AuditRows
<1>2. CASE Return(p)
  BY <1>1, <1>2, RefusalKeeps
<1>3. CASE Goto(p, "insert") /\ UNCHANGED <<req, before, item, key>>
  <2>1. LocalsTyped' /\ pc'[p] = "insert" /\ \A o \in Handlers \ {p} : Same(o)
    BY <1>3 DEF IInv, TypeOK, Goto, LocalsTyped, Same
  <2>2. pc[p] = "create" /\ Holds(p)
    BY DEF GenerateCreates, IInv
  <2>3. Holds(p)' /\ GoesForward(p)'
    BY <1>3, <2>1, <2>2 DEF Holds, GoesForward
  <2>4. Forward /\ TablesTyped'
    BY <1>1, UnchangedGoesForward DEF IInv, TypeOK, TablesTyped
  <2>5. Kept(p)' = {} /\ OneLock'
    BY <1>1, <2>1, OneLockLasts DEF Kept, Locks, IInv
  <2> QED
    BY <1>1, <2>1, <2>3, <2>4, <2>5, StepKeeps
<1> QED
  BY <1>2, <1>3 DEF GenerateCreates

LEMMA InsertAreaKeeps ==
  ASSUME IInv, NEW p \in Handlers, InsertArea(p) PROVE IInv'
<1>1. audits' = audits /\ plans' = plans /\ audits \subseteq AuditRows
  BY DEF InsertArea, IInv, TypeOK, AuditRows
<1>2. CASE Return(p) /\ UNCHANGED areas
  BY <1>1, <1>2, RefusalKeeps
<1>3. CASE /\ areas' = [areas EXCEPT ![req[p].area] = item[p]]
           /\ Goto(p, "audit") /\ UNCHANGED <<req, before, item, key>>
  <2>1. LocalsTyped' /\ pc'[p] = "audit" /\ \A o \in Handlers \ {p} : Same(o)
    BY <1>3 DEF IInv, TypeOK, Goto, LocalsTyped, Same
  <2>2. req[p] \in Requests /\ req[p].op = "area.create" /\ item[p] \in AreaRow
    BY DEF InsertArea, IInv, Holds
  <2>3. Holds(p)' /\ GoesForward(p)'
    BY <1>3, <2>1, <2>2 DEF Holds, GoesForward, Inserts, Updates
  <2>4. TablesTyped'
    BY <1>1, <1>3, <2>2 DEF TablesTyped, IInv, TypeOK
  <2>5. OneLock'
    BY <1>1, <1>3, <2>1, <2>2, OneLockLasts DEF Locks, IInv
  <2>6. req[p].area \in AreaCodes /\ item[p] # None
    BY <2>2, RequestKinds, NoneAssumption DEF CreateAreaRequests
  <2>7. \A row \in Kept(p)' : row # None /\ row = Row(Table(req[p].op), Subject(p))'
    BY <1>3, <2>1, <2>2, <2>6 DEF Kept, Updates, Row, Table, Subject, IInv, TypeOK
  <2> QED
    BY <1>1, <2>1, <2>3, <2>4, <2>5, <2>7, InsertsGoForward, StepKeeps
<1> QED
  BY <1>2, <1>3 DEF InsertArea

LEMMA InsertPlanKeeps ==
  ASSUME IInv, NEW p \in Handlers, InsertPlan(p)
  PROVE  IInv' /\ LockedPlans' = LockedPlans
<1>1. PICK id \in PlanIds : /\ plans[id] = None /\ plans' = [plans EXCEPT ![id] = item[p]]
                            /\ key' = [key EXCEPT ![p] = id]
  BY DEF InsertPlan
<1>2. /\ audits' = audits /\ areas' = areas /\ req' = req /\ before' = before /\ item' = item
      /\ pc[p] = "insert" /\ pc' = [pc EXCEPT ![p] = "audit"] /\ audits \subseteq AuditRows
  BY DEF InsertPlan, Goto, IInv, TypeOK, AuditRows
<1>3. /\ req[p] \in Requests /\ req[p].op \in Inserts
      /\ item[p] \in PlanRow /\ item[p].state = "draft"
  BY DEF InsertPlan, IInv, Holds
<1>4. LocalsTyped' /\ pc'[p] = "audit" /\ key'[p] = id /\ \A o \in Handlers \ {p} : Same(o)
  BY <1>1, <1>2 DEF IInv, TypeOK, LocalsTyped, Same
<1>5. TablesTyped'
  BY <1>1, <1>2, <1>3 DEF TablesTyped, IInv, TypeOK
<1>6. Holds(p)'
  BY <1>2, <1>3, <1>4 DEF Holds, Inserts, Updates
<1>7. GoesForward(p)'
  <2> SUFFICES ASSUME req[p].op = "plan.copy"
               PROVE  before[p] \in PlanRow /\ (before[p].state = "locked" => Came(before[p], req[p].plan)')
    BY <1>2, <1>3, <1>4 DEF GoesForward, Came, Inserts, Updates
  <2>1. PICK row, source : row = before[p] /\ source = req[p].plan
    OBVIOUS
  <2>2. row \in PlanRow /\ (row.state = "locked" => Came(row, source))
    BY <1>2, <2>1 DEF IInv, GoesForward
  <2>3. row.state = "locked" => Came(row, source)'
    BY <2>2, CameStays, InsertsGoForward DEF IInv
  <2> QED
    BY <1>2, <2>1, <2>2, <2>3 DEF Came
<1>8. IInv'
  <2>1. OneLock'
    BY <1>2, <1>3, <1>4, OneLockLasts DEF Locks, IInv, Inserts
  <2>2. \A row \in Kept(p)' : row # None /\ row = Row(Table(req[p].op), Subject(p))'
    <3>1. Kept(p)' = {item[p]} /\ Subject(p)' = id /\ Table(req[p].op) = "transect_plans"
      BY <1>2, <1>3, <1>4 DEF Kept, Inserts, Updates, Subject, Table
    <3>2. plans'[id] = item[p] /\ item[p] # None
      BY <1>1, <1>3, NoneAssumption DEF IInv, TypeOK
    <3>3. Row(Table(req[p].op), Subject(p))' = plans'[id]
      BY <1>2, <3>1 DEF Row, Table
    <3> QED
      BY <3>1, <3>2, <3>3
  <2> QED
    BY <1>2, <1>4, <1>5, <1>6, <1>7, <2>1, <2>2, InsertsGoForward, StepKeeps
<1>9. LockedPlans' = LockedPlans
  BY <1>1, <1>3, NoneAssumption DEF LockedPlans, IInv, TypeOK
<1> QED
  BY <1>8, <1>9

LEMMA WritesKeep ==
  ASSUME IInv, NEW p \in Handlers, WriteArea(p) \/ WritePlan(p) \/ LockDraft(p) PROVE IInv'
<1>1. /\ pc[p] = "update" /\ pc' = [pc EXCEPT ![p] = "reload"] /\ req' = req /\ before' = before
      /\ item' = item /\ key' = key /\ audits' = audits /\ audits \subseteq AuditRows
      /\ Matches(p)
  BY DEF WriteArea, WritePlan, LockDraft, Goto, IInv, TypeOK, AuditRows
<1>2. LocalsTyped' /\ pc'[p] = "reload" /\ \A o \in Handlers \ {p} : Same(o)
  BY <1>1 DEF IInv, TypeOK, LocalsTyped, Same
<1>3. Forward /\ TablesTyped'
  BY WriteAreaGoesForward, WritePlanGoesForward, LockDraftGoesForward
<1>4. req[p] \in Requests /\ req[p].op \in Updates /\ RowOf(req[p], before[p])
      /\ RowOf(req[p], Stored(req[p]))
  BY <1>1 DEF IInv, Holds
<1>5. Stored(req[p])' = StoredNext(req[p])
  BY <1>1 DEF Stored, StoredNext
<1>6. Holds(p)'
  <2>1. RowOf(req[p], StoredNext(req[p]))
    BY <1>3, <1>4, StoredGoesForward
  <2> QED
    BY <1>1, <1>2, <1>4, <1>5, <2>1 DEF Holds, RowOf
<1>7. GoesForward(p)'
  <2>1. before[p].version < StoredNext(req[p]).version
    <3>1. Stored(req[p]).version < StoredNext(req[p]).version
      BY WriteAreaGoesForward, WritePlanGoesForward, LockDraftGoesForward
         DEF WriteArea, WritePlan, LockDraft, Stored, StoredNext
    <3>2. RowOf(req[p], StoredNext(req[p])) /\ Table(req[p].op) \in Tables
      BY <1>3, <1>4, StoredGoesForward DEF Table, Tables
    <3>3. StoredNext(req[p]).version \in Nat
      BY <3>2, RowsHaveVersions DEF RowOf
    <3> QED
      BY <1>1, <3>1, <3>3, ReadIsPast
  <2>2. req[p].op = "plan.lock" => req[p].plan \in LockedPlans'
    BY LockDraftGoesForward DEF WriteArea, WritePlan
  <2> QED
    BY <1>1, <1>2, <1>5, <2>1, <2>2 DEF GoesForward
<1>8. OneLock'
  <2>1. CASE req[p].op # "plan.lock"
    BY <1>1, <1>2, <2>1, OneLockLasts DEF Locks, IInv
  <2>2. CASE req[p].op = "plan.lock"
    <3>1. req[p].plan \notin LockedPlans
      BY <2>2, LockDraftGoesForward DEF WriteArea, WritePlan
    <3>2. \A o \in Handlers : Locks(o) => req[o].plan # req[p].plan
      BY <3>1 DEF IInv, GoesForward, Locks
    <3>3. \A e \in audits : e.op = "plan.lock" => e.subject # req[p].plan
      BY <3>1 DEF IInv, Event
    <3>4. \A o \in Handlers : Locks(o)' => o = p \/ Locks(o)
      BY <1>2 DEF Same, Locks
    <3> QED
      BY <1>1, <3>2, <3>3, <3>4 DEF OneLock, IInv
  <2> QED
    BY <2>1, <2>2
<1>9. \A row \in Kept(p)' : row \in Seen(Table(req'[p].op), Subject(p)')
  <2>1. Kept(p)' = {before[p]} /\ before[p] \in Kept(p) /\ Subject(p)' = Subject(p)
    BY <1>1, <1>2, <1>4 DEF Kept, Subject
  <2>2. before[p] \in Seen(Table(req[p].op), Subject(p))
    BY <2>1, SeenIs
  <2> QED
    BY <1>1, <2>1, <2>2
<1> QED
  BY <1>1, <1>2, <1>3, <1>6, <1>7, <1>8, <1>9, StepKeeps

LEMMA ReloadKeeps ==
  ASSUME IInv, NEW p \in Handlers, Reload(p) PROVE IInv'
<1>1. /\ pc[p] = "reload" /\ pc' = [pc EXCEPT ![p] = "audit"] /\ item' = [item EXCEPT ![p] = Stored(req[p])]
      /\ req' = req /\ before' = before /\ key' = key /\ areas' = areas /\ plans' = plans
      /\ audits' = audits /\ audits \subseteq AuditRows
  BY DEF Reload, Goto, IInv, TypeOK, AuditRows
<1>2. /\ req[p] \in Requests /\ req[p].op \in Updates
      /\ Stored(req[p]) \in AreaRow \cup PlanRow
  BY <1>1 DEF IInv, Holds, RowOf, Kind
<1>3. /\ LocalsTyped' /\ pc'[p] = "audit" /\ item'[p] = Stored(req[p])
      /\ \A o \in Handlers \ {p} : Same(o)
  BY <1>1, <1>2 DEF IInv, TypeOK, LocalsTyped, Same
<1>4. Holds(p)'
  BY <1>1, <1>2, <1>3 DEF Holds, Inserts, Updates
<1>5. GoesForward(p)'
  <2>1. GoesForward(p)
    BY DEF IInv
  <2>2. req[p].op = "plan.lock" => req[p].plan \in LockedPlans' /\ item'[p].state = "locked"
    BY <1>1, <1>3, <2>1 DEF GoesForward, LockedPlans, Stored
  <2> QED
    BY <1>1, <1>2, <1>3, <2>1, <2>2 DEF GoesForward, Updates
<1>6. Forward /\ TablesTyped'
  BY <1>1, UnchangedGoesForward DEF IInv, TypeOK, TablesTyped
<1>7. OneLock'
  BY <1>1, <1>3, OneLockLasts DEF Locks, IInv
<1>8. \A row \in Kept(p)' : row \in Seen(Table(req'[p].op), Subject(p)')
  <2>1. Kept(p)' = {before[p], item'[p]} /\ before[p] \in Kept(p) /\ Subject(p)' = Subject(p)
    BY <1>1, <1>2, <1>3 DEF Kept, Subject
  <2>2. before[p] \in Seen(Table(req[p].op), Subject(p))
    BY <2>1, SeenIs
  <2>3. Stored(req[p]) = Row(Table(req[p].op), Subject(p)) /\ Stored(req[p]) # None
    BY <1>2, StoredIsRow, NoneAssumption
  <2>4. item'[p] \in Seen(Table(req[p].op), Subject(p))
    BY <1>3, <2>3, SeenIs
  <2> QED
    BY <1>1, <2>1, <2>2, <2>4
<1> QED
  BY <1>1, <1>3, <1>4, <1>5, <1>6, <1>7, <1>8, StepKeeps

(* The event says of the rows what the handler has kept of them.             *)
LEMMA RecordKeeps ==
  ASSUME IInv, NEW p \in Handlers, Record(p) PROVE IInv'
<1> DEFINE event == [op |-> req[p].op, subject |-> Subject(p), before |-> before[p], after |-> item[p]]
<1>1. /\ pc[p] = "audit" /\ Return(p) /\ areas' = areas /\ plans' = plans
      /\ audits' = audits \cup {event}
  BY DEF Record
<1>2. /\ req[p] \in Requests /\ item[p] \in AreaRow \cup PlanRow
      /\ req[p].op \in Inserts => key[p] \in PlanIds
  BY <1>1 DEF IInv, Holds
<1>3. /\ Subject(p) \in Ids(Table(req[p].op)) /\ Subject(p) \in AreaCodes \cup PlanIds
      /\ req[p].op = "plan.lock" => Subject(p) = req[p].plan
  <2>1. req[p].op \in {"area.create", "area.update"} => req[p].area \in AreaCodes
    BY <1>2, RequestKinds DEF CreateAreaRequests, UpdateAreaRequests
  <2>2. req[p].op \in {"plan.update", "plan.lock"} => req[p].plan \in PlanIds
    BY <1>2, RequestKinds DEF UpdatePlanRequests, LockRequests
  <2> QED
    BY <1>2, <2>1, <2>2, RequestKinds DEF Subject, Ids, Table
<1>4. event \in AuditRows
  BY <1>2, <1>3 DEF AuditRows, IInv, TypeOK
<1>5. audits' \subseteq AuditRows
  BY <1>1, <1>4 DEF IInv, TypeOK, AuditRows
<1>6. ASSUME NEW e \in audits' \ audits
      PROVE  Event(e)'
  <2>1. e.op = req[p].op /\ e.subject = Subject(p) /\ e.before = before[p] /\ e.after = item[p]
    BY <1>1
  <2>2. GoesForward(p)
    BY DEF IInv
  <2>3. LockedPlans' = LockedPlans /\ \A row, id : Came(row, id)' <=> Came(row, id)
    BY <1>1 DEF LockedPlans, Came
  <2>4. req[p].op = "plan.copy" => req[p].plan \in PlanIds
    BY <1>2, RequestKinds DEF CopyRequests
  <2> QED
    BY <1>1, <1>3, <2>1, <2>2, <2>3, <2>4 DEF Event, GoesForward, Updates
<1>7. ASSUME NEW e \in audits' \ audits, NEW row \in Snapshots(e)
      PROVE  row \in Seen(Table(e.op), e.subject)
  <2>1. e = event /\ row \in Kept(p)
    BY <1>1, <1>7 DEF Snapshots, Kept
  <2> QED
    BY <2>1, SeenIs
<1>8. OneLock'
  <2>1. pc'[p] = "idle" /\ \A o \in Handlers \ {p} : Same(o)
    BY <1>1 DEF IInv, TypeOK, Return, Goto, Same
  <2>2. \A o \in Handlers : Locks(o)' => o # p /\ Locks(o) /\ req'[o] = req[o]
    BY <2>1 DEF Same, Locks
  <2>3. event.op = "plan.lock" => Locks(p) /\ event.subject = req[p].plan
    BY <1>1, <1>3 DEF Locks
  <2>4. \A e \in audits' : e \in audits \/ e = event
    BY <1>1
  <2> HIDE DEF event
  <2>5. OneLock
    BY DEF IInv
  <2>6. \A e \in audits' : e.op = "plan.lock" => \A o \in Handlers : Locks(o)' => req'[o].plan # e.subject
    BY <2>2, <2>3, <2>4, <2>5 DEF OneLock
  <2>7. \A e, f \in audits' : e.op = "plan.lock" /\ f.op = "plan.lock" /\ f.subject = e.subject => f = e
    BY <2>3, <2>4, <2>5 DEF OneLock
  <2>8. \A m, o \in Handlers : Locks(m)' /\ Locks(o)' /\ req'[m].plan = req'[o].plan => m = o
    BY <2>2, <2>5 DEF OneLock
  <2> QED
    BY <2>6, <2>7, <2>8 DEF OneLock
<1> QED
  BY <1>1, <1>5, <1>6, <1>7, <1>8, ReturnKeeps

LEMMA NextKeeps == IInv /\ [Next]_vars => IInv'
<1> SUFFICES ASSUME IInv, [Next]_vars PROVE IInv'
  OBVIOUS
<1>1. ASSUME NEW p \in Handlers, VersionConflict(p) \/ StatementError(p)
      PROVE  IInv'
  BY <1>1, RefusalKeeps DEF VersionConflict, StatementError
<1>2. CASE UNCHANGED vars
  BY <1>2 DEF vars, IInv, TypeOK, Stored, Holds, RowOf, Open, GoesForward, LockedPlans, Came,
     Event, Key, Seen, KeptOf, LoggedOf, Kept, Subject, Row, Snapshots, OneLock, Locks
<1> QED
  BY <1>1, <1>2, CreateAreaKeeps, UpdatersKeep, CreatePlanKeeps, GenerateKeeps, CopyKeeps,
     GenerateCreatesKeeps, InsertAreaKeeps, InsertPlanKeeps, WritesKeep, ReloadKeeps, RecordKeeps
     DEF Next

(* Every step is an INSERT, an UPDATE or none of the tables' business.       *)
LEMMA TablesAreWrittenBy ==
  ASSUME [Next]_vars
  PROVE  \/ UNCHANGED <<areas, plans>>
         \/ \E p \in Handlers : \/ InsertArea(p) \/ InsertPlan(p)
                                \/ WriteArea(p) \/ WritePlan(p) \/ LockDraft(p)
  BY DEF Next, vars, CreateArea, UpdateArea, CreatePlan, Generate, UpdatePlan, Lock, Copy, Accept,
     GenerateCreates, VersionConflict, Reload, Record, StatementError

LEMMA StepsGoForward == IInv /\ [Next]_vars => Forward
  BY TablesAreWrittenBy, UnchangedGoesForward, InsertsGoForward, WriteAreaGoesForward,
     WritePlanGoesForward, LockDraftGoesForward DEF IInv

LEMMA Invariance == Spec => []IInv
  BY InitEstablishes, NextKeeps, PTL DEF Spec

-----------------------------------------------------------------------------
(* The theorems *)

(* The tables, the log and the handlers' locals have their types, and a      *)
(* handler holds what its next statement needs.                              *)
THEOREM TypeCorrect == Spec => []TypeOK
<1>1. IInv => TypeOK
  BY DEF IInv
<1> QED
  BY <1>1, Invariance, PTL

(* The log of the two services tells one story of each area and each plan,   *)
(* in versions that name one row each, and locks a plan once.                *)
THEOREM LogIsConsistent == Spec => []LogConsistent
<1>1. IInv => LogConsistent
  <2> SUFFICES ASSUME IInv, NEW e \in audits
               PROVE  /\ \A row \in Snapshots(e) : row.version <= Row(Table(e.op), e.subject).version
                      /\ \A f \in audits : Table(f.op) = Table(e.op) /\ f.subject = e.subject =>
                           \A one \in Snapshots(e), other \in Snapshots(f) \cup {Row(Table(e.op), e.subject)} :
                             one.version = other.version => one = other
                      /\ e.op \in Updates => e.before.version < e.after.version
                      /\ e.op = "plan.lock" =>
                           /\ e.subject \in LockedPlans /\ e.after.state = "locked"
                           /\ \A f \in audits : f.op = "plan.lock" /\ f.subject = e.subject => f = e
                      /\ e.op = "plan.copy" /\ e.before.state = "locked" =>
                           \E id \in LockedPlans : /\ plans[id].area = e.before.area
                                                   /\ e.before.version <= plans[id].version
    BY DEF LogConsistent
  <2> DEFINE table == Table(e.op)
             id == e.subject
  <2>1. Event(e) /\ table \in Tables /\ id \in Ids(table)
    BY DEF IInv, Event, Table, Tables
  <2>2. \A f \in audits : Table(f.op) = table /\ f.subject = id => Snapshots(f) \subseteq Seen(table, id)
    BY SeenIs
  <2> HIDE DEF table, id
  <2>3. Key(table, id)
    BY <2>1 DEF IInv
  <2>4. Snapshots(e) \subseteq Seen(table, id)
    BY <2>2 DEF table, id
  <2>5. \A row \in Snapshots(e) : row.version <= Row(table, id).version /\ Row(table, id) \in Kind(table)
    BY <2>3, <2>4 DEF Key
  <2>6. \A row \in Snapshots(e) : Row(table, id) \in Seen(table, id)
    BY <2>1, <2>5, RowsHaveVersions, SeenIs
  <2>7. \A f \in audits : Table(f.op) = table /\ f.subject = id =>
          \A one \in Snapshots(e), other \in Snapshots(f) \cup {Row(table, id)} :
            one.version = other.version => one = other
    BY <2>2, <2>3, <2>4, <2>6 DEF Key
  <2>8. e.op = "plan.lock" => \A f \in audits : f.op = "plan.lock" /\ f.subject = e.subject => f = e
    BY DEF IInv, OneLock
  <2> QED
    BY <2>1, <2>5, <2>7, <2>8 DEF Event, Came, table, id
<1> QED
  BY <1>1, Invariance, PTL

(* Only an UPDATE that matched takes a handler from "update" to "reload".    *)
LEMMA OnlyMatchesReplace ==
  ASSUME IInv, [Next]_vars, NEW p \in Handlers, pc[p] = "update", pc'[p] = "reload"
  PROVE  Matches(p)
<1>1. TypeOK
  BY DEF IInv
<1>2. ASSUME NEW o \in Handlers, NEW q, NEW statement \in {"insert", "create", "update"},
             NEW row, NEW new, Accept(o, q, statement, row, new)
      PROVE  FALSE
  BY <1>1, <1>2 DEF TypeOK, Accept, Goto
<1>3. ASSUME NEW o \in Handlers, Return(o)
      PROVE  FALSE
  BY <1>1, <1>3 DEF TypeOK, Return, Goto
<1>4. ASSUME NEW o \in Handlers,
             GenerateCreates(o) \/ InsertArea(o) \/ InsertPlan(o) \/ Reload(o) \/ Record(o)
      PROVE  FALSE
  BY <1>1, <1>3, <1>4 DEF TypeOK, Goto, GenerateCreates, InsertArea, InsertPlan, Reload, Record
<1>5. ASSUME NEW o \in Handlers, WriteArea(o) \/ WritePlan(o) \/ LockDraft(o)
      PROVE  Matches(p)
  BY <1>1, <1>5 DEF TypeOK, Goto, WriteArea, WritePlan, LockDraft
<1>6. CASE UNCHANGED vars
  BY <1>6 DEF vars
<1> QED
  BY <1>2, <1>3, <1>4, <1>5, <1>6 DEF Next, CreateArea, UpdateArea, CreatePlan, Generate,
     UpdatePlan, Lock, Copy, VersionConflict, StatementError

(* No update is lost on a client that sends back what it was shown: what an  *)
(* UPDATE of an area or a plan replaces is what its handler has read and     *)
(* checked, whatever the clients of other requests send.                     *)
THEOREM EchoesReplaceTheRead == Spec => EchoReplacesRead
<1>1. IInv /\ [Next]_vars =>
        [\A p \in Handlers : Writes(p) /\ Echoes(p) => before[p] = Stored(req[p])]_vars
  BY OnlyMatchesReplace, MatchIsRead DEF Writes
<1> QED
  BY <1>1, Invariance, PTL DEF Spec, EchoReplacesRead

(* A locked plan is edited by nobody but a handler that read it as a draft   *)
(* and was given a version ahead of that read: Update's WHERE clause, which  *)
(* asks for the version only, holds off all the others.                      *)
THEOREM LockedPlansAreHeld == Spec => OnlyForesightEditsLocked
<1>1. IInv /\ [Next]_vars =>
        [\A id \in LockedPlans :
           \/ plans'[id] = plans[id]
           \/ \E p \in Handlers : /\ Writes(p) /\ req[p].op = "plan.update" /\ req[p].plan = id
                                  /\ before[p].state = "draft" /\ ~Echoes(p)]_vars
  <2> SUFFICES ASSUME IInv, [Next]_vars, NEW id \in LockedPlans, plans'[id] # plans[id]
               PROVE  \E p \in Handlers : /\ Writes(p) /\ req[p].op = "plan.update" /\ req[p].plan = id
                                          /\ before[p].state = "draft" /\ ~Echoes(p)
    OBVIOUS
  <2>1. id \in PlanIds /\ plans[id] # None /\ plans[id].state = "locked" /\ TypeOK
    BY DEF LockedPlans, IInv
  <2>2. PICK p \in Handlers : InsertPlan(p) \/ WritePlan(p) \/ LockDraft(p)
    BY <2>1, TablesAreWrittenBy DEF InsertArea, WriteArea
  <2>3. ~InsertPlan(p)
    BY <2>1 DEF InsertPlan, TypeOK
  <2>4. ~LockDraft(p)
    <3> SUFFICES ASSUME LockDraft(p) PROVE FALSE
      OBVIOUS
    <3>1. req[p].plan # id
      BY LockDraftGoesForward
    <3> QED
      BY <2>1, <3>1 DEF LockDraft, TypeOK
  <2>5. WritePlan(p) /\ pc[p] = "update" /\ pc'[p] = "reload" /\ req[p].op = "plan.update" /\ Matches(p)
    BY <2>1, <2>2, <2>3, <2>4 DEF WritePlan, Goto, TypeOK
  <2>6. req[p].plan = id
    BY <2>1, <2>5 DEF WritePlan, TypeOK
  <2>7. before[p].state = "draft"
    BY <2>5 DEF IInv, Holds, Open
  <2>8. ~Echoes(p)
    BY <2>1, <2>5, <2>6, <2>7, MatchIsRead DEF Stored
  <2> QED
    BY <2>5, <2>6, <2>7, <2>8 DEF Writes
<1> QED
  BY <1>1, Invariance, PTL DEF Spec, OnlyForesightEditsLocked

(* An archived area likewise.                                                *)
THEOREM ArchivedAreasAreHeld == Spec => OnlyForesightEditsArchived
<1>1. IInv /\ [Next]_vars =>
        [\A code \in ArchivedAreas :
           \/ areas'[code] = areas[code]
           \/ \E p \in Handlers : /\ Writes(p) /\ req[p].op = "area.update" /\ req[p].area = code
                                  /\ before[p].status # "archived" /\ ~Echoes(p)]_vars
  <2> SUFFICES ASSUME IInv, [Next]_vars, NEW code \in ArchivedAreas, areas'[code] # areas[code]
               PROVE  \E p \in Handlers : /\ Writes(p) /\ req[p].op = "area.update" /\ req[p].area = code
                                          /\ before[p].status # "archived" /\ ~Echoes(p)
    OBVIOUS
  <2>1. code \in AreaCodes /\ areas[code] # None /\ areas[code].status = "archived" /\ TypeOK
    BY DEF ArchivedAreas, IInv
  <2>2. PICK p \in Handlers : InsertArea(p) \/ WriteArea(p)
    BY <2>1, TablesAreWrittenBy DEF InsertPlan, WritePlan, LockDraft
  <2>3. ~InsertArea(p)
    BY <2>1 DEF InsertArea, TypeOK
  <2>4. /\ WriteArea(p) /\ pc[p] = "update" /\ pc'[p] = "reload" /\ req[p].op = "area.update"
        /\ Matches(p) /\ req[p].area = code
    BY <2>1, <2>2, <2>3 DEF WriteArea, Goto, TypeOK
  <2>5. before[p].status # "archived"
    BY <2>4 DEF IInv, Holds, Open
  <2>6. ~Echoes(p)
    BY <2>1, <2>4, <2>5, MatchIsRead DEF Stored
  <2> QED
    BY <2>4, <2>5, <2>6 DEF Writes
<1> QED
  BY <1>1, Invariance, PTL DEF Spec, OnlyForesightEditsArchived

(* To the sonar runs, the seven mutations of areas and plans are plans that  *)
(* get locked, one at a time and for good: a check made on a stale read never*)
(* takes a lock back.                                                        *)
THEOREM LockingImplementsRegistry == Spec => LocksAreForGood
<1>1. Init => Registry!RegistryInit
  <2> SUFFICES ASSUME Init PROVE Registry!RegistryInit
    OBVIOUS
  <2>1. << >> = Registry!NoRuns
    BY DEF Registry!NoRuns
  <2>2. LockedPlans = {} \/ \E id \in PlanIds : LockedPlans = {id}
    BY NoneAssumption DEF Init, SeededTables, LockedPlans, PlanRow
  <2> QED
    BY <2>1, <2>2 DEF Registry!RegistryInit
<1>2. IInv /\ [Next]_vars => [Registry!RegistryNext]_Registry!registry
  <2> SUFFICES ASSUME IInv, [Next]_vars PROVE [Registry!RegistryNext]_Registry!registry
    OBVIOUS
  <2>1. ASSUME NEW p \in Handlers, LockDraft(p)
        PROVE  Registry!RegistryNext
    <3>1. req[p].plan \in PlanIds /\ LockedPlans' = LockedPlans \cup {req[p].plan}
      BY <2>1, LockDraftGoesForward
    <3> QED
      BY <3>1 DEF Registry!RegistryNext, Registry!LockPlan
  <2>2. ASSUME NEW p \in Handlers, InsertPlan(p) \/ WritePlan(p)
        PROVE  LockedPlans' = LockedPlans
    BY <2>2, InsertPlanKeeps, WritePlanGoesForward
  <2>3. UNCHANGED plans => LockedPlans' = LockedPlans
    BY DEF LockedPlans
  <2>4. LockedPlans' = LockedPlans \/ \E p \in Handlers : LockDraft(p)
    BY <2>2, <2>3, TablesAreWrittenBy DEF InsertArea, WriteArea
  <2> QED
    BY <2>1, <2>4 DEF Registry!registry
<1> QED
  BY <1>1, <1>2, Invariance, PTL DEF Spec, LocksAreForGood, Registry!RegistrySpec
=============================================================================
