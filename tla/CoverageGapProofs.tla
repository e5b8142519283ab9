--------------------------- MODULE CoverageGapProofs ---------------------------
(***************************************************************************)
(* Theorems about CoverageGap for every number of areas, runs, gaps and    *)
(* handlers, every set of notes and every history of failures.             *)
(*                                                                         *)
(* Detect: nothing holds a run still between ByIDs and the answer, yet what*)
(* was read of it stays true, because the registry takes no processing     *)
(* back and never edits what the hash is made of.  A hash therefore names  *)
(* one set of runs for good, and by its unique index one gap.              *)
(* Transition: the state in the WHERE clause is compared, and a gap that   *)
(* moved on is in another state: a row that matches is the row read.       *)
(***************************************************************************)
EXTENDS CoverageGap, RunRegistryProofs

DetectStatements == {"runs", "lookup", "insert", "audit_detect"}
ReviewStatements == {"update", "reload", "audit_transition"}

(* What makes runs fit to be sources, and what the hash says of them, in a   *)
(* table of runs.                                                            *)
Vouched(table, a, sources) ==
  /\ sources \subseteq RunIds
  /\ \A r \in sources : /\ table[r] \in Row
                        /\ AreaOf[table[r].plan] = a
                        /\ table[r].state \in {"processed", "superseded"}
Digest(table, sources) == {Checksum(table[r]) : r \in sources}
Wanted(table, q, read) ==
  <<q.area, q.algorithm, Digest(table, q.runs),
    IF q.resolution = None THEN read.resolution ELSE q.resolution>>

(* A version tells how far the review has come.                              *)
VersionsOf(state) ==
  CASE state = "detected"                       -> {1}
    [] state = "reviewed"                       -> {2}
    [] state \in {"accepted", "false_positive"} -> {3}
    [] state = "resurveyed"                     -> {4}
    [] OTHER                                    -> {4, 5}
Reviewed(row) ==
  row.version \in VersionsOf(row.state) /\ Len(row.explanation) + 1 = row.version

Sound(table, row) ==
  /\ row \in GapRow /\ Reviewed(row)
  /\ Vouched(table, row.area, row.sources)
  /\ row.hash[3] = Digest(table, row.sources)

(* The gap with this id is the one for this hash and these runs.             *)
Answers(rows, id, hash, sources) ==
  /\ id \in GapIds /\ rows[id] \in GapRow
  /\ rows[id].hash = hash /\ rows[id].sources = sources

TrueAnswer(table, rows, a) ==
  a.outcome \in {"created", "idempotent"} =>
    /\ Vouched(table, a.request.area, a.request.runs)
    /\ a.row.hash = Wanted(table, a.request, a.read)
    /\ Answers(rows, a.id, a.row.hash, a.request.runs)

Replies ==
  [outcome : {"none", "created", "idempotent"}, request : DetectRequests \cup {None},
   read : AreaRow \cup {None}, id : GapIds \cup {None}, row : GapRow \cup {None}]

LocalsTyped ==
  /\ pc \in [Handlers -> {"idle"} \cup DetectStatements \cup ReviewStatements]
  /\ req \in [Handlers -> DetectRequests \cup TransitionRequests \cup {None}]
  /\ area \in [Handlers -> AreaRow \cup {None}]
  /\ item \in [Handlers -> GapRow \cup {None}]
  /\ before \in [Handlers -> GapRow \cup {None}]
  /\ key \in [Handlers -> GapIds \cup {None}]
  /\ reply \in [Handlers -> Replies]

TablesTyped == areas \in [Areas -> AreaRow] /\ gaps \in [GapIds -> GapRow \cup {None}]

HashIsKey ==
  \A id, other \in GapIds :
    gaps[id] # None /\ gaps[other] # None /\ gaps[id].hash = gaps[other].hash => id = other

GapsSound == \A id \in GapIds : gaps[id] # None => Sound(runs, gaps[id])

DetectKnows(p) ==
  /\ pc[p] \in DetectStatements => req[p] \in DetectRequests /\ area[p] \in AreaRow
  /\ pc[p] \in DetectStatements \ {"runs"} =>
       /\ Vouched(runs, req[p].area, req[p].runs)
       /\ item[p] = NewGap(req[p], area[p], Wanted(runs, req[p], area[p]))
  /\ pc[p] = "audit_detect" => Answers(gaps, key[p], item[p].hash, req[p].runs)

ReviewKnows(p) ==
  /\ pc[p] \in ReviewStatements =>
       req[p] \in TransitionRequests /\ before[p] \in GapRow /\ gaps[req[p].gap] \in GapRow
  /\ pc[p] = "update" =>
       /\ GapCanTransition(before[p].state, req[p].target) /\ Reviewed(before[p])
       /\ gaps[req[p].gap] = before[p] \/ before[p].version < gaps[req[p].gap].version
  /\ pc[p] = "audit_transition" => item[p] \in GapRow

Event(e) == e.gap \in GapIds /\ gaps[e.gap] \in GapRow /\ e.after \in GapRow

IInv ==
  /\ RegistryInv /\ TablesTyped /\ LocalsTyped
  /\ HashIsKey /\ GapsSound
  /\ \A p \in Handlers : DetectKnows(p) /\ ReviewKnows(p) /\ TrueAnswer(runs, gaps, reply[p])
  /\ \A e \in audits : Event(e)

(* Gaps only go forward, and of a gap only its review changes.               *)
Forward ==
  /\ [RegistryNext]_registry
  /\ \A id \in GapIds : gaps[id] # None =>
       /\ gaps'[id] \in GapRow
       /\ gaps'[id].hash = gaps[id].hash /\ gaps'[id].sources = gaps[id].sources
       /\ gaps'[id] = gaps[id] \/ gaps[id].version < gaps'[id].version

-----------------------------------------------------------------------------
(* What the registry keeps, the digests keep *)

(* Sources once vouched for are vouched for, under the same digest.          *)
LEMMA SourcesLast ==
  ASSUME RegistryInv, [RegistryNext]_registry, NEW a, NEW sources, Vouched(runs, a, sources)
  PROVE  Vouched(runs', a, sources) /\ Digest(runs', sources) = Digest(runs, sources)
<1>1. \A r \in sources :
        /\ runs'[r] \in Row
        /\ runs'[r].plan = runs[r].plan /\ runs'[r].track = runs[r].track
        /\ runs'[r].state \in {"processed", "superseded"}
  BY RunsGoOn DEF RegistryInv, Vouched
<1>2. \A r \in sources : Checksum(runs'[r]) = Checksum(runs[r])
  BY <1>1 DEF Checksum
<1> QED
  BY <1>1, <1>2 DEF Vouched, Digest

(* The digest tells which runs were measured, for checksums are distinct.    *)
LEMMA DigestTellsSources ==
  ASSUME RegistryInv, NEW a, NEW b, NEW sources, NEW others,
         Vouched(runs, a, sources), Vouched(runs, b, others),
         Digest(runs, sources) = Digest(runs, others)
  PROVE  sources = others
<1>1. \A r \in RunIds : runs[r] \in Row => runs[r] # NoRun
  BY RegistryAssumption DEF Row
<1>2. ASSUME NEW r \in sources
      PROVE  r \in others
  <2>1. Checksum(runs[r]) \in Digest(runs, others)
    BY <1>2 DEF Digest
  <2>2. PICK o \in others : Checksum(runs[o]) = Checksum(runs[r])
    BY <2>1 DEF Digest
  <2> QED
    BY <1>1, <2>2 DEF Vouched, RegistryInv, ChecksumsDistinct
<1>3. ASSUME NEW r \in others
      PROVE  r \in sources
  <2>1. Checksum(runs[r]) \in Digest(runs, sources)
    BY <1>3 DEF Digest
  <2>2. PICK o \in sources : Checksum(runs[o]) = Checksum(runs[r])
    BY <2>1 DEF Digest
  <2> QED
    BY <1>1, <2>2 DEF Vouched, RegistryInv, ChecksumsDistinct
<1> QED
  BY <1>2, <1>3

(* The row Detect makes is a sound row with the hash of what was asked.      *)
LEMMA NewGapIsSound ==
  ASSUME RegistryInv, NEW q \in DetectRequests, NEW read \in AreaRow,
         Vouched(runs, q.area, q.runs)
  PROVE  /\ Sound(runs, NewGap(q, read, Wanted(runs, q, read)))
         /\ NewGap(q, read, Wanted(runs, q, read)) \in GapRow
         /\ NewGap(q, read, Wanted(runs, q, read)).hash = Wanted(runs, q, read)
         /\ NewGap(q, read, Wanted(runs, q, read)).sources = q.runs
<1> DEFINE hash == Wanted(runs, q, read)
           new == NewGap(q, read, hash)
<1>1. /\ q.area \in Areas /\ q.algorithm \in Algorithms /\ q.runs \subseteq RunIds
      /\ q.resolution \in Resolutions \cup {None}
      /\ read.resolution \in Resolutions /\ read.boundary \in Boundaries
  BY DEF DetectRequests, AreaRow
<1>2. \A r \in q.runs : Checksum(runs[r]) \in Plans \X (Tracks \cup {SeedTrack})
  BY DEF Vouched, Row, Checksum
<1>3. Digest(runs, q.runs) \in SUBSET (Plans \X (Tracks \cup {SeedTrack}))
  BY <1>2 DEF Digest
<1>4. hash \in Hashes /\ hash[3] = Digest(runs, q.runs)
  BY <1>1, <1>3 DEF Wanted, Hashes
<1> HIDE DEF hash
<1>5. << >> \in Seq(Notes) /\ Len(<< >>) = 0
  OBVIOUS
<1>6. new \in GapRow
  BY <1>1, <1>4, <1>5 DEF NewGap, GapRow, GapStates
<1>7. Reviewed(new)
  BY <1>5 DEF NewGap, Reviewed, VersionsOf
<1>8. /\ new.hash = hash /\ new.sources = q.runs /\ new.area = q.area
  BY DEF NewGap
<1> HIDE DEF new
<1>9. Sound(runs, new)
  BY <1>4, <1>6, <1>7, <1>8 DEF Sound
<1> QED
  BY <1>6, <1>8, <1>9 DEF new, hash

-----------------------------------------------------------------------------
(* A review takes a gap one version on *)

Revised(row, target, note) ==
  [[[row EXCEPT !.state = target] EXCEPT !.explanation = Append(row.explanation, note)]
     EXCEPT !.version = row.version + 1]

LEMMA RevisedRow ==
  ASSUME NEW row \in GapRow, NEW target \in GapTargets, NEW note \in Notes,
         Reviewed(row), GapCanTransition(row.state, target)
  PROVE  /\ Revised(row, target, note) \in GapRow /\ Reviewed(Revised(row, target, note))
         /\ Revised(row, target, note).area = row.area
         /\ Revised(row, target, note).sources = row.sources
         /\ Revised(row, target, note).hash = row.hash
         /\ Revised(row, target, note).version = row.version + 1
<1> DEFINE moved == [row EXCEPT !.state = target]
           noted == [moved EXCEPT !.explanation = Append(row.explanation, note)]
           new == [noted EXCEPT !.version = row.version + 1]
<1>1. /\ row.explanation \in Seq(Notes) /\ row.version \in 1..5 /\ target \in GapStates
  BY DEF GapRow, GapTargets
<1>2. row.version + 1 \in 1..5 /\ row.version + 1 \in VersionsOf(target)
  <2>1. row.version \in VersionsOf(row.state)
    BY DEF Reviewed
  <2> QED
    BY <1>1, <2>1 DEF GapCanTransition, gapTransitions, VersionsOf
<1>3. /\ Append(row.explanation, note) \in Seq(Notes)
      /\ Len(Append(row.explanation, note)) = Len(row.explanation) + 1
  BY <1>1
<1>4. /\ moved \in GapRow /\ moved.state = target
      /\ moved.area = row.area /\ moved.sources = row.sources /\ moved.hash = row.hash
  BY <1>1 DEF GapRow
<1> HIDE DEF moved
<1>5. /\ noted \in GapRow /\ noted.state = target
      /\ noted.explanation = Append(row.explanation, note)
      /\ noted.area = row.area /\ noted.sources = row.sources /\ noted.hash = row.hash
  BY <1>3, <1>4 DEF GapRow
<1> HIDE DEF noted
<1>6. /\ new \in GapRow /\ new.state = target /\ new.version = row.version + 1
      /\ new.explanation = Append(row.explanation, note)
      /\ new.area = row.area /\ new.sources = row.sources /\ new.hash = row.hash
  BY <1>2, <1>5 DEF GapRow
<1>7. Revised(row, target, note) = new
  BY DEF Revised, new, noted, moved
<1> HIDE DEF new
<1>8. Reviewed(new)
  BY <1>1, <1>2, <1>3, <1>6 DEF Reviewed
<1> QED
  BY <1>6, <1>7, <1>8

(* The row that matches is the row that was read: in the state of the read   *)
(* there is no later version, but that a closed gap may have either of two,  *)
(* and from "closed" nothing is allowed.                                     *)
LEMMA MatchIsRead ==
  ASSUME IInv, NEW p \in Handlers, pc[p] = "update", Matches(p)
  PROVE  /\ gaps[req[p].gap] = before[p] /\ before[p] \in GapRow /\ Reviewed(before[p])
         /\ req[p] \in TransitionRequests
         /\ GapCanTransition(before[p].state, req[p].target)
<1>1. /\ req[p] \in TransitionRequests /\ before[p] \in GapRow /\ gaps[req[p].gap] \in GapRow
      /\ GapCanTransition(before[p].state, req[p].target) /\ Reviewed(before[p])
      /\ gaps[req[p].gap] = before[p] \/ before[p].version < gaps[req[p].gap].version
  BY DEF IInv, ReviewKnows, ReviewStatements
<1>2. req[p].gap \in GapIds
  BY <1>1 DEF TransitionRequests
<1>3. Reviewed(gaps[req[p].gap])
  BY <1>1, <1>2, NoneAssumption DEF IInv, GapsSound, Sound
<1>4. gaps[req[p].gap].state = before[p].state
  BY DEF Matches
<1>5. before[p].version = gaps[req[p].gap].version
  BY <1>1, <1>3, <1>4 DEF Reviewed, VersionsOf, GapCanTransition, gapTransitions
<1>6. before[p].version \in Nat
  BY <1>1 DEF GapRow
<1> QED
  BY <1>1, <1>5, <1>6

-----------------------------------------------------------------------------
(* What a step leaves as it was *)

Same(o) ==
  /\ pc'[o] = pc[o] /\ req'[o] = req[o] /\ area'[o] = area[o]
  /\ item'[o] = item[o] /\ before'[o] = before[o] /\ key'[o] = key[o]

LEMMA GapsGoOn ==
  ASSUME Forward, NEW id, NEW hash, NEW sources, Answers(gaps, id, hash, sources)
  PROVE  Answers(gaps', id, hash, sources)
  BY NoneAssumption DEF Forward, Answers

LEMMA AnswersLast ==
  ASSUME RegistryInv, Forward, NEW a, TrueAnswer(runs, gaps, a)
  PROVE  TrueAnswer(runs', gaps', a)
<1>1. [RegistryNext]_registry
  BY DEF Forward
<1> SUFFICES ASSUME a.outcome \in {"created", "idempotent"}
             PROVE  /\ Vouched(runs', a.request.area, a.request.runs)
                    /\ a.row.hash = Wanted(runs', a.request, a.read)
                    /\ Answers(gaps', a.id, a.row.hash, a.request.runs)
  BY DEF TrueAnswer
<1>2. /\ Vouched(runs, a.request.area, a.request.runs)
      /\ a.row.hash = Wanted(runs, a.request, a.read)
      /\ Answers(gaps, a.id, a.row.hash, a.request.runs)
  BY DEF TrueAnswer
<1>3. /\ Vouched(runs', a.request.area, a.request.runs)
      /\ Digest(runs', a.request.runs) = Digest(runs, a.request.runs)
  BY <1>1, <1>2, SourcesLast
<1> QED
  BY <1>2, <1>3, GapsGoOn DEF Wanted

LEMMA KnowledgeLasts ==
  ASSUME IInv, Forward, NEW o \in Handlers, Same(o)
  PROVE  DetectKnows(o)' /\ ReviewKnows(o)'
<1>1. DetectKnows(o) /\ ReviewKnows(o) /\ RegistryInv /\ [RegistryNext]_registry
  BY DEF IInv, Forward
<1>2. DetectKnows(o)'
  <2>1. pc[o] \in DetectStatements \ {"runs"} =>
          /\ Vouched(runs', req[o].area, req[o].runs)
          /\ Digest(runs', req[o].runs) = Digest(runs, req[o].runs)
    BY <1>1, SourcesLast DEF DetectKnows
  <2>2. pc[o] = "audit_detect" => Answers(gaps', key[o], item[o].hash, req[o].runs)
    BY <1>1, GapsGoOn DEF DetectKnows
  <2>3. pc[o] \in DetectStatements \ {"runs"} =>
          item[o] = NewGap(req[o], area[o], Wanted(runs', req[o], area[o]))
    BY <1>1, <2>1 DEF DetectKnows, Wanted
  <2> QED
    BY <1>1, <2>1, <2>2, <2>3 DEF DetectKnows, Same
<1>3. ReviewKnows(o)'
  <2>1. pc[o] \in ReviewStatements =>
          /\ req[o].gap \in GapIds /\ gaps[req[o].gap] \in GapRow /\ before[o] \in GapRow
    BY <1>1 DEF ReviewKnows, TransitionRequests
  <2>2. pc[o] \in ReviewStatements =>
          /\ gaps'[req[o].gap] \in GapRow
          /\ \/ gaps'[req[o].gap] = gaps[req[o].gap]
             \/ gaps[req[o].gap].version < gaps'[req[o].gap].version
    BY <2>1, NoneAssumption DEF Forward
  <2>3. pc[o] = "update" =>
          gaps'[req[o].gap] = before[o] \/ before[o].version < gaps'[req[o].gap].version
    <3>1. pc[o] = "update" =>
            /\ before[o].version \in Nat /\ gaps[req[o].gap].version \in Nat
            /\ gaps'[req[o].gap].version \in Nat
            /\ gaps[req[o].gap] = before[o] \/ before[o].version < gaps[req[o].gap].version
      BY <1>1, <2>1, <2>2, SMTT(30) DEF ReviewKnows, ReviewStatements, GapRow
    <3> QED
      BY <2>2, <3>1 DEF ReviewStatements
  <2> QED
    BY <1>1, <2>2, <2>3 DEF ReviewKnows, Same
<1> QED
  BY <1>2, <1>3

(* The gaps an INSERT or an UPDATE leaves alone stay sound.                  *)
LEMMA SoundLasts ==
  ASSUME RegistryInv, [RegistryNext]_registry, NEW row, Sound(runs, row)
  PROVE  Sound(runs', row)
  BY SourcesLast DEF Sound

(* It is enough to look at the handler that takes the step, at its event and *)
(* at the gap it writes.                                                     *)
LEMMA StepKeeps ==
  ASSUME IInv, Forward, TablesTyped', LocalsTyped', HashIsKey', GapsSound',
         NEW p \in Handlers, DetectKnows(p)', ReviewKnows(p)', TrueAnswer(runs, gaps, reply[p])',
         \A o \in Handlers \ {p} : Same(o) /\ reply'[o] = reply[o],
         \A e \in audits' \ audits : Event(e)'
  PROVE  IInv'
<1>1. RegistryInv'
  BY RegistryKeeps DEF IInv, Forward
<1>2. \A o \in Handlers \ {p} : DetectKnows(o)' /\ ReviewKnows(o)'
  BY KnowledgeLasts
<1>3. \A o \in Handlers \ {p} : TrueAnswer(runs', gaps', reply'[o])
  BY AnswersLast DEF IInv
<1>4. \A e \in audits : Event(e)'
  BY NoneAssumption DEF IInv, Event, Forward
<1> QED
  BY <1>1, <1>2, <1>3, <1>4 DEF IInv

(* Most statements only read.                                                *)
LEMMA ReadKeeps ==
  ASSUME IInv, LocalsTyped', UNCHANGED <<runs, locked, areas, gaps>>,
         NEW p \in Handlers, DetectKnows(p)', ReviewKnows(p)', TrueAnswer(runs, gaps, reply[p])',
         \A o \in Handlers \ {p} : Same(o) /\ reply'[o] = reply[o],
         \A e \in audits' \ audits : Event(e)'
  PROVE  IInv'
<1>1. Forward /\ TablesTyped'
  BY DEF IInv, TablesTyped, Forward, registry
<1>2. HashIsKey' /\ GapsSound'
  BY DEF IInv, HashIsKey, GapsSound
<1> QED
  BY <1>1, <1>2, StepKeeps

LEMMA ReturnKeeps ==
  ASSUME IInv, NEW p \in Handlers, NEW answer \in Replies, Return(p, answer),
         UNCHANGED <<runs, locked, areas, gaps>>, TrueAnswer(runs, gaps, answer),
         \A e \in audits' \ audits : Event(e)'
  PROVE  IInv'
<1>1. /\ LocalsTyped' /\ pc'[p] = "idle" /\ reply'[p] = answer
      /\ \A o \in Handlers \ {p} : Same(o) /\ reply'[o] = reply[o]
  BY DEF IInv, LocalsTyped, Return, Goto, Same
<1>2. DetectKnows(p)' /\ ReviewKnows(p)'
  BY <1>1 DEF DetectKnows, ReviewKnows, DetectStatements, ReviewStatements
<1>3. TrueAnswer(runs, gaps, reply[p])'
  BY <1>1 DEF TrueAnswer
<1> QED
  BY <1>1, <1>2, <1>3, ReadKeeps

LEMMA RefusalKeeps ==
  ASSUME IInv, NEW p \in Handlers, Return(p, NoReply), UNCHANGED tables
  PROVE  IInv'
<1>1. NoReply \in Replies /\ TrueAnswer(runs, gaps, NoReply)
  BY DEF NoReply, Replies, TrueAnswer
<1> QED
  BY <1>1, ReturnKeeps DEF tables

-----------------------------------------------------------------------------
(* Detect, statement by statement *)

LEMMA ReadAreaKeeps ==
  ASSUME IInv, NEW p \in Handlers, NEW q \in DetectRequests, ReadArea(p, q)
  PROVE  IInv'
<1>1. q.area \in Areas /\ areas[q.area] \in AreaRow
  BY DEF DetectRequests, IInv, TablesTyped
<1>2. /\ pc'[p] = "runs" /\ req'[p] = q /\ area'[p] = areas[q.area] /\ reply'[p] = NoReply
      /\ \A o \in Handlers \ {p} : Same(o) /\ reply'[o] = reply[o]
  BY DEF ReadArea, Goto, IInv, LocalsTyped, Same
<1>3. NoReply \in Replies
  BY DEF NoReply, Replies
<1>4. LocalsTyped'
  BY <1>1, <1>3 DEF ReadArea, Goto, IInv, LocalsTyped, DetectStatements
<1>5. DetectKnows(p)' /\ ReviewKnows(p)' /\ TrueAnswer(runs, gaps, reply[p])'
  BY <1>1, <1>2
     DEF DetectKnows, ReviewKnows, TrueAnswer, NoReply, DetectStatements, ReviewStatements
<1> QED
  BY <1>2, <1>4, <1>5, ReadKeeps DEF ReadArea, tables

LEMMA ReadRunsKeeps ==
  ASSUME IInv, NEW p \in Handlers, ReadRuns(p)
  PROVE  IInv'
<1> DEFINE new == NewGap(req[p], area[p], Wanted(runs, req[p], area[p]))
<1>1. req[p] \in DetectRequests /\ area[p] \in AreaRow
  BY DEF ReadRuns, IInv, DetectKnows, DetectStatements
<1>2. Vouched(runs, req[p].area, req[p].runs)
  BY <1>1 DEF ReadRuns, Usable, Vouched, DetectRequests, IInv, RegistryInv, RegistryTyped
<1>3. new \in GapRow
  BY <1>1, <1>2, NewGapIsSound DEF IInv
<1>4. item' = [item EXCEPT ![p] = new]
  BY DEF ReadRuns, StableInputHash, Resolution, Wanted, Digest
<1> HIDE DEF new
<1>5. /\ pc'[p] = "lookup" /\ req' = req /\ area' = area /\ item'[p] = new
      /\ reply' = reply /\ runs' = runs /\ gaps' = gaps
      /\ \A o \in Handlers \ {p} : Same(o) /\ reply'[o] = reply[o]
  BY <1>4 DEF ReadRuns, Goto, IInv, LocalsTyped, Same, tables
<1>6. LocalsTyped'
  BY <1>3, <1>4 DEF ReadRuns, Goto, IInv, LocalsTyped, DetectStatements
<1>7. DetectKnows(p)' /\ ReviewKnows(p)'
  BY <1>1, <1>2, <1>5 DEF new, DetectKnows, ReviewKnows, DetectStatements, ReviewStatements
<1>8. TrueAnswer(runs, gaps, reply[p])'
  BY <1>5 DEF IInv
<1> QED
  BY <1>5, <1>6, <1>7, <1>8, ReadKeeps DEF ReadRuns, tables

LEMMA ReturnExistingKeeps ==
  ASSUME IInv, NEW p \in Handlers, ReturnExisting(p)
  PROVE  IInv'
<1>1. PICK id \in WithHash(item[p].hash) : Return(p, Answer(p, "idempotent", id, gaps[id]))
  BY DEF ReturnExisting
<1> DEFINE answer == Answer(p, "idempotent", id, gaps[id])
<1>2. /\ req[p] \in DetectRequests /\ area[p] \in AreaRow
      /\ Vouched(runs, req[p].area, req[p].runs)
      /\ item[p] = NewGap(req[p], area[p], Wanted(runs, req[p], area[p]))
  BY DEF ReturnExisting, IInv, DetectKnows, DetectStatements
<1>3. /\ id \in GapIds /\ gaps[id] \in GapRow /\ gaps[id].hash = item[p].hash
      /\ Sound(runs, gaps[id])
  BY DEF WithHash, IInv, TablesTyped, GapsSound
<1>4. /\ item[p].hash = Wanted(runs, req[p], area[p])
  BY <1>2, NewGapIsSound DEF IInv
<1>5. Digest(runs, gaps[id].sources) = Digest(runs, req[p].runs)
  BY <1>3, <1>4 DEF Sound, Wanted
<1>6. gaps[id].sources = req[p].runs
  BY <1>2, <1>3, <1>5, DigestTellsSources DEF IInv, Sound
<1>7. /\ answer.request = req[p] /\ answer.read = area[p] /\ answer.id = id
      /\ answer.row = gaps[id] /\ answer \in Replies
  BY <1>2, <1>3 DEF Answer, Replies
<1> HIDE DEF answer
<1>8. TrueAnswer(runs, gaps, answer)
  BY <1>2, <1>3, <1>4, <1>6, <1>7 DEF TrueAnswer, Answers
<1>9. Return(p, answer)
  BY <1>1 DEF answer
<1> QED
  BY <1>7, <1>8, <1>9, ReturnKeeps DEF ReturnExisting, tables

LEMMA CalculateKeeps ==
  ASSUME IInv, NEW p \in Handlers, Calculate(p)
  PROVE  IInv'
<1>1. /\ pc[p] = "lookup" /\ pc'[p] = "insert"
      /\ UNCHANGED <<runs, locked, areas, gaps, audits, req, area, item, before, key, reply>>
      /\ \A o \in Handlers \ {p} : Same(o) /\ reply'[o] = reply[o]
  BY DEF Calculate, Goto, IInv, LocalsTyped, Same, tables
<1>2. LocalsTyped'
  BY DEF Calculate, Goto, IInv, LocalsTyped, DetectStatements
<1>3. DetectKnows(p)' /\ ReviewKnows(p)' /\ TrueAnswer(runs, gaps, reply[p])'
  BY <1>1 DEF IInv, DetectKnows, ReviewKnows, DetectStatements, ReviewStatements
<1> QED
  BY <1>1, <1>2, <1>3, ReadKeeps

(* The unique index turns "no gap has this hash" at the lookup, long past,   *)
(* into the same at the INSERT.                                              *)
LEMMA InsertGapKeeps ==
  ASSUME IInv, NEW p \in Handlers, InsertGap(p)
  PROVE  IInv'
<1>1. PICK id \in GapIds : /\ gaps[id] = None /\ gaps' = [gaps EXCEPT ![id] = item[p]]
                           /\ key' = [key EXCEPT ![p] = id]
  BY DEF InsertGap
<1>2. /\ req[p] \in DetectRequests /\ area[p] \in AreaRow
      /\ Vouched(runs, req[p].area, req[p].runs)
      /\ item[p] = NewGap(req[p], area[p], Wanted(runs, req[p], area[p]))
  BY DEF InsertGap, IInv, DetectKnows, DetectStatements
<1>3. item[p] \in GapRow /\ Sound(runs, item[p]) /\ item[p].sources = req[p].runs
  BY <1>2, NewGapIsSound DEF IInv
<1>4. /\ pc'[p] = "audit_detect" /\ key'[p] = id /\ gaps'[id] = item[p]
      /\ \A other \in GapIds \ {id} : gaps'[other] = gaps[other]
      /\ UNCHANGED <<runs, locked, areas, audits, req, area, item, before, reply>>
      /\ \A o \in Handlers \ {p} : Same(o) /\ reply'[o] = reply[o]
  BY <1>1 DEF InsertGap, Goto, IInv, LocalsTyped, TablesTyped, Same
<1>5. LocalsTyped' /\ TablesTyped'
  BY <1>1, <1>3 DEF InsertGap, Goto, IInv, LocalsTyped, TablesTyped, DetectStatements
<1>6. Forward
  BY <1>1, <1>4 DEF Forward, IInv, TablesTyped, registry
<1>7. HashIsKey'
  <2>1. \A other \in GapIds : gaps[other] # None => gaps[other].hash # item[p].hash
    BY DEF InsertGap, WithHash
  <2> QED
    BY <1>4, <2>1 DEF IInv, HashIsKey
<1>8. GapsSound'
  BY <1>3, <1>4 DEF IInv, GapsSound
<1>9. DetectKnows(p)' /\ ReviewKnows(p)'
  BY <1>2, <1>3, <1>4
     DEF DetectKnows, ReviewKnows, Answers, DetectStatements, ReviewStatements
<1>10. TrueAnswer(runs, gaps, reply[p])'
  BY <1>4, <1>6, AnswersLast DEF IInv
<1> QED
  BY <1>4, <1>5, <1>6, <1>7, <1>8, <1>9, <1>10, StepKeeps

LEMMA RecordDetectKeeps ==
  ASSUME IInv, NEW p \in Handlers, RecordDetect(p)
  PROVE  IInv'
<1> DEFINE answer == Answer(p, "created", key[p], item[p])
           event == [action |-> "coverage.detect", gap |-> key[p],
                     before |-> None, after |-> item[p]]
<1>1. /\ req[p] \in DetectRequests /\ area[p] \in AreaRow
      /\ Vouched(runs, req[p].area, req[p].runs)
      /\ item[p] = NewGap(req[p], area[p], Wanted(runs, req[p], area[p]))
      /\ Answers(gaps, key[p], item[p].hash, req[p].runs)
  BY DEF RecordDetect, IInv, DetectKnows, DetectStatements
<1>2. item[p] \in GapRow /\ item[p].hash = Wanted(runs, req[p], area[p])
  BY <1>1, NewGapIsSound DEF IInv
<1>3. /\ answer.request = req[p] /\ answer.read = area[p] /\ answer.id = key[p]
      /\ answer.row = item[p] /\ answer \in Replies
  BY <1>1, <1>2 DEF Answer, Answers, Replies
<1>4. event.gap = key[p] /\ event.after = item[p]
  OBVIOUS
<1>5. Return(p, answer) /\ audits' = audits \cup {event}
      /\ UNCHANGED <<runs, locked, areas, gaps>>
  BY DEF RecordDetect
<1> HIDE DEF answer, event
<1>6. TrueAnswer(runs, gaps, answer)
  BY <1>1, <1>2, <1>3 DEF TrueAnswer
<1>7. \A e \in audits' \ audits : Event(e)'
  BY <1>1, <1>2, <1>4, <1>5 DEF Event, Answers
<1> QED
  BY <1>3, <1>5, <1>6, <1>7, ReturnKeeps

LEMMA DetectKeeps ==
  ASSUME IInv, NEW p \in Handlers, Detect(p)
  PROVE  IInv'
<1>1. CASE RefuseRuns(p) \/ CannotCalculate(p) \/ InsertDuplicate(p)
  BY <1>1, RefusalKeeps DEF RefuseRuns, CannotCalculate, InsertDuplicate
<1> QED
  BY <1>1, ReadAreaKeeps, ReadRunsKeeps, ReturnExistingKeeps, CalculateKeeps, InsertGapKeeps,
     RecordDetectKeeps DEF Detect

-----------------------------------------------------------------------------
(* Transition, statement by statement *)

LEMMA ReviewKeeps ==
  ASSUME IInv, NEW p \in Handlers, NEW q \in TransitionRequests, Review(p, q)
  PROVE  IInv'
<1>1. /\ q.gap \in GapIds /\ gaps[q.gap] \in GapRow /\ Reviewed(gaps[q.gap])
      /\ GapCanTransition(gaps[q.gap].state, q.target)
  BY DEF Review, TransitionRequests, IInv, TablesTyped, GapsSound, Sound
<1>2. /\ pc'[p] = "update" /\ req'[p] = q /\ before'[p] = gaps[q.gap] /\ reply'[p] = NoReply
      /\ gaps' = gaps /\ \A o \in Handlers \ {p} : Same(o) /\ reply'[o] = reply[o]
  BY DEF Review, Goto, IInv, LocalsTyped, Same, tables
<1>3. NoReply \in Replies
  BY DEF NoReply, Replies
<1>4. LocalsTyped'
  BY <1>1, <1>3 DEF Review, Goto, IInv, LocalsTyped, ReviewStatements
<1>5. DetectKnows(p)' /\ ReviewKnows(p)' /\ TrueAnswer(runs, gaps, reply[p])'
  BY <1>1, <1>2
     DEF DetectKnows, ReviewKnows, TrueAnswer, NoReply, DetectStatements, ReviewStatements
<1> QED
  BY <1>2, <1>4, <1>5, ReadKeeps DEF Review, tables

(* The UPDATE writes what was put together from the first read, and that is  *)
(* the row it overwrites, one review further.                                *)
LEMMA UpdateWrites ==
  ASSUME IInv, NEW p \in Handlers, UpdateGap(p)
  PROVE  /\ req[p] \in TransitionRequests /\ req[p].gap \in GapIds
         /\ gaps[req[p].gap] = before[p] /\ before[p] \in GapRow /\ Reviewed(before[p])
         /\ GapCanTransition(before[p].state, req[p].target)
         /\ gaps' = [gaps EXCEPT ![req[p].gap] = Revised(before[p], req[p].target, req[p].note)]
<1>1. /\ gaps[req[p].gap] = before[p] /\ before[p] \in GapRow /\ Reviewed(before[p])
      /\ req[p] \in TransitionRequests
      /\ GapCanTransition(before[p].state, req[p].target)
  BY MatchIsRead DEF UpdateGap
<1>2. req[p].gap \in GapIds
  BY <1>1 DEF TransitionRequests
<1>3. gaps' = [gaps EXCEPT ![req[p].gap] = Revised(before[p], req[p].target, req[p].note)]
  BY <1>1, <1>2 DEF UpdateGap, Revised, Explanation, IInv, TablesTyped, GapRow
<1> QED
  BY <1>1, <1>2, <1>3

LEMMA UpdateGapKeeps ==
  ASSUME IInv, NEW p \in Handlers, UpdateGap(p)
  PROVE  IInv'
<1> DEFINE id == req[p].gap
           new == Revised(before[p], req[p].target, req[p].note)
<1>1. /\ req[p] \in TransitionRequests /\ id \in GapIds /\ gaps[id] = before[p]
      /\ before[p] \in GapRow /\ gaps' = [gaps EXCEPT ![id] = new]
  BY UpdateWrites
<1>2. /\ new \in GapRow /\ Reviewed(new) /\ new.version = before[p].version + 1
      /\ new.area = before[p].area /\ new.sources = before[p].sources
      /\ new.hash = before[p].hash
  BY <1>1, UpdateWrites, RevisedRow DEF TransitionRequests
<1>3. /\ Sound(runs, before[p]) /\ before[p].version \in Nat
  BY <1>1, NoneAssumption DEF IInv, GapsSound, GapRow
<1> HIDE DEF new
<1>4. Sound(runs, new) /\ before[p].version < new.version
  BY <1>2, <1>3 DEF Sound
<1>5. /\ pc[p] = "update" /\ pc'[p] = "reload" /\ gaps'[id] = new
      /\ \A other \in GapIds \ {id} : gaps'[other] = gaps[other]
      /\ UNCHANGED <<runs, locked, areas, audits, req, area, item, before, key, reply>>
      /\ \A o \in Handlers \ {p} : Same(o) /\ reply'[o] = reply[o]
  BY <1>1 DEF UpdateGap, Goto, IInv, LocalsTyped, TablesTyped, Same
<1> HIDE DEF id
<1>6. LocalsTyped' /\ TablesTyped'
  BY <1>1, <1>2, <1>5 DEF UpdateGap, Goto, IInv, LocalsTyped, TablesTyped, ReviewStatements
<1>7. Forward
  BY <1>1, <1>2, <1>4, <1>5 DEF Forward, IInv, TablesTyped, registry
<1>8. HashIsKey'
  BY <1>1, <1>2, <1>5, NoneAssumption DEF IInv, HashIsKey
<1>9. GapsSound'
  BY <1>4, <1>5 DEF IInv, GapsSound
<1>10. DetectKnows(p)' /\ ReviewKnows(p)'
  BY <1>1, <1>2, <1>5 DEF id, DetectKnows, ReviewKnows, DetectStatements, ReviewStatements
<1>11. TrueAnswer(runs, gaps, reply[p])'
  BY <1>5, <1>7, AnswersLast DEF IInv
<1> QED
  BY <1>5, <1>6, <1>7, <1>8, <1>9, <1>10, <1>11, StepKeeps

LEMMA ReloadGapKeeps ==
  ASSUME IInv, NEW p \in Handlers, ReloadGap(p)
  PROVE  IInv'
<1>1. /\ req[p] \in TransitionRequests /\ before[p] \in GapRow /\ gaps[req[p].gap] \in GapRow
  BY DEF ReloadGap, IInv, ReviewKnows, ReviewStatements
<1>2. /\ pc'[p] = "audit_transition" /\ item'[p] = gaps[req[p].gap]
      /\ UNCHANGED <<runs, locked, areas, gaps, audits, req, area, before, key, reply>>
      /\ \A o \in Handlers \ {p} : Same(o) /\ reply'[o] = reply[o]
  BY DEF ReloadGap, Goto, IInv, LocalsTyped, Same, tables
<1>3. LocalsTyped'
  BY <1>1 DEF ReloadGap, Goto, IInv, LocalsTyped, ReviewStatements
<1>4. DetectKnows(p)' /\ ReviewKnows(p)' /\ TrueAnswer(runs, gaps, reply[p])'
  BY <1>1, <1>2 DEF IInv, DetectKnows, ReviewKnows, DetectStatements, ReviewStatements
<1> QED
  BY <1>2, <1>3, <1>4, ReadKeeps

LEMMA RecordTransitionKeeps ==
  ASSUME IInv, NEW p \in Handlers, RecordTransition(p)
  PROVE  IInv'
<1> DEFINE event == [action |-> "coverage.transition", gap |-> req[p].gap,
                     before |-> before[p], after |-> item[p]]
<1>1. /\ req[p] \in TransitionRequests /\ gaps[req[p].gap] \in GapRow /\ item[p] \in GapRow
  BY DEF RecordTransition, IInv, ReviewKnows, ReviewStatements
<1>2. event.gap = req[p].gap /\ event.after = item[p]
  OBVIOUS
<1>3. /\ Return(p, NoReply) /\ audits' = audits \cup {event}
      /\ UNCHANGED <<runs, locked, areas, gaps>>
  BY DEF RecordTransition
<1> HIDE DEF event
<1>4. \A e \in audits' \ audits : Event(e)'
  BY <1>1, <1>2, <1>3 DEF Event, TransitionRequests
<1>5. NoReply \in Replies /\ TrueAnswer(runs, gaps, NoReply)
  BY DEF NoReply, Replies, TrueAnswer
<1> QED
  BY <1>3, <1>4, <1>5, ReturnKeeps

-----------------------------------------------------------------------------
(* The invariant *)

(* The rest of the program: runs advance, areas change under the handlers.   *)
LEMMA OutsideKeeps ==
  ASSUME IInv, RegistryStep \/ (\E a \in Areas : AreaUpdated(a)) \/ UNCHANGED vars
  PROVE  IInv'
<1>1. [RegistryNext]_registry /\ UNCHANGED <<gaps, audits, locals, reply>>
  BY DEF RegistryStep, AreaUpdated, registry, vars, locals
<1>2. areas' \in [Areas -> AreaRow]
  BY DEF RegistryStep, AreaUpdated, vars, IInv, TablesTyped
<1>3. Forward
  BY <1>1 DEF Forward, IInv, TablesTyped
<1>4. TablesTyped' /\ LocalsTyped' /\ HashIsKey'
  BY <1>1, <1>2 DEF IInv, TablesTyped, LocalsTyped, HashIsKey, locals
<1>5. GapsSound'
  BY <1>1, SoundLasts DEF IInv, GapsSound
<1>6. \A o \in Handlers : DetectKnows(o)' /\ ReviewKnows(o)'
  BY <1>1, <1>3, KnowledgeLasts DEF Same, locals
<1>7. \A o \in Handlers : TrueAnswer(runs', gaps', reply'[o])
  BY <1>1, <1>3, AnswersLast DEF IInv
<1>8. RegistryInv'
  BY <1>1, RegistryKeeps DEF IInv
<1>9. \A e \in audits' : Event(e)'
  BY <1>1 DEF IInv, Event
<1> QED
  BY <1>4, <1>5, <1>6, <1>7, <1>8, <1>9 DEF IInv

LEMMA InitEstablishes == Init => IInv
<1> SUFFICES ASSUME Init PROVE IInv
  OBVIOUS
<1>1. RegistryInv
  BY RegistryStart DEF Init
<1>2. NoReply \in Replies /\ TrueAnswer(runs, gaps, NoReply)
  BY DEF NoReply, Replies, TrueAnswer
<1>3. TablesTyped /\ LocalsTyped /\ HashIsKey /\ GapsSound
  BY <1>2 DEF Init, TablesTyped, LocalsTyped, HashIsKey, GapsSound
<1>4. \A p \in Handlers : DetectKnows(p) /\ ReviewKnows(p)
  BY DEF Init, DetectKnows, ReviewKnows, DetectStatements, ReviewStatements
<1>5. \A p \in Handlers : reply[p] = NoReply
  BY DEF Init
<1>6. \A e \in audits : Event(e)
  BY DEF Init
<1> QED
  BY <1>1, <1>2, <1>3, <1>4, <1>5, <1>6 DEF IInv

LEMMA NextKeeps == IInv /\ [Next]_vars => IInv'
<1> SUFFICES ASSUME IInv, [Next]_vars PROVE IInv'
  OBVIOUS
<1>1. ASSUME NEW p \in Handlers, Transition(p)
      PROVE  IInv'
  <2>1. CASE UpdateFails(p)
    BY <2>1, RefusalKeeps DEF UpdateFails
  <2> QED
    BY <1>1, <2>1, ReviewKeeps, UpdateGapKeeps, ReloadGapKeeps, RecordTransitionKeeps
       DEF Transition
<1>2. ASSUME NEW p \in Handlers, StatementError(p)
      PROVE  IInv'
  BY <1>2, RefusalKeeps DEF StatementError
<1> QED
  BY <1>1, <1>2, DetectKeeps, OutsideKeeps DEF Next

LEMMA Invariance == Spec => []IInv
  BY InitEstablishes, NextKeeps, PTL DEF Spec

-----------------------------------------------------------------------------
(* The theorems *)

(* Every variable has its type, and a handler holds what its statements so   *)
(* far have read; no gap is ever reviewed past version 5.                    *)
THEOREM TypeCorrect == Spec => []TypeOK
<1>1. IInv => TypeOK
  <2> SUFFICES ASSUME IInv PROVE TypeOK
    OBVIOUS
  <2>1. \A p \in Handlers : pc[p] \in DetectStatements \ {"runs"} => item[p] \in GapRow
    BY NewGapIsSound DEF IInv, DetectKnows
  <2>2. \A e \in audits : gaps[e.gap] # None /\ e.after \in GapRow
    BY NoneAssumption DEF IInv, Event
  <2>3. \A p \in Handlers : pc[p] \in ReviewStatements =>
          req[p] \in TransitionRequests /\ before[p] \in GapRow
    BY DEF IInv, ReviewKnows
  <2>4. \A p \in Handlers : pc[p] \in DetectStatements =>
          req[p] \in DetectRequests /\ area[p] \in AreaRow
    BY DEF IInv, DetectKnows
  <2> QED
    BY <2>1, <2>2, <2>3, <2>4
       DEF TypeOK, IInv, TablesTyped, LocalsTyped, DetectStatements, ReviewStatements
<1> QED
  BY <1>1, Invariance, PTL

(* Nothing holds the runs still between ByIDs and the INSERT, nor after it,  *)
(* and yet every gap's sources are runs of its area that were processed and  *)
(* have at most been superseded since.                                       *)
THEOREM SourcesStayProcessed == Spec => []SourcesProcessed
<1>1. IInv => SourcesProcessed
  <2> SUFFICES ASSUME IInv, NEW id \in GapIds, gaps[id] # None, NEW r \in gaps[id].sources
               PROVE  /\ runs[r] # NoRun /\ AreaOf[runs[r].plan] = gaps[id].area
                      /\ runs[r].state \in {"processed", "superseded"}
    BY SMTT(30) DEF SourcesProcessed
  <2> QED
    BY RegistryAssumption DEF IInv, GapsSound, Sound, Vouched, Row
<1> QED
  BY <1>1, Invariance, PTL

(* Whoever is answered with a gap, the one who created it or anyone after,   *)
(* is answered with the one gap of exactly the runs, algorithm and           *)
(* resolution asked for, however many detections of them race.               *)
THEOREM DetectionIsIdempotent == Spec => []DetectIdempotent
<1>1. IInv => DetectIdempotent
  <2> SUFFICES ASSUME IInv, NEW p \in Handlers, reply[p].outcome \in {"created", "idempotent"}
               PROVE  LET a == reply[p]
                          wanted == IF a.request.resolution = None THEN a.read.resolution
                                    ELSE a.request.resolution
                      IN  /\ a.row.hash = StableInputHash(a.request.area, a.request.algorithm,
                                                          a.request.runs, wanted)
                          /\ \A id \in GapIds : gaps[id] # None /\ gaps[id].hash = a.row.hash
                                                  => id = a.id
                          /\ gaps[a.id] # None /\ gaps[a.id].sources = a.request.runs
    BY DEF DetectIdempotent
  <2> DEFINE a == reply[p]
  <2>1. /\ a.row.hash = Wanted(runs, a.request, a.read)
        /\ Answers(gaps, a.id, a.row.hash, a.request.runs)
    BY DEF IInv, TrueAnswer
  <2>2. gaps[a.id] # None /\ gaps[a.id].hash = a.row.hash /\ a.id \in GapIds
        /\ gaps[a.id].sources = a.request.runs
    BY <2>1, NoneAssumption DEF Answers
  <2>3. \A id \in GapIds : gaps[id] # None /\ gaps[id].hash = a.row.hash => id = a.id
    BY <2>2 DEF IInv, HashIsKey
  <2> QED
    BY <2>1, <2>2, <2>3 DEF Wanted, Digest, StableInputHash
<1> QED
  BY <1>1, Invariance, PTL

(* A gap carries one note per review, its version counts them, and it gets   *)
(* to "closed" by way of false_positive (version 4) or resurveyed (5).       *)
THEOREM ReviewsAreCounted == Spec => []OneNotePerReview
<1>1. IInv => OneNotePerReview
  <2> SUFFICES ASSUME IInv, NEW id \in GapIds, gaps[id] # None
               PROVE  /\ Len(gaps[id].explanation) + 1 = gaps[id].version
                      /\ (gaps[id].state = "detected") <=> (gaps[id].version = 1)
                      /\ gaps[id].state = "closed" => gaps[id].version \in {4, 5}
    BY DEF OneNotePerReview
  <2>1. Reviewed(gaps[id]) /\ gaps[id].state \in GapStates
    BY DEF IInv, GapsSound, Sound, GapRow
  <2> QED
    BY <2>1 DEF Reviewed, VersionsOf, GapStates
<1> QED
  BY <1>1, Invariance, PTL

(* The explanation is put together from a read that other reviewers may have *)
(* overtaken; the UPDATE goes through only where none has.                   *)
LEMMA OnlyUpdateReloads ==
  ASSUME IInv, [Next]_vars, NEW p \in Handlers, pc[p] = "update", pc'[p] = "reload"
  PROVE  UpdateGap(p)
<1> DEFINE Moves(o) == pc' = [pc EXCEPT ![o] = "idle"] \/ pc' = [pc EXCEPT ![o] = "runs"]
                       \/ pc' = [pc EXCEPT ![o] = "lookup"] \/ pc' = [pc EXCEPT ![o] = "insert"]
                       \/ pc' = [pc EXCEPT ![o] = "audit_detect"]
                       \/ pc' = [pc EXCEPT ![o] = "update"]
                       \/ pc' = [pc EXCEPT ![o] = "audit_transition"]
<1>1. pc \in [Handlers -> {"idle"} \cup DetectStatements \cup ReviewStatements]
  BY DEF IInv, LocalsTyped
<1>2. \A o \in Handlers : ~Moves(o)
  BY <1>1
<1> HIDE DEF Moves
<1>3. ASSUME NEW o \in Handlers, Detect(o) \/ StatementError(o)
      PROVE  Moves(o)
  BY <1>3 DEF Moves, Detect, StatementError, ReadArea, ReadRuns, RefuseRuns, ReturnExisting,
     Calculate, CannotCalculate, InsertGap, InsertDuplicate, RecordDetect, Return, Goto
<1>4. ASSUME NEW o \in Handlers, Transition(o)
      PROVE  Moves(o) \/ UpdateGap(o)
  BY <1>4 DEF Moves, Transition, Review, UpdateFails, ReloadGap, RecordTransition, Return, Goto
<1>5. \A o \in Handlers : UpdateGap(o) => o = p
  BY <1>1 DEF UpdateGap, Goto
<1>6. pc' # pc
  OBVIOUS
<1> QED
  BY <1>2, <1>3, <1>4, <1>5, <1>6 DEF Next, RegistryStep, AreaUpdated, locals, vars

(* No reviewer's note is lost, whoever reads, writes or fails in between.    *)
THEOREM NotesAreNotLost == Spec => NotesAccumulate
<1> DEFINE Accumulates ==
             \A p \in Handlers : pc[p] = "update" /\ pc'[p] = "reload" =>
               LET id == req[p].gap IN
               /\ gaps'[id].explanation = Append(gaps[id].explanation, req[p].note)
               /\ before[p] = gaps[id]
<1>1. IInv /\ [Next]_vars => [Accumulates]_vars
  <2> SUFFICES ASSUME IInv, [Next]_vars, NEW p \in Handlers, pc[p] = "update", pc'[p] = "reload"
               PROVE  /\ gaps'[req[p].gap].explanation =
                           Append(gaps[req[p].gap].explanation, req[p].note)
                      /\ before[p] = gaps[req[p].gap]
    OBVIOUS
  <2>1. UpdateGap(p)
    BY OnlyUpdateReloads
  <2>2. /\ req[p].gap \in GapIds /\ gaps[req[p].gap] = before[p] /\ before[p] \in GapRow
        /\ gaps' = [gaps EXCEPT ![req[p].gap] = Revised(before[p], req[p].target, req[p].note)]
    BY <2>1, UpdateWrites
  <2>3. Revised(before[p], req[p].target, req[p].note).explanation =
          Append(before[p].explanation, req[p].note)
    BY <2>2 DEF Revised, GapRow
  <2> QED
    BY <2>2, <2>3 DEF IInv, TablesTyped
<1> QED
  BY <1>1, Invariance, PTL DEF Spec, NotesAccumulate
=============================================================================
