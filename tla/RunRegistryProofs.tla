--------------------------- MODULE RunRegistryProofs ---------------------------
(***************************************************************************)
(* What the registry promises to whoever works beside it, for every number *)
(* of runs and plans: a run stays the run it is, a calculation's worth of  *)
(* processing is never taken back, and no two runs share a checksum.       *)
(* The proofs of SonarRun, CoverageGap and RunStore lean on these lemmas.  *)
(***************************************************************************)
EXTENDS RunRegistry, TLAPS

RegistryTyped == runs \in [RunIds -> Row \cup {NoRun}] /\ locked \subseteq Plans

ChecksumsDistinct ==
  \A id, other \in RunIds :
    runs[id] # NoRun /\ runs[other] # NoRun /\ Checksum(runs[id]) = Checksum(runs[other])
      => id = other

RegistryInv == RegistryTyped /\ ChecksumsDistinct

(* A new row is a row. *)
LEMMA NewRowType ==
  ASSUME NEW q \in ImportRequests
  PROVE  NewRow(q) \in Row
  BY DEF NewRow, Row, ImportRequests, RunStates

(* A row that has taken a step differs from the one before in its state and  *)
(* in its version, and is a row.                                             *)
LEMMA AdvancedRow ==
  ASSUME NEW row \in Row, NEW target \in RunStates
  PROVE  /\ Advanced(row, target) \in Row
         /\ Advanced(row, target).plan = row.plan
         /\ Advanced(row, target).code = row.code
         /\ Advanced(row, target).track = row.track
         /\ Advanced(row, target).nav = row.nav
         /\ Advanced(row, target).state = target
         /\ Advanced(row, target).version = row.version + 1
<1> DEFINE mid == [row EXCEPT !.state = target]
<1>1. mid \in Row /\ mid.plan = row.plan /\ mid.code = row.code /\ mid.track = row.track
      /\ mid.nav = row.nav /\ mid.state = target /\ mid.version = row.version
  BY DEF Row
<1>2. Advanced(row, target) = [mid EXCEPT !.version = row.version + 1]
  BY DEF Advanced
<1>3. row.version + 1 \in Nat \ {0}
  BY DEF Row
<1> HIDE DEF mid
<1> QED
  BY <1>1, <1>2, <1>3 DEF Row

(* What is processed is at most superseded.                                  *)
LEMMA ProcessedIsKept ==
  ASSUME NEW from \in {"processed", "superseded"}, NEW to, RunCanTransition(from, to)
  PROVE  to \in {"processed", "superseded"}
  BY DEF RunCanTransition, runTransitions

(* A run stays the run it is, whatever the registry does to it.              *)
LEMMA RunsGoOn ==
  ASSUME RegistryTyped, [RegistryNext]_registry, NEW id \in RunIds, runs[id] \in Row
  PROVE  /\ runs'[id] \in Row
         /\ runs'[id] = runs[id] \/ runs[id].version < runs'[id].version
         /\ runs'[id].plan = runs[id].plan /\ runs'[id].code = runs[id].code
         /\ runs'[id].track = runs[id].track /\ runs'[id].nav = runs[id].nav
         /\ runs[id].state \in {"processed", "superseded"} =>
              runs'[id].state \in {"processed", "superseded"}
<1>1. ASSUME NEW plan \in Plans, LockPlan(plan)
      PROVE  runs' = runs
  BY <1>1 DEF LockPlan
<1>2. ASSUME NEW i \in RunIds, NEW q \in ImportRequests, Register(i, q)
      PROVE  runs'[id] = runs[id]
  BY <1>2, RegistryAssumption DEF Register, RegistryTyped, Row
<1>3. ASSUME NEW i \in RunIds, NEW target \in RunTargets, Advance(i, target)
      PROVE  \/ runs'[id] = runs[id]
             \/ /\ runs'[id] = Advanced(runs[id], target)
                /\ target \in RunStates /\ RunCanTransition(runs[id].state, target)
  BY <1>3 DEF Advance, RegistryTyped, RunTargets
<1>4. ASSUME NEW target \in RunStates, runs'[id] = Advanced(runs[id], target),
             RunCanTransition(runs[id].state, target)
      PROVE  runs[id].state \in {"processed", "superseded"} =>
               runs'[id].state \in {"processed", "superseded"}
  BY <1>4, AdvancedRow, ProcessedIsKept
<1>5. ASSUME NEW target \in RunStates, runs'[id] = Advanced(runs[id], target)
      PROVE  runs[id].version < runs'[id].version
  BY <1>5, AdvancedRow DEF Row
<1> QED
  BY <1>1, <1>2, <1>3, <1>4, <1>5, AdvancedRow DEF RegistryNext, registry

(* Two runs never share a checksum: INSERT has the index, UPDATE leaves the  *)
(* columns alone.                                                            *)
LEMMA RegistryKeeps == RegistryInv /\ [RegistryNext]_registry => RegistryInv'
<1> SUFFICES ASSUME RegistryInv, [RegistryNext]_registry PROVE RegistryInv'
  OBVIOUS
<1>1. ASSUME NEW i \in RunIds, NEW q \in ImportRequests, Register(i, q)
      PROVE  RegistryInv'
  <2>1. Checksum(NewRow(q)) = Checksum(q) /\ NewRow(q) \in Row
    BY NewRowType DEF NewRow, Checksum
  <2>2. /\ runs'[i] = NewRow(q) /\ locked' = locked
        /\ runs' \in [RunIds -> Row \cup {NoRun}]
        /\ \A id \in RunIds \ {i} : runs'[id] = runs[id]
        /\ \A id \in RunIds : runs[id] # NoRun => Checksum(runs[id]) # Checksum(q)
    BY <1>1, <2>1 DEF Register, Unique, RegistryInv, RegistryTyped
  <2> QED
    BY <2>1, <2>2 DEF RegistryInv, RegistryTyped, ChecksumsDistinct
<1>2. ASSUME NEW i \in RunIds, NEW target \in RunTargets, Advance(i, target)
      PROVE  RegistryInv'
  <2>1. \A id \in RunIds : runs'[id] # NoRun => runs[id] # NoRun
    BY <1>2 DEF Advance, RegistryInv, RegistryTyped
  <2>2. \A id \in RunIds : runs[id] # NoRun => Checksum(runs'[id]) = Checksum(runs[id])
    BY RunsGoOn DEF RegistryInv, RegistryTyped, Checksum
  <2>3. runs[i] \in Row /\ target \in RunStates
    BY <1>2 DEF Advance, RegistryInv, RegistryTyped, RunTargets
  <2>4. runs' \in [RunIds -> Row \cup {NoRun}] /\ locked' = locked
    BY <1>2, <2>3, AdvancedRow DEF Advance, RegistryInv, RegistryTyped
  <2> QED
    BY <2>1, <2>2, <2>4 DEF RegistryInv, RegistryTyped, ChecksumsDistinct
<1>3. ASSUME NEW plan \in Plans, LockPlan(plan)
      PROVE  RegistryInv'
  BY <1>3 DEF LockPlan, RegistryInv, RegistryTyped, ChecksumsDistinct
<1>4. CASE UNCHANGED registry
  BY <1>4 DEF registry, RegistryInv, RegistryTyped, ChecksumsDistinct
<1> QED
  BY <1>1, <1>2, <1>3, <1>4 DEF RegistryNext

LEMMA RegistryStart == RegistryInit => RegistryInv
<1>1. \A plan \in Plans, code \in Codes : SeedRun(plan, code) \in Row
  BY RegistryAssumption DEF SeedRun, Row, RunStates
<1> QED
  BY <1>1 DEF RegistryInit, NoRuns, RegistryInv, RegistryTyped, ChecksumsDistinct

(* The unique index on source_checksum holds for good, and with it the       *)
(* import's answer to a repeated track is never a choice between two runs.   *)
THEOREM ChecksumIsKey == RegistrySpec => []ChecksumsDistinct
<1>1. RegistryInv => ChecksumsDistinct
  BY DEF RegistryInv
<1> QED
  BY <1>1, RegistryStart, RegistryKeeps, PTL DEF RegistrySpec
=============================================================================
