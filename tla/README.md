# Sonar survey coverage planner: a TLA+ verification project

The program (`src/backend`, Go, with a React frontend in `src/frontend`) keeps survey areas,
transect plans, sonar runs and coverage gaps in a relational database.  Every request is
served by a goroutine of its own, no handler opens a transaction, and what keeps racing
requests apart is optimistic locking: `UPDATE ... WHERE id = ? AND version = ? [AND state = ?]`,
and unique indexes.  The project is about what these promise when handlers interleave between
their statements, when a statement fails and when the process dies or is stopped; about what the
geometry calculates at its boundary values; and about what the browser shows when answers
overtake each other.

## Inventory

| Component | State | Operations | Hard behaviour | What makes it correct |
| --- | --- | --- | --- | --- |
| State machines (`constants/`) | none | `CanTransition`, `Parse...` | – | every state change follows the table |
| Sonar runs (`service`, `repository`, `handler/sonar_run.go`) | `sonar_runs` | Import, Transition, List, Get, Quality | lookup and INSERT are two statements; the checks of Transition look at a read two statements old, and the WHERE clause mixes the client's version with the read's state | one run per track; no lost update; the navigation gate holds in the table; the audit tells the truth |
| Survey areas (`.../survey_area.go`) | `survey_areas` | Create, Update, List, Get with Summary | the archived check is made on a read before the UPDATE | an archived area is not written again; the row replaced is the row checked |
| Transect plans (`.../transect_plan.go`) | `transect_plans` | Create, Generate, Update, Lock, Copy, List, Get | Update's WHERE clause does not repeat the draft check; Generate reads the area twice; Copy does not read it; lines are laid by adding floats | a locked plan is not edited and stays locked; the log tells one story; lines laid cover the area, and laying them ends |
| Coverage gaps (`.../coverage_gap.go`) | `coverage_gaps` | Detect, Transition, List, Get | four reads and a long calculation before the INSERT; the explanation is built from a read and written back whole | sources are processed; one gap per input; no note lost; every gap can be closed |
| Audit trail (`service/audit.go`, `repository/support.go`) | `audit_events` | Record, List | a statement of its own after the change has committed | an event for every change, with the rows before and after |
| Schema and seed (`config/config.go`) | all tables | migrate, seed | the seed is not a transaction and never resumes; its accounts are looked after at every start | every state it leaves is one the handlers cope with; it gives nobody back what was taken from him |
| Rate limiter (`middleware/audit.go`) | windows by client, in memory | Middleware | the time is read before the mutex is held; the purge runs inside other clients' requests | a bounded burst; Retry-After keeps its word |
| Coverage geometry (`geometry/coverage.go`) | the variables of its loop | parse, validate, CalculateCoverage, StableInputHash | floats, points on borders, products of ints | ratios are of the cells they are said to be of; the recommended line closes the gap; the hash identifies the input |
| Authentication, RBAC (`service/auth.go`, `middleware/`) | `users`, tokens in the hands of clients | Login, Parse, RBAC | tokens outlive roles, accounts and the process; the check and the work are two steps | who is served was entitled to it |
| Server lifecycle (`cmd/server/main.go`) | the process and its database handle | start, listen, signal, shutdown after ten seconds | handlers are cut off in the middle | a clean exit has answered everybody; a signal ends the process |
| HTTP plumbing (`router`, `middleware`, `pkg/api`) | none | routing, recovery, answers | – | one answer per request |
| Frontend stores (`frontend/src/stores`, `api`) | lists, selection, session | fetch, select, import, transition, restore | answers overtake each other, connections break | what is shown was; what is acted on is what is shown |
| Frontend pages | form state | rendering, clicks | – | a button offered is a button granted |

On the server, components meet in the database only: Import reads a plan's state; Detect reads
an area, runs and their plans; every write handler calls `AuditService.Record` at its end; Auth reads `users`.
There are no callbacks, queues or background jobs.  `PROJECT.json` lists the hazards by line, the state of
each component and the source lines behind every definition.

## Modules

* `Workflow` – the transition tables of runs and gaps, as sets of edges.
* `RunRegistry` – the abstract specification of the runs: a table in which every handler is one
  atomic step (`Register`, `Advance`) beside `LockPlan`.
* `SonarRun` – the program: `SonarRunService.Import` and `.Transition`, one action per SQL
  statement.  `pc[p]` is the statement handler `p` executes next; `req`, `rid`, `before` and `after` are
  the Go locals `request`, `item.ID`, `before` and `updated`; `reply` is the last HTTP answer.  The
  first SELECT and the checks on it are one step with the arrival of the request; the Get at
  the end of the repository's Transition and the audit INSERT are steps of their own.  `StatementError` lets
  any statement fail; `Crash` drops all requests in flight.  It implements `RunRegistry`.
* `Planning` – the seven mutations of areas and plans in the same style.  It implements the part
  of `RunRegistry` that `SonarRun` relies on (`LocksAreForGood`: plans get locked, nothing else).  Its
  clients send any `expected_version`, as the bindings (`gt=0`) admit; `Echoes(p)` says of a handler's client that the version it
  sent is no later than the row that its handler read, as it is of whoever sends back a version it was shown.
* `CoverageGap` – Detect and Transition in the same style.  Its environment is
  `RunRegistry`, in place of the program that implements it, and areas that are rewritten.
* `RateLimiter` – one limiter; `Decide` is the critical section.  `admitted` is an auxiliary variable: each client's admissions,
  in their order.
* `Geometry` – the functions on points, rings, polygons and tracks, as operators.
* `Transects` – the loop of `Generate`.  `cursor` is its variable, `ordinates` the lines it has appended, and `Fl`
  rounds an addition to a float of `MantissaBits` bits.
* `Coverage` – the loop of `CalculateCoverage` and its result.  `grid` holds `columns` and `rows`, ints of
  `IntBits` bits; `tally` its three counters; `gap` the four extremes; one step samples one cell.
* `Survey` – composes the two: a boundary that `validateAreaGeometry` admits, lines over it, runs
  along them or elsewhere, calculations, and a run along the line that a calculation recommends.
* `Server` – the process and the way of a request through it.  `pc[p]` is "lookup" in Auth,
  "login" in Login and "handling" once a handler is reached, which the modules above go into.  `held`
  is an auxiliary variable, the roles that the request's account actively held since the request came; `barred`
  another, the accounts that were deactivated and not activated since.
* `RunStore` – `useSonarRunStore`, the clicks of `RunsPage` and the calls in flight.  `items`,
  `selected`, `quality` and `loading` are the store's; a call is a record that is sent, committed, answered or
  refused.  Its server is `RunRegistry` again.
* `RunRegistryProofs`, `SonarRunProofs`, `PlanningProofs`, `CoverageGapProofs`, `RunStoreProofs`,
  `RateLimiterProofs`, `SurveyProofs`, `ServerProofs` – theorems about the module each is named for; the first
  holds what the next ones need to know of the registry.
* `MCSonarRun`, `MCPlanning`, `MCCoverageGap`, `MCRateLimiter`, `MCSurvey`, `MCServer`, `MCRunStore` –
  small instances, their symmetries, two state constraints (`Focus`) and, for the survey, the boundaries.

So the modules hang together: `SonarRun` and `Planning` implement `RunRegistry`, `CoverageGap` and
`RunStore` are built on it, and `Server` is about which of their handlers is reached and when all of them are cut off.

Abstractions.  In `SonarRun` and `CoverageGap` a track stands for all that `checksumRun` hashes but the plan, so the
checksum is the pair of both; a boundary or a set of lines is a value; coordinate system and resolution
of an area, which its hash tells apart alike, are one column.  A gap remembers its boundary in place
of the ratios it gives.  A note is its length.  Requests that a check refuses change
nothing; they are steps only where an answer matters.  `StatementError` covers the
branches of the code that only a failing statement takes.  In `Geometry` coordinates are integers
and comparisons of quotients and roots are multiplied out; a spacing and a resolution are even, so that halves are integers.
`Survey` calculates only over boundaries so near to the origin that the code's floats are exact
(`Exact`); `Transects` lays lines over others too.  The box and the line of a result without a gap, a point each, are `None`.
In `Server` passwords and signatures are what they should be; a login with a wrong password is a
refusal like any other.  In `RunStore` the evidence of a run is the run it is of; the order of the list
(`started_at DESC, id DESC`) is a place for each run, and the list is cut off at its first `PageSize` rows, 100 in the program.
Definitions called
"a slip" are plausible mistakes that nothing uses: `PROJECT.json` pairs each with the property that it would break.

## Runs

| Run | Instance | Shows |
| --- | --- | --- |
| `run_transitions` | 1 run, 2 handlers, `expected_version` 1..4, good and invalid navigation | type invariant; version and state are one key (`VersionIsKey`); the row replaced is the row checked (`BeforeIsReplaced`); no lost update; the navigation gate; truthful audits; refinement of `RunRegistry` |
| `run_imports` | 2 ids, 2 codes, 3 tracks (one malformed), 2 handlers | idempotent import; refinement of `RunRegistry` when codes and tracks collide |
| `planning` | 1 area, 2 plans, 2 handlers, versions up to 3, any `expected_version` | who echoes a version replaces the row that was checked (`EchoReplacesRead`); who edits a locked plan or writes an archived area was given a version ahead of its read (`OnlyForesightEditsLocked`, `OnlyForesightEditsArchived`); a log that tells one story; locking is for good |
| `coverage` | 2 areas, 2 plans, 2 runs, 2 gaps, 2 handlers, a boundary that cannot be calculated | a gap's runs were and are processed; one gap per input; no note lost; as many notes as transitions |
| `rate_limiter` | 2 clients, 2 slots, a window of 2 ticks, capacity 1, a crowd of 1 | at most two windows' worth in any window's length; no refusal without cause |
| `survey` | 8 boundaries of up to 20 cells, 2 runs and a recommended one, ints of 6 bits, floats of 9 | ratios and box are those of the cells they are said to be of (`ResultIsMeasured`); what was planned and sailed is covered but for a strip of less than half a spacing and a cell at the far edge (`PlanCovers`); the recommended line closes the gap; a shared border loses no cell and no area; laying lines ends (liveness) |
| `server` | 2 accounts, 2 requests, 2 changes of accounts, 2 starts | who is served was entitled to it; a barred account stays out; an orderly shutdown; a signal ends the process (liveness) |
| `run_store` | 2 runs, 2 calls in flight, 2 imports, 2 targets | each run has one row; no row is invented; a click acts on the row it shows; no button is refused without cause; the bar goes away (liveness) |
| `run_audit_gap` | violation | a change whose audit fails stays, without an event |
| `stale_boundary` | violation | the hash leaves the boundary out: an old gap answers for a new boundary |
| `no_room_to_close` | violation | two long notes fill the column and the gap can never be closed |
| `locked_plan_edited` | violation | an Update with the version that a racing Lock is about to give writes the locked plan |

Bounds.  Two handlers are enough for every race here: each property is about one row and a
handler's stale view of it, and a third handler does to the row what the second may do in several
requests (slots serve request after request).  A run's life has at most four transitions and a
gap's at most four, so `expected_version` 1..4 names every version there is to
replace.  `MaxVersion` 3 gives a plan a creation, an edit and a lock, or a lock, a copy and a lock of the copy, and an area a creation, an
edit and an archiving; `Expected` leaves out the last version, which an UPDATE would take beyond the bound: 1 and 2 are behind, at and
ahead of a row of version 1.  An Update asks for a draft or an archived area; "archived" is the only status that a guard looks for.

Two runs are the union of two instances, which a state constraint, `Focus`, keeps apart.  `planning`: two plans drawn by hand in an
area that stays as it was created, or one plan, drawn or generated, in an area that is updated and archived.  What relates two plans
is Copy alone, and it reads no area; what relates plan and area is the check of Create and Generate, of one plan each.  `coverage`:
detections from several runs over two areas, or reviews of the gaps of the seed's run while its area changes its boundary.
A review reads and writes its gap alone, and a detection meets it only at its hash, which no review changes.  The
theorems need neither constraint.

The clock of `rate_limiter` stops at 5: three windows of two ticks, one of them old enough for the purge;
a capacity of 1 makes the third admission the one that breaks the bound, and the map crowded
with 2 clients stands for one with more than 2000.  A count above the capacity stays where it
is: no test distinguishes more.

`survey`: the boundaries are a rectangle and one with a bay, each with the halves it is cut into, one with
an island, a strip longer than wide, one 33 columns wide, so that its columns do not fit an int of 6 bits and
the product wraps, one whose cells exceed the limit of 20, one so far out that a float of 9 bits absorbs half a
spacing, and one without area.  `CellLimit` 20 and `AreaLimit` 140 stand for 60000 and 10^9: what matters is that
boundaries lie on both sides of them.  `MaxRuns` 2 lets runs overlap, and a plan of at most
`MaxLines` 2 lines is sailed in part too.  The stray lines are a bent one and one of a single point.

`server`: two accounts, one of them a reviewer, can hold each other's and the auditor's role; two changes take a
role or an account away and give it back; two starts are a restart.  The routes stand for the groups of `router.New`
that differ in who may pass; `areas.write` is `runs.write` with another role in it.

`run_store`: two runs are needed to be confused with each other, two calls to overtake each other.  `Targets`
quality_checked and rejected are the first transition of a run, its refusal for the navigation and the end
of its life; the imports submitted (`Forms`) may be for a run that is new, the seed's neighbour or there already.
A click is never repeated by the code, so calls are bounded by their slots alone.  With a `PageSize` of 1 the second run
is off the page, and comes onto it only by the import that made it.

Symmetries permute handlers, ids and codes, which no definition
tells apart; no liveness is checked under them.

No run and no theorem assumes anything of the versions that clients send.  Where the WHERE clause repeats the state, in
`SonarRun`, `CoverageGap` and Lock, none needs to; where it does not, in the Updates of areas and plans, the properties say
what is promised to and by which client, and the run
`locked_plan_edited` shows what is not.

Deadlock is checked in every run but `server`: there a process that is down may have used up its
starts and the accounts their changes, bounds of the model both.

Fairness.  Three specifications state weak fairness, the rest are about safety alone.  `Survey`: a handler that lays lines goes
on, as a goroutine does; nobody is bound to ask.  `Server`: `WF_vars(ShutDown)`, the timer of `server.Shutdown` fires and main
goes on; that a handler ever ends is not assumed, since `Generate` may not.  `RunStore`: for each call, the
server takes its next step, the answer comes or the connection ends, for which nginx, which waits 60 seconds for an answer by default,
and the browser see (Go's `WriteTimeout` stops no handler); one formula for all of these, so that a call is owed an end and not an answer.

## Known divergences

Four runs above show a disagreement of the code with what the repository says of it.  The models contain
others, that have no run of their own:

* Of two racing imports of one track the loser is answered 409 (`service/sonar_run.go:67`, in `SonarRun` the branch
  "conflict" of the INSERT), where `README.md:88` calls import idempotent.  Asked again, it succeeds.
* The Update of areas has the hole that `locked_plan_edited` shows of plans (`repository/survey_area.go:52`): an area that a racing
  Update archives is written, and reopened, by one whose client named the version that archiving gives.
  `OnlyForesightEditsArchived` says that nobody else can.
* The "before" of an event of either Update is then the row of the first read (`service/transect_plan.go:110`,
  `survey_area.go:93`), not the one that was replaced.  `EchoReplacesRead` says for whom it is.
* Copy puts a plan into an archived area (`service/transect_plan.go:134`), which Create refuses.
* The "after" of an event is read after its UPDATE has committed (`repository/sonar_run.go:76`, and alike for areas, plans and
  gaps): it may be the row of another handler that came in between.  `AuditsTruthful` and `LogConsistent` count such an
  event as truthful: they ask that "after" is a row that was stored, later than "before".
* `columns*rows` (`geometry/coverage.go:147`) wraps: with a resolution of 1e-7, which the binding admits, a box of a kilometre
  has more than 2^63 cells, and whether the limit of 60000 is met is left to the product's lower bits.
* A boundary far from the origin with a small spacing: the addition at `service/transect_plan.go:77` is absorbed and the loop
  does not end.  `GenerationEnds` says for which requests it does.
* `select` (`stores/sonar-run-store.ts:9`) shows the quality that came last, of whichever run.  The row that
  `fetch` selects by itself has no quality at all until it is clicked on, the first of two overlapping fetches takes the progress
  bar away, and after a refresh the detail pane keeps its old row until it is clicked on again, so that its buttons are refused.

## Theorems

The theorems say of every value of the constants what the runs check on small ones: all the invariants and action
properties of the passing runs, and both refinements.  They rest on the named assumptions of the modules alone: that sets of
requests are what their names say, that bounds are numbers, that the values which stand for "no row", "no call" or "no box" (`NoRun`,
`None`) are none, and that a split of `Splits` is a boundary cut as its name says (`Halved`).  TLC evaluates these assumptions in the runs.

**Runs.**  `SonarRunProofs` is about every set of runs, plans, codes, tracks, handlers and expected versions.

* `TypeCorrect` – `TypeOK`, which is inductive.
* `VersionTellsState`, `NavigationGate`, `UpdatesAreNotLost` – the invariants of
  `run_transitions`, as conjuncts of the inductive invariant `IInv`.
* `BeforeReplaced` – the action property, `HandlersImplementRegistry` – the refinement.
* `ImportsAreIdempotent`, `LogTellsTheTruth` – what clients are told and what the log says.

The argument.  Transition's WHERE clause compares the version with the client's word and the state
with the first read; that this pins the row down is not evident.  `VersionIsKey` says that among all
the rows of a run that the table, the log or a handler holds (`Seen`), version and
state determine each other.  It is not inductive: the row an UPDATE writes is new, and must differ
from all others in both.  `SeenIsPast` gives that: whatever is seen is the current row or
`Older`, lower in version and in `Rank`, a measure on states along which every edge of the
table ascends (`TableAscends`).  A row with the state of the read can then only be the read
(`MatchIsRead`).  `ReadAllows` and `AuditsArePast` place the rows replaced earlier strictly below the
current version, which gives `NoLostUpdate`; `AcceptedPlansLocked` carries the check of Import
to its INSERT for the refinement.  A loop in the table would break the argument, and the property: the
slip `runTransitionsReopened` shows it in TLC.

An answer speaks of a row that may have moved on since.  `AnswersInv` says what outlives such moves: a run stays the run
it is (its checksum), an event once written stays written, and a handler that is about to answer has its event in
the log (`Honest`).  That no two runs have one checksum, the unique index's work, is proved of the registry once, and taken over
by way of the refinement.

**The registry.**  `RunRegistryProofs`: `ChecksumIsKey`, no two runs ever share a checksum; and the lemmas that whoever works beside the
registry needs: a step leaves each run the run it is and takes it forward or leaves it (`RunsGoOn`), and one that is
processed is at most superseded (`ProcessedIsKept`).

**Areas and plans.**  `PlanningProofs`: `TypeCorrect`, `LogIsConsistent`, `EchoesReplaceTheRead`, `LockedPlansAreHeld`,
`ArchivedAreasAreHeld` and the refinement `LockingImplementsRegistry`, whatever versions clients send.

The argument.  All the rows of an area or a plan that the table, the log or a handler holds (`Seen`) are told apart by their
versions, and none is later than the present one (`Key`).  Each step keeps this, since rows only go
forward (`Forward`): a step leaves a row or gives it a higher version, so the row an UPDATE writes differs from all that were seen
(`KeyLasts`).  A row in the table with a version no later than that of the read is then the read (`ReadIsPast`), and what an
echoed version matches is what the check looked at (`MatchIsRead`), though the WHERE clause does not repeat the check.
The clients of other requests may send what they like: whatever their UPDATEs replace, the versions ascend.  That
Lock's WHERE clause asks for a draft gives that a plan is locked once (`OneLock`: one lock is committed or logged, not
both and not two), and that Update leaves the state alone gives that it stays so.

**Gaps.**  `CoverageGapProofs`: `TypeCorrect`, `SourcesStayProcessed`, `DetectionIsIdempotent`, `ReviewsAreCounted`, `NotesAreNotLost`.

The argument.  Detect holds nothing still between reading the runs and the INSERT, but the registry never takes a processing back
and never edits what a checksum is made of: what was `Vouched` for once is so for good.  The hash contains the checksums, which
tell the runs apart, so a hash names one set of runs, and the unique index one gap (`HashIsKey`).  Of a
review the WHERE clause compares the state of the read with the row's; a version tells how far a review has come (`VersionsOf`), and only
"closed", which leads nowhere, is reached in two versions: a row that matches is the row read.

**The runs page.**  `RunStoreProofs`: `TypeCorrect`, `RowsAreDistinct`, `PageShowsWhatWas`, `ClicksActOnWhatIsShown`, `OffersAreKept`,
for any number of runs and of calls in flight and any length of a page.

The argument.  A row that was read of a run is its present row or one of an earlier version that differs in nothing else but the state
(`Known`).  Each step of the registry keeps this, for every row on the page and under way to it, however late it arrives; and an earlier row can neither be
acted on nor be refused without cause, since its version says that it is earlier.

**The rate limiter.**  `RateLimiterProofs`: `TypeCorrect`, `BurstsAreBounded`, `RefusalsHaveCause`, for any number of clients and slots, any capacity,
window and crowd.

The argument is one client's alone (`Fair`).  Of a burst, the requests that come and are answered within one window's length from some time on, at most
two windows of the map take part: while it may still grow, it has not begun, or all of it is counted in the window that is open, or
that window is its second and counts what exceeds a capacity (`Calm`).  The purge drops only windows older than any burst that may still grow, although
it measures them with the stale time of whoever runs it.  A window's count was granted after it opened (`Backed`), which gives a refusal its cause.

**Coverage.**  `SurveyProofs`: `SurveyTyped`, `ResultsAreMeasured`, `PlansCover`, `RecommendationsClose`, `BordersExact`,
`PlansAdvance`, for every boundary, every set of tracks, spacings, swaths and resolutions, every width of ints and precision
of floats.

The argument.  The sampling loop has an invariant: its counters and its box are those of the centres it has passed (`Seen`), and
a step adds one cell to them (`SeenCell`, `OneMore`, `WidenedBox`).  That a box has least and greatest coordinates is a fact about finite
sets, for which the library's well-foundedness of strict inclusion stands in for induction (`FiniteHasEnds`).  A grid whose columns or rows do not
fit an int may be anything an int can be, but one that has cells at all is `FullGrid`, so two calculations of one resolution sample the same cells;
the recommended line reaches all of the box that it was made for (`RecommendedReaches`), so a later calculation misses none.
For `PlansCover`, additions of coordinates that are `Exact` are exact (`FlExact`), so the lines are `Spaced`: each point from the near edge up to half a spacing past
the last line is within half a spacing of one.  A centre inside the boundary is inside its bounds (`InsideBounds`: the edge that its
ray crosses ends beyond it), and so past the last line by at most a spacing.

`BordersExact` is about any boundary of one ring, of any number of corners, that is cut along a line between two of them. The
corners of the parts are those of the ring moved by a constant (`OutCorners`, `OffCorners`), so a ray crosses of the parts
the edges it crosses of the ring and besides, for both parts or for neither, the cut: counted together the cut leaves odd
what was odd, so a point of the ring is in just one part and any other in both or none (`CutContains`).  That the test of an
edge is closed at one end only is what makes the cut cross alike both ways (`CrossesBothWays`). The area of a ring is a fold
over its edges.  That a fold has a value, takes an element out and splits into the folds over two parts (`SumsExist`,
`SumTakesOut`, `SumOfUnion`) is again well-foundedness in place of induction: of the subsets for which an equation fails one
would be minimal.  The two sums have the cut once forth and once back (`CutArea`).  Areas are absolute values, and add up
only if neither part is turned round, which `Halved` asks: a line that leaves the ring cuts no area in two.

`PlansAdvance` proves `LayingAdvances`, the step that `GenerationEnds` rests on: the loop takes no step back and, while
floats at the far edge are as close as the lines, none that is absorbed.  The run `survey` checks what it is for, not the
step by itself.  It and `SurveyTyped` are about boundaries at any distance from the origin, where additions are rounded.  A
power of two counts the subsets of a set (`PowerDoubles`, `PowerAdds`), so there is a least exponent at which a number fits a
significand (`UlpIs`).  Rounding gives a float (`FlFloats`) and never passes one (`FlAbove`), and from a float that is no
further out than the far edge the next one is at most a spacing away (`NextFloat`): so no addition is absorbed while the
request is `Resolvable`.  That the variable of the loop is a float is the invariant this needs (`LayingInv`); the first line,
half a spacing in, may be rounded to before the near edge, so the invariant bounds it by the floats as close as those at the
far edge. For its type the counters of the sampling loop must stay in order (`TalliesOrdered`) and its place within a grid
that an int holds (`GridFits`), and a run beyond `MaxRuns` must be the recommended one (`RunsInv`).

**The process.**  `ServerProofs` proves for any accounts, seed, routes, roles and numbers of requests, changes and starts
the four invariants of `server`: `TypeCorrect`, `ServiceIsForTheEntitled`, `BarsHold` and `ShutdownsAreOrderly`.

The argument.  `ServedWereEntitled` looks at a handler whose account may have changed long ago, so
the invariant must say what Auth knew.  `HeldIsCurrent`: a request in flight has among its `held` at least the role its
account actively has now; arrival sets it, `ChangeAccount` adds to it, and the seed, which also writes accounts,
finds no request in flight (`TypeOK`).  What Auth finds in the table is therefore held, and stays so
(`ServedAreAllowed`, with the route's roles).  `BarredStayOut` rests on FirstOrCreate alone: an account that is
barred exists, so the seed leaves it.  `OpenWhileServing` says that a process that may accept a request has its
database open; that `CloseDatabase` waits for requests, and `Exit("clean")` comes after it, gives `ShutdownIsOrderly`.

Model-checked only: liveness (`GenerationEnds`, `SignalEndsProcess`, `LoadingEnds`), which is out of the prover's reach, and the four violations, which
are counterexamples.  Of `GenerationEnds`, `PlansAdvance` proves the step that it rests on.
The inductive invariants were checked by TLC on the instances of the runs before they were proved.

## Not modelled

Listings and summaries (they only read); request ids, CORS, logging and the shape of answers; parsing and writing GeoJSON; the
length of a track and the severity of a ratio, which are single expressions.  Of the frontend: the session store (a late 401, or a late answer
to restore, ends a session that was opened meanwhile); the stores of areas, plans and gaps, which are
built like that of the runs, but take what they have created into the list without looking whether it is there; the other
pages.  A restart of the process empties the rate limiter's map: `RateLimiter`
is about one run of the process, and across a restart a client may be admitted one capacity more.

## Plan

1. `BordersAreExact` for boundaries with holes, where a cut may join an outer ring and an inner one.
2. Models that may follow: the session store; `CoverageGap` over `SonarRun` itself, in a tiny instance, in place of `RunRegistry`.
