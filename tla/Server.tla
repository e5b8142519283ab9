------------------------------- MODULE Server -------------------------------
(***************************************************************************)
(* The life of the server process (cmd/server/main.go, config.OpenDatabase *)
(* and seed) and the way of a request through it (router.New, Auth, RBAC,  *)
(* Recovery, Login): what a handler does once it is reached is a matter of *)
(* the other modules, here it is one step called "handling".               *)
(*                                                                         *)
(* Accounts are written by the seed and, from outside of the program, by   *)
(* whoever administers the database.  The database outlives the process,   *)
(* and so do tokens: they are signed with a secret of the environment and  *)
(* kept by clients.                                                        *)
(***************************************************************************)
EXTENDS Naturals, Sequences, FiniteSets

CONSTANTS
  Accounts,     \* user names
  SeedOrder,    \* the accounts of seed(), in the order it writes them
  SeedRole,     \* the role it gives to each
  Assignable,   \* the roles that accounts are given later
  Routes,       \* protected routes with their methods
  Slots,        \* requests that may be in flight together
  MaxChanges,   \* bound: changes of accounts from outside
  MaxStarts,    \* bound: starts of the process
  None          \* no account, no request, no exit code

Roles == {"admin", "survey_planner", "data_processor", "reviewer", "auditor"}
UserRow == [role : Roles, active : BOOLEAN]
Token == [account : Accounts, role : Roles]
Request == [route : Routes \cup {"login"}, token : Token]

ASSUME ServerAssumption ==
  /\ SeedOrder \in Seq(Accounts)
  /\ SeedRole \in [Accounts -> Roles]
  /\ Assignable \subseteq Roles
  /\ MaxChanges \in Nat
  /\ MaxStarts \in Nat
  /\ None \notin UserRow \cup Request

VARIABLES
  process,   \* "down", "starting", "serving" or "draining"
  database,  \* the handle of the process: "closed" or "open"
  code,      \* how the last process ended: "clean", "failed", "killed"
  seeded,    \* accounts that seed() has been through
  users,     \* the table users
  tokens,    \* tokens that clients hold and whose eight hours are not over
  pc,        \* the step each request is at
  request,   \* what it asks, with its token
  held,      \* the roles its account actively held, at some time since it came
  cut,       \* whether the last process left a request without an answer
  barred,    \* the accounts that were deactivated and not activated since
  changes, starts   \* counters of the bounds

life == <<process, database, code, seeded, starts>>
requests == <<pc, request, held, cut>>
accounts == <<users, barred, changes>>
vars == <<life, requests, accounts, tokens>>

(* The groups of router.New, by who may pass RBAC. *)
Allowed(route) ==
  CASE route = "areas.write" -> {"admin", "survey_planner"}
    [] route = "runs.write" -> {"admin", "data_processor"}
    [] route = "gaps.transition" -> {"reviewer"}
    [] route = "audits.list" -> {"admin", "reviewer", "auditor"}
    [] OTHER -> Roles

InFlight == {p \in Slots : pc[p] # "idle"}

Init ==
  /\ process = "down"
  /\ database = "closed"
  /\ code = None
  /\ seeded = 0
  /\ users = [u \in Accounts |-> None]
  /\ tokens = {}
  /\ pc = [p \in Slots |-> "idle"]
  /\ request = [p \in Slots |-> None]
  /\ held = [p \in Slots |-> {}]
  /\ cut = FALSE
  /\ barred = {}
  /\ changes = 0
  /\ starts = 0

-----------------------------------------------------------------------------
(* The process *)

Start ==
  /\ process = "down"
  /\ starts < MaxStarts
  /\ process' = "starting"
  /\ database' = "open"
  /\ code' = None
  /\ seeded' = 0
  /\ starts' = starts + 1
  /\ cut' = FALSE
  /\ UNCHANGED <<pc, request, held, accounts, tokens>>

(* A slip: the seed writes its row over one that is there. *)
SeededOver(u) == [role |-> SeedRole[u], active |-> TRUE]
(* Where("username = ?").FirstOrCreate *)
Seeded(u) == IF users[u] # None THEN users[u] ELSE [role |-> SeedRole[u], active |-> TRUE]

SeedAccount ==
  /\ process = "starting"
  /\ seeded < Len(SeedOrder)
  /\ seeded' = seeded + 1
  /\ LET u == SeedOrder[seeded + 1] IN users' = [users EXCEPT ![u] = Seeded(u)]
  /\ UNCHANGED <<process, database, code, starts, requests, barred, changes, tokens>>

Listen ==
  /\ process = "starting"
  /\ seeded = Len(SeedOrder)
  /\ process' = "serving"
  /\ UNCHANGED <<database, code, seeded, starts, requests, accounts, tokens>>

(* SIGINT or SIGTERM: no new request is accepted. *)
Signal ==
  /\ process = "serving"
  /\ process' = "draining"
  /\ UNCHANGED <<database, code, seeded, starts, requests, accounts, tokens>>

(* The process is gone, and with it its handle and all it had in hand. *)
Exit(how) ==
  /\ process' = "down"
  /\ database' = "closed"
  /\ code' = how
  /\ pc' = [p \in Slots |-> "idle"]
  /\ request' = [p \in Slots |-> None]
  /\ held' = [p \in Slots |-> {}]
  /\ cut' = (InFlight # {})
  /\ UNCHANGED <<seeded, starts, accounts, tokens>>

(* Shutdown returns nil once nothing is in flight; the database is closed.   *)
(* A slip: it is closed beforehand, and the connections wind up after it.    *)
CloseEarly ==
  /\ process = "draining"
  /\ database' = "closed"
  /\ UNCHANGED <<process, code, seeded, starts, requests, accounts, tokens>>
CloseDatabase ==
  /\ process = "draining"
  /\ InFlight = {}
  /\ database' = "closed"
  /\ UNCHANGED <<process, code, seeded, starts, requests, accounts, tokens>>

Stop ==
  /\ process = "draining"
  /\ database = "closed"
  /\ Exit("clean")

(* A slip: Shutdown is given no deadline. *)
WaitOn ==
  /\ process = "draining"
  /\ InFlight # {}
  /\ UNCHANGED vars
(* Ten seconds are over: Shutdown returns an error and the process exits. *)
DeadlineExpires ==
  /\ process = "draining"
  /\ InFlight # {}
  /\ Exit("failed")

(* A signal before Notify, a database or a port that is not to be had, a     *)
(* kill, a fault.                                                            *)
Crash ==
  /\ process # "down"
  /\ Exit("killed")

-----------------------------------------------------------------------------
(* The way of a request *)

Goto(p, step) == pc' = [pc EXCEPT ![p] = step]

(* A slip: what was asked stays behind. *)
AnswerOnly(p) ==
  /\ Goto(p, "idle")
  /\ UNCHANGED <<request, held, cut>>
Answer(p) ==
  /\ Goto(p, "idle")
  /\ request' = [request EXCEPT ![p] = None]
  /\ held' = [held EXCEPT ![p] = {}]
  /\ UNCHANGED cut

ActiveRole(u) == IF users[u] # None /\ users[u].active THEN {users[u].role} ELSE {}

(* The only moment a token is looked at: what it says is true from here on.  *)
(* One that is expired, or missing, is answered 401 and changes nothing.     *)
Arrive(p) ==
  /\ process = "serving"
  /\ pc[p] = "idle"
  /\ \E route \in Routes, token \in tokens :
       /\ request' = [request EXCEPT ![p] = [route |-> route, token |-> token]]
       /\ held' = [held EXCEPT ![p] = ActiveRole(token.account)]
  /\ Goto(p, "lookup")
  /\ UNCHANGED <<life, cut, accounts, tokens>>

(* A slip: a deactivated account is found.                                   *)
RecognisedInactive(token) == users[token.account] # None /\ users[token.account].role = token.role
(* UserByID finds active accounts only; Parse compares the roles. *)
Recognised(token) == token.role \in ActiveRole(token.account)

(* Auth with its SELECT, and RBAC, which asks the token alone. *)
Authorise(p) ==
  /\ pc[p] = "lookup"
  /\ IF /\ Recognised(request[p].token)
        /\ request[p].token.role \in Allowed(request[p].route)
       THEN Goto(p, "handling") /\ UNCHANGED <<request, held, cut>>
       ELSE Answer(p)
  /\ UNCHANGED <<life, accounts, tokens>>

(* 429: the limiters of import and detection. *)
RefuseTooMany(p) ==
  /\ pc[p] = "lookup"
  /\ Recognised(request[p].token)
  /\ request[p].route = "runs.write"
  /\ Answer(p)
  /\ UNCHANGED <<life, accounts, tokens>>

(* The handler has answered, or panicked and Recovery has. *)
FinishHandling(p) ==
  /\ pc[p] = "handling"
  /\ Answer(p)
  /\ UNCHANGED <<life, accounts, tokens>>

(* Login finds the active account by its name; then bcrypt takes its time.   *)
ArriveLogin(p) ==
  /\ process = "serving"
  /\ pc[p] = "idle"
  /\ \E u \in Accounts : \E role \in ActiveRole(u) :
       /\ request' = [request EXCEPT ![p] = [route |-> "login", token |-> [account |-> u, role |-> role]]]
       /\ held' = [held EXCEPT ![p] = {role}]
  /\ Goto(p, "login")
  /\ UNCHANGED <<life, cut, accounts, tokens>>

RefuseLogin(p) ==
  /\ pc[p] = "login"
  /\ Answer(p)
  /\ UNCHANGED <<life, accounts, tokens>>

(* A token of eight hours with the role that was read. *)
IssueToken(p) ==
  /\ pc[p] = "login"
  /\ tokens' = tokens \cup {request[p].token}
  /\ Answer(p)
  /\ UNCHANGED <<life, accounts>>

-----------------------------------------------------------------------------
(* From outside *)

ExpireToken ==
  /\ \E token \in tokens : tokens' = tokens \ {token}
  /\ UNCHANGED <<life, requests, accounts>>

(* An administrator of the database changes an account. *)
ChangeAccount ==
  /\ changes < MaxChanges
  /\ changes' = changes + 1
  /\ \E u \in {v \in Accounts : users[v] # None} :
     \E row \in [role : Assignable \cup {users[u].role}, active : BOOLEAN] \ {users[u]} :
       /\ users' = [users EXCEPT ![u] = row]
       /\ barred' = IF row.active THEN barred \ {u} ELSE barred \cup {u}
       /\ held' = [p \in Slots |->
                     IF pc[p] # "idle" /\ request[p].token.account = u /\ row.active
                       THEN held[p] \cup {row.role} ELSE held[p]]
  /\ UNCHANGED <<life, pc, request, cut, tokens>>

-----------------------------------------------------------------------------

Proceed(p) ==
  \/ Authorise(p)
  \/ RefuseTooMany(p)
  \/ FinishHandling(p)
  \/ RefuseLogin(p)
  \/ IssueToken(p)

ShutDown == CloseDatabase \/ Stop \/ DeadlineExpires

Next ==
  \/ Start \/ SeedAccount \/ Listen \/ Signal \/ ShutDown \/ Crash
  \/ \E p \in Slots : Arrive(p) \/ ArriveLogin(p) \/ Proceed(p)
  \/ ExpireToken \/ ChangeAccount

(* The timer of Shutdown fires and main goes on; that a handler ever ends    *)
(* (see GenerationEnds in Transects.tla), that anybody starts, signals or    *)
(* asks, is not taken for granted.                                           *)
Spec == Init /\ [][Next]_vars /\ WF_vars(ShutDown)

-----------------------------------------------------------------------------
(* Properties *)

(* Every variable has its type, and only a process that serves or drains has *)
(* requests in flight.                                                       *)
TypeOK ==
  /\ process \in {"down", "starting", "serving", "draining"}
  /\ database \in {"closed", "open"}
  /\ code \in {None, "clean", "failed", "killed"}
  /\ seeded \in 0..Len(SeedOrder)
  /\ users \in [Accounts -> UserRow \cup {None}]
  /\ tokens \subseteq Token
  /\ pc \in [Slots -> {"idle", "lookup", "handling", "login"}]
  /\ request \in [Slots -> Request \cup {None}]
  /\ held \in [Slots -> SUBSET Roles]
  /\ cut \in BOOLEAN
  /\ barred \subseteq Accounts
  /\ \A p \in Slots : request[p] = None <=> pc[p] = "idle"
  /\ InFlight # {} => process \in {"serving", "draining"}

(* Whoever is served was entitled to it: a handler that runs, runs in a role *)
(* that the account actively held at some moment since the request came,     *)
(* whatever became of the account meanwhile and however old the token is;    *)
(* and, as the README says of the roles, only a reviewer moves a gap on and  *)
(* an auditor writes nothing.                                                *)
ServedWereEntitled ==
  \A p \in Slots : pc[p] = "handling" =>
    LET role == request[p].token.role IN
    /\ role \in held[p]
    /\ request[p].route = "gaps.transition" => role = "reviewer"
    /\ role = "auditor" => request[p].route \notin {"areas.write", "runs.write"}

(* An account that was barred stays barred until somebody lifts it: no       *)
(* restart gives it back, though each seeds the accounts again.              *)
BarredStayOut ==
  \A u \in barred : users[u] # None /\ ~users[u].active

(* A shutdown is orderly: no request finds the database closed under it, and *)
(* a process that exits with 0 has answered all it had accepted.             *)
ShutdownIsOrderly ==
  /\ InFlight # {} => database = "open"
  /\ code = "clean" => ~cut

(* Once told to stop, the process stops, though a handler may never end. *)
SignalEndsProcess == (process = "draining") ~> (process = "down")
=============================================================================
