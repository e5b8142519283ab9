----------------------------- MODULE ServerProofs -----------------------------
(***************************************************************************)
(* For any accounts, roles, routes and number of requests, and without the *)
(* bounds of the run: who is served was entitled to it, who was barred     *)
(* stays out, and a shutdown is orderly.                                   *)
(*                                                                         *)
(* Three facts carry the proof.  No request is in flight while the seed    *)
(* writes accounts (TypeOK).  A request has in its "held" at least the     *)
(* role its account actively has now, so what Auth finds there is in it    *)
(* (HeldIsCurrent).  And a process that may accept a request has its       *)
(* database open (OpenWhileServing).                                       *)
(***************************************************************************)
EXTENDS Server, TLAPS

HeldIsCurrent ==
  \A p \in Slots : pc[p] # "idle" => ActiveRole(request[p].token.account) \subseteq held[p]

ServedAreAllowed ==
  \A p \in Slots : pc[p] = "handling" =>
    /\ request[p].token.role \in held[p]
    /\ request[p].token.role \in Allowed(request[p].route)

OpenWhileServing == process \in {"starting", "serving"} => database = "open"

IInv ==
  /\ TypeOK
  /\ HeldIsCurrent
  /\ ServedAreAllowed
  /\ BarredStayOut
  /\ OpenWhileServing
  /\ ShutdownIsOrderly

LEMMA SeedLength == Len(SeedOrder) \in Nat
  BY ServerAssumption

(* A request in flight is a request. *)
LEMMA InFlightTyped ==
  ASSUME TypeOK, NEW p \in Slots, pc[p] # "idle"
  PROVE  request[p] \in Request
  BY DEF TypeOK

LEMMA ActiveRoleTyped ==
  ASSUME TypeOK, NEW u \in Accounts
  PROVE  ActiveRole(u) \subseteq Roles
  BY DEF ActiveRole, TypeOK, UserRow

LEMMA InitEstablishes == Init => IInv
<1> SUFFICES ASSUME Init PROVE IInv
  OBVIOUS
<1>1. TypeOK
  <2>1. seeded \in 0..Len(SeedOrder)
    BY SeedLength DEF Init
  <2>2. users \in [Accounts -> UserRow \cup {None}] /\ request \in [Slots -> Request \cup {None}]
    BY DEF Init
  <2>3. InFlight = {} /\ \A p \in Slots : request[p] = None <=> pc[p] = "idle"
    BY DEF Init, InFlight
  <2>4. pc \in [Slots -> {"idle", "lookup", "handling", "login"}] /\ held \in [Slots -> SUBSET Roles]
    BY DEF Init
  <2> QED
    BY <2>1, <2>2, <2>3, <2>4 DEF Init, TypeOK
<1>2. HeldIsCurrent /\ ServedAreAllowed
  BY DEF Init, HeldIsCurrent, ServedAreAllowed
<1>3. BarredStayOut /\ OpenWhileServing /\ ShutdownIsOrderly
  BY DEF Init, BarredStayOut, OpenWhileServing, ShutdownIsOrderly, InFlight
<1> QED
  BY <1>1, <1>2, <1>3 DEF IInv

-----------------------------------------------------------------------------
(* The steps of the process *)

(* Steps that touch neither a request nor an account. *)
LEMMA ProcessKeeps ==
  ASSUME IInv, UNCHANGED <<pc, request, held, users, barred, tokens>>,
         seeded' \in 0..Len(SeedOrder), code' \in {None, code},
         \/ Start \/ Listen \/ Signal \/ CloseDatabase
  PROVE  IInv'
<1> USE DEF IInv, InFlight
<1>1. TypeOK'
  BY DEF TypeOK, Start, Listen, Signal, CloseDatabase, requests, accounts
<1>2. HeldIsCurrent' /\ ServedAreAllowed'
  BY DEF HeldIsCurrent, ServedAreAllowed, ActiveRole
<1>3. BarredStayOut'
  BY DEF BarredStayOut
<1>4. OpenWhileServing'
  BY DEF OpenWhileServing, Start, Listen, Signal, CloseDatabase
<1>5. ShutdownIsOrderly'
  BY DEF ShutdownIsOrderly, TypeOK, Start, Listen, Signal, CloseDatabase, requests
<1> QED
  BY <1>1, <1>2, <1>3, <1>4, <1>5

(* The seed writes an account where there is none, and nobody is in flight. *)
LEMMA SeedKeeps == IInv /\ SeedAccount => IInv'
<1> SUFFICES ASSUME IInv, SeedAccount PROVE IInv'
  OBVIOUS
<1> USE DEF IInv, SeedAccount, requests
<1> DEFINE u == SeedOrder[seeded + 1]
<1>1. u \in Accounts
  BY ServerAssumption, SeedLength DEF TypeOK
<1>2. Seeded(u) \in UserRow
  BY <1>1, ServerAssumption DEF Seeded, TypeOK, UserRow
<1>3. TypeOK'
  <2>1. users' \in [Accounts -> UserRow \cup {None}]
    BY <1>1, <1>2 DEF TypeOK
  <2>2. seeded' \in 0..Len(SeedOrder)
    BY SeedLength DEF TypeOK
  <2> QED
    BY <2>1, <2>2 DEF TypeOK, InFlight
<1>4. \A p \in Slots : pc[p] = "idle"
  BY DEF TypeOK, InFlight
<1>5. HeldIsCurrent' /\ ServedAreAllowed'
  BY <1>4 DEF HeldIsCurrent, ServedAreAllowed
<1>6. BarredStayOut'
  BY <1>1 DEF BarredStayOut, Seeded, TypeOK
<1>7. OpenWhileServing' /\ ShutdownIsOrderly'
  BY DEF OpenWhileServing, ShutdownIsOrderly, InFlight
<1> QED
  BY <1>3, <1>5, <1>6, <1>7

(* A process that ends takes its requests along; it says "clean" only when   *)
(* the argument does.                                                        *)
LEMMA ExitKeeps ==
  ASSUME IInv, NEW how \in {"clean", "failed", "killed"}, Exit(how),
         how = "clean" => InFlight = {}
  PROVE  IInv'
<1> USE DEF IInv, Exit, accounts
<1>1. TypeOK'
  BY DEF TypeOK, InFlight
<1>2. HeldIsCurrent' /\ ServedAreAllowed'
  BY DEF HeldIsCurrent, ServedAreAllowed
<1>3. BarredStayOut' /\ OpenWhileServing'
  BY DEF BarredStayOut, OpenWhileServing
<1>4. ShutdownIsOrderly'
  BY DEF ShutdownIsOrderly, InFlight
<1> QED
  BY <1>1, <1>2, <1>3, <1>4

-----------------------------------------------------------------------------
(* The steps of a request *)

(* A request comes in, with the role its account actively has.  *)
LEMMA ArrivalKeeps ==
  ASSUME IInv, NEW p \in Slots, process = "serving",
         NEW q \in Request, NEW step \in {"lookup", "login"},
         NEW roles \in SUBSET Roles, ActiveRole(q.token.account) \subseteq roles,
         pc' = [pc EXCEPT ![p] = step], request' = [request EXCEPT ![p] = q],
         held' = [held EXCEPT ![p] = roles],
         UNCHANGED <<life, cut, accounts, tokens>>
  PROVE  IInv'
<1> USE DEF IInv, life, accounts
<1>1. TypeOK'
  BY ServerAssumption DEF TypeOK, InFlight
<1>2. HeldIsCurrent'
  BY DEF HeldIsCurrent, ActiveRole, TypeOK
<1>3. ServedAreAllowed'
  BY DEF ServedAreAllowed, TypeOK
<1>4. BarredStayOut' /\ OpenWhileServing'
  BY DEF BarredStayOut, OpenWhileServing
<1>5. ShutdownIsOrderly'
  BY DEF ShutdownIsOrderly, OpenWhileServing
<1> QED
  BY <1>1, <1>2, <1>3, <1>4, <1>5

LEMMA ArriveKeeps == ASSUME IInv, NEW p \in Slots, Arrive(p) PROVE IInv'
<1>1. PICK route \in Routes, token \in tokens :
        /\ request' = [request EXCEPT ![p] = [route |-> route, token |-> token]]
        /\ held' = [held EXCEPT ![p] = ActiveRole(token.account)]
  BY DEF Arrive
<1> DEFINE q == [route |-> route, token |-> token]
<1>2. q \in Request /\ q.token.account \in Accounts
  BY DEF IInv, TypeOK, Request, Token
<1>3. ActiveRole(q.token.account) \in SUBSET Roles
  BY <1>2, ActiveRoleTyped DEF IInv
<1> QED
  BY <1>1, <1>2, <1>3, ArrivalKeeps DEF Arrive, Goto

LEMMA ArriveLoginKeeps == ASSUME IInv, NEW p \in Slots, ArriveLogin(p) PROVE IInv'
<1>1. PICK u \in Accounts : \E role \in ActiveRole(u) :
        /\ request' = [request EXCEPT ![p] =
                         [route |-> "login", token |-> [account |-> u, role |-> role]]]
        /\ held' = [held EXCEPT ![p] = {role}]
  BY DEF ArriveLogin
<1>2. PICK role \in ActiveRole(u) :
        /\ request' = [request EXCEPT ![p] =
                         [route |-> "login", token |-> [account |-> u, role |-> role]]]
        /\ held' = [held EXCEPT ![p] = {role}]
  BY <1>1
<1> DEFINE q == [route |-> "login", token |-> [account |-> u, role |-> role]]
<1>3. role \in Roles
  BY ActiveRoleTyped DEF IInv
<1>4. q \in Request /\ q.token.account = u
  BY <1>3 DEF Request, Token
<1>5. ActiveRole(u) \subseteq {role}
  BY DEF ActiveRole
<1>6. {role} \in SUBSET Roles
  BY <1>3
<1> HIDE DEF q
<1>7. request' = [request EXCEPT ![p] = q]
  BY <1>2 DEF q
<1> QED
  BY <1>2, <1>4, <1>5, <1>6, <1>7, ArrivalKeeps DEF ArriveLogin, Goto

LEMMA AnswerKeeps ==
  ASSUME IInv, NEW p \in Slots, Answer(p), UNCHANGED <<life, accounts>>,
         tokens' \subseteq Token
  PROVE  IInv'
<1> USE DEF IInv, Answer, Goto, life, accounts
<1>1. TypeOK'
  BY DEF TypeOK, InFlight
<1>2. HeldIsCurrent' /\ ServedAreAllowed'
  BY DEF HeldIsCurrent, ServedAreAllowed, ActiveRole, TypeOK
<1>3. BarredStayOut' /\ OpenWhileServing'
  BY DEF BarredStayOut, OpenWhileServing
<1>4. ShutdownIsOrderly'
  BY DEF ShutdownIsOrderly, InFlight, TypeOK
<1> QED
  BY <1>1, <1>2, <1>3, <1>4

(* Auth finds the role in the table, and what is in the table is held. *)
LEMMA AuthoriseKeeps == ASSUME IInv, NEW p \in Slots, Authorise(p) PROVE IInv'
<1>1. CASE Answer(p)
  BY <1>1, AnswerKeeps DEF Authorise, life, accounts, IInv, TypeOK
<1>2. CASE /\ Recognised(request[p].token)
           /\ request[p].token.role \in Allowed(request[p].route)
           /\ Goto(p, "handling") /\ UNCHANGED <<request, held, cut>>
  <2> USE <1>2 DEF IInv, Authorise, Goto, life, accounts
  <2>1. TypeOK'
    BY DEF TypeOK, InFlight
  <2>2. HeldIsCurrent'
    BY DEF HeldIsCurrent, ActiveRole, TypeOK
  <2>3. request[p].token.role \in held[p]
    BY DEF HeldIsCurrent, Recognised
  <2>4. ServedAreAllowed'
    BY <2>3 DEF ServedAreAllowed, Allowed, TypeOK
  <2>5. BarredStayOut' /\ OpenWhileServing'
    BY DEF BarredStayOut, OpenWhileServing
  <2>6. ShutdownIsOrderly'
    BY DEF ShutdownIsOrderly, InFlight, TypeOK
  <2> QED
    BY <2>1, <2>2, <2>4, <2>5, <2>6
<1> QED
  BY <1>1, <1>2 DEF Authorise

LEMMA ProceedKeeps == ASSUME IInv, NEW p \in Slots, Proceed(p) PROVE IInv'
<1>1. tokens \subseteq Token
  BY DEF IInv, TypeOK
<1>2. CASE Authorise(p)
  BY <1>2, AuthoriseKeeps
<1>3. CASE RefuseTooMany(p) \/ FinishHandling(p) \/ RefuseLogin(p)
  BY <1>1, <1>3, AnswerKeeps DEF RefuseTooMany, FinishHandling, RefuseLogin, accounts, life
<1>4. CASE IssueToken(p)
  <2>1. request[p].token \in Token
    BY <1>4, InFlightTyped DEF IInv, IssueToken, Request
  <2> QED
    BY <1>1, <1>4, <2>1, AnswerKeeps DEF IssueToken, accounts, life
<1> QED
  BY <1>2, <1>3, <1>4 DEF Proceed

-----------------------------------------------------------------------------
(* The steps from outside *)

LEMMA ExpireKeeps == IInv /\ ExpireToken => IInv'
<1> SUFFICES ASSUME IInv, ExpireToken PROVE IInv'
  OBVIOUS
<1> USE DEF IInv, ExpireToken, life, requests, accounts
<1>1. TypeOK'
  BY DEF TypeOK, InFlight
<1>2. HeldIsCurrent' /\ ServedAreAllowed'
  BY DEF HeldIsCurrent, ServedAreAllowed, ActiveRole
<1>3. BarredStayOut' /\ OpenWhileServing' /\ ShutdownIsOrderly'
  BY DEF BarredStayOut, OpenWhileServing, ShutdownIsOrderly, InFlight
<1> QED
  BY <1>1, <1>2, <1>3

(* A role that is given to an account is held by its requests from then on. *)
LEMMA ChangeKeeps == IInv /\ ChangeAccount => IInv'
<1> SUFFICES ASSUME IInv, ChangeAccount PROVE IInv'
  OBVIOUS
<1> USE DEF IInv, life
<1> DEFINE Changed(u, row) ==
      /\ users' = [users EXCEPT ![u] = row]
      /\ barred' = IF row.active THEN barred \ {u} ELSE barred \cup {u}
      /\ held' = [p \in Slots |->
                    IF pc[p] # "idle" /\ request[p].token.account = u /\ row.active
                      THEN held[p] \cup {row.role} ELSE held[p]]
<1>a. PICK u \in {v \in Accounts : users[v] # None} :
        \E row \in [role : Assignable \cup {users[u].role}, active : BOOLEAN] : Changed(u, row)
  BY DEF ChangeAccount
<1>1. PICK row \in [role : Assignable \cup {users[u].role}, active : BOOLEAN] : Changed(u, row)
  BY <1>a
<1>2. u \in Accounts /\ users[u] \in UserRow
  BY DEF TypeOK
<1>3. row \in UserRow
  BY <1>2, ServerAssumption DEF UserRow
<1>4. row # None
  BY <1>3, ServerAssumption
<1>5. UNCHANGED <<life, pc, request, cut, tokens>>
  BY DEF ChangeAccount
<1>6. TypeOK'
  <2>1. users' \in [Accounts -> UserRow \cup {None}]
    BY <1>1, <1>2, <1>3 DEF TypeOK
  <2>2. held' \in [Slots -> SUBSET Roles]
    BY <1>1, <1>3 DEF TypeOK, UserRow
  <2>3. barred' \subseteq Accounts
    BY <1>1, <1>2 DEF TypeOK
  <2> QED
    BY <1>5, <2>1, <2>2, <2>3 DEF TypeOK, InFlight
<1>7. HeldIsCurrent'
  <2> SUFFICES ASSUME NEW p \in Slots, pc[p] # "idle",
                      NEW role \in ActiveRole(request[p].token.account)'
               PROVE  role \in held'[p]
    BY <1>5 DEF HeldIsCurrent
  <2>1. request[p].token.account \in Accounts
    BY InFlightTyped DEF Request, Token
  <2>2. CASE request[p].token.account = u
    BY <1>1, <1>2, <1>4, <1>5, <2>2 DEF ActiveRole, TypeOK
  <2>3. CASE request[p].token.account # u
    <3>1. role \in ActiveRole(request[p].token.account)
      BY <1>1, <1>5, <2>1, <2>3 DEF ActiveRole, TypeOK
    <3> QED
      BY <1>1, <2>3, <3>1 DEF HeldIsCurrent
  <2> QED
    BY <2>2, <2>3
<1>8. ServedAreAllowed'
  BY <1>1, <1>5 DEF ServedAreAllowed, Allowed
<1>9. BarredStayOut'
  BY <1>1, <1>2, <1>4 DEF BarredStayOut, TypeOK
<1>10. OpenWhileServing' /\ ShutdownIsOrderly'
  BY <1>5 DEF OpenWhileServing, ShutdownIsOrderly, InFlight
<1> QED
  BY <1>6, <1>7, <1>8, <1>9, <1>10

-----------------------------------------------------------------------------

LEMMA NextKeeps == IInv /\ [Next]_vars => IInv'
<1> SUFFICES ASSUME IInv, [Next]_vars PROVE IInv'
  OBVIOUS
<1>1. CASE Start
  <2>1. UNCHANGED <<pc, request, held, users, barred, tokens>> /\ code' = None
    BY <1>1 DEF Start, accounts
  <2>2. seeded' \in 0..Len(SeedOrder)
    BY <1>1, SeedLength DEF Start
  <2> QED
    BY <1>1, <2>1, <2>2, ProcessKeeps
<1>2. CASE SeedAccount
  BY <1>2, SeedKeeps
<1>3. CASE Listen \/ Signal \/ CloseDatabase
  BY <1>3, ProcessKeeps DEF Listen, Signal, CloseDatabase, requests, accounts, IInv, TypeOK
<1>4. CASE Stop
  <2>1. InFlight = {}
    BY <1>4 DEF IInv, Stop, ShutdownIsOrderly
  <2> QED
    BY <1>4, <2>1, ExitKeeps DEF Stop
<1>5. CASE DeadlineExpires \/ Crash
  BY <1>5, ExitKeeps DEF DeadlineExpires, Crash
<1>6. CASE \E p \in Slots : Arrive(p) \/ ArriveLogin(p) \/ Proceed(p)
  BY <1>6, ArriveKeeps, ArriveLoginKeeps, ProceedKeeps
<1>7. CASE ExpireToken
  BY <1>7, ExpireKeeps
<1>8. CASE ChangeAccount
  BY <1>8, ChangeKeeps
<1>9. CASE UNCHANGED vars
  <2> USE <1>9 DEF vars, life, requests, accounts, IInv
  <2>1. TypeOK'
    BY DEF TypeOK, InFlight
  <2>2. HeldIsCurrent' /\ ServedAreAllowed'
    BY DEF HeldIsCurrent, ServedAreAllowed, ActiveRole
  <2>3. BarredStayOut' /\ OpenWhileServing' /\ ShutdownIsOrderly'
    BY DEF BarredStayOut, OpenWhileServing, ShutdownIsOrderly, InFlight
  <2> QED
    BY <2>1, <2>2, <2>3
<1> QED
  BY <1>1, <1>2, <1>3, <1>4, <1>5, <1>6, <1>7, <1>8, <1>9 DEF Next, ShutDown

(* The invariant holds in every reachable state: whatever handlers, the    *)
(* administrator and the process's starts and stops do, in any order.      *)
THEOREM Inductive == Spec => []IInv
<1> QED
  BY InitEstablishes, NextKeeps, PTL DEF Spec

(* Every variable of the server has its type in every reachable state, and   *)
(* requests are in flight only while it serves or drains.                    *)
THEOREM TypeCorrect == Spec => []TypeOK
<1>1. IInv => TypeOK
  BY DEF IInv
<1> QED
  BY <1>1, Inductive, PTL

(* Auth, RBAC and the table of routes: who is served was entitled to it.     *)
THEOREM ServiceIsForTheEntitled == Spec => []ServedWereEntitled
<1>1. IInv => ServedWereEntitled
  BY DEF IInv, ServedAreAllowed, ServedWereEntitled, Allowed
<1> QED
  BY <1>1, Inductive, PTL

(* No seed, login or restart lifts what an administrator has barred.         *)
THEOREM BarsHold == Spec => []BarredStayOut
<1>1. IInv => BarredStayOut
  BY DEF IInv
<1> QED
  BY <1>1, Inductive, PTL

(* main's shutdown: no request outlives its database, and an exit of 0 means *)
(* that every request was answered.                                          *)
THEOREM ShutdownsAreOrderly == Spec => []ShutdownIsOrderly
<1>1. IInv => ShutdownIsOrderly
  BY DEF IInv
<1> QED
  BY <1>1, Inductive, PTL
=============================================================================
