----------------------------- MODULE RateLimiter -----------------------------
(***************************************************************************)
(* RateLimiter.Middleware: a fixed window per client in a map under a      *)
(* mutex.  A request reads the time before it gets the mutex, so it may    *)
(* decide on a time that others have left behind, and requests decide in   *)
(* an order that need not be the order of their times.                     *)
(*                                                                         *)
(* One limiter during one run of the process: its map starts empty.        *)
(***************************************************************************)
EXTENDS Naturals, FiniteSets, Sequences

CONSTANTS
  Clients,   \* keys of the map: a scope with the client's address
  Slots,     \* requests that may be waiting for the mutex together
  Capacity,  \* requests a window admits
  Window,    \* its length in ticks of the clock
  Crowd,     \* the size of the map above which old windows are dropped (2000)
  MaxTime,   \* bound: the clock stops here
  None       \* no window, no request

ASSUME LimiterAssumption ==
  /\ Capacity \in Nat \ {0}
  /\ Window \in Nat \ {0}
  /\ Crowd \in Nat
  /\ MaxTime \in Nat

VARIABLES
  clock,     \* the time
  clients,   \* the window each client is in
  waiting,   \* the client and the time each slot brings to the mutex
  admitted   \* for each client, its admissions in their order: when asked, when granted

vars == <<clock, clients, waiting, admitted>>

WindowRow == [started : 0..MaxTime, count : 1..(Capacity + 1)]
Request == [client : Clients, now : 0..MaxTime]

(* No window is no window, no request no request. *)
ASSUME NoneAssumption == None \notin WindowRow /\ None \notin Request

Init ==
  /\ clock = 0
  /\ clients = [c \in Clients |-> None]
  /\ waiting = [p \in Slots |-> None]
  /\ admitted = [c \in Clients |-> << >>]

Tick ==
  /\ clock < MaxTime
  /\ clock' = clock + 1
  /\ UNCHANGED <<clients, waiting, admitted>>

Arrive(p, c) ==
  /\ waiting[p] = None
  /\ waiting' = [waiting EXCEPT ![p] = [client |-> c, now |-> clock]]
  /\ UNCHANGED <<clock, clients, admitted>>

(* now.Sub(started) of a window that starts after now is negative. *)
Elapsed(row, now) == IF row.started <= now THEN now - row.started ELSE 0

(* A slip: a window is over one tick late. *)
OverLate(row, now) == row = None \/ Elapsed(row, now) > Window
Over(row, now) == row = None \/ Elapsed(row, now) >= Window

(* A slip: the request that opens a window is not counted in it. *)
CountedFromZero(row, now) ==
  IF Over(row, now) THEN [started |-> now, count |-> 0]
  ELSE [row EXCEPT !.count = IF @ > Capacity THEN @ ELSE @ + 1]

(* The count stays where it is once it is above Capacity: no test sees more. *)
Counted(row, now) ==
  IF Over(row, now) THEN [started |-> now, count |-> 1]
  ELSE [row EXCEPT !.count = IF @ > Capacity THEN @ ELSE @ + 1]

(* A slip: a crowded map is emptied but for the client at hand. *)
PurgedAll(windows, c, now) ==
  IF Cardinality({d \in Clients : windows[d] # None}) > Crowd
    THEN [d \in Clients |-> IF d = c THEN windows[d] ELSE None]
    ELSE windows
Purged(windows, c, now) ==
  IF Cardinality({d \in Clients : windows[d] # None}) > Crowd
    THEN [d \in Clients |-> IF windows[d] # None /\ Elapsed(windows[d], now) > 2 * Window
                              THEN None ELSE windows[d]]
    ELSE windows

Admits(row) == row.count <= Capacity

(* From Lock to Unlock, and the answer. *)
Decide(p) ==
  /\ waiting[p] # None
  /\ LET c == waiting[p].client
         now == waiting[p].now
         row == Counted(clients[c], now)
     IN /\ clients' = Purged([clients EXCEPT ![c] = row], c, now)
        /\ admitted' = IF Admits(row)
                         THEN [admitted EXCEPT ![c] = Append(@, [asked |-> now, granted |-> clock])]
                         ELSE admitted
  /\ waiting' = [waiting EXCEPT ![p] = None]
  /\ UNCHANGED clock

Next ==
  \/ Tick
  \/ \E p \in Slots, c \in Clients : Arrive(p, c)
  \/ \E p \in Slots : Decide(p)

Spec == Init /\ [][Next]_vars

-----------------------------------------------------------------------------
(* Properties *)

(* Every variable has its type, and no window starts in the future. *)
TypeOK ==
  /\ clock \in 0..MaxTime
  /\ \A c \in Clients :
       /\ clients[c] \in WindowRow \cup {None}
       /\ clients[c] # None => clients[c].started <= clock
  /\ waiting \in [Slots -> [client : Clients, now : 0..clock] \cup {None}]

(* How many of a client's admissions satisfy Test. *)
Admissions(c, Test(_)) ==
  Cardinality({i \in DOMAIN admitted[c] : Test(admitted[c][i])})

(* The cap a fixed window gives: of the requests that come and are answered  *)
(* within one window's length, wherever it begins, no more than two windows' *)
(* worth is admitted, in whatever order they get the mutex and whichever     *)
(* windows the purge drops.                                                  *)
BurstBounded ==
  \A c \in Clients, from \in 0..clock :
    Admissions(c, LAMBDA a : a.asked >= from /\ a.granted < from + Window) <= 2 * Capacity

(* Retry-After keeps its word: a request is refused only for the sake of a   *)
(* whole Capacity of the same client's that was granted less than a window   *)
(* before it came.  So a client that stays away for as long as the 429 says  *)
(* is admitted, unless others use its address.                               *)
RefusedForCause ==
  [][\A p \in Slots :
       LET c == waiting[p].client IN
       waiting[p] # None /\ waiting'[p] = None /\ admitted' = admitted =>
         Admissions(c, LAMBDA a : a.granted + Window > waiting[p].now) >= Capacity]_vars
=============================================================================
