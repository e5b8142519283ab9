--------------------------- MODULE RateLimiterProofs ---------------------------
(***************************************************************************)
(* Theorems about RateLimiter for every number of clients, every capacity, *)
(* window and size of the crowd, and every order in which the mutex is     *)
(* given away.                                                             *)
(*                                                                         *)
(* What a client may do depends on its own window and its own admissions   *)
(* only, so the invariant is stated of one client (Fair) and the steps are *)
(* four: time passes, the window is dropped, the client is admitted, it is *)
(* refused.                                                                *)
(***************************************************************************)
EXTENDS RateLimiter, FiniteSetTheorems, TLAPS

Grant == [asked : Nat, granted : Nat]

Typed ==
  /\ clock \in 0..MaxTime
  /\ clients \in [Clients -> WindowRow \cup {None}]
  /\ \A c \in Clients : clients[c] # None => clients[c].started <= clock
  /\ waiting \in [Slots -> [client : Clients, now : 0..clock] \cup {None}]
  /\ admitted \in [Clients -> Seq(Grant)]

Since(list, from) == {i \in DOMAIN list : list[i].granted >= from}
Burst(list, from) ==
  {i \in DOMAIN list : list[i].asked >= from /\ list[i].granted < from + Window}

(* What the present window has admitted, at least.                           *)
Spent(row) == IF Admits(row) THEN row.count ELSE Capacity

(* The admissions that a window accounts for were granted after it opened.   *)
Backed(row, list) == row # None => Cardinality(Since(list, row.started)) >= Spent(row)

(* While more of a burst may come: it has not begun, or it is in its first   *)
(* window or in its second, and that window is still in the map.             *)
Calm(row, list, time, from) ==
  LET n == Cardinality(Burst(list, from)) IN
  /\ n <= 2 * Capacity
  /\ time < from + Window =>
       \/ n = 0
       \/ row # None /\ row.started + Window > from /\ n <= Spent(row)
       \/ row # None /\ row.started >= from /\ n <= Capacity + Spent(row)

Fair(row, list, time) ==
  Backed(row, list) /\ \A from \in Nat : Calm(row, list, time, from)

IInv == Typed /\ \A c \in Clients : Fair(clients[c], admitted[c], clock)

-----------------------------------------------------------------------------
(* Counting admissions *)

LEMMA FiniteParts ==
  ASSUME NEW list \in Seq(Grant), NEW S, S \subseteq DOMAIN list
  PROVE  IsFiniteSet(S) /\ Cardinality(S) \in Nat /\ Len(list) + 1 \notin S
         /\ IsFiniteSet(S \cup {Len(list) + 1})
         /\ Cardinality(S \cup {Len(list) + 1}) = Cardinality(S) + 1
<1>1. DOMAIN list = 1..Len(list) /\ Len(list) \in Nat
  OBVIOUS
<1>2. IsFiniteSet(S)
  <2>1. IsFiniteSet(1..Len(list))
    BY <1>1, FS_Interval
  <2> QED
    BY <1>1, <2>1, FS_Subset
<1>3. Len(list) + 1 \notin S
  BY <1>1
<1>4. Cardinality(S) \in Nat
  BY <1>2, FS_CardinalityType, Zenon
<1> QED
  BY <1>2, <1>3, <1>4, FS_AddElement

LEMMA Appended ==
  ASSUME NEW list \in Seq(Grant), NEW a \in Grant
  PROVE  /\ Append(list, a) \in Seq(Grant)
         /\ DOMAIN Append(list, a) = DOMAIN list \cup {Len(list) + 1}
         /\ \A i \in DOMAIN list : Append(list, a)[i] = list[i]
         /\ Append(list, a)[Len(list) + 1] = a
         /\ Len(list) + 1 \notin DOMAIN list
         /\ Append(list, a) # list
<1>1. Len(list) \in Nat /\ DOMAIN list = 1..Len(list)
  OBVIOUS
<1>2. /\ Append(list, a) \in Seq(Grant) /\ Len(Append(list, a)) = Len(list) + 1
      /\ DOMAIN Append(list, a) = 1..(Len(list) + 1)
  OBVIOUS
<1>3. \A i \in 1..Len(list) : Append(list, a)[i] = list[i]
  OBVIOUS
<1>4. Append(list, a)[Len(list) + 1] = a
  OBVIOUS
<1>5. 1..(Len(list) + 1) = 1..Len(list) \cup {Len(list) + 1} /\ Len(list) + 1 \notin 1..Len(list)
  BY <1>1
<1>6. Append(list, a) # list
  <2> DEFINE longer == Append(list, a)
  <2>1. Len(longer) = Len(list) + 1
    BY <1>2
  <2> HIDE DEF longer
  <2>2. longer # list
    BY <1>1, <2>1
  <2> QED
    BY <2>2 DEF longer
<1> QED
  BY <1>1, <1>2, <1>3, <1>4, <1>5, <1>6, Zenon

LEMMA BurstAppended ==
  ASSUME NEW list \in Seq(Grant), NEW a \in Grant, NEW from \in Nat
  PROVE  /\ Cardinality(Burst(list, from)) \in Nat
         /\ Cardinality(Burst(Append(list, a), from)) =
              IF a.asked >= from /\ a.granted < from + Window
                THEN Cardinality(Burst(list, from)) + 1 ELSE Cardinality(Burst(list, from))
<1>1. Burst(list, from) \subseteq DOMAIN list
  BY DEF Burst
<1>2. Burst(Append(list, a), from) =
        IF a.asked >= from /\ a.granted < from + Window
          THEN Burst(list, from) \cup {Len(list) + 1} ELSE Burst(list, from)
  BY Appended DEF Burst
<1> QED
  BY <1>1, <1>2, FiniteParts

LEMMA SinceAppended ==
  ASSUME NEW list \in Seq(Grant), NEW a \in Grant, NEW from \in Nat, a.granted >= from
  PROVE  /\ Cardinality(Since(list, from)) \in Nat
         /\ Cardinality(Since(Append(list, a), from)) = Cardinality(Since(list, from)) + 1
<1>1. Since(list, from) \subseteq DOMAIN list
  BY DEF Since
<1>2. Since(Append(list, a), from) = Since(list, from) \cup {Len(list) + 1}
  BY Appended DEF Since
<1> QED
  BY <1>1, <1>2, FiniteParts

-----------------------------------------------------------------------------
(* Windows *)

LEMMA CountedRow ==
  ASSUME NEW row \in WindowRow \cup {None}, NEW now \in 0..MaxTime
  PROVE  /\ Counted(row, now) \in WindowRow /\ Counted(row, now) # None
         /\ Over(row, now) =>
              Counted(row, now).started = now /\ Counted(row, now).count = 1
         /\ ~Over(row, now) =>
              /\ row \in WindowRow /\ row # None /\ now < row.started + Window
              /\ Counted(row, now).started = row.started
              /\ Counted(row, now).count = IF row.count > Capacity THEN row.count ELSE row.count + 1
         /\ Over(row, now) /\ row # None => now >= row.started + Window
         /\ Elapsed(Counted(row, now), now) < Window
<1>1. CASE Over(row, now)
  <2>1. Counted(row, now) = [started |-> now, count |-> 1]
    BY <1>1 DEF Counted
  <2>2. Counted(row, now) \in WindowRow
    BY <2>1, LimiterAssumption DEF WindowRow
  <2>3. row # None => now >= row.started + Window
    BY <1>1, LimiterAssumption DEF Over, Elapsed, WindowRow
  <2>4. Elapsed(Counted(row, now), now) < Window
    BY <2>1, LimiterAssumption DEF Elapsed
  <2> QED
    BY <1>1, <2>1, <2>2, <2>3, <2>4, NoneAssumption
<1>2. CASE ~Over(row, now)
  <2>1. row \in WindowRow /\ row # None /\ Elapsed(row, now) < Window
    BY <1>2, LimiterAssumption DEF Over, Elapsed, WindowRow
  <2>2. now < row.started + Window
    BY <2>1, LimiterAssumption DEF Elapsed, WindowRow
  <2>3. Counted(row, now) = [row EXCEPT !.count = IF @ > Capacity THEN @ ELSE @ + 1]
    BY <1>2 DEF Counted
  <2>4. /\ Counted(row, now) \in WindowRow
        /\ Counted(row, now).started = row.started
        /\ Counted(row, now).count = IF row.count > Capacity THEN row.count ELSE row.count + 1
    BY <2>1, <2>3, LimiterAssumption DEF WindowRow
  <2>5. Elapsed(Counted(row, now), now) < Window
    BY <2>1, <2>4 DEF Elapsed
  <2> QED
    BY <1>2, <2>1, <2>2, <2>4, <2>5, NoneAssumption
<1> QED
  BY <1>1, <1>2

LEMMA SpentType ==
  ASSUME NEW row \in WindowRow
  PROVE  Spent(row) \in 1..Capacity /\ row.started \in Nat /\ row.count \in Nat
         /\ Capacity \in Nat /\ Window \in Nat /\ Window > 0
  BY LimiterAssumption DEF Spent, Admits, WindowRow

(* Time passes. *)
LEMMA TimePasses ==
  ASSUME NEW row \in WindowRow \cup {None}, NEW list, NEW time \in Nat, Fair(row, list, time)
  PROVE  Fair(row, list, time + 1)
<1>1. ASSUME NEW from \in Nat
      PROVE  Calm(row, list, time + 1, from)
  <2>1. Calm(row, list, time, from)
    BY DEF Fair
  <2>2. time + 1 < from + Window => time < from + Window
    BY LimiterAssumption
  <2> QED
    BY <2>1, <2>2 DEF Calm
<1> QED
  BY <1>1 DEF Fair

(* A window that is dropped is older than any burst that may still grow.     *)
LEMMA WindowDropped ==
  ASSUME NEW row \in WindowRow, NEW list, NEW time \in Nat, NEW now \in 0..time,
         Elapsed(row, now) > 2 * Window, Fair(row, list, time)
  PROVE  Fair(None, list, time)
<1>1. now > row.started + 2 * Window
  BY LimiterAssumption DEF Elapsed, WindowRow
<1>2. ASSUME NEW from \in Nat
      PROVE  Calm(None, list, time, from)
  <2>1. Calm(row, list, time, from)
    BY DEF Fair
  <2>2. time < from + Window => ~(row.started + Window > from) /\ ~(row.started >= from)
    BY <1>1, SpentType
  <2> QED
    BY <2>1, <2>2 DEF Calm
<1> QED
  BY <1>2 DEF Fair, Backed

(* The client is refused: its window has admitted all it may.                *)
LEMMA ClientRefused ==
  ASSUME NEW row \in WindowRow \cup {None}, NEW list, NEW time \in Nat,
         NEW now \in 0..MaxTime, ~Admits(Counted(row, now)), Fair(row, list, time)
  PROVE  /\ Fair(Counted(row, now), list, time)
         /\ row \in WindowRow /\ row # None /\ Spent(row) = Capacity
         /\ now < row.started + Window
<1> DEFINE new == Counted(row, now)
<1>1. new.count > Capacity /\ new \in WindowRow
  BY CountedRow, LimiterAssumption DEF Admits, WindowRow
<1>2. ~Over(row, now)
  BY <1>1, CountedRow, LimiterAssumption, SMTT(30)
<1>3. /\ row \in WindowRow /\ row # None /\ now < row.started + Window
      /\ new.started = row.started
      /\ new.count = IF row.count > Capacity THEN row.count ELSE row.count + 1
  BY <1>2, CountedRow
<1> HIDE DEF new
<1>4. row.count >= Capacity
  BY <1>1, <1>3, SpentType
<1>5. Spent(row) = Capacity /\ Spent(new) = Capacity
  BY <1>1, <1>3, <1>4, SpentType DEF Spent, Admits
<1>6. new # None
  BY <1>1, NoneAssumption
<1>7. Fair(new, list, time)
  BY <1>3, <1>5, <1>6 DEF Fair, Backed, Calm
<1> QED
  BY <1>3, <1>5, <1>7 DEF new

(* The client is admitted, into its window or into a new one.                *)
LEMMA ClientAdmitted ==
  ASSUME NEW row \in WindowRow \cup {None}, NEW list \in Seq(Grant), NEW time \in 0..MaxTime,
         NEW now \in 0..time, Admits(Counted(row, now)), Fair(row, list, time),
         row # None => row.started <= time
  PROVE  Fair(Counted(row, now), Append(list, [asked |-> now, granted |-> time]), time)
<1> DEFINE new == Counted(row, now)
           a == [asked |-> now, granted |-> time]
           longer == Append(list, a)
<1>1. a \in Grant /\ a.asked = now /\ a.granted = time /\ now \in 0..MaxTime
      /\ now \in Nat /\ time \in Nat /\ now <= time
  BY LimiterAssumption DEF Grant
<1>2. /\ new \in WindowRow /\ new # None
      /\ Over(row, now) => new.started = now /\ new.count = 1
      /\ ~Over(row, now) =>
           /\ row \in WindowRow /\ row # None /\ now < row.started + Window
           /\ new.started = row.started
           /\ new.count = IF row.count > Capacity THEN row.count ELSE row.count + 1
      /\ Over(row, now) /\ row # None => now >= row.started + Window
  BY <1>1, CountedRow
<1>3. Spent(new) = new.count
  BY DEF Spent
<1>4. new.count <= Capacity
  BY DEF Admits
<1> HIDE DEF new, a
<1>5. ~Over(row, now) => Spent(new) = Spent(row) + 1 /\ Spent(row) \in Nat
  BY <1>2, <1>3, <1>4, SpentType DEF Spent, Admits
<1>6. Over(row, now) => Spent(new) = 1
  BY <1>2, <1>3
<1>7. Backed(new, longer)
  <2>1. new.started \in Nat /\ time >= new.started
    BY <1>1, <1>2, SpentType
  <2>2. /\ Cardinality(Since(list, new.started)) \in Nat
        /\ Cardinality(Since(longer, new.started)) = Cardinality(Since(list, new.started)) + 1
    BY <1>1, <2>1, SinceAppended
  <2>3. ~Over(row, now) => Cardinality(Since(list, new.started)) >= Spent(row)
    BY <1>2 DEF Fair, Backed
  <2> QED
    BY <1>5, <1>6, <2>2, <2>3 DEF Backed
<1>8. ASSUME NEW from \in Nat
      PROVE  Calm(new, longer, time, from)
  <2> DEFINE n == Cardinality(Burst(list, from))
             m == Cardinality(Burst(longer, from))
  <2>1. /\ n \in Nat
        /\ m = IF now >= from /\ time < from + Window THEN n + 1 ELSE n
    BY <1>1, BurstAppended
  <2>2. /\ n <= 2 * Capacity
        /\ time < from + Window =>
             \/ n = 0
             \/ row # None /\ row.started + Window > from /\ n <= Spent(row)
             \/ row # None /\ row.started >= from /\ n <= Capacity + Spent(row)
    BY DEF Fair, Calm
  <2>3. /\ row # None => row \in WindowRow /\ row.started \in Nat /\ Spent(row) \in 1..Capacity
        /\ new.started \in Nat /\ Spent(new) \in 1..Capacity
        /\ Capacity \in Nat /\ Window \in Nat /\ Window > 0
    BY <1>2, SpentType
  <2> HIDE DEF n, m
  <2>4. ASSUME time < from + Window
        PROVE  /\ m <= 2 * Capacity
               /\ \/ m = 0
                  \/ new.started + Window > from /\ m <= Spent(new)
                  \/ new.started >= from /\ m <= Capacity + Spent(new)
    <3>1. CASE n = 0
      BY <1>1, <1>2, <1>5, <1>6, <2>1, <2>3, <2>4, <3>1, SMTT(30)
    <3>2. CASE row # None /\ row.started + Window > from /\ n <= Spent(row)
      <4>1. CASE Over(row, now)
        BY <1>1, <1>2, <1>6, <2>1, <2>3, <3>2, <4>1, SMTT(30)
      <4>2. CASE ~Over(row, now)
        BY <1>2, <1>5, <2>1, <2>3, <3>2, <4>2, SMTT(30)
      <4> QED
        BY <4>1, <4>2
    <3>3. CASE row # None /\ row.started >= from /\ n <= Capacity + Spent(row)
      <4>1. ~Over(row, now)
        BY <1>1, <1>2, <2>3, <2>4, <3>3, SMTT(30)
      <4> QED
        BY <1>2, <1>5, <2>1, <2>3, <3>3, <4>1, SMTT(30)
    <3> QED
      BY <2>2, <2>4, <3>1, <3>2, <3>3
  <2>5. ~(time < from + Window) => m <= 2 * Capacity
    BY <2>1, <2>2
  <2> QED
    BY <1>2, <2>4, <2>5 DEF Calm, m
<1> QED
  BY <1>7, <1>8 DEF Fair, new, a

-----------------------------------------------------------------------------
(* The steps *)

LEMMA PurgedWindows ==
  ASSUME NEW windows \in [Clients -> WindowRow \cup {None}], NEW c \in Clients, NEW now,
         NEW d \in Clients
  PROVE  /\ Purged(windows, c, now) \in [Clients -> WindowRow \cup {None}]
         /\ \/ Purged(windows, c, now)[d] = windows[d]
            \/ /\ windows[d] # None /\ Elapsed(windows[d], now) > 2 * Window
               /\ Purged(windows, c, now)[d] = None
<1>1. CASE Cardinality({o \in Clients : windows[o] # None}) > Crowd
  BY <1>1 DEF Purged
<1>2. CASE ~(Cardinality({o \in Clients : windows[o] # None}) > Crowd)
  BY <1>2 DEF Purged
<1> QED
  BY <1>1, <1>2

LEMMA InitEstablishes == Init => IInv
<1> SUFFICES ASSUME Init PROVE IInv
  OBVIOUS
<1>1. Typed
  BY LimiterAssumption DEF Init, Typed
<1>2. ASSUME NEW c \in Clients
      PROVE  Fair(clients[c], admitted[c], clock)
  <2>1. clients[c] = None /\ admitted[c] = << >>
    BY DEF Init
  <2>2. \A from \in Nat : Burst(<< >>, from) = {}
    BY DEF Burst
  <2>3. \A from \in Nat : Cardinality(Burst(<< >>, from)) = 0
    BY <2>2, FS_EmptySet
  <2>4. 0 <= 2 * Capacity
    BY LimiterAssumption
  <2>5. \A from \in Nat : Calm(None, << >>, clock, from)
    BY <2>3, <2>4 DEF Calm
  <2> QED
    BY <2>1, <2>5 DEF Fair, Backed
<1> QED
  BY <1>1, <1>2 DEF IInv

LEMMA TickKeeps == ASSUME IInv, Tick PROVE IInv'
<1>1. clock \in Nat /\ clock < MaxTime /\ clock' = clock + 1 /\ UNCHANGED <<clients, waiting, admitted>>
  BY LimiterAssumption DEF Tick, IInv, Typed
<1>2. Typed'
  <2>1. clock' \in 0..MaxTime /\ 0..clock \subseteq 0..clock'
    BY <1>1, LimiterAssumption
  <2>2. \A c \in Clients : clients'[c] # None => clients'[c].started <= clock'
    BY <1>1, SpentType DEF IInv, Typed
  <2> QED
    BY <1>1, <2>1, <2>2 DEF IInv, Typed
<1>3. \A c \in Clients : Fair(clients'[c], admitted'[c], clock')
  BY <1>1, TimePasses DEF IInv, Typed
<1> QED
  BY <1>2, <1>3 DEF IInv

LEMMA ArriveKeeps == ASSUME IInv, NEW p \in Slots, NEW c \in Clients, Arrive(p, c) PROVE IInv'
<1>1. [client |-> c, now |-> clock] \in [client : Clients, now : 0..clock]
  BY DEF IInv, Typed
<1>2. Typed'
  BY <1>1, SMTT(30) DEF Arrive, IInv, Typed
<1> QED
  BY <1>2 DEF Arrive, IInv

(* What a decision does to the client it is about.                           *)
LEMMA DecidedFor ==
  ASSUME IInv, NEW p \in Slots, Decide(p)
  PROVE  LET c == waiting[p].client
             now == waiting[p].now
             row == Counted(clients[c], now)
         IN /\ c \in Clients /\ now \in 0..clock /\ now \in 0..MaxTime
            /\ clients' \in [Clients -> WindowRow \cup {None}]
            /\ clients'[c] = row /\ row \in WindowRow
            /\ \A d \in Clients \ {c} :
                 \/ clients'[d] = clients[d]
                 \/ clients[d] # None /\ Elapsed(clients[d], now) > 2 * Window /\ clients'[d] = None
            /\ \A d \in Clients \ {c} : admitted'[d] = admitted[d]
            /\ Admits(row) =>
                 admitted'[c] = Append(admitted[c], [asked |-> now, granted |-> clock])
            /\ ~Admits(row) => admitted' = admitted
<1> DEFINE c == waiting[p].client
           now == waiting[p].now
           row == Counted(clients[c], now)
           windows == [clients EXCEPT ![c] = row]
<1>1. c \in Clients /\ now \in 0..clock /\ now \in 0..MaxTime
  BY LimiterAssumption DEF Decide, IInv, Typed
<1>2. /\ clients' = Purged(windows, c, now)
      /\ Admits(row) => admitted' = [admitted EXCEPT ![c] = Append(@, [asked |-> now, granted |-> clock])]
      /\ ~Admits(row) => admitted' = admitted
  BY DEF Decide
<1>3. clients[c] \in WindowRow \cup {None} /\ clients \in [Clients -> WindowRow \cup {None}]
      /\ admitted \in [Clients -> Seq(Grant)]
  BY <1>1 DEF IInv, Typed
<1> HIDE DEF c, now
<1>4. row \in WindowRow /\ row # None /\ Elapsed(row, now) < Window
  BY <1>1, <1>3, CountedRow
<1> HIDE DEF row
<1>5. /\ windows \in [Clients -> WindowRow \cup {None}] /\ windows[c] = row
      /\ \A d \in Clients \ {c} : windows[d] = clients[d]
  BY <1>1, <1>3, <1>4
<1> HIDE DEF windows
<1>6. clients' \in [Clients -> WindowRow \cup {None}]
  BY <1>1, <1>2, <1>5, PurgedWindows
<1>7. \A d \in Clients :
        \/ clients'[d] = windows[d]
        \/ windows[d] # None /\ Elapsed(windows[d], now) > 2 * Window /\ clients'[d] = None
  BY <1>1, <1>2, <1>5, PurgedWindows
<1>8. ~(Elapsed(row, now) > 2 * Window)
  <2>1. Elapsed(row, now) \in Int
    BY <1>1, <1>4, LimiterAssumption DEF Elapsed, WindowRow
  <2> QED
    BY <1>4, <2>1, LimiterAssumption
<1>9. clients'[c] = row
  BY <1>1, <1>5, <1>7, <1>8
<1>10. /\ \A d \in Clients \ {c} : admitted'[d] = admitted[d]
       /\ Admits(row) => admitted'[c] = Append(admitted[c], [asked |-> now, granted |-> clock])
  BY <1>1, <1>2, <1>3
<1> QED
  BY <1>1, <1>2, <1>4, <1>5, <1>6, <1>7, <1>9, <1>10 DEF c, now, row

LEMMA DecideKeeps == ASSUME IInv, NEW p \in Slots, Decide(p) PROVE IInv'
<1> DEFINE c == waiting[p].client
           now == waiting[p].now
           row == Counted(clients[c], now)
           grant == [asked |-> now, granted |-> clock]
<1>1. /\ c \in Clients /\ now \in 0..clock /\ now \in 0..MaxTime
      /\ clients' \in [Clients -> WindowRow \cup {None}]
      /\ clients'[c] = row /\ row \in WindowRow
      /\ \A d \in Clients \ {c} :
           \/ clients'[d] = clients[d]
           \/ clients[d] # None /\ Elapsed(clients[d], now) > 2 * Window /\ clients'[d] = None
      /\ \A d \in Clients \ {c} : admitted'[d] = admitted[d]
      /\ Admits(row) => admitted'[c] = Append(admitted[c], grant)
      /\ ~Admits(row) => admitted' = admitted
  BY DecidedFor
<1>2. waiting' = [waiting EXCEPT ![p] = None] /\ clock' = clock
  BY DEF Decide
<1>3. /\ clock \in 0..MaxTime /\ clock \in Nat /\ admitted \in [Clients -> Seq(Grant)]
      /\ clients[c] \in WindowRow \cup {None} /\ admitted[c] \in Seq(Grant)
      /\ clients[c] # None => clients[c].started <= clock
      /\ Fair(clients[c], admitted[c], clock)
  BY <1>1, LimiterAssumption DEF IInv, Typed
<1> HIDE DEF c, now
<1>4. admitted' \in [Clients -> Seq(Grant)]
  <2>1. grant \in Grant
    BY <1>1, <1>3 DEF Grant
  <2> HIDE DEF grant
  <2>2. Append(admitted[c], grant) \in Seq(Grant)
    BY <1>3, <2>1, Appended
  <2>3. admitted' = admitted \/ admitted' = [admitted EXCEPT ![c] = Append(admitted[c], grant)]
    BY DEF Decide, c, now, grant
  <2> QED
    BY <1>1, <1>3, <2>2, <2>3
<1>5. row.started <= clock
  <2>1. row.started = now \/ (clients[c] # None /\ row.started = clients[c].started)
    BY <1>1, <1>3, CountedRow
  <2> QED
    BY <1>1, <1>3, <2>1
<1>6. \A d \in Clients : clients'[d] # None => clients'[d].started <= clock
  BY <1>1, <1>5 DEF IInv, Typed
<1>7. Typed'
  BY <1>1, <1>2, <1>4, <1>6 DEF IInv, Typed
<1>8. ASSUME NEW d \in Clients, d # c
      PROVE  Fair(clients'[d], admitted'[d], clock)
  <2>1. Fair(clients[d], admitted[d], clock) /\ clients[d] \in WindowRow \cup {None}
    BY DEF IInv, Typed
  <2>2. admitted'[d] = admitted[d]
    BY <1>1, <1>8
  <2>3. CASE clients'[d] = clients[d]
    BY <2>1, <2>2, <2>3
  <2>4. CASE clients[d] # None /\ Elapsed(clients[d], now) > 2 * Window /\ clients'[d] = None
    BY <1>1, <1>3, <2>1, <2>2, <2>4, WindowDropped
  <2> QED
    BY <1>1, <1>8, <2>3, <2>4
<1>9. Fair(clients'[c], admitted'[c], clock)
  <2>1. CASE Admits(row)
    <3>1. Fair(row, Append(admitted[c], grant), clock)
      BY <1>1, <1>3, <2>1, ClientAdmitted
    <3> QED
      BY <1>1, <2>1, <3>1
  <2>2. CASE ~Admits(row)
    <3>1. Fair(row, admitted[c], clock)
      BY <1>1, <1>3, <2>2, ClientRefused
    <3> QED
      BY <1>1, <2>2, <3>1
  <2> QED
    BY <2>1, <2>2
<1> QED
  BY <1>2, <1>7, <1>8, <1>9 DEF IInv

LEMMA NextKeeps == IInv /\ [Next]_vars => IInv'
<1>1. ASSUME IInv, UNCHANGED vars
      PROVE  IInv'
  BY <1>1 DEF vars, IInv, Typed
<1> QED
  BY <1>1, TickKeeps, ArriveKeeps, DecideKeeps DEF Next

LEMMA Invariance == Spec => []IInv
<1> QED
  BY InitEstablishes, NextKeeps, PTL DEF Spec

-----------------------------------------------------------------------------
(* Theorems *)

(* Every variable has its type in every reachable state, and no window       *)
(* starts in the future.                                                     *)
THEOREM TypeCorrect == Spec => []TypeOK
<1>1. IInv => TypeOK
  BY DEF IInv, Typed, TypeOK
<1> QED
  BY <1>1, Invariance, PTL

(* Of the requests that come and are answered within a window's length, no   *)
(* client has more than two windows' worth admitted, whatever the capacity,  *)
(* the order in which requests get the mutex and the purges of the map.      *)
THEOREM BurstsAreBounded == Spec => []BurstBounded
<1>1. IInv => BurstBounded
  <2> SUFFICES ASSUME IInv, NEW c \in Clients, NEW from \in 0..clock
               PROVE  Admissions(c, LAMBDA a : a.asked >= from /\ a.granted < from + Window)
                        <= 2 * Capacity
    BY DEF BurstBounded
  <2>1. from \in Nat
    BY LimiterAssumption DEF IInv, Typed
  <2>2. Cardinality(Burst(admitted[c], from)) <= 2 * Capacity
    BY <2>1 DEF IInv, Fair, Calm
  <2> QED
    BY <2>2 DEF Admissions, Burst
<1> QED
  BY <1>1, Invariance, PTL

(* A request is refused only because a whole Capacity of the same client's   *)
(* was granted less than a window before it came.                            *)
THEOREM RefusalsHaveCause == Spec => RefusedForCause
<1> DEFINE Cause(p) ==
       LET c == waiting[p].client IN
       waiting[p] # None /\ waiting'[p] = None /\ admitted' = admitted =>
         Admissions(c, LAMBDA a : a.granted + Window > waiting[p].now) >= Capacity
<1>1. ASSUME IInv, [Next]_vars, NEW p \in Slots, waiting[p] # None, waiting'[p] = None,
             admitted' = admitted
      PROVE  Admissions(waiting[p].client, LAMBDA a : a.granted + Window > waiting[p].now)
               >= Capacity
  <2>1. Decide(p)
    <3>1. ASSUME NEW q \in Slots, NEW c \in Clients, Arrive(q, c)
          PROVE  FALSE
      BY <1>1, <3>1, NoneAssumption DEF Arrive, IInv, Typed, Request
    <3>2. ASSUME NEW q \in Slots, Decide(q), q # p
          PROVE  FALSE
      BY <1>1, <3>2 DEF Decide, IInv, Typed
    <3> QED
      BY <1>1, <3>1, <3>2 DEF Next, Tick, vars
  <2> DEFINE c == waiting[p].client
             now == waiting[p].now
             row == clients[c]
             list == admitted[c]
             grant == [asked |-> now, granted |-> clock]
             recent == {i \in DOMAIN list : list[i].granted + Window > now}
  <2>2. /\ c \in Clients /\ now \in 0..clock /\ now \in 0..MaxTime
        /\ Admits(Counted(row, now)) => admitted'[c] = Append(list, grant)
    BY <1>1, <2>1, DecidedFor
  <2>3. /\ row \in WindowRow \cup {None} /\ list \in Seq(Grant) /\ clock \in Nat
        /\ Fair(row, list, clock) /\ now \in Nat /\ grant \in Grant
    BY <1>1, <2>2, LimiterAssumption DEF IInv, Typed, Grant
  <2>4. admitted'[c] = list
    BY <1>1
  <2> HIDE DEF c, now, row, list, grant
  <2>5. ~Admits(Counted(row, now))
    BY <2>2, <2>3, <2>4, Appended
  <2>6. row \in WindowRow /\ row # None /\ Spent(row) = Capacity /\ now < row.started + Window
    BY <2>2, <2>3, <2>5, ClientRefused
  <2>7. Cardinality(Since(list, row.started)) >= Capacity
    BY <2>3, <2>6 DEF Fair, Backed
  <2>8. Since(list, row.started) \subseteq recent
    <3>1. \A i \in DOMAIN list : list[i].granted \in Nat
      <4>1. \A i \in DOMAIN list : list[i] \in Grant
        BY <2>3
      <4> QED
        BY <4>1 DEF Grant
    <3>2. row.started \in Nat /\ Window \in Nat
      BY <2>6, SpentType
    <3> QED
      BY <2>3, <2>6, <3>1, <3>2 DEF Since
  <2>9. Cardinality(Since(list, row.started)) <= Cardinality(recent)
        /\ Cardinality(Since(list, row.started)) \in Nat /\ Cardinality(recent) \in Nat
    <3>1. IsFiniteSet(recent) /\ Cardinality(recent) \in Nat
      BY <2>3, FiniteParts
    <3> HIDE DEF recent
    <3> QED
      BY <2>8, <3>1, FS_Subset, FS_CardinalityType
  <2>10. Cardinality(recent) >= Capacity
    BY <2>7, <2>9, LimiterAssumption
  <2> QED
    BY <2>10 DEF Admissions, c, now, list
<1>2. IInv /\ [Next]_vars => [\A p \in Slots : Cause(p)]_vars
  BY <1>1
<1> QED
  BY <1>2, Invariance, PTL DEF Spec, RefusedForCause
=============================================================================
