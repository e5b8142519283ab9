---------------------------- MODULE RunStoreProofs ----------------------------
(***************************************************************************)
(* Theorems about RunStore for every number of runs and of calls in flight,*)
(* every set of forms and every order in which answers come or fail.       *)
(*                                                                         *)
(* All of them rest on one fact (Known): a row that was ever read of a run *)
(* is the run's present row, or one of an earlier version that differs in  *)
(* its state only.  A step of the registry keeps it for every row on the   *)
(* page and under way to it.                                               *)
(***************************************************************************)
EXTENDS RunStore, RunRegistryProofs, SequenceTheorems

Known(table, item) ==
  /\ item \in Items /\ table[item.id] \in Row
  /\ \/ item.row = table[item.id]
     \/ /\ item.row.version < table[item.id].version
        /\ item.row.plan = table[item.id].plan /\ item.row.code = table[item.id].code
        /\ item.row.track = table[item.id].track /\ item.row.nav = table[item.id].nav

AllKnown(table, list) ==
  list \in Seq(Items) /\ \A i \in DOMAIN list : Known(table, list[i])
Distinct(list) == \A i, j \in DOMAIN list : list[i].id = list[j].id => i = j

(* What is under way: a click carries what it was made on, a list has no run *)
(* twice, and a write handler answers with one row.                          *)
Meant(table, asked) ==
  /\ Known(table, asked.shown)
  /\ asked.expected = asked.shown.row.version
  /\ <<asked.shown.row.state, asked.target>> \in RUN_TRANSITIONS
GoodCall(table, call) ==
  /\ IsCall(call)
  /\ AllKnown(table, call.answer)
  /\ call.kind = "list" => Distinct(call.answer)
  /\ call.kind = "quality" => table[call.about] \in Row
  /\ call.kind = "transition" => Meant(table, call.about)
  /\ call.kind = "transition" /\ call.phase = "answered" => 1 \in DOMAIN call.answer
  /\ call.kind = "import" /\ call.phase \in {"committed", "answered"} => 1 \in DOMAIN call.answer

PageKnown ==
  /\ AllKnown(runs, items) /\ Distinct(items)
  /\ selected # None => Known(runs, selected)
  /\ quality \in RunIds \cup {None}
  /\ loading \in BOOLEAN

CallsGood ==
  /\ calls \in [Calls -> CallRow \cup {None}]
  /\ \A k \in Calls : calls[k] # None => GoodCall(runs, calls[k])

InFlight(table, kind) == \E k \in Calls : table[k] # None /\ table[k].kind = kind

(* The page is never without a row to show once it had one.                  *)
PageTied ==
  /\ loading => InFlight(calls, "list")
  /\ items # <<>> \/ quality # None \/ InFlight(calls, "quality") => selected # None

IInv == RegistryInv /\ PageKnown /\ CallsGood /\ PageTied

-----------------------------------------------------------------------------
(* What was known stays known *)

LEMMA KnownLasts ==
  ASSUME RegistryInv, [RegistryNext]_registry, NEW item, Known(runs, item)
  PROVE  Known(runs', item)
<1>1. item.id \in RunIds /\ item.row \in Row /\ runs[item.id] \in Row
  BY DEF Known, Items
<1>2. /\ runs'[item.id] \in Row
      /\ runs'[item.id] = runs[item.id] \/ runs[item.id].version < runs'[item.id].version
      /\ runs'[item.id].plan = runs[item.id].plan /\ runs'[item.id].code = runs[item.id].code
      /\ runs'[item.id].track = runs[item.id].track /\ runs'[item.id].nav = runs[item.id].nav
  BY <1>1, RunsGoOn DEF RegistryInv
<1>3. /\ item.row.version \in Nat /\ runs[item.id].version \in Nat
      /\ runs'[item.id].version \in Nat
  BY <1>1, <1>2 DEF Row
<1> QED
  BY <1>2, <1>3 DEF Known

LEMMA ListLasts ==
  ASSUME RegistryInv, [RegistryNext]_registry, NEW list, AllKnown(runs, list)
  PROVE  AllKnown(runs', list)
  BY KnownLasts DEF AllKnown

LEMMA CallLasts ==
  ASSUME RegistryInv, [RegistryNext]_registry, NEW call, GoodCall(runs, call)
  PROVE  GoodCall(runs', call)
<1>1. AllKnown(runs', call.answer)
  BY ListLasts DEF GoodCall
<1>2. call.kind = "quality" => runs'[call.about] \in Row
  BY RunsGoOn DEF GoodCall, IsCall, RegistryInv
<1>3. call.kind = "transition" => Meant(runs', call.about)
  BY KnownLasts DEF GoodCall, Meant
<1> QED
  BY <1>1, <1>2, <1>3 DEF GoodCall

(* A row that is read is known. *)
LEMMA ReadIsKnown ==
  ASSUME NEW id \in RunIds, NEW table, table[id] \in Row
  PROVE  Known(table, [id |-> id, row |-> table[id]])
  BY DEF Known, Items

(* A row of the present version is the present row. *)
LEMMA VersionTellsRow ==
  ASSUME NEW item, Known(runs, item), runs[item.id].version = item.row.version
  PROVE  runs[item.id] = item.row
<1>1. item.row.version \in Nat
  BY DEF Known, Items, Row
<1> QED
  BY <1>1 DEF Known

-----------------------------------------------------------------------------
(* Calls and lists *)

LEMMA NewCall ==
  ASSUME NEW kind \in {"list", "quality", "import", "transition"},
         NEW about \in {None} \cup RunIds \cup ImportRequests \cup Clicks
  PROVE  /\ Request(kind, about) \in CallRow
         /\ Request(kind, about).kind = kind /\ Request(kind, about).about = about
         /\ Request(kind, about).phase = "sent" /\ Request(kind, about).answer = <<>>
         /\ \A table : AllKnown(table, <<>>)
         /\ Distinct(<<>>)
<1>1. <<>> \in Seq(Items) /\ DOMAIN <<>> = {}
  OBVIOUS
<1> QED
  BY <1>1 DEF Request, CallRow, AllKnown, Distinct

Carried(call, phase, answer) == [[call EXCEPT !.phase = phase] EXCEPT !.answer = answer]

LEMMA CarriedCall ==
  ASSUME NEW call \in CallRow, NEW phase \in {"sent", "committed", "answered", "refused"},
         NEW answer \in Seq(Items)
  PROVE  Carried(call, phase, answer) \in CallRow
<1> DEFINE mid == [call EXCEPT !.phase = phase]
<1>1. mid \in CallRow
  BY DEF CallRow
<1>2. Carried(call, phase, answer) = [mid EXCEPT !.answer = answer]
  BY DEF Carried
<1> HIDE DEF mid
<1> QED
  BY <1>1, <1>2 DEF CallRow

LEMMA OneRow ==
  ASSUME NEW table, NEW item, Known(table, item)
  PROVE  /\ <<item>> \in Seq(Items) /\ AllKnown(table, <<item>>)
         /\ 1 \in DOMAIN <<item>> /\ <<item>>[1] = item
<1>1. <<item>> \in Seq(Items) /\ DOMAIN <<item>> = {1} /\ <<item>>[1] = item
  BY DEF Known
<1> QED
  BY <1>1 DEF AllKnown

LEMMA PrependedList ==
  ASSUME NEW table, NEW item, Known(table, item), NEW list, AllKnown(table, list),
         Distinct(list), \A i \in DOMAIN list : list[i].id # item.id
  PROVE  AllKnown(table, <<item>> \o list) /\ Distinct(<<item>> \o list)
         /\ <<item>> \o list # <<>>
<1> DEFINE new == <<item>> \o list
<1>1. /\ <<item>> \in Seq(Items) /\ Len(<<item>>) = 1 /\ <<item>>[1] = item
      /\ list \in Seq(Items)
  BY DEF Known, AllKnown
<1>2. /\ new \in Seq(Items) /\ Len(new) = 1 + Len(list)
      /\ \A i \in 1..Len(new) : new[i] = IF i <= 1 THEN <<item>>[i] ELSE list[i - 1]
  BY <1>1, ConcatProperties
<1>3. /\ Len(list) \in Nat /\ DOMAIN list = 1..Len(list) /\ DOMAIN new = 1..Len(new)
  BY <1>1, <1>2
<1> HIDE DEF new
<1>4. new[1] = item
  BY <1>1, <1>2, <1>3
<1>5. ASSUME NEW i \in DOMAIN new, i # 1
      PROVE  i - 1 \in DOMAIN list /\ new[i] = list[i - 1]
  BY <1>2, <1>3, <1>5
<1>6. AllKnown(table, new)
  BY <1>2, <1>4, <1>5 DEF AllKnown
<1>7. Distinct(new)
  <2> SUFFICES ASSUME NEW i \in DOMAIN new, NEW j \in DOMAIN new, new[i].id = new[j].id
               PROVE  i = j
    BY DEF Distinct
  <2>1. i \in Nat /\ j \in Nat
    BY <1>3
  <2>2. CASE i = 1 \/ j = 1
    BY <1>4, <1>5, <2>2
  <2>3. CASE i # 1 /\ j # 1
    <3>1. /\ i - 1 \in DOMAIN list /\ new[i] = list[i - 1]
          /\ j - 1 \in DOMAIN list /\ new[j] = list[j - 1]
      BY <1>5, <2>3
    <3>2. i - 1 = j - 1
      BY <3>1 DEF Distinct
    <3> QED
      BY <2>1, <3>2
  <2> QED
    BY <2>2, <2>3
<1>8. new # <<>>
  BY <1>2, <1>3
<1> QED
  BY <1>6, <1>7, <1>8 DEF new

-----------------------------------------------------------------------------
(* A step of the server, and a step of the page *)

(* The registry steps, one call moves on or ends, the page stays.            *)
LEMMA ServerKeeps ==
  ASSUME IInv, [RegistryNext]_registry, UNCHANGED page,
         NEW k \in Calls, calls[k] # None, NEW call, GoodCall(runs', call),
         call.kind = calls[k].kind, calls' = [calls EXCEPT ![k] = call]
  PROVE  IInv'
<1>1. RegistryInv'
  BY RegistryKeeps DEF IInv
<1>2. PageKnown'
  BY ListLasts, KnownLasts DEF IInv, PageKnown, page
<1>3. call \in CallRow /\ call # None
  BY NoneAssumption DEF GoodCall, IsCall
<1>4. /\ calls'[k] = call /\ calls' \in [Calls -> CallRow \cup {None}]
      /\ \A o \in Calls \ {k} : calls'[o] = calls[o]
  BY <1>3 DEF IInv, CallsGood
<1>5. CallsGood'
  BY <1>4, CallLasts DEF IInv, CallsGood
<1>6. \A kind : InFlight(calls', kind) <=> InFlight(calls, kind)
  BY <1>3, <1>4 DEF InFlight
<1>7. PageTied'
  BY <1>6 DEF IInv, PageTied, page
<1> QED
  BY <1>1, <1>2, <1>5, <1>7 DEF IInv

(* The server stays, one call begins, ends or is replaced.                   *)
LEMMA PageKeeps ==
  ASSUME IInv, UNCHANGED registry, PageKnown', PageTied',
         NEW k \in Calls, NEW call, call = None \/ GoodCall(runs, call),
         calls' = [calls EXCEPT ![k] = call]
  PROVE  IInv'
<1>1. RegistryInv'
  BY DEF IInv, RegistryInv, RegistryTyped, ChecksumsDistinct, registry
<1>2. call \in CallRow \cup {None}
  BY DEF GoodCall, IsCall
<1>3. CallsGood'
  BY <1>2 DEF IInv, CallsGood, registry
<1> QED
  BY <1>1, <1>3 DEF IInv

(* Which calls a click or an answer leaves in flight.                        *)
LEMMA FlightChanges ==
  ASSUME CallsGood, NEW k \in Calls, NEW call, call = None \/ GoodCall(runs, call),
         calls' = [calls EXCEPT ![k] = call]
  PROVE  /\ \A kind : InFlight(calls', kind) => InFlight(calls, kind) \/ (call # None /\ call.kind = kind)
         /\ \A kind : InFlight(calls, kind) =>
              InFlight(calls', kind) \/ (calls[k] # None /\ calls[k].kind = kind)
         /\ call # None => InFlight(calls', call.kind)
<1>1. calls'[k] = call /\ \A o \in Calls \ {k} : calls'[o] = calls[o]
  BY DEF CallsGood
<1> QED
  BY <1>1 DEF InFlight

-----------------------------------------------------------------------------
(* Clicks *)

LEMMA FetchKeeps == ASSUME IInv, NEW k \in Calls, Fetch(k) PROVE IInv'
<1> DEFINE call == Request("list", None)
<1>1. /\ call # None /\ call.kind = "list" /\ GoodCall(runs, call)
  BY NewCall, NoneAssumption DEF GoodCall, IsCall
<1> HIDE DEF call
<1>2. /\ calls[k] = None /\ calls' = [calls EXCEPT ![k] = call]
      /\ UNCHANGED <<runs, locked, items, selected, quality>> /\ loading' = TRUE
  BY DEF Fetch, Send, call
<1>3. InFlight(calls', "list") /\ (InFlight(calls', "quality") => InFlight(calls, "quality"))
  <2>1. /\ \A kind : InFlight(calls', kind) => InFlight(calls, kind) \/ kind = "list"
        /\ InFlight(calls', "list")
    <3>1. CallsGood
      BY DEF IInv
    <3> QED
      BY <1>1, <1>2, <3>1, FlightChanges, ZenonT(30)
  <2> QED
    BY <2>1
<1>4. PageKnown' /\ PageTied'
  BY <1>2, <1>3 DEF IInv, PageKnown, PageTied
<1> QED
  BY <1>1, <1>2, <1>4, PageKeeps DEF registry

LEMMA SelectKeeps ==
  ASSUME IInv, NEW k \in Calls, NEW i \in DOMAIN items, Select(k, i)
  PROVE  IInv'
<1> DEFINE call == Request("quality", items[i].id)
<1>1. Known(runs, items[i])
  BY DEF IInv, PageKnown, AllKnown
<1>2. items[i] \in Items /\ items[i].id \in RunIds /\ runs[items[i].id] \in Row
  BY <1>1 DEF Known, Items
<1>3. /\ call # None /\ call.kind = "quality" /\ GoodCall(runs, call)
  BY <1>2, NewCall, NoneAssumption DEF GoodCall, IsCall
<1> HIDE DEF call
<1>4. /\ calls[k] = None /\ calls' = [calls EXCEPT ![k] = call]
      /\ UNCHANGED <<runs, locked, items, loading>>
      /\ selected' = items[i] /\ quality' = None
  BY DEF Select, Send, call
<1>5. InFlight(calls, "list") => InFlight(calls', "list")
  BY <1>3, <1>4, FlightChanges DEF IInv
<1>6. PageKnown' /\ PageTied'
  BY <1>1, <1>2, <1>4, <1>5, NoneAssumption DEF IInv, PageKnown, PageTied
<1> QED
  BY <1>3, <1>4, <1>6, PageKeeps DEF registry

LEMMA SubmitKeeps ==
  ASSUME IInv, NEW k \in Calls,
         (\E q \in Forms : Import(k, q)) \/ (\E target \in Targets : Transition(k, target))
  PROVE  IInv'
<1>1. ASSUME NEW call, GoodCall(runs, call), call.kind \in {"import", "transition"},
             call # None, Send(k, call), UNCHANGED <<runs, locked, page>>
      PROVE  IInv'
  <2>1. /\ InFlight(calls, "list") => InFlight(calls', "list")
        /\ InFlight(calls', "quality") => InFlight(calls, "quality")
    <3>1. CallsGood /\ calls[k] = None /\ calls' = [calls EXCEPT ![k] = call]
      BY <1>1 DEF IInv, Send
    <3>2. /\ \A kind : InFlight(calls', kind) => InFlight(calls, kind) \/ kind = call.kind
          /\ \A kind : InFlight(calls, kind) => InFlight(calls', kind)
      BY <1>1, <3>1, FlightChanges
    <3> QED
      BY <1>1, <3>2
  <2>2. PageKnown' /\ PageTied'
    BY <1>1, <2>1 DEF IInv, PageKnown, PageTied, page
  <2> QED
    BY <1>1, <2>2, PageKeeps DEF registry, Send
<1>2. ASSUME NEW q \in Forms, Import(k, q)
      PROVE  IInv'
  <2> DEFINE call == Request("import", q)
  <2>1. GoodCall(runs, call) /\ call.kind = "import" /\ call # None
    BY NewCall, NoneAssumption, StoreAssumption DEF GoodCall, IsCall
  <2> HIDE DEF call
  <2>2. Send(k, call) /\ UNCHANGED <<runs, locked, page>>
    BY <1>2 DEF Import, call
  <2> QED
    BY <1>1, <2>1, <2>2
<1>3. ASSUME NEW target \in Targets, Transition(k, target)
      PROVE  IInv'
  <2> DEFINE asked == [shown |-> selected, target |-> target, expected |-> VersionSent(selected)]
             call == Request("transition", asked)
  <2>1. Known(runs, selected) /\ <<selected.row.state, target>> \in RUN_TRANSITIONS
    BY <1>3 DEF Transition, IInv, PageKnown
  <2>2. /\ asked \in Clicks /\ asked.shown = selected /\ asked.target = target
        /\ asked.expected = selected.row.version
    BY <2>1, StoreAssumption DEF Clicks, VersionSent, Known, Items, Row
  <2> HIDE DEF asked
  <2>3. GoodCall(runs, call) /\ call.kind = "transition" /\ call # None
    BY <2>1, <2>2, NewCall, NoneAssumption DEF GoodCall, IsCall, Meant
  <2> HIDE DEF call
  <2>4. Send(k, call) /\ UNCHANGED <<runs, locked, page>>
    BY <1>3 DEF Transition, call, asked
  <2> QED
    BY <1>1, <2>3, <2>4
<1> QED
  BY <1>2, <1>3

-----------------------------------------------------------------------------
(* The server *)

LEMMA MovedCall ==
  ASSUME CallsGood, NEW k \in Calls, calls[k] # None, NEW phase, NEW answer,
         Moved(k, phase, answer)
  PROVE  calls' = [calls EXCEPT ![k] = Carried(calls[k], phase, answer)]
  BY DEF CallsGood, Moved, Carried, CallRow

(* An answer that carries rows the server has.                               *)
LEMMA AnsweringKeeps ==
  ASSUME IInv, [RegistryNext]_registry, UNCHANGED page, NEW k \in Calls, calls[k] # None,
         NEW phase \in {"committed", "answered", "refused"},
         NEW answer, AllKnown(runs', answer), Moved(k, phase, answer),
         calls[k].kind = "list" => Distinct(answer),
         calls[k].kind \in {"import", "transition"} /\ phase = "answered" => 1 \in DOMAIN answer,
         calls[k].kind = "import" /\ phase = "committed" => 1 \in DOMAIN answer
  PROVE  IInv'
<1> DEFINE call == Carried(calls[k], phase, answer)
<1>1. GoodCall(runs', calls[k]) /\ calls[k] \in CallRow
  BY CallLasts DEF IInv, CallsGood, GoodCall, IsCall
<1>2. /\ call \in CallRow /\ call.kind = calls[k].kind /\ call.about = calls[k].about
      /\ call.phase = phase /\ call.answer = answer
  <2> DEFINE old == calls[k]
  <2>1. /\ old \in CallRow /\ answer \in Seq(Items)
        /\ phase \in {"sent", "committed", "answered", "refused"}
    BY <1>1 DEF AllKnown
  <2> HIDE DEF old
  <2>2. Carried(old, phase, answer) \in CallRow
    BY <2>1, CarriedCall
  <2>3. Carried(old, phase, answer).kind = old.kind /\ Carried(old, phase, answer).about = old.about
    BY <2>1 DEF Carried, CallRow
  <2>4. Carried(old, phase, answer).phase = phase /\ Carried(old, phase, answer).answer = answer
    BY <2>1 DEF Carried, CallRow
  <2> QED
    BY <2>2, <2>3, <2>4 DEF old
<1>3. calls' = [calls EXCEPT ![k] = call]
  BY MovedCall DEF IInv
<1> HIDE DEF call
<1>4. GoodCall(runs', call)
  BY <1>1, <1>2 DEF GoodCall, IsCall
<1> QED
  BY <1>2, <1>3, <1>4, ServerKeeps

LEMMA AnswerListKeeps == ASSUME IInv, NEW k \in Calls, AnswerList(k) PROVE IInv'
<1>0. PICK n \in 0..PageSize : \E s \in [1..n -> {id \in RunIds : runs[id] # NoRun}] :
         IsPage(s) /\ Moved(k, "answered", [i \in 1..n |-> Listing(s[i])])
  BY DEF AnswerList
<1>1. PICK ids \in [1..n -> {id \in RunIds : runs[id] # NoRun}] :
         IsPage(ids) /\ Moved(k, "answered", [i \in 1..n |-> Listing(ids[i])])
  BY <1>0
<1> DEFINE answer == [i \in 1..n |-> Listing(ids[i])]
<1>2. \A i \in 1..n : ids[i] \in RunIds /\ runs[ids[i]] \in Row
  BY DEF IInv, RegistryInv, RegistryTyped
<1>3. \A i \in 1..n : Known(runs, Listing(ids[i])) /\ Listing(ids[i]) \in Items
                      /\ Listing(ids[i]).id = ids[i]
  BY <1>2, ReadIsKnown DEF Listing, Known
<1>4. n \in Nat
  BY StoreAssumption
<1>5. answer \in Seq(Items) /\ DOMAIN answer = 1..n
  BY <1>3, <1>4
<1>6. AllKnown(runs, answer)
  BY <1>3, <1>5 DEF AllKnown
<1>7. Distinct(answer)
  <2> SUFFICES ASSUME NEW i \in 1..n, NEW j \in 1..n, ids[i] = ids[j] PROVE i = j
    BY <1>3, <1>5 DEF Distinct
  <2>1. ~(i < j) /\ ~(j < i)
    <3>1. Place[ids[i]] \in Nat /\ Place[ids[i]] = Place[ids[j]]
      BY <1>2, StoreAssumption
    <3> QED
      BY <1>1, <3>1 DEF IsPage
  <2> QED
    BY <1>4, <2>1
<1> HIDE DEF answer
<1>8. /\ calls[k] # None /\ calls[k].kind = "list" /\ UNCHANGED <<runs, locked, page>>
      /\ Moved(k, "answered", answer)
  BY <1>1 DEF AnswerList, Standing, answer
<1> QED
  BY <1>6, <1>7, <1>8, AnsweringKeeps DEF registry

(* The row that a handler reads for its answer.                              *)
LEMMA ReadingKeeps ==
  ASSUME IInv, UNCHANGED <<runs, locked, page>>, NEW k \in Calls, calls[k] # None,
         calls[k].kind # "list", NEW id \in RunIds, runs[id] \in Row,
         Moved(k, "answered", <<Listing(id)>>)
  PROVE  IInv'
<1> DEFINE answer == <<Listing(id)>>
<1>1. Known(runs, Listing(id))
  BY ReadIsKnown DEF Listing
<1>2. AllKnown(runs, answer) /\ 1 \in DOMAIN answer
  BY <1>1, OneRow
<1> HIDE DEF answer
<1>3. AllKnown(runs', answer) /\ Moved(k, "answered", answer) /\ [RegistryNext]_registry
  BY <1>2 DEF registry, answer
<1> QED
  BY <1>2, <1>3, AnsweringKeeps

(* A step that answers nothing yet, or no.                                   *)
LEMMA SilentKeeps ==
  ASSUME IInv, [RegistryNext]_registry, UNCHANGED page, NEW k \in Calls, calls[k] # None,
         calls[k].kind # "list", NEW phase \in {"committed", "refused"},
         calls[k].kind = "import" => phase = "refused", Moved(k, phase, <<>>)
  PROVE  IInv'
<1>1. AllKnown(runs', <<>>)
  BY DEF AllKnown
<1> QED
  BY <1>1, AnsweringKeeps

LEMMA ServeKeeps == ASSUME IInv, NEW k \in Calls, Serve(k) PROVE IInv'
<1>1. calls[k] # None /\ GoodCall(runs, calls[k]) /\ IsCall(calls[k])
  BY DEF Serve, AnswerList, AnswerQuality, CommitTransition, RefuseTransition, CommitImport,
     RefuseImport, Reload, Standing, IInv, CallsGood, GoodCall
<1>2. CASE AnswerQuality(k)
  <2>1. calls[k].about \in RunIds /\ runs[calls[k].about] \in Row /\ calls[k].kind = "quality"
    BY <1>1, <1>2 DEF AnswerQuality, Standing, GoodCall, IsCall
  <2> QED
    BY <1>1, <1>2, <2>1, ReadingKeeps DEF AnswerQuality
<1>3. CASE CommitTransition(k)
  <2> DEFINE asked == calls[k].about
  <2>1. calls[k].kind = "transition" /\ asked \in Clicks /\ Known(runs, asked.shown)
    BY <1>1, <1>3 DEF CommitTransition, Standing, GoodCall, IsCall, Meant
  <2>2. asked.shown.id \in RunIds /\ asked.target \in RunTargets
    BY <2>1 DEF Known, Items, Clicks
  <2>3. RegistryNext
    BY <1>3, <2>2 DEF CommitTransition, RegistryNext
  <2> QED
    BY <1>1, <1>3, <2>1, <2>3, SilentKeeps DEF CommitTransition
<1>4. CASE RefuseTransition(k)
  BY <1>1, <1>4, SilentKeeps DEF RefuseTransition, Standing, registry
<1>5. CASE CommitImport(k)
  <2>1. calls[k].kind = "import" /\ calls[k].about \in ImportRequests
    BY <1>1, <1>5 DEF CommitImport, Standing, IsCall
  <2>2. PICK id \in RunIds :
           /\ \/ Register(id, calls[k].about)
              \/ id \in Stored(calls[k].about) /\ UNCHANGED <<runs, locked>>
           /\ Moved(k, "committed", <<Listing(id)'>>)
    BY <1>5 DEF CommitImport
  <2>3. [RegistryNext]_registry
    BY <2>1, <2>2 DEF RegistryNext, registry
  <2>4. runs'[id] \in Row
    <3>1. CASE Register(id, calls[k].about)
      BY <2>1, <3>1, NewRowType DEF Register, IInv, RegistryInv, RegistryTyped
    <3>2. CASE id \in Stored(calls[k].about) /\ UNCHANGED <<runs, locked>>
      BY <3>2 DEF Stored, IInv, RegistryInv, RegistryTyped
    <3> QED
      BY <2>2, <3>1, <3>2
  <2> DEFINE item == [id |-> id, row |-> runs'[id]]
             answer == <<item>>
  <2>5. Known(runs', item)
    BY <2>4, ReadIsKnown
  <2> HIDE DEF item
  <2>6. AllKnown(runs', answer) /\ 1 \in DOMAIN answer
    BY <2>5, OneRow
  <2>7. Moved(k, "committed", answer)
    BY <2>2 DEF Listing, item
  <2> HIDE DEF answer
  <2>8. UNCHANGED page
    BY <1>5 DEF CommitImport
  <2> QED
    BY <1>1, <2>1, <2>3, <2>6, <2>7, <2>8, AnsweringKeeps
<1>6. CASE RefuseImport(k)
  BY <1>1, <1>6, SilentKeeps DEF RefuseImport, Standing, registry
<1>7. CASE Standing(k, "transition", "committed") /\ UNCHANGED <<runs, locked, page>>
           /\ Moved(k, "answered", <<Listing(calls[k].about.shown.id)>>)
  <2>1. calls[k].kind = "transition" /\ Known(runs, calls[k].about.shown)
    BY <1>1, <1>7 DEF Standing, GoodCall, Meant
  <2>2. calls[k].about.shown.id \in RunIds /\ runs[calls[k].about.shown.id] \in Row
    BY <2>1 DEF Known, Items
  <2> QED
    BY <1>1, <1>7, <2>1, <2>2, ReadingKeeps
<1>8. CASE Standing(k, "import", "committed") /\ UNCHANGED <<runs, locked, page>>
           /\ Moved(k, "answered", <<Listing(calls[k].answer[1].id)>>)
  <2>1. calls[k].kind = "import" /\ Known(runs, calls[k].answer[1])
    BY <1>1, <1>8 DEF Standing, GoodCall, AllKnown
  <2>2. calls[k].answer[1].id \in RunIds /\ runs[calls[k].answer[1].id] \in Row
    BY <2>1 DEF Known, Items
  <2> QED
    BY <1>1, <1>8, <2>1, <2>2, ReadingKeeps
<1>9. CASE AnswerList(k)
  BY <1>9, AnswerListKeeps
<1> QED
  BY <1>2, <1>3, <1>4, <1>5, <1>6, <1>7, <1>8, <1>9 DEF Serve, Reload

-----------------------------------------------------------------------------
(* What an answer does to the page *)

(* A call ends, whatever it was: what stays tied stays so.                   *)
LEMMA EndingKeeps ==
  ASSUME IInv, UNCHANGED <<runs, locked>>, NEW k \in Calls, Done(k), PageKnown',
         loading' => loading /\ calls[k].kind # "list",
         selected # None => selected' # None,
         items' # <<>> \/ quality' # None => selected' # None
  PROVE  IInv'
<1>1. CallsGood /\ calls' = [calls EXCEPT ![k] = None]
  BY DEF IInv, Done
<1>2. /\ \A kind : InFlight(calls', kind) => InFlight(calls, kind)
      /\ \A kind : InFlight(calls, kind) => InFlight(calls', kind) \/ kind = calls[k].kind
  BY <1>1, FlightChanges
<1>3. PageTied'
  BY <1>2 DEF IInv, PageTied
<1> QED
  BY <1>1, <1>3, PageKeeps DEF registry

LEMMA FetchedKeeps == ASSUME IInv, NEW k \in Calls, Fetched(k) PROVE IInv'
<1> DEFINE list == calls[k].answer
<1>1. calls[k].kind = "list" /\ AllKnown(runs, list) /\ Distinct(list)
  BY DEF Fetched, Standing, IInv, CallsGood, GoodCall
<1>2. /\ UNCHANGED <<runs, locked, quality>> /\ Done(k) /\ loading' = FALSE
      /\ items' = list /\ selected' = KeptOrFirst(list)
  BY DEF Fetched
<1> HIDE DEF list
<1>3. /\ KeptOrFirst(list) # None => Known(runs, KeptOrFirst(list))
      /\ selected # None \/ list # <<>> => KeptOrFirst(list) # None
  <2>1. list # <<>> => 1 \in DOMAIN list
    BY <1>1 DEF AllKnown
  <2>2. list # <<>> => Known(runs, list[1]) /\ list[1] # None
    BY <1>1, <2>1, NoneAssumption DEF AllKnown, Known
  <2> QED
    BY <2>2 DEF KeptOrFirst, FirstOf, IInv, PageKnown
<1>4. PageKnown'
  BY <1>1, <1>2, <1>3 DEF PageKnown, IInv
<1>5. items' # <<>> \/ quality' # None => selected' # None
  BY <1>2, <1>3 DEF IInv, PageTied
<1> QED
  BY <1>2, <1>3, <1>4, <1>5, EndingKeeps

LEMMA QualityReadKeeps == ASSUME IInv, NEW k \in Calls, QualityRead(k) PROVE IInv'
<1>1. /\ calls[k] # None /\ calls[k].kind = "quality" /\ calls[k].about \in RunIds
  BY DEF QualityRead, Standing, IInv, CallsGood, GoodCall, IsCall
<1>2. selected # None
  BY <1>1 DEF IInv, PageTied, InFlight
<1>3. PageKnown'
  BY <1>1 DEF QualityRead, PageKnown, IInv
<1> QED
  BY <1>1, <1>2, <1>3, EndingKeeps DEF QualityRead

(* A list without the run gains its row in front; one that has it is kept.   *)
LEMMA WithItemIsKnown ==
  ASSUME PageKnown, NEW item, Known(runs, item)
  PROVE  AllKnown(runs, WithItem(item)) /\ Distinct(WithItem(item))
<1>1. CASE \E i \in DOMAIN items : items[i].id = item.id
  BY <1>1 DEF WithItem, PageKnown
<1>2. CASE ~\E i \in DOMAIN items : items[i].id = item.id
  BY <1>2, PrependedList DEF WithItem, PageKnown
<1> QED
  BY <1>1, <1>2

LEMMA ImportedKeeps == ASSUME IInv, NEW k \in Calls, Imported(k) PROVE IInv'
<1> DEFINE item == calls[k].answer[1]
           call == Request("quality", item.id)
<1>1. calls[k] # None /\ calls[k].kind = "import" /\ Known(runs, item)
  BY DEF Imported, Standing, IInv, CallsGood, GoodCall, AllKnown
<1>2. /\ items' = WithItem(item) /\ selected' = item /\ quality' = None
      /\ calls' = [calls EXCEPT ![k] = call]
      /\ UNCHANGED <<runs, locked, loading>>
  BY DEF Imported
<1>3. item \in Items /\ item.id \in RunIds /\ runs[item.id] \in Row /\ item # None
  BY <1>1, NoneAssumption DEF Known, Items
<1> HIDE DEF item
<1>4. call # None /\ call.kind = "quality" /\ GoodCall(runs, call)
  BY <1>3, NewCall, NoneAssumption DEF GoodCall, IsCall
<1> HIDE DEF call
<1>5. AllKnown(runs, WithItem(item)) /\ Distinct(WithItem(item))
  BY <1>1, WithItemIsKnown DEF IInv
<1>6. PageKnown'
  BY <1>1, <1>2, <1>5 DEF PageKnown, IInv
<1>7. \A kind : InFlight(calls, kind) => InFlight(calls', kind) \/ kind = "import"
  <2>1. CallsGood
    BY DEF IInv
  <2> QED
    BY <1>1, <1>2, <1>4, <2>1, FlightChanges
<1>8. PageTied'
  BY <1>2, <1>3, <1>7 DEF PageTied, IInv
<1> QED
  BY <1>2, <1>4, <1>6, <1>8, PageKeeps DEF registry

LEMMA TransitionedKeeps == ASSUME IInv, NEW k \in Calls, Transitioned(k) PROVE IInv'
<1> DEFINE item == calls[k].answer[1]
           new == [i \in DOMAIN items |-> IF items[i].id = item.id THEN item ELSE items[i]]
<1>1. calls[k].kind = "transition" /\ Known(runs, item)
  BY DEF Transitioned, Standing, IInv, CallsGood, GoodCall, AllKnown
<1>2. /\ items' = new /\ selected' = item /\ Done(k)
      /\ UNCHANGED <<runs, locked, quality, loading>>
  BY DEF Transitioned
<1>3. item \in Items /\ item # None
  BY <1>1, NoneAssumption DEF Known
<1> HIDE DEF item
<1>4. /\ items \in Seq(Items) /\ DOMAIN items = 1..Len(items) /\ Len(items) \in Nat
      /\ \A i \in DOMAIN items : items[i] \in Items
  BY DEF IInv, PageKnown, AllKnown
<1>5. new \in Seq(Items) /\ DOMAIN new = DOMAIN items
  BY <1>3, <1>4
<1>6. \A i \in DOMAIN items : new[i] = item \/ new[i] = items[i]
  OBVIOUS
<1>7. \A i \in DOMAIN items : new[i].id = items[i].id
  OBVIOUS
<1> HIDE DEF new
<1>8. AllKnown(runs, new) /\ Distinct(new)
  BY <1>1, <1>5, <1>6, <1>7 DEF AllKnown, Distinct, IInv, PageKnown
<1>9. PageKnown'
  BY <1>1, <1>2, <1>8 DEF PageKnown, IInv
<1> QED
  BY <1>1, <1>2, <1>3, <1>9, EndingKeeps

LEMMA FailedKeeps == ASSUME IInv, NEW k \in Calls, Failed(k) PROVE IInv'
<1>1. /\ UNCHANGED <<runs, locked, items, selected, quality>> /\ Done(k)
      /\ loading' = (loading /\ calls[k].kind # "list")
  BY DEF Failed, FailedPage
<1>2. loading' \in BOOLEAN /\ (loading' => loading /\ calls[k].kind # "list")
  BY <1>1
<1>3. PageKnown'
  BY <1>1, <1>2 DEF PageKnown, IInv
<1>4. items # <<>> \/ quality # None => selected # None
  BY DEF IInv, PageTied
<1> QED
  BY <1>1, <1>2, <1>3, <1>4, EndingKeeps

-----------------------------------------------------------------------------
(* Invariance *)

LEMMA OthersKeep == ASSUME IInv, OtherClients PROVE IInv'
<1>1. UNCHANGED <<page, calls>>
  BY DEF OtherClients
<1>2. [RegistryNext]_registry
  BY StoreAssumption DEF OtherClients, RegistryNext
<1>3. RegistryInv'
  BY <1>2, RegistryKeeps DEF IInv
<1>4. PageKnown'
  BY <1>1, <1>2, ListLasts, KnownLasts DEF IInv, PageKnown, page
<1>5. CallsGood'
  BY <1>1, <1>2, CallLasts DEF IInv, CallsGood
<1>6. PageTied'
  BY <1>1 DEF IInv, PageTied, InFlight, page
<1> QED
  BY <1>3, <1>4, <1>5, <1>6 DEF IInv

LEMMA InitEstablishes == RunStoreInit => IInv
<1> SUFFICES ASSUME RunStoreInit PROVE IInv
  OBVIOUS
<1>1. RegistryInv
  BY RegistryStart DEF RunStoreInit
<1>2. AllKnown(runs, <<>>) /\ Distinct(<<>>)
  BY NewCall
<1>3. /\ items = <<>> /\ selected = None /\ quality = None /\ loading = FALSE
      /\ calls \in [Calls -> CallRow \cup {None}] /\ \A k \in Calls : calls[k] = None
  BY DEF RunStoreInit
<1> QED
  BY <1>1, <1>2, <1>3 DEF IInv, PageKnown, CallsGood, PageTied, InFlight

LEMMA NextKeeps == IInv /\ [Next]_vars => IInv'
<1> SUFFICES ASSUME IInv, [Next]_vars PROVE IInv'
  OBVIOUS
<1>1. ASSUME NEW k \in Calls, Click(k)
      PROVE  IInv'
  BY <1>1, FetchKeeps, SelectKeeps, SubmitKeeps DEF Click
<1>2. ASSUME NEW k \in Calls, Serve(k)
      PROVE  IInv'
  BY <1>2, ServeKeeps
<1>3. ASSUME NEW k \in Calls, Settle(k)
      PROVE  IInv'
  BY <1>3, FetchedKeeps, QualityReadKeeps, ImportedKeeps, TransitionedKeeps, FailedKeeps DEF Settle
<1>4. CASE UNCHANGED vars
  BY <1>4 DEF vars, IInv, RegistryInv, RegistryTyped, ChecksumsDistinct, PageKnown, CallsGood,
     PageTied, InFlight
<1> QED
  BY <1>1, <1>2, <1>3, <1>4, OthersKeep DEF Next

LEMMA Invariance == Spec => []IInv
<1> QED
  BY InitEstablishes, NextKeeps, PTL DEF Spec

-----------------------------------------------------------------------------
(* Theorems *)

(* Every variable has its type in every reachable state; the bar is drawn    *)
(* only while a fetch is under way and the page, once it had a row, has one. *)
THEOREM TypeCorrect == Spec => []TypeOK
<1>1. IInv => TypeOK
  <2> SUFFICES ASSUME IInv PROVE TypeOK
    OBVIOUS
  <2>1. items \in Seq(Items) /\ quality \in RunIds \cup {None} /\ loading \in BOOLEAN
    BY DEF IInv, PageKnown, AllKnown
  <2>2. selected \in Items \cup {None}
    BY DEF IInv, PageKnown, Known
  <2>3. /\ calls \in [Calls -> CallRow \cup {None}]
        /\ \A k \in Calls : calls[k] # None => IsCall(calls[k])
    BY DEF IInv, CallsGood, GoodCall
  <2>4. /\ loading => \E k \in Calls : calls[k] # None /\ calls[k].kind = "list"
        /\ items # <<>> \/ quality # None => selected # None
    BY DEF IInv, PageTied, InFlight
  <2> QED
    BY <2>1, <2>2, <2>3, <2>4 DEF TypeOK
<1> QED
  BY <1>1, Invariance, PTL

(* However answers overtake each other, the list never has a run twice.      *)
THEOREM RowsAreDistinct == Spec => []ItemsDistinct
<1>1. IInv => ItemsDistinct
  BY DEF IInv, PageKnown, Distinct, ItemsDistinct
<1> QED
  BY <1>1, Invariance, PTL

(* An older row is the present one but for its state and its version.        *)
LEMMA OldRow ==
  ASSUME NEW row \in Row, NEW now \in Row, row.plan = now.plan, row.code = now.code,
         row.track = now.track, row.nav = now.nav
  PROVE  row = [now EXCEPT !.state = row.state, !.version = row.version]
<1> DEFINE mid == [now EXCEPT !.state = row.state]
<1>1. /\ mid \in Row /\ mid.state = row.state /\ mid.version = now.version
      /\ mid.plan = row.plan /\ mid.code = row.code /\ mid.track = row.track /\ mid.nav = row.nav
  BY DEF Row
<1>2. [now EXCEPT !.state = row.state, !.version = row.version]
        = [mid EXCEPT !.version = row.version]
  OBVIOUS
<1> HIDE DEF mid
<1>3. row = [mid EXCEPT !.version = row.version]
  BY <1>1 DEF Row
<1> QED
  BY <1>2, <1>3

(* Every row on the page and under way to it is one the run has been, and of *)
(* the present version only the present row.                                 *)
THEOREM PageShowsWhatWas == Spec => []ShowsWhatWas
<1>1. ASSUME IInv, NEW item \in Shown
      PROVE  Known(runs, item)
  BY <1>1 DEF Shown, IInv, PageKnown, CallsGood, GoodCall, AllKnown
<1>2. ASSUME NEW item, Known(runs, item)
      PROVE  /\ runs[item.id] # NoRun
             /\ \/ item.row = runs[item.id]
                \/ /\ item.row.version < runs[item.id].version
                   /\ item.row = [runs[item.id] EXCEPT !.state = item.row.state,
                                                       !.version = item.row.version]
  <2>1. item.row \in Row /\ runs[item.id] \in Row /\ runs[item.id] # NoRun
    BY <1>2, RegistryAssumption DEF Known, Items, Row
  <2> QED
    BY <1>2, <2>1, OldRow DEF Known
<1>3. IInv => ShowsWhatWas
  BY <1>1, <1>2 DEF ShowsWhatWas
<1> QED
  BY <1>3, Invariance, PTL

(* What a step may do to a click that the server has not yet answered.       *)
LEMMA ClickGoesOn ==
  ASSUME IInv, [Next]_vars, NEW k \in Calls, Standing(k, "transition", "sent"),
         calls'[k] # None
  PROVE  \/ calls'[k] = calls[k]
         \/ CommitTransition(k)
         \/ RefuseTransition(k)
<1>1. CallsGood /\ calls[k] # None /\ calls[k].kind = "transition" /\ calls[k].phase = "sent"
  BY DEF IInv, Standing
<1>2. ASSUME NEW o \in Calls, Click(o)
      PROVE  calls'[k] = calls[k]
  BY <1>1, <1>2 DEF Click, Fetch, Select, Import, Transition, Send, CallsGood
<1>3. ASSUME NEW o \in Calls, Serve(o), o # k
      PROVE  calls'[k] = calls[k]
  BY <1>1, <1>3 DEF Serve, AnswerList, AnswerQuality, CommitTransition, RefuseTransition,
     CommitImport, RefuseImport, Reload, Moved, CallsGood
<1>4. ASSUME Serve(k)
      PROVE  CommitTransition(k) \/ RefuseTransition(k)
  BY <1>1, <1>4 DEF Serve, AnswerList, AnswerQuality, CommitImport, RefuseImport, Reload, Standing
<1>5. ASSUME NEW o \in Calls, Settle(o)
      PROVE  calls'[k] = calls[k]
  <2>1. CASE o = k
    <3>1. Failed(k)
      BY <1>1, <1>5, <2>1 DEF Settle, Fetched, QualityRead, Imported, Transitioned, Standing
    <3> QED
      BY <1>1, <3>1 DEF Failed, Done, CallsGood
  <2>2. CASE o # k
    BY <1>1, <1>5, <2>2 DEF Settle, Fetched, QualityRead, Imported, Transitioned, Failed, Done,
       CallsGood
  <2> QED
    BY <2>1, <2>2
<1>6. CASE OtherClients \/ UNCHANGED vars
  BY <1>6 DEF OtherClients, vars
<1> QED
  BY <1>2, <1>3, <1>4, <1>5, <1>6 DEF Next

LEMMA MovedPhase ==
  ASSUME CallsGood, NEW k \in Calls, calls[k] # None,
         NEW phase \in {"committed", "refused"}, Moved(k, phase, <<>>)
  PROVE  calls'[k].phase = phase
<1> DEFINE nothing == <<>>
           call == calls[k]
<1>1. calls'[k] = Carried(call, phase, nothing) /\ call \in CallRow
  BY MovedCall DEF CallsGood
<1>2. nothing \in Seq(Items) /\ phase \in {"sent", "committed", "answered", "refused"}
  OBVIOUS
<1> HIDE DEF nothing, call
<1>3. Carried(call, phase, nothing).phase = phase
  BY <1>1, <1>2 DEF Carried, CallRow
<1> QED
  BY <1>1, <1>3

(* The server does for a click what it was made for, on the row it was made  *)
(* on, or nothing.                                                           *)
THEOREM ClicksActOnWhatIsShown == Spec => ActsOnWhatItShows
<1>1. ASSUME IInv, [Next]_vars, NEW k \in Calls, Standing(k, "transition", "sent"),
             Standing(k, "transition", "committed")'
      PROVE  runs[calls[k].about.shown.id] = calls[k].about.shown.row
  <2>1. /\ calls[k] # None /\ calls[k].phase = "sent" /\ GoodCall(runs, calls[k])
        /\ calls'[k] # None /\ calls'[k].phase = "committed" /\ calls[k].kind = "transition"
    BY <1>1 DEF Standing, IInv, CallsGood
  <2>2. ~RefuseTransition(k)
    BY <1>1, <2>1, MovedPhase DEF RefuseTransition, IInv
  <2>3. CommitTransition(k)
    BY <1>1, <2>1, <2>2, ClickGoesOn
  <2>4. Meant(runs, calls[k].about)
    BY <2>1 DEF GoodCall
  <2> QED
    BY <2>3, <2>4, VersionTellsRow DEF CommitTransition, Meant
<1>2. IInv /\ [Next]_vars =>
        [\A k \in Calls : Standing(k, "transition", "sent") /\ Standing(k, "transition", "committed")'
           => runs[calls[k].about.shown.id] = calls[k].about.shown.row]_vars
  BY <1>1
<1> QED
  BY <1>2, Invariance, PTL DEF Spec, ActsOnWhatItShows

(* The buttons of the page are the server's table.                           *)
LEMMA SameTable ==
  ASSUME NEW from, NEW to, <<from, to>> \in RUN_TRANSITIONS
  PROVE  RunCanTransition(from, to)
  BY DEF RUN_TRANSITIONS, RunCanTransition, runTransitions

(* No button is refused on the row it was drawn for, but for the navigation. *)
THEOREM OffersAreKept == Spec => OffersAreGranted
<1> DEFINE Excused(k) == LET asked == calls[k].about IN
          \/ runs[asked.shown.id] # asked.shown.row
          \/ asked.target = "quality_checked" /\ asked.shown.row.nav = "invalid"
<1>1. ASSUME IInv, [Next]_vars, NEW k \in Calls, Standing(k, "transition", "sent"),
             Standing(k, "transition", "refused")'
      PROVE  Excused(k)
  <2>1. /\ calls[k] # None /\ calls[k].phase = "sent" /\ GoodCall(runs, calls[k])
        /\ calls'[k] # None /\ calls'[k].phase = "refused" /\ calls[k].kind = "transition"
    BY <1>1 DEF Standing, IInv, CallsGood
  <2>2. ~CommitTransition(k)
    BY <1>1, <2>1, MovedPhase DEF CommitTransition, IInv
  <2>3. RefuseTransition(k)
    BY <1>1, <2>1, <2>2, ClickGoesOn
  <2>4. Meant(runs, calls[k].about)
    BY <2>1 DEF GoodCall
  <2>5. RunCanTransition(calls[k].about.shown.row.state, calls[k].about.target)
        /\ calls[k].about.expected = calls[k].about.shown.row.version
    BY <2>4, SameTable DEF Meant
  <2> QED
    BY <2>3, <2>5 DEF RefuseTransition
<1>2. IInv /\ [Next]_vars =>
        [\A k \in Calls : Standing(k, "transition", "sent") /\ Standing(k, "transition", "refused")'
           => Excused(k)]_vars
  BY <1>1
<1> QED
  BY <1>2, Invariance, PTL DEF Spec, OffersAreGranted
=============================================================================
