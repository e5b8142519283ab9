------------------------------- MODULE RunStore -------------------------------
(***************************************************************************)
(* The runs page of the frontend: useSonarRunStore, the clicks of RunsPage *)
(* that change it, and the calls of sonarRunApi it has in flight.  The     *)
(* server is RunRegistry, whose atomic steps SonarRun.tla is shown to      *)
(* implement; other clients take any of its steps at any time.             *)
(*                                                                         *)
(* A click runs until its await and the answer runs the rest, whenever it  *)
(* comes: answers overtake each other, connections break before and after  *)
(* the server has done its part, and nothing is ever sent twice.           *)
(***************************************************************************)
EXTENDS RunRegistry, Sequences

CONSTANTS
  Calls,      \* requests the page may have in flight at once (a bound)
  Forms,      \* the imports that anybody submits (a bound)
  Targets,    \* the states that anybody asks for (a bound)
  Place,      \* the place of each primary key in the order started_at DESC, id DESC
  PageSize,   \* the length of a page of the list (100)
  None        \* null, and a call that is not in flight

ASSUME StoreAssumption ==
  /\ Forms \subseteq ImportRequests /\ Targets \subseteq RunTargets
  /\ Place \in [RunIds -> Nat] /\ PageSize \in Nat
  /\ \A id, other \in RunIds : Place[id] = Place[other] => id = other

VARIABLES
  items,      \* the rows of the list, each with its id
  selected,   \* the row of the detail pane
  quality,    \* the run whose quality evidence the detail pane shows
  loading,    \* the progress bar
  calls       \* the requests in flight

page == <<items, selected, quality, loading>>
vars == <<runs, locked, items, selected, quality, loading, calls>>

(* A slip: the page offers to check a rejected run again. *)
RUN_TRANSITIONS_REOPENED ==
  { <<"imported",        "quality_checked">>, <<"imported",        "rejected">>,
    <<"quality_checked", "processing">>,      <<"quality_checked", "rejected">>,
    <<"processing",      "processed">>,       <<"processing",      "rejected">>,
    <<"rejected",        "quality_checked">>, <<"processed",       "superseded">> }

(* The page's own table of the buttons it offers. *)
RUN_TRANSITIONS ==
  { <<"imported",        "quality_checked">>, <<"imported",        "rejected">>,
    <<"quality_checked", "processing">>,      <<"quality_checked", "rejected">>,
    <<"processing",      "processed">>,       <<"processing",      "rejected">>,
    <<"processed",       "superseded">> }

Listing(id) == [id |-> id, row |-> runs[id]]

(* The first PageSize of the rows that are there, in their order. *)
IsPage(ids) ==
  /\ \A i, j \in DOMAIN ids : i < j => Place[ids[i]] < Place[ids[j]]
  /\ \A id \in RunIds : runs[id] # NoRun =>
       \/ \E i \in DOMAIN ids : ids[i] = id
       \/ Len(ids) = PageSize /\ \A i \in DOMAIN ids : Place[ids[i]] < Place[id]

RunStoreInit ==
  /\ RegistryInit
  /\ items = <<>> /\ selected = None /\ quality = None /\ loading = FALSE
  /\ calls = [k \in Calls |-> None]

(* A call: what it asks, where it stands, the answer as a list of rows. *)
Request(kind, about) == [kind |-> kind, about |-> about, phase |-> "sent", answer |-> <<>>]
Send(k, call) == calls[k] = None /\ calls' = [calls EXCEPT ![k] = call]
Standing(k, kind, phase) ==
  calls[k] # None /\ calls[k].kind = kind /\ calls[k].phase = phase
Done(k) == calls' = [calls EXCEPT ![k] = None]

-----------------------------------------------------------------------------
(* Clicks *)

(* The page is opened, or its refresh button is pressed. *)
Fetch(k) ==
  /\ Send(k, Request("list", None))
  /\ loading' = TRUE
  /\ UNCHANGED <<runs, locked, items, selected, quality>>

Select(k, i) ==
  /\ Send(k, Request("quality", items[i].id))
  /\ selected' = items[i] /\ quality' = None
  /\ UNCHANGED <<runs, locked, items, loading>>

Import(k, q) ==
  /\ Send(k, Request("import", q))
  /\ UNCHANGED <<runs, locked, page>>

(* Slip: expected_version is the list's, not that of the row on display. *)
VersionListed(item) ==
  LET rows == {items[i].row.version : i \in {j \in DOMAIN items : items[j].id = item.id}}
  IN  IF rows = {} THEN item.row.version ELSE CHOOSE v \in rows : TRUE
VersionSent(item) == item.row.version

(* The button carries the row it was drawn for; rejecting carries a reason. *)
Transition(k, target) ==
  /\ selected # None
  /\ <<selected.row.state, target>> \in RUN_TRANSITIONS
  /\ Send(k, Request("transition", [shown |-> selected, target |-> target,
                                    expected |-> VersionSent(selected)]))
  /\ UNCHANGED <<runs, locked, page>>

-----------------------------------------------------------------------------
(* The server *)

Moved(k, phase, answer) ==
  calls' = [calls EXCEPT ![k].phase = phase, ![k].answer = answer]

AnswerList(k) ==
  /\ Standing(k, "list", "sent")
  /\ \E n \in 0..PageSize : \E ids \in [1..n -> {id \in RunIds : runs[id] # NoRun}] :
       /\ IsPage(ids)
       /\ Moved(k, "answered", [i \in 1..n |-> Listing(ids[i])])
  /\ UNCHANGED <<runs, locked, page>>

(* The evidence is a function of the track, which no statement changes. *)
AnswerQuality(k) ==
  /\ Standing(k, "quality", "sent")
  /\ Moved(k, "answered", <<Listing(calls[k].about)>>)
  /\ UNCHANGED <<runs, locked, page>>

CommitTransition(k) ==
  /\ Standing(k, "transition", "sent")
  /\ LET asked == calls[k].about IN
       /\ runs[asked.shown.id].version = asked.expected
       /\ Advance(asked.shown.id, asked.target)
  /\ Moved(k, "committed", <<>>)
  /\ UNCHANGED page

RefuseTransition(k) ==
  /\ Standing(k, "transition", "sent")
  /\ LET asked == calls[k].about  row == runs[asked.shown.id] IN
       \/ row.version # asked.expected
       \/ ~RunCanTransition(row.state, asked.target)
       \/ asked.target = "quality_checked" /\ row.nav = "invalid"
  /\ Moved(k, "refused", <<>>)
  /\ UNCHANGED <<runs, locked, page>>

Stored(q) == {id \in RunIds : runs[id] # NoRun /\ Checksum(runs[id]) = Checksum(q)}

(* Done, but for the SELECT of the row that is the answer. *)
CommitImport(k) ==
  /\ Standing(k, "import", "sent")
  /\ \E id \in RunIds :
       /\ \/ Register(id, calls[k].about)
          \/ /\ id \in Stored(calls[k].about) /\ calls[k].about.plan \in locked
             /\ UNCHANGED <<runs, locked>>
       /\ Moved(k, "committed", <<Listing(id)'>>)
  /\ UNCHANGED page

RefuseImport(k) ==
  /\ Standing(k, "import", "sent")
  /\ \/ calls[k].about.plan \notin locked
     \/ Stored(calls[k].about) = {} /\ ~Unique(calls[k].about)
  /\ Moved(k, "refused", <<>>)
  /\ UNCHANGED <<runs, locked, page>>

(* Both write handlers answer with a read after their write. *)
Reload(k) ==
  /\ \/ /\ Standing(k, "transition", "committed")
        /\ Moved(k, "answered", <<Listing(calls[k].about.shown.id)>>)
     \/ /\ Standing(k, "import", "committed")
        /\ Moved(k, "answered", <<Listing(calls[k].answer[1].id)>>)
  /\ UNCHANGED <<runs, locked, page>>

-----------------------------------------------------------------------------
(* What an answer does to the page *)

FirstOf(list) == IF list = <<>> THEN None ELSE list[1]

(* A slip: the list opens on nothing it has. *)
Unfetched(list) == selected
KeptOrFirst(list) == IF selected # None THEN selected ELSE FirstOf(list)

Fetched(k) ==
  /\ Standing(k, "list", "answered")
  /\ items' = calls[k].answer
  /\ selected' = KeptOrFirst(calls[k].answer)
  /\ loading' = FALSE
  /\ Done(k)
  /\ UNCHANGED <<runs, locked, quality>>

QualityRead(k) ==
  /\ Standing(k, "quality", "answered")
  /\ quality' = calls[k].about
  /\ Done(k)
  /\ UNCHANGED <<runs, locked, items, selected, loading>>

(* A slip: the answer is always a new row. *)
Prepended(item) == <<item>> \o items
WithItem(item) ==
  IF \E i \in DOMAIN items : items[i].id = item.id THEN items ELSE <<item>> \o items

(* The store takes the run in, and submit() goes on to select it. *)
Imported(k) ==
  /\ Standing(k, "import", "answered")
  /\ LET item == calls[k].answer[1] IN
       /\ items' = WithItem(item)
       /\ selected' = item /\ quality' = None
       /\ calls' = [calls EXCEPT ![k] = Request("quality", item.id)]
  /\ UNCHANGED <<runs, locked, loading>>

Transitioned(k) ==
  /\ Standing(k, "transition", "answered")
  /\ LET item == calls[k].answer[1] IN
       /\ items' = [i \in DOMAIN items |-> IF items[i].id = item.id THEN item ELSE items[i]]
       /\ selected' = item
  /\ Done(k)
  /\ UNCHANGED <<runs, locked, quality, loading>>

(* Slips: no finally around the fetch; the row moves on without the server. *)
FailedUnfinished(k) == UNCHANGED page
FailedOptimistic(k) ==
  /\ loading' = (loading /\ calls[k].kind # "list")
  /\ selected' = IF calls[k].kind # "transition" THEN selected
                 ELSE [calls[k].about.shown EXCEPT !.row = Advanced(@, calls[k].about.target)]
  /\ UNCHANGED <<items, quality>>

(* The promise rejects: only fetch has anything left to do, its finally. *)
FailedPage(k) ==
  /\ loading' = (loading /\ calls[k].kind # "list")
  /\ UNCHANGED <<items, selected, quality>>

(* The server refuses, or the connection breaks, the work done or not. *)
Failed(k) ==
  /\ calls[k] # None
  /\ FailedPage(k)
  /\ Done(k)
  /\ UNCHANGED <<runs, locked>>

-----------------------------------------------------------------------------
Click(k) ==
  \/ Fetch(k)
  \/ \E i \in DOMAIN items : Select(k, i)
  \/ \E q \in Forms : Import(k, q)
  \/ \E target \in Targets : Transition(k, target)

Serve(k) ==
  \/ AnswerList(k) \/ AnswerQuality(k)
  \/ CommitTransition(k) \/ RefuseTransition(k)
  \/ CommitImport(k) \/ RefuseImport(k)
  \/ Reload(k)

Settle(k) ==
  Fetched(k) \/ QualityRead(k) \/ Imported(k) \/ Transitioned(k) \/ Failed(k)

OtherClients ==
  /\ \/ \E plan \in Plans : LockPlan(plan)
     \/ \E id \in RunIds, q \in Forms : Register(id, q)
     \/ \E id \in RunIds, target \in Targets : Advance(id, target)
  /\ UNCHANGED <<page, calls>>

Next ==
  \/ \E k \in Calls : Click(k) \/ Serve(k) \/ Settle(k)
  \/ OtherClients

(* A request is answered or its connection ends: nginx and the browser wait  *)
(* for an answer no longer than their timeouts.  Nobody is obliged to click. *)
Spec == RunStoreInit /\ [][Next]_vars /\ \A k \in Calls : WF_vars(Serve(k) \/ Settle(k))

-----------------------------------------------------------------------------
(* Properties *)

Items == [id : RunIds, row : Row]
Clicks == [shown : Items, target : RunTargets, expected : Nat]
CallRow ==
  [kind : {"list", "quality", "import", "transition"},
   about : {None} \cup RunIds \cup ImportRequests \cup Clicks,
   phase : {"sent", "committed", "answered", "refused"}, answer : Seq(Items)]
IsCall(call) ==
  /\ call \in CallRow
  /\ \/ call.kind = "list" /\ call.about = None
     \/ call.kind = "quality" /\ call.about \in RunIds
     \/ call.kind = "import" /\ call.about \in ImportRequests
     \/ call.kind = "transition" /\ call.about \in Clicks

(* null is no row and no call. *)
ASSUME NoneAssumption == None \notin Items /\ None \notin CallRow

(* Every variable has its type; the bar is drawn only while a fetch is under *)
(* way, and quality only under a selected run.                               *)
TypeOK ==
  /\ items \in Seq(Items)
  /\ selected \in Items \cup {None}
  /\ quality \in RunIds \cup {None}
  /\ loading \in BOOLEAN
  /\ calls \in [Calls -> CallRow \cup {None}]
  /\ \A k \in Calls : calls[k] # None => IsCall(calls[k])
  /\ loading => \E k \in Calls : calls[k] # None /\ calls[k].kind = "list"
  /\ items # <<>> \/ quality # None => selected # None

(* One run, one row of the list, whatever overtakes what: an import that the *)
(* server answers with a run the page has already fetched, a fetch answered  *)
(* before an import and delivered after it (the React key of the list).      *)
ItemsDistinct ==
  \A i, j \in DOMAIN items : items[i].id = items[j].id => i = j

(* The rows on the page, and those under way to it. *)
Shown ==
  {items[i] : i \in DOMAIN items} \cup ({selected} \ {None})
  \cup UNION {{calls[k].answer[i] : i \in DOMAIN calls[k].answer} :
                k \in {o \in Calls : calls[o] # None}}

(* The page shows the server's rows, old ones perhaps and never invented     *)
(* ones: whatever fails or overtakes, a row on it is a row the run has been, *)
(* and the one with the server's version is the server's.                    *)
ShowsWhatWas ==
  \A item \in Shown :
    LET now == runs[item.id] IN
    /\ now # NoRun
    /\ \/ item.row = now
       \/ /\ item.row.version < now.version
          /\ item.row = [now EXCEPT !.state = item.row.state, !.version = item.row.version]

(* The row the server replaces for a click is the row the user was looking   *)
(* at when he clicked, although the list may show another version of it and  *)
(* both may be old.                                                          *)
ActsOnWhatItShows ==
  [][\A k \in Calls : Standing(k, "transition", "sent") /\ Standing(k, "transition", "committed")'
       => runs[calls[k].about.shown.id] = calls[k].about.shown.row]_vars

(* A button of the page is refused only for what the page could not know,    *)
(* another's transition of the run, or for the navigation of the run: the    *)
(* table of the page offers nothing that the server's has not.               *)
OffersAreGranted ==
  [][\A k \in Calls : Standing(k, "transition", "sent") /\ Standing(k, "transition", "refused")'
       => LET asked == calls[k].about IN
          \/ runs[asked.shown.id] # asked.shown.row
          \/ asked.target = "quality_checked" /\ asked.shown.row.nav = "invalid"]_vars

(* The progress bar goes away, however many fetches overlap and fail. *)
LoadingEnds == loading ~> ~loading
=============================================================================
