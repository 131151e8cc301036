------------------------------ MODULE TabLoads ------------------------------
(***************************************************************************)
(* The tabs of the usage page that load their own data: the request events *)
(* by page and filter, the analysis and the credentials.  Each has one     *)
(* request at a time: a new one aborts the one before, and so does leaving *)
(* the tab.  The buttons refresh the tab of the moment they were pressed,  *)
(* after a sync of the backend or after the filter options have come.      *)
(***************************************************************************)
EXTENDS Naturals

CONSTANTS
  TabRange, \* what can be selected: a preset or custom dates
  Invalid,  \* custom dates that are missing, malformed or in the wrong order
  Model,    \* what events can be filtered by
  All,      \* no filter
  NoQuery,
  Pages     \* bound: pages of events

ASSUME TabRangeAssumption == Invalid \subseteq TabRange
ASSUME ModelAssumption == All \notin Model
ASSUME PagesAssumption == Pages \in Nat \ {0}

Slot == {"events", "analysis", "credentials"}
Tab == Slot \cup {"elsewhere"}
Filter == Model \cup {All}
Query == [range : TabRange, page : 1..Pages, filter : Filter]
Button == {"refresh", "sync"}

ASSUME QueryAssumption == \A q \in Query : q # NoQuery

VARIABLES
  tab,      \* activeTab
  choice,   \* timeRange, eventsPage and the filter of events
  flight,   \* what the current request of a tab asks for
  shown,    \* what the data of a tab were asked for
  spin,     \* its loading
  error,    \* its error is set
  pages,    \* eventsTotalPages
  options,  \* the filter options, whether they are loaded, and whether a request is under way
  late,     \* the refresh of a button that waits for the backend or the options, or is about to
            \* go on: its tab and what it asks for, those of the moment the button was pressed
  outdated  \* auxiliary: such a refresh has replaced what the selection had asked for

tabVars == <<tab, choice, flight, shown, spin, error, pages, options, late, outdated>>
slotVars == <<flight, shown, spin, error, pages>>

Options == [offered : SUBSET Model, loaded : BOOLEAN, asked : BOOLEAN]
Late == [at : {"none", "backend", "options", "resumed"}, tab : Tab, query : Query]

TabTypeOK ==
  /\ tab \in Tab
  /\ choice \in Query
  /\ flight \in [Slot -> Query \cup {NoQuery}]
  /\ shown \in [Slot -> Query \cup {NoQuery}]
  /\ spin \in [Slot -> BOOLEAN] /\ error \in [Slot -> BOOLEAN]
  /\ pages \in 0..Pages
  /\ options \in Options
  /\ late \in [Button -> Late]
  /\ outdated \in BOOLEAN

Everything == CHOOSE q \in Query : TRUE
NotLate == [at |-> "none", tab |-> "elsewhere", query |-> Everything]

TabInit ==
  /\ tab = "elsewhere"
  /\ choice \in [range : TabRange, page : {1}, filter : {All}]
  /\ flight = [s \in Slot |-> NoQuery]
  /\ shown = [s \in Slot |-> NoQuery]
  /\ spin = [s \in Slot |-> FALSE] /\ error = [s \in Slot |-> FALSE]
  /\ pages = 0
  /\ options = [offered |-> {}, loaded |-> FALSE, asked |-> FALSE]
  /\ late = [b \in Button |-> NotLate]
  /\ outdated = FALSE

-----------------------------------------------------------------------------
(* loadEvents, loadAnalysis and loadCredentials. *)

(* What a tab's request depends on: page and filter only that of the events. *)
QueryOf(s, c) ==
  CASE s = "events" -> c
    [] s = "analysis" -> [c EXCEPT !.page = 1, !.filter = All]
    [] OTHER -> Everything

Refused(s, c) == s # "credentials" /\ c.range \in Invalid

(* An invalid selection aborts the request and is answered with nothing.  The table of
   events keeps its rows while it loads; the other tabs are blank. *)
LoadTab(s, c) ==
  /\ error' = [error EXCEPT ![s] = FALSE]
  /\ spin' = [spin EXCEPT ![s] = ~Refused(s, c)]
  /\ flight' = [flight EXCEPT ![s] = IF Refused(s, c) THEN NoQuery ELSE QueryOf(s, c)]
  /\ shown' = IF s = "events" /\ ~Refused(s, c) THEN shown ELSE [shown EXCEPT ![s] = NoQuery]
  /\ pages' = IF s = "events" /\ Refused(s, c) THEN 0 ELSE pages

(* The effect of a tab that is opened, or whose selection has changed. *)
LoadActive(c) ==
  /\ IF tab \in Slot THEN LoadTab(tab, c) ELSE UNCHANGED slotVars
  /\ outdated' = FALSE

(* Who waits for the options goes on when the request is answered, fails or is aborted. *)
Woken == [b \in Button |-> IF late[b].at = "options" THEN [late[b] EXCEPT !.at = "resumed"] ELSE late[b]]

(* loadEventFilterOptions: options that are not loaded are asked for, and the request of before
   is aborted. *)
Asking(o) == [o EXCEPT !.asked = ~o.loaded]
AskOptions == options' = Asking(options) /\ late' = Woken

(* A change of the selection while the events are open restarts both requests. *)
ChooseEvents(c) ==
  /\ choice' = c
  /\ IF tab = "events" /\ c # choice
     THEN LoadActive(c) ELSE UNCHANGED <<slotVars, outdated>>

Finished(s) ==
  /\ flight' = [flight EXCEPT ![s] = NoQuery]
  /\ spin' = [spin EXCEPT ![s] = FALSE]

(* Mutant: a page beyond the last is shown all the same. *)
BeyondNever(q, n) == FALSE

Beyond(q, n) == n > 0 /\ q.page > n

(* The answer to loadEvents has n pages in all. *)
EventsArrive(n) ==
  LET q == flight["events"] IN
  /\ q # NoQuery /\ ~Beyond(q, n)
  /\ Finished("events")
  /\ shown' = [shown EXCEPT !["events"] = q]
  /\ pages' = n
  /\ UNCHANGED <<tab, choice, error, options, late, outdated>>

(* It has fewer than the page asked for: the last one is asked for instead, unless it is
   the page selected, or another tab is open. *)
EventsArriveShort(n) ==
  LET q == flight["events"]
      c == [choice EXCEPT !.page = n]
  IN /\ q # NoQuery /\ Beyond(q, n)
     /\ IF tab = "events" /\ c # choice
        THEN LoadActive(c) /\ AskOptions
        ELSE Finished("events") /\ UNCHANGED <<shown, error, pages, options, late, outdated>>
     /\ choice' = c
     /\ UNCHANGED tab

DataArrive(s) ==
  /\ s # "events" /\ flight[s] # NoQuery
  /\ Finished(s)
  /\ shown' = [shown EXCEPT ![s] = flight[s]]
  /\ UNCHANGED <<tab, choice, error, pages, options, late, outdated>>

LoadFails(s) ==
  /\ flight[s] # NoQuery
  /\ Finished(s)
  /\ shown' = [shown EXCEPT ![s] = NoQuery]
  /\ error' = [error EXCEPT ![s] = TRUE]
  /\ pages' = IF s = "events" THEN 0 ELSE pages
  /\ UNCHANGED <<tab, choice, options, late, outdated>>

(* sanitizeRequestEventFilters: a filter that is not offered is dropped. *)
Sanitized(c, offered) ==
  IF c.filter \in offered \cup {All} THEN c ELSE [c EXCEPT !.filter = All, !.page = 1]

(* The filter options come, or fail to and will be asked for again. *)
OptionsArrive ==
  /\ options.asked
  /\ \E o \in {[offered |-> S, loaded |-> TRUE, asked |-> FALSE] : S \in SUBSET Model}
              \cup {[offered |-> {}, loaded |-> FALSE, asked |-> FALSE]} :
       LET c == Sanitized(choice, o.offered) IN
       /\ ChooseEvents(c)
       /\ options' = IF tab = "events" /\ c # choice THEN Asking(o) ELSE o
  /\ late' = Woken
  /\ UNCHANGED tab

-----------------------------------------------------------------------------
(* The user. *)

(* Leaving a tab aborts its requests; opening one starts them. *)
OpenTab(t) ==
  /\ t # tab
  /\ tab' = t
  /\ LET left == [s \in Slot |-> NoQuery] IN
     /\ flight' = IF t \in Slot /\ ~Refused(t, choice) THEN [left EXCEPT ![t] = QueryOf(t, choice)] ELSE left
     /\ spin' = [s \in Slot |-> s = t /\ ~Refused(s, choice)]
     /\ error' = IF t \in Slot THEN [error EXCEPT ![t] = FALSE] ELSE error
     /\ shown' = IF t \in Slot /\ (t # "events" \/ Refused(t, choice))
                 THEN [shown EXCEPT ![t] = NoQuery] ELSE shown
     /\ pages' = IF t = "events" /\ Refused(t, choice) THEN 0 ELSE pages
  /\ options' = [options EXCEPT !.asked = t = "events" /\ ~options.loaded]
  /\ late' = Woken
  /\ outdated' = FALSE
  /\ UNCHANGED choice

(* Another range begins with the first page. *)
SelectTabRange(r) ==
  /\ r # choice.range
  /\ choice' = [choice EXCEPT !.range = r, !.page = 1]
  /\ IF tab \in {"events", "analysis"} THEN LoadActive(choice') ELSE UNCHANGED <<slotVars, outdated>>
  /\ IF tab = "events" THEN AskOptions ELSE UNCHANGED <<options, late>>
  /\ UNCHANGED tab

(* Another filter, or page size, begins with the first page too. *)
FilterEvents(f) ==
  /\ tab = "events" /\ f \in options.offered \cup {All} /\ f # choice.filter
  /\ ChooseEvents([choice EXCEPT !.filter = f, !.page = 1])
  /\ AskOptions
  /\ UNCHANGED tab

(* The pager offers the pages of the answer shown. *)
TurnPage(p) ==
  /\ tab = "events" /\ p \in 1..pages /\ p # choice.page
  /\ ChooseEvents([choice EXCEPT !.page = p])
  /\ AskOptions
  /\ UNCHANGED tab

(* refreshActiveTab of a tab and a query that may be those of an earlier moment. *)
RefreshTab(t, q) ==
  /\ IF t \in Slot THEN LoadTab(t, q) ELSE UNCHANGED slotVars
  /\ outdated' = (outdated \/ (t = tab /\ q # QueryOf(tab, choice)))

(* The events are refreshed once the wait for their filter options is over. *)
AwaitOptions(b, q) ==
  /\ options' = Asking(options)
  /\ late' = [Woken EXCEPT ![b] = [at |-> "options", tab |-> "events", query |-> q]]
  /\ UNCHANGED <<slotVars, outdated>>

(* The refresh button.  It cannot be pressed again before the load it leads to has ended; here
   it can, and that only asks once more. *)
PressRefresh ==
  /\ late["refresh"].at = "none" /\ tab \in Slot
  /\ IF tab = "events" /\ ~options.loaded
     THEN AwaitOptions("refresh", choice)
     ELSE RefreshTab(tab, QueryOf(tab, choice)) /\ UNCHANGED <<options, late>>
  /\ UNCHANGED <<tab, choice>>

(* The sync button, which knows nothing of the other one. *)
PressSync ==
  /\ late["sync"].at = "none"
  /\ late' = [late EXCEPT !["sync"] = [at |-> "backend", tab |-> tab, query |-> QueryOf(tab, choice)]]
  /\ UNCHANGED <<tab, choice, slotVars, options, outdated>>

(* The backend has synced, and the tab of that moment is refreshed; or the sync has failed. *)
SyncReturns ==
  LET was == late["sync"]
      waits == was.tab = "events" /\ ~options.loaded
      ended == [late EXCEPT !["sync"] = NotLate]
  IN /\ was.at = "backend"
     /\ \/ waits /\ AwaitOptions("sync", was.query)
        \/ ~waits /\ RefreshTab(was.tab, was.query) /\ late' = ended /\ UNCHANGED options
        \/ late' = ended /\ UNCHANGED <<slotVars, options, outdated>>
     /\ UNCHANGED <<tab, choice>>

(* Mutant: the refresh waits until the options are loaded. *)
RefreshGoesOnLoaded(b) ==
  /\ late[b].at = "resumed" /\ options.loaded
  /\ RefreshTab(late[b].tab, late[b].query)
  /\ late' = [late EXCEPT ![b] = NotLate]
  /\ UNCHANGED <<tab, choice, options>>

(* The wait for the options has ended, with an answer, a failure or an abort. *)
RefreshGoesOn(b) ==
  /\ late[b].at = "resumed"
  /\ RefreshTab(late[b].tab, late[b].query)
  /\ late' = [late EXCEPT ![b] = NotLate]
  /\ UNCHANGED <<tab, choice, options>>

Answers ==
  \/ \E n \in 0..Pages : EventsArrive(n) \/ EventsArriveShort(n)
  \/ \E s \in Slot : DataArrive(s) \/ LoadFails(s)
  \/ OptionsArrive
  \/ SyncReturns \/ \E b \in Button : RefreshGoesOn(b)

Actions ==
  \/ \E t \in Tab : OpenTab(t)
  \/ \E r \in TabRange : SelectTabRange(r)
  \/ \E f \in Filter : FilterEvents(f)
  \/ \E p \in 1..Pages : TurnPage(p)
  \/ PressRefresh \/ PressSync

TabNext == Answers \/ Actions

TabSpec == TabInit /\ [][TabNext]_tabVars

(* Every request is answered, fails or is aborted. *)
TabFairness == WF_tabVars(Answers)

-----------------------------------------------------------------------------
(* Properties. *)

(***************************************************************************)
(* The spinner of a tab turns exactly while a request of it is under way:  *)
(* no order of aborts, failures, pages that have gone and refreshes of an  *)
(* earlier moment leaves it turning or hides a request.                    *)
(***************************************************************************)
SpinnersTrue == \A s \in Slot : spin[s] <=> flight[s] # NoQuery

(* What tab s shows once its request for c is answered. *)
Wanted(s, c) == IF Refused(s, c) THEN NoQuery ELSE QueryOf(s, c)

(***************************************************************************)
(* An open tab that neither loads nor is in error shows what the selection *)
(* asks for, page and filter included, and nothing for an invalid one; and *)
(* the page selected exists.  Excepted is a tab that a refresh started for *)
(* an earlier selection has overtaken, until the next change of it.        *)
(***************************************************************************)
TabShowsSelection ==
  tab \in Slot /\ flight[tab] = NoQuery /\ ~error[tab] /\ ~outdated =>
    /\ shown[tab] = Wanted(tab, choice)
    /\ tab = "events" /\ pages > 0 => choice.page <= pages

(* A tab that does not turn shows what it should. *)
TabsConsistent == SpinnersTrue /\ TabShowsSelection

(***************************************************************************)
(* A tab comes to rest when the user does: the pages that have gone and    *)
(* the filters that are dropped do not make it load for ever.              *)
(***************************************************************************)
TabSettles ==
  <>[][~Actions]_tabVars =>
    <>[]((\A b \in Button : late[b].at = "none") /\ \A s \in Slot : ~spin[s])
=============================================================================
