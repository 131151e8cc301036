---------------------------- MODULE OverviewStore ----------------------------
(***************************************************************************)
(* The overview of the web client: the store that loads and keeps it, the  *)
(* hook that asks for the selected range, the automatic refresh while the  *)
(* tab is visible, and the buttons that refresh at once or after a sync of *)
(* the backend.  The backend answers the range "all" from a cache          *)
(* (OverviewCache), of which this module keeps how many events it counts.  *)
(*                                                                         *)
(* JavaScript runs one handler at a time: an action is a handler with the  *)
(* effects it leads to, or the answer of the server.                       *)
(***************************************************************************)
EXTENDS Naturals

CONSTANTS
  StoreRange, \* what can be selected: a preset or custom dates
  Unready,   \* those without two well-formed custom dates
  Cached,     \* those the backend answers from its cache: the range "all"
  NoRange,   \* null
  MaxEvents  \* bound: events the backend stores

ASSUME RangeAssumption == Unready \cup Cached \subseteq StoreRange /\ NoRange \notin StoreRange
ASSUME MaxEventsAssumption == MaxEvents \in Nat

VARIABLES
  stored,   \* events in the backend
  cached,   \* those of them that the overview in its cache counts, 0 without one
  usage,    \* the overview shown: its lastQueryKey and the events it counts
  fresh,    \* lastRefreshedAt is less than staleTimeMs ago
  loading,  \* the store's loading
  failed,   \* the range whose failed load set the store's error
  request,  \* activeRequest: its key and the events it counts at least
  range,    \* the selection
  open,     \* the overview is the active tab
  visible,  \* document.visibilityState
  timer,    \* the interval of the automatic refresh runs
  sync      \* the range a manual sync was started with

storeVars == <<stored, cached, usage, fresh, loading, failed, request, range, open, visible, timer, sync>>
backendVars == <<stored, cached>>
dataVars == <<usage, fresh>>
loadVars == <<loading, failed, request>>
pageVars == <<range, open, visible, timer, sync>>

MaybeRange == StoreRange \cup {NoRange}
StoredOverview == [key : MaybeRange, seen : 0..MaxEvents]
NoOverview == [key |-> NoRange, seen |-> 0]

StoreTypeOK ==
  /\ stored \in 0..MaxEvents /\ cached \in 0..stored
  /\ usage \in StoredOverview /\ request \in StoredOverview
  /\ fresh \in BOOLEAN /\ loading \in BOOLEAN
  /\ failed \in MaybeRange /\ sync \in MaybeRange
  /\ range \in StoreRange
  /\ open \in BOOLEAN /\ visible \in BOOLEAN /\ timer \in BOOLEAN

(* The page opens on a stored tab and selection, with an empty store. *)
StoreInit ==
  /\ stored = 0 /\ cached = 0
  /\ usage = NoOverview /\ request = NoOverview
  /\ fresh = FALSE /\ loading = FALSE
  /\ failed = NoRange /\ sync = NoRange
  /\ range \in StoreRange
  /\ open = FALSE /\ visible \in BOOLEAN /\ timer = FALSE

(* Events reach the backend. *)
EventStored ==
  /\ stored < MaxEvents
  /\ stored' = stored + 1
  /\ UNCHANGED <<cached, dataVars, loadVars, pageVars>>

(* A build of the overview ends, one that has begun after the one in the cache. *)
RefreshCache ==
  /\ \E n \in cached + 1..stored : cached' = n
  /\ UNCHANGED <<stored, dataVars, loadVars, pageVars>>

-----------------------------------------------------------------------------
(* The store. *)

(* A load that is not forced is content with what is shown. *)
Served(r, force) == ~force /\ usage.key = r /\ fresh

Joined(r) == loading /\ request.key = r

(* loadUsageStats: what another request under way answers is ignored from here on. *)
LoadStats(r, force) ==
  IF r \in Unready \/ Served(r, force) \/ Joined(r)
  THEN UNCHANGED loadVars
  ELSE /\ request' = [key |-> r, seen |-> IF r \in Cached THEN cached ELSE stored]
       /\ loading' = TRUE
       /\ failed' = NoRange

(* The answer counts the events stored, or those of the cache, at some time since the request
   was sent. *)
OverviewArrives ==
  /\ request.key # NoRange
  /\ \E n \in request.seen..stored : usage' = [key |-> request.key, seen |-> n]
  /\ fresh' = TRUE
  /\ request' = NoOverview /\ loading' = FALSE /\ failed' = NoRange
  /\ UNCHANGED <<backendVars, pageVars>>

(* Mutant: an error leaves the request in its place. *)
OverviewFailsKept ==
  /\ request.key # NoRange
  /\ failed' = request.key /\ loading' = FALSE
  /\ UNCHANGED <<backendVars, request, dataVars, pageVars>>

(* An error leaves the overview that is shown. *)
OverviewFails ==
  /\ request.key # NoRange
  /\ failed' = request.key
  /\ request' = NoOverview /\ loading' = FALSE
  /\ UNCHANGED <<backendVars, dataVars, pageVars>>

(* staleTimeMs go by. *)
OverviewAges ==
  /\ fresh
  /\ fresh' = FALSE
  /\ UNCHANGED <<backendVars, usage, loadVars, pageVars>>

-----------------------------------------------------------------------------
(* The page. *)

SelectRange(r) ==
  /\ r # range
  /\ range' = r
  /\ IF open THEN LoadStats(r, FALSE) /\ timer' = visible ELSE UNCHANGED <<loadVars, timer>>
  /\ UNCHANGED <<backendVars, dataVars, open, visible, sync>>

OpenOverview ==
  /\ ~open
  /\ open' = TRUE
  /\ timer' = visible
  /\ LoadStats(range, FALSE)
  /\ UNCHANGED <<backendVars, dataVars, range, visible, sync>>

(* A request under way goes on. *)
LeaveOverview ==
  /\ open
  /\ open' = FALSE /\ timer' = FALSE
  /\ UNCHANGED <<backendVars, dataVars, loadVars, range, visible, sync>>

HideBrowserTab ==
  /\ visible
  /\ visible' = FALSE /\ timer' = FALSE
  /\ UNCHANGED <<backendVars, dataVars, loadVars, range, open, sync>>

(* Mutant: the timer is not started again. *)
ShowBrowserTabOnce ==
  /\ ~visible
  /\ visible' = TRUE
  /\ IF open THEN LoadStats(range, TRUE) ELSE UNCHANGED loadVars
  /\ UNCHANGED <<backendVars, dataVars, range, open, timer, sync>>

ShowBrowserTab ==
  /\ ~visible
  /\ visible' = TRUE /\ timer' = open
  /\ IF open THEN LoadStats(range, TRUE) ELSE UNCHANGED loadVars
  /\ UNCHANGED <<backendVars, dataVars, range, open, sync>>

(* OVERVIEW_AUTO_REFRESH_INTERVAL_MS have gone by. *)
AutoRefresh ==
  /\ timer
  /\ LoadStats(range, TRUE)
  /\ UNCHANGED <<backendVars, dataVars, pageVars>>

(* The refresh button. *)
RefreshOverview ==
  /\ open
  /\ LoadStats(range, TRUE)
  /\ UNCHANGED <<backendVars, dataVars, pageVars>>

(* The sync button: refreshActiveTab is that of the moment it is pressed. *)
StartSync ==
  /\ open /\ sync = NoRange
  /\ sync' = range
  /\ UNCHANGED <<backendVars, dataVars, loadVars, range, open, visible, timer>>

(* The backend has synced and the overview of that moment is loaded, or it has failed. *)
EndSync ==
  /\ sync # NoRange
  /\ sync' = NoRange
  /\ LoadStats(sync, TRUE) \/ UNCHANGED loadVars
  /\ UNCHANGED <<backendVars, dataVars, range, open, visible, timer>>

StoreNext ==
  \/ EventStored \/ RefreshCache
  \/ OverviewArrives \/ OverviewFails \/ OverviewAges
  \/ \E r \in StoreRange : SelectRange(r)
  \/ OpenOverview \/ LeaveOverview \/ HideBrowserTab \/ ShowBrowserTab
  \/ AutoRefresh \/ RefreshOverview \/ StartSync \/ EndSync

StoreSpec == StoreInit /\ [][StoreNext]_storeVars

(***************************************************************************)
(* Timers fire, a request is answered or fails, and a backend that is      *)
(* asked again and again for the range selected answers in the end, and    *)
(* builds the overview of its cache anew: EveryEventShown of OverviewCache.*)
(***************************************************************************)
StoreFairness ==
  /\ WF_storeVars(AutoRefresh) /\ WF_storeVars(EndSync)
  /\ WF_storeVars(OverviewArrives \/ OverviewFails)
  /\ SF_storeVars(request.key = range /\ OverviewArrives)
  /\ SF_storeVars(request.key \in Cached /\ RefreshCache)

-----------------------------------------------------------------------------
(* Properties. *)

(***************************************************************************)
(* The spinner turns exactly while a request is under way whose answer     *)
(* will be stored: no order of loads, failures and replaced requests       *)
(* leaves it turning, or a request behind that nothing waits for.  While   *)
(* the overview is open and visible, and only then, it is refreshed.       *)
(***************************************************************************)
StoreConsistent ==
  /\ loading <=> request.key # NoRange
  /\ loading => failed = NoRange /\ request.key \notin Unready
  /\ timer <=> open /\ visible

(***************************************************************************)
(* A selection that is left alone in an open and visible overview shows in *)
(* the end, with every event stored, whatever was selected, requested or   *)
(* synced before, and although loads fail.                                 *)
(***************************************************************************)
OverviewConverges ==
  \A r \in StoreRange \ Unready :
    <>[](open /\ visible /\ range = r) => <>[](usage = [key |-> r, seen |-> stored])

(***************************************************************************)
(* UsagePage.filtering.test.ts: "should feed stat cards with range-filtered*)
(* usage data".  What an overview shows that is neither loading nor in     *)
(* error is of the range selected, as long as nobody syncs.                *)
(***************************************************************************)
ShowsSelectedRange ==
  open /\ sync = NoRange /\ ~loading /\ failed = NoRange /\ range \notin Unready =>
    usage.key = range
=============================================================================
