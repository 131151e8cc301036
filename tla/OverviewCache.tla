---------------------------- MODULE OverviewCache ----------------------------
(***************************************************************************)
(* The cached overview of the "all" range: GetUsageOverview builds it once *)
(* for all the requests that find the cache empty, serves it for its TTL   *)
(* and, when it is older, serves it still while one goroutine rebuilds it. *)
(*                                                                         *)
(* One action is one critical section of cache.mu, or one step of a build  *)
(* outside it.  An overview is the number of usage events it was built    *)
(* from.                                                                   *)
(***************************************************************************)
EXTENDS Naturals, FiniteSets

CONSTANTS
  Caller,     \* HTTP requests: each calls GetUsageOverview again and again
  Refresher,  \* goroutines that refreshUsageOverviewAll runs on
  NoValue,    \* a nil *UsageOverviewSnapshot, or a build that failed
  TTL,        \* usageOverviewCacheTTL, in ticks
  MaxAdded   \* bound: events in the ledger

Builder == Caller \cup Refresher

ASSUME BuilderAssumption == IsFiniteSet(Caller) /\ Caller \cap Refresher = {}
ASSUME ValueAssumption == NoValue \notin Nat
ASSUME CacheAssumption == TTL \in Nat /\ MaxAdded \in Nat

VARIABLES
  value,      \* cache.value
  age,        \* ticks since cache.refreshedAt, up to TTL
  refreshing, \* cache.refreshing
  ready,      \* the open channel cache.ready, or 0 when it is nil
  pc,         \* where each caller and refresher is
  waits,      \* the channel a waiting caller receives from
  built,      \* what a build has read
  added,     \* number of usage events
  synced      \* events there were when the last manual sync returned

cacheVars == <<value, age, refreshing, ready>>
overviewVars == <<value, age, refreshing, ready, pc, waits, built, added, synced>>

Overview == 0..MaxAdded

CacheTypeOK ==
  /\ value \in Overview \cup {NoValue}
  /\ age \in 0..TTL
  /\ refreshing \in BOOLEAN
  /\ ready \in Nat
  /\ pc \in [Builder -> {"idle", "enter", "wait", "build", "finish"}]
  /\ waits \in [Caller -> Nat]
  /\ built \in [Builder -> Overview \cup {NoValue}]
  /\ added \in Overview
  /\ synced \in Overview

CacheInit ==
  /\ value = NoValue /\ age = 0 /\ refreshing = FALSE /\ ready = 0
  /\ pc = [b \in Builder |-> "idle"]
  /\ waits = [c \in Caller |-> 0]
  /\ built = [b \in Builder |-> NoValue]
  /\ added = 0 /\ synced = 0

-----------------------------------------------------------------------------

Call(c) ==
  /\ pc[c] = "idle"
  /\ pc' = [pc EXCEPT ![c] = "enter"]
  /\ UNCHANGED <<cacheVars, waits, built, added, synced>>

(* A channel no caller still waits for: the smallest free number names it. *)
NewChannel == CHOOSE n \in 1..(Cardinality(Caller) + 1) : \A c \in Caller : waits[c] # n

(* The overview a call returns. *)
Serves(c, v) == pc[c] = "enter" /\ value # NoValue /\ v = value

(* A cached overview younger than its TTL. *)
ServeFresh(c) ==
  /\ pc[c] = "enter" /\ value # NoValue /\ age < TTL
  /\ pc' = [pc EXCEPT ![c] = "idle"]
  /\ UNCHANGED <<cacheVars, waits, built, added, synced>>

(* Mutant: every request that finds an old overview starts a refresh. *)
ServeStaleRefreshingAlways(c) ==
  /\ pc[c] = "enter" /\ value # NoValue /\ age = TTL
  /\ \/ /\ refreshing' = TRUE /\ ready' = NewChannel
        /\ \E r \in Refresher : /\ pc[r] = "idle"
                                /\ pc' = [pc EXCEPT ![c] = "idle", ![r] = "build"]
     \/ /\ \A r \in Refresher : pc[r] # "idle"
        /\ pc' = [pc EXCEPT ![c] = "idle"] /\ UNCHANGED <<refreshing, ready>>
  /\ UNCHANGED <<value, age, waits, built, added, synced>>

(* An old one is served too; the first request to find it old starts a refresh. *)
ServeStale(c) ==
  /\ pc[c] = "enter" /\ value # NoValue /\ age = TTL
  /\ \/ /\ ~refreshing
        /\ refreshing' = TRUE /\ ready' = NewChannel
        /\ \E r \in Refresher : /\ pc[r] = "idle"
                                /\ pc' = [pc EXCEPT ![c] = "idle", ![r] = "build"]
     \/ /\ refreshing
        /\ pc' = [pc EXCEPT ![c] = "idle"] /\ UNCHANGED <<refreshing, ready>>
  /\ UNCHANGED <<value, age, waits, built, added, synced>>

(* No overview yet, and another request builds it. *)
Wait(c) ==
  /\ pc[c] = "enter" /\ value = NoValue /\ refreshing
  /\ pc' = [pc EXCEPT ![c] = "wait"]
  /\ waits' = [waits EXCEPT ![c] = ready]
  /\ UNCHANGED <<cacheVars, built, added, synced>>

(* The channel is closed: the request looks at the cache again. *)
Wake(c) ==
  /\ pc[c] = "wait" /\ waits[c] # ready
  /\ pc' = [pc EXCEPT ![c] = "enter"]
  /\ waits' = [waits EXCEPT ![c] = 0]
  /\ UNCHANGED <<cacheVars, built, added, synced>>

(* No overview yet and nobody builds it. *)
StartBuild(c) ==
  /\ pc[c] = "enter" /\ value = NoValue /\ ~refreshing
  /\ refreshing' = TRUE /\ ready' = NewChannel
  /\ pc' = [pc EXCEPT ![c] = "build"]
  /\ UNCHANGED <<value, age, waits, built, added, synced>>

(* buildOverview reads the events, or fails. *)
Build(b) ==
  /\ pc[b] = "build"
  /\ pc' = [pc EXCEPT ![b] = "finish"]
  /\ built' \in {[built EXCEPT ![b] = v] : v \in {added, NoValue}}
  /\ UNCHANGED <<cacheVars, waits, added, synced>>

(* Mutant: a failed build returns before the channel is closed. *)
FinishUnlessFailed(b) ==
  /\ pc[b] = "finish"
  /\ IF built[b] # NoValue
     THEN value' = built[b] /\ age' = 0 /\ refreshing' = FALSE /\ ready' = 0
     ELSE UNCHANGED cacheVars
  /\ pc' = [pc EXCEPT ![b] = "idle"]
  /\ built' = [built EXCEPT ![b] = NoValue]
  /\ UNCHANGED <<waits, added, synced>>

(* Store what was built, if it was, and wake the waiting requests. *)
Finish(b) ==
  /\ pc[b] = "finish"
  /\ IF built[b] # NoValue THEN value' = built[b] /\ age' = 0 ELSE UNCHANGED <<value, age>>
  /\ refreshing' = FALSE /\ ready' = 0
  /\ pc' = [pc EXCEPT ![b] = "idle"]
  /\ built' = [built EXCEPT ![b] = NoValue]
  /\ UNCHANGED <<waits, added, synced>>

(* ProcessRedisUsageInbox or a metadata sync inserts an event. *)
AddEvent ==
  /\ added < MaxAdded
  /\ added' = added + 1
  /\ UNCHANGED <<cacheVars, pc, waits, built, synced>>

(* A manual sync returns without an error. *)
SyncNow ==
  /\ synced' = added
  /\ UNCHANGED <<cacheVars, pc, waits, built, added>>

CacheAges ==
  /\ age < TTL
  /\ age' = age + 1
  /\ UNCHANGED <<value, refreshing, ready, pc, waits, built, added, synced>>

Enter(c) == ServeFresh(c) \/ ServeStale(c) \/ Wait(c) \/ StartBuild(c)
BuildStep(b) == Build(b) \/ Finish(b)

CacheNext ==
  \/ \E c \in Caller : Call(c) \/ Enter(c) \/ Wake(c)
  \/ \E b \in Builder : BuildStep(b)
  \/ AddEvent \/ SyncNow \/ CacheAges

CacheSpec == CacheInit /\ [][CacheNext]_overviewVars

(***************************************************************************)
(* A goroutine that can run runs and the clock goes on.  cache.mu is a     *)
(* sync.Mutex, which hands itself to a waiter starved for a millisecond,   *)
(* so a request that can enter infinitely often does.  That builds do not  *)
(* fail for ever and that requests keep coming is assumed.                 *)
(***************************************************************************)
CacheFairness ==
  /\ \A c \in Caller : SF_overviewVars(Enter(c)) /\ WF_overviewVars(Wake(c))
  /\ \A b \in Builder : WF_overviewVars(BuildStep(b)) /\ SF_overviewVars(Build(b) /\ built'[b] # NoValue)
  /\ \E c \in Caller : WF_overviewVars(Call(c))
  /\ WF_overviewVars(CacheAges)

FairCacheSpec == CacheSpec /\ CacheFairness

-----------------------------------------------------------------------------
(* Properties. *)

(***************************************************************************)
(* One overview is built at a time: refreshing is set exactly while one    *)
(* request or goroutine builds, and the channel waiting requests receive   *)
(* from is the open one or a closed one, never one left behind.            *)
(***************************************************************************)
Building == {b \in Builder : pc[b] \in {"build", "finish"}}
SingleFlight ==
  /\ \A a, b \in Building : a = b
  /\ refreshing <=> Building # {}
  /\ refreshing <=> ready # 0

(***************************************************************************)
(* The dashboard never goes back in time: a stored overview is not         *)
(* replaced by one built from fewer events, nor dropped by a failed build.*)
(***************************************************************************)
NeverOlder == [][value # NoValue => value' # NoValue /\ value' >= value]_overviewVars

(***************************************************************************)
(* Every request is answered, although the build it waits for may fail and *)
(* others go on calling: it then finds a value or builds itself.           *)
(***************************************************************************)
EveryCallAnswered == \A c \in Caller : pc[c] # "idle" ~> pc[c] = "idle"

(***************************************************************************)
(* While requests keep coming, every event is shown in the end: an old     *)
(* overview is served only until the refresh it triggers has succeeded.    *)
(***************************************************************************)
EveryEventShown == \A n \in 1..MaxAdded : added >= n ~> (value # NoValue /\ value >= n)

(***************************************************************************)
(* A request that follows a manual sync sees what the sync has stored      *)
(* (redis_drain.go: the manual entry point keeps "the intuition of seeing  *)
(* new data at once").                                                     *)
(***************************************************************************)
SeenAtOnce == \A c \in Caller, v \in Overview : Serves(c, v) => v >= synced
=============================================================================
