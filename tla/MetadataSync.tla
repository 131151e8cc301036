---------------------------- MODULE MetadataSync ----------------------------
(***************************************************************************)
(* Metadata sync: SyncMetadata fetches the auth files and provider keys,   *)
(* replaces the usage identities, backfills synthetic events for requests  *)
(* the auth files report and usage_events lacks, and adds the new events   *)
(* to the statistics of each identity.                                     *)
(*                                                                         *)
(* Nothing keeps the metadata loop and the manual sync requests from       *)
(* running it at the same time: each runner is a Syncer.  One action is    *)
(* one SQL statement or transaction.                                       *)
(***************************************************************************)
EXTENDS Integers, Sequences, FiniteSets

CONSTANTS
  Syncer,       \* the metadata loop and the manual sync requests
  Loop,         \* the metadata loop
  AuthFile,     \* identities of auth type "oauth" (auth_index)
  Provider,     \* identities of auth type "apikey" (lookup key)
  ProviderType, \* ProviderType[p]: the endpoint that lists provider key p
  Window,       \* ten-minute windows, a set of naturals: the times of events
  NoTime,       \* a NULL time
  SyntheticBatch,  \* batchSize of InsertUsageEvents
  MaxRequests   \* bound: requests CPA handles

Identity == AuthFile \cup Provider
Types == {ProviderType[p] : p \in Provider}
Bucket == [of : Identity, at : Window, failed : BOOLEAN]
FileBucket == [of : AuthFile, at : Window, failed : BOOLEAN]

ASSUME SyncerAssumption == Loop \in Syncer
ASSUME IdentityAssumption ==
  /\ AuthFile \cap Provider = {}
  /\ ProviderType \in [Provider -> Types]
ASSUME WindowAssumption == Window \subseteq Nat /\ NoTime \notin Window
ASSUME BoundAssumption == SyntheticBatch \in Nat \ {0} /\ MaxRequests \in Nat

VARIABLES
  requests,  \* requests CPA has handled, by bucket: what its auth files report
  queued,    \* those of them whose usage message is still on its way
  events,    \* usage_events
  rows,      \* usage_identities: identity -> row
  sync       \* where each syncer is in SyncMetadata, and what it has read

metadataVars == <<requests, queued, events, rows, sync>>

(* A real event has ordinal 0; a synthetic one is known by its bucket and ordinal. *)
UsageEvent == [id : Nat \ {0}, bucket : Bucket, synthetic : BOOLEAN, ordinal : Nat]
Stats == [total : Nat, failures : Nat, last : Nat,
          first : Window \cup {NoTime}, latest : Window \cup {NoTime}]
IdentityRow == [stats : Stats, deleted : BOOLEAN]
Planned == [bucket : FileBucket, ordinal : Nat]

(***************************************************************************)
(* buckets and comparing are the reported buckets still to compare and the *)
(* one whose real events are counted; failed says that syncAuthFiles has   *)
(* returned an error; known and base are the identities read to aggregate. *)
(***************************************************************************)
Work == [pc : {"idle", "files", "count", "compare", "insert", "providers", "read", "aggregate"},
         files : SUBSET AuthFile, reported : [FileBucket -> Nat],
         providers : SUBSET Provider, types : SUBSET Types, failed : BOOLEAN,
         buckets : SUBSET FileBucket, comparing : SUBSET FileBucket, real : Nat,
         plan : Seq(Planned), known : SUBSET Identity, base : [Identity -> Stats]]

NoStats == [total |-> 0, failures |-> 0, last |-> 0, first |-> NoTime, latest |-> NoTime]
Idle == [pc |-> "idle", files |-> {}, reported |-> [b \in FileBucket |-> 0],
         providers |-> {}, types |-> {}, failed |-> FALSE,
         buckets |-> {}, comparing |-> {}, real |-> 0, plan |-> <<>>,
         known |-> {}, base |-> [i \in Identity |-> NoStats]]

MetadataTypeOK ==
  /\ requests \in [Bucket -> Nat]
  /\ queued \in [Bucket -> Nat]
  /\ events \subseteq UsageEvent
  /\ DOMAIN rows \subseteq Identity
  /\ rows \in [DOMAIN rows -> IdentityRow]
  /\ sync \in [Syncer -> Work]

MetadataInit ==
  /\ requests = [b \in Bucket |-> 0]
  /\ queued = [b \in Bucket |-> 0]
  /\ events = {}
  /\ rows = [i \in {} |-> [stats |-> NoStats, deleted |-> FALSE]]
  /\ sync = [s \in Syncer |-> Idle]

-----------------------------------------------------------------------------
(* CPA and the inbox: requests, and the events their usage messages become. *)

Handled[S \in SUBSET Bucket] ==
  IF S = {} THEN 0 ELSE LET b == CHOOSE b \in S : TRUE IN requests[b] + Handled[S \ {b}]

Request(b) ==
  /\ Handled[Bucket] < MaxRequests
  /\ requests' = [requests EXCEPT ![b] = @ + 1]
  /\ queued' = [queued EXCEPT ![b] = @ + 1]
  /\ UNCHANGED <<events, rows, sync>>

NextId == Cardinality(events) + 1

(* ProcessRedisUsageInbox inserts the event of a message. *)
Deliver(b) ==
  /\ queued[b] > 0
  /\ queued' = [queued EXCEPT ![b] = @ - 1]
  /\ events' = events \cup {[id |-> NextId, bucket |-> b, synthetic |-> FALSE, ordinal |-> 0]}
  /\ UNCHANGED <<requests, rows, sync>>

(* A message the pull loses or the inbox discards. *)
Lose(b) ==
  /\ queued[b] > 0
  /\ queued' = [queued EXCEPT ![b] = @ - 1]
  /\ UNCHANGED <<requests, events, rows, sync>>

-----------------------------------------------------------------------------
(* SyncMetadata. *)

Become(s, work) == sync' = [sync EXCEPT ![s] = work]

(* FetchAuthFiles and the provider endpoints; a provider endpoint that fails
   only leaves its type out. *)
Fetch(s) ==
  /\ sync[s].pc = "idle"
  /\ \E ok \in BOOLEAN, files \in SUBSET AuthFile, types \in SUBSET Types :
     \E providers \in SUBSET {p \in Provider : ProviderType[p] \in types} :
       /\ ~ok => files = {}
       /\ Become(s, [Idle EXCEPT !.pc = IF ok THEN "files" ELSE "providers",
                                 !.files = files, !.failed = ~ok,
                                 !.reported = [b \in FileBucket |-> IF b.of \in files
                                                                    THEN requests[b] ELSE 0],
                                 !.providers = providers, !.types = types])
  /\ UNCHANGED <<requests, queued, events, rows>>

(* Mutant: the upsert writes the statistics of the incoming row, which are zero. *)
ReplacedResetting(incoming, scope) ==
  [i \in DOMAIN rows \cup incoming |->
     IF i \in incoming THEN [stats |-> NoStats, deleted |-> FALSE]
     ELSE [rows[i] EXCEPT !.deleted = @ \/ i \in scope]]

StatsOf(i) == IF i \in DOMAIN rows THEN rows[i].stats ELSE NoStats

(* Upsert the incoming identities, then mark the others of the scope deleted. *)
Replaced(incoming, scope) ==
  [i \in DOMAIN rows \cup incoming |->
     IF i \in incoming THEN [stats |-> StatsOf(i), deleted |-> FALSE]
     ELSE [rows[i] EXCEPT !.deleted = @ \/ i \in scope]]

ReplaceAuthFiles(s) ==
  LET w == sync[s] IN
  /\ w.pc = "files"
  /\ rows' = Replaced(w.files, AuthFile)
  /\ Become(s, [w EXCEPT !.pc = "count", !.buckets = {b \in FileBucket : w.reported[b] > 0}])
  /\ UNCHANGED <<requests, queued, events>>

Real(b) == {e \in events : e.bucket = b /\ ~e.synthetic}
Synthetic(b) == {e \in events : e.bucket = b /\ e.synthetic}

CountReal(s) ==
  LET w == sync[s] IN
  /\ w.pc = "count"
  /\ \E b \in w.buckets :
       Become(s, [w EXCEPT !.pc = "compare", !.comparing = {b}, !.buckets = @ \ {b},
                           !.real = Cardinality(Real(b))])
  /\ UNCHANGED <<requests, queued, events, rows>>

(* Mutant: the ordinals follow the events of the bucket, not its synthetic ones. *)
MissingAfterReal(w, b) ==
  LET synthetic == Cardinality(Synthetic(b))
      missing == w.reported[b] - w.real - synthetic
  IN [i \in 1..missing |-> [bucket |-> b, ordinal |-> w.real + synthetic + i - 1]]

(* The synthetic events bucket b lacks, in the order of their ordinals. *)
Missing(w, b) ==
  LET synthetic == Cardinality(Synthetic(b))
      missing == w.reported[b] - w.real - synthetic
  IN [i \in 1..missing |-> [bucket |-> b, ordinal |-> synthetic + i - 1]]

CountSynthetic(s) ==
  LET w == sync[s] IN
  /\ w.pc = "compare"
  /\ \E b \in w.comparing :
       Become(s, [w EXCEPT !.pc = "count", !.comparing = {}, !.real = 0,
                           !.plan = @ \o Missing(w, b)])
  /\ UNCHANGED <<requests, queued, events, rows>>

(* All buckets are compared; with nothing missing there is nothing to insert. *)
FinishCompare(s) ==
  LET w == sync[s] IN
  /\ w.pc = "count" /\ w.buckets = {}
  /\ Become(s, [w EXCEPT !.pc = IF w.plan = <<>> THEN "providers" ELSE "insert"])
  /\ UNCHANGED <<requests, queued, events, rows>>

Batch(w) == 1..(IF Len(w.plan) < SyntheticBatch THEN Len(w.plan) ELSE SyntheticBatch)
NewInBatch(w) == {i \in Batch(w) : \A e \in Synthetic(w.plan[i].bucket) : e.ordinal # w.plan[i].ordinal}
SyntheticEvent(w, i) ==
  [id |-> Cardinality(events) + Cardinality({j \in NewInBatch(w) : j <= i}),
   bucket |-> w.plan[i].bucket, synthetic |-> TRUE, ordinal |-> w.plan[i].ordinal]

(* Mutant: only the first batch is inserted. *)
InsertOneBatch(s) ==
  LET w == sync[s] IN
  /\ w.pc = "insert"
  /\ events' = events \cup {SyntheticEvent(w, i) : i \in NewInBatch(w)}
  /\ Become(s, [w EXCEPT !.plan = <<>>, !.pc = "providers"])
  /\ UNCHANGED <<requests, queued, rows>>

(* InsertUsageEvents: one batch, conflicting event keys left alone. *)
InsertSynthetic(s) ==
  LET w == sync[s]
      rest == SubSeq(w.plan, SyntheticBatch + 1, Len(w.plan))
  IN
  /\ w.pc = "insert"
  /\ events' = events \cup {SyntheticEvent(w, i) : i \in NewInBatch(w)}
  /\ Become(s, [w EXCEPT !.plan = rest, !.pc = IF rest = <<>> THEN "providers" ELSE "insert"])
  /\ UNCHANGED <<requests, queued, rows>>

(* An error in syncAuthFiles: the providers are still synced. *)
AuthFilesFail(s) ==
  LET w == sync[s] IN
  /\ w.pc \in {"files", "count", "compare", "insert"}
  /\ Become(s, [Idle EXCEPT !.pc = "providers", !.failed = TRUE,
                            !.providers = w.providers, !.types = w.types])
  /\ UNCHANGED <<requests, queued, events, rows>>

(* The statistics are aggregated only when both upserts have succeeded. *)
ReplaceProviders(s) ==
  LET w == sync[s] IN
  /\ w.pc = "providers"
  /\ rows' = Replaced(w.providers, {p \in Provider : ProviderType[p] \in w.types})
  /\ Become(s, IF w.failed THEN Idle ELSE [w EXCEPT !.pc = "read"])
  /\ UNCHANGED <<requests, queued, events>>

(* AggregateUsageIdentityStats lists the identities before it begins its transaction. *)
ReadIdentities(s) ==
  LET w == sync[s] IN
  /\ w.pc = "read"
  /\ Become(s, [w EXCEPT !.pc = "aggregate", !.known = DOMAIN rows,
                       !.base = [i \in Identity |-> StatsOf(i)]])
  /\ UNCHANGED <<requests, queued, events, rows>>

Least(S) == CHOOSE x \in S : \A y \in S : x <= y
Greatest(S) == CHOOSE x \in S : \A y \in S : y <= x

EventsOf(i) == {e \in events : e.bucket.of = i}
After(i, last) == {e \in EventsOf(i) : e.id > last}
Times(S) == {e.bucket.at : e \in S}
Failures(S) == {e \in S : e.bucket.failed}
Earlier(t, u) == IF t = NoTime \/ u < t THEN u ELSE t
Later(t, u) == IF t = NoTime \/ t < u THEN u ELSE t

(* The statistics st with the events of new added. *)
Plus(st, new) ==
  [total |-> st.total + Cardinality(new),
   failures |-> st.failures + Cardinality(Failures(new)),
   last |-> Greatest({e.id : e \in new}),
   first |-> Earlier(st.first, Least(Times(new))),
   latest |-> Later(st.latest, Greatest(Times(new)))]

(* Mutant: the update adds to the stored row (total_requests = total_requests + ?). *)
AggregatedInPlace(w, i) ==
  LET new == After(i, w.base[i].last) IN
  IF i \in w.known /\ new # {} THEN Plus(rows[i].stats, new) ELSE rows[i].stats

(* Mutant: a deleted identity is left out. *)
AggregatedIfListed(w, i) ==
  LET new == After(i, w.base[i].last) IN
  IF i \in w.known /\ new # {} /\ ~rows[i].deleted THEN Plus(w.base[i], new) ELSE rows[i].stats

(* What the transaction writes for identity i: what was read plus the events after its
   cursor. *)
Aggregated(w, i) ==
  LET new == After(i, w.base[i].last) IN
  IF i \in w.known /\ new # {} THEN Plus(w.base[i], new) ELSE rows[i].stats

Aggregate(s) ==
  LET w == sync[s] IN
  /\ w.pc = "aggregate"
  /\ rows' = [i \in DOMAIN rows |-> [rows[i] EXCEPT !.stats = Aggregated(w, i)]]
  /\ Become(s, Idle)
  /\ UNCHANGED <<requests, queued, events>>

(* An error in a later step ends this run of SyncMetadata. *)
SyncFails(s) ==
  /\ sync[s].pc \in {"providers", "read", "aggregate"}
  /\ Become(s, Idle)
  /\ UNCHANGED <<requests, queued, events, rows>>

(* The process dies and starts again. *)
ProcessDies ==
  /\ \E s \in Syncer : sync[s].pc # "idle"
  /\ sync' = [s \in Syncer |-> Idle]
  /\ UNCHANGED <<requests, queued, events, rows>>

SyncStep(s) ==
  \/ Fetch(s) \/ ReplaceAuthFiles(s) \/ CountReal(s) \/ CountSynthetic(s) \/ FinishCompare(s)
  \/ InsertSynthetic(s) \/ AuthFilesFail(s) \/ ReplaceProviders(s) \/ ReadIdentities(s)
  \/ Aggregate(s) \/ SyncFails(s)

MetadataNext ==
  \/ \E b \in Bucket : Request(b) \/ Deliver(b) \/ Lose(b)
  \/ \E s \in Syncer : SyncStep(s)
  \/ ProcessDies

MetadataSpec == MetadataInit /\ [][MetadataNext]_metadataVars

(***************************************************************************)
(* The metadata loop runs at every interval, so it always goes on; that    *)
(* CPA and the database do not fail every time is assumed.  A manual sync  *)
(* may come, stall or die at any time: nothing is assumed of it.           *)
(***************************************************************************)
MetadataFairness ==
  /\ WF_metadataVars(SyncStep(Loop))
  /\ SF_metadataVars(Fetch(Loop) /\ ~sync'[Loop].failed)
  /\ SF_metadataVars(ReplaceAuthFiles(Loop)) /\ SF_metadataVars(CountReal(Loop))
  /\ SF_metadataVars(CountSynthetic(Loop)) /\ SF_metadataVars(FinishCompare(Loop))
  /\ SF_metadataVars(InsertSynthetic(Loop))
  /\ SF_metadataVars(ReplaceProviders(Loop) /\ ~sync[Loop].failed)
  /\ SF_metadataVars(ReadIdentities(Loop)) /\ SF_metadataVars(Aggregate(Loop))

FairMetadataSpec == MetadataSpec /\ MetadataFairness

-----------------------------------------------------------------------------
(* Properties. *)

Counted(i, last) == {e \in EventsOf(i) : e.id <= last}

(* st is what the events of identity i up to its cursor add up to. *)
Exact(i, st) ==
  LET counted == Counted(i, st.last) IN
  /\ st.total = Cardinality(counted)
  /\ st.failures = Cardinality(Failures(counted))
  /\ counted = {} => st.first = NoTime /\ st.latest = NoTime
  /\ counted # {} => /\ st.first \in Times(counted) /\ st.latest \in Times(counted)
                     /\ \A t \in Times(counted) : st.first <= t /\ t <= st.latest

(***************************************************************************)
(* The statistics of an identity are those of its events up to its cursor: *)
(* no event is added twice or skipped, although two syncs may both have    *)
(* read the identities before either writes, and an identity may be        *)
(* deleted and restored between two syncs.                                 *)
(***************************************************************************)
StatsExact == \A i \in DOMAIN rows : Exact(i, rows[i].stats)

(***************************************************************************)
(* A sync that read the identities long ago does not undo what a faster    *)
(* one wrote: cursors and totals never go back, and no identity vanishes.  *)
(***************************************************************************)
StatsNeverRegress ==
  [][\A i \in DOMAIN rows :
       /\ i \in DOMAIN rows'
       /\ rows[i].stats.last <= rows'[i].stats.last
       /\ rows[i].stats.total <= rows'[i].stats.total]_metadataVars

(***************************************************************************)
(* The synthetic events of a bucket are numbered 0, 1, 2 ... without a gap *)
(* or a repetition and are no more than the bucket's requests, although    *)
(* the count they are numbered from is read before they are inserted.      *)
(***************************************************************************)
SyntheticContiguous ==
  \A b \in FileBucket :
    /\ {e.ordinal : e \in Synthetic(b)} = 0..(Cardinality(Synthetic(b)) - 1)
    /\ Cardinality(Synthetic(b)) <= requests[b]

(***************************************************************************)
(* A sync whose auth files were synced without an error leaves at least as *)
(* many events in each bucket as the bucket reported.                      *)
(***************************************************************************)
BackfillCovers ==
  \A s \in Syncer :
    sync[s].pc \in {"providers", "read", "aggregate"} /\ ~sync[s].failed =>
      \A b \in FileBucket :
        Cardinality(Real(b)) + Cardinality(Synthetic(b)) >= sync[s].reported[b]

(***************************************************************************)
(* Every event of a known identity reaches its statistics, also when the   *)
(* identity is deleted and when a manual sync that has read the identities *)
(* before writes after the loop.                                           *)
(***************************************************************************)
Waiting(i, n) == i \in DOMAIN rows /\ \E e \in EventsOf(i) : e.id = n
EveryEventAggregated ==
  \A i \in Identity, n \in 1..(2 * MaxRequests) : Waiting(i, n) ~> StatsOf(i).last >= n

(***************************************************************************)
(* The backfill only adds the missing events (sync_test.go: "expected only *)
(* missing synthetic delta to be inserted"): a bucket never holds more     *)
(* events than CPA has handled requests.                                   *)
(***************************************************************************)
OnlyMissingAdded ==
  \A b \in FileBucket : Cardinality(Real(b)) + Cardinality(Synthetic(b)) <= requests[b]
=============================================================================
