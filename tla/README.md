# CPA Usage Keeper: specification, model checking and proofs

CPA Usage Keeper collects the usage records of a CLI proxy (CPA), keeps them in a
database and shows them on a dashboard. This directory holds TLA+ modules of its
server and its web client, the TLC configurations that check them and the proofs
TLAPS checks. Paths below are relative to `src/`; `PROJECT.json` maps every
definition to the lines it stands for and lists the hazards with theirs.

## 1. The system

One Go process (`cmd/server`) starts an HTTP server and these loops (`internal/app/app.go`):

| loop | period | what it does |
|---|---|---|
| pull (`poller/redis_drain.go` runPullLoop) | without pause while there are messages | LPOP from CPA's queue, insert the raw messages into `redis_usage_inboxes` |
| process (runProcessLoop) | 5 s | decode inbox rows, insert `usage_events`, mark the rows |
| metadata (`app/metadata_sync.go`) | `METADATA_SYNC_INTERVAL` | identities, synthetic backfill, statistics per identity |
| cleanup (`app/maintenance.go`) | daily, 03:00 local | delete old inbox rows, VACUUM |
| pricing (`app/pricing_sync.go`) | `PRICING_SYNC_INTERVAL` | model prices from a public catalog |
| backup (`app/backup_runner.go`) | `BACKUP_INTERVAL` | copy of the SQLite file, retention |

`POST /sync` runs pull, process and metadata once more, in the request's goroutine
(`app/manual_sync.go`). On Hugging Face a shell loop uploads snapshots of the
database (`entrypoint.space.sh`, `hf_state_snapshot.py`). The web client (`web/src`,
React) asks the server for an overview, events, an analysis and identities by time
range, and computes the figures, charts and tables it shows.

SQLite is opened with **one connection** (`repository/db.go` SetMaxOpenConns(1)), so
one SQL statement, or one transaction, is what another goroutine sees as atomic:
it is the grain of every action on the database below. The server has no signal
handling: SIGTERM is a crash at whatever point the goroutines are. The client's
JavaScript runs **one handler at a time**: a handler with the effects React runs after
it is one action, and what it awaits is another.

### Components, their state and what makes them correct

| component | state | hard part | correct when | modelled by |
|---|---|---|---|---|
| usage inbox | `redis_usage_inboxes`, `usage_events` | loss window after LPOP, partial commits, crash between insert and mark, retry budget, cleanup under a running attempt | stored messages are counted once or deliberately dropped; rows follow their life cycle; every row settles | `UsageInbox`, `UsageLedger` |
| metadata sync | `usage_identities`, synthetic `usage_events` | two runners at once, read-then-write of absolute totals, counts read before inserts | statistics equal the events up to the cursor and never go back; the backfill is complete and adds only what is missing | `MetadataSync` |
| overview cache | `usageOverviewCache` | build outside the lock, failing builds, stale-while-refresh | one build at a time, no older overview, every call answered, every event shown | `OverviewCache` |
| drain poller, manual sync | flags, shared status | two loops and requests under two flags, errors and panics while a flag is set, the end of Run | at most one pull and one process; neither stage is ever blocked; the loops end | `RedisDrain` |
| queue client | shard counter | reply lost after LPOP, fallback to HTTP, round robin from a moving start | no shard starves; an empty pop has missed nothing | `UsageQueue` |
| overview queries | none | windows and buckets at boundaries | sums agree with the events | `OverviewCharts` (in part) |
| backup | files, retry state | retries, a restart that reads the history, local midnight and UTC days | backups follow each other by the interval, none is overdue, each is kept for its days | `BackupRunner` |
| snapshot | repository files, manifest, local database | failed listings and commits, lost answers, unchanged content, restarts | a restore gets the last upload; nothing uploaded is lost; nothing is left behind | `SnapshotRotation` |
| authentication | sessions, failure counts | expiry, restart, late answers to a client | a session that has ended is seen to have ended | `ClientSession` (in part) |
| client: overview | zustand store, active request | answers out of order, aborts, timers, a hidden browser tab | spinner, error and request agree; what is selected is shown in the end | `OverviewStore` |
| client: tabs | data, page, filter, request per tab | pages that have gone, filters that are dropped, refreshes that outlive their selection | each tab shows its selection at rest, and comes to rest | `TabLoads` |
| client: session | token, cookie, requests under way | a 401 that arrives late | the end of a session is shown | `ClientSession` |
| client: prices | prices shown, stored and remembered | optimistic edits and their rollback, overlapping loads | what is shown is what the server had when it was read, or has since been told | `ClientPricing` |
| client: dialogs, lists, tooltip | open, focus, scroll lock, place | timers against renders, shared lock, options and layout that change | the page gets back what a dialog took; a list and a tooltip lie where they belong | `ClientModal`, `ClientSelect`, `HealthTooltip` |
| client: preferences | localStorage, document | several effects write what one load reads | a reload changes nothing | `ClientPreferences` |
| client: figures | none | hours, days, zones and partial hours at the edges of windows | figures computed in different ways agree | `UsageFigures`, `SnapshotFigures`, `DetailFigures`, `OverviewCharts`, `UsageTables` |
| pricing | `model_price_settings` | user and sync write the same row, and no client hears of a sync | every price is the one written last | `ClientPricing` (what the sync writes, not how it finds it) |
| log files, migrations, handlers, configuration, scripts | | | | not modelled (section 6) |

## 2. Modules

A module has its state as variables, one action per operation, a specification and,
last, its properties. Definitions preceded by "Mutant" are variants of the next one
which a plausible bug would turn it into; no specification uses them (section 3).
Modules that share no state prefix the names they would otherwise share
(`BackupInit`, `StoreNext`), so that one `MC` module can extend several of them.

### The server

#### `UsageInbox` (with `UsageLedger`)

`UsageInbox` models pull, process and cleanup. One action is one SQL statement or
transaction; each can succeed or fail, and `Crash` may come between any two.

| action | code |
|---|---|
| `Publish` | CPA appends a message (external) |
| `Pop`, `PopFails` | `PullRedisUsageInbox` up to PopUsage; in `PopFails` the reply is lost |
| `InsertPulled`, `InsertPulledFails` | `InsertRedisUsageInboxMessages` |
| `ListRows` | `ListProcessableRedisUsageInbox` |
| `DecodeRow`, `MarkDecodeFailed`, `MarkDecodeFails` | the decode loop of `processRedisInboxRows` |
| `AlignRow` (`AlignKey`) | `alignUsageEventKeysWithExistingCanonicalEvents`, one row per step |
| `InsertEvents` | one batch of `InsertUsageEvents` |
| `PersistFails` | a lookup or a batch fails |
| `MarkProcessed`, `MarkProcessedFails` | `MarkRedisUsageInboxProcessed` |
| `MarkProcessFailed`, `MarkProcessFailedFails` | `markRedisInboxRowsProcessFailed` |
| `CleanProcessed`, `CleanFailed`, `CleanFails` | `CleanupRedisUsageInbox` |
| `Tick`, `Crash` | the clock; the process dies |

A message is a model value with a `RequestId` (or none), a `Body` (the canonical fields
but the timestamp) and whether it decodes and has a timestamp. The canonical event
key, a SHA-256 of body and timestamp, is the pair itself. A message without a
timestamp is stamped with the tick its attempt started at, as `toUsageEvent` does. The
map `canonicalEventKeys` of the alignment is not a variable: what it holds for a content
is the key of the last aligned row with it. The branches for `incomingKey != canonicalKey` of
a row without request id cannot be reached from the decoder, which builds the key
with the same function, and are left out. VACUUM has no effect on rows. The pull and
process flags of the poller give each stage one set of working variables (that they
do is `OneOfEach` of `RedisDrain`). `lost`, `credited` and `givenUp` are auxiliary: they record
history and no guard reads them.

`UsageLedger` is the abstract promise: every message has a fate, and the only moves
are unsent -> upstream -> taken -> stored -> counted or dropped, with "lost" reachable only
before "stored". `UsageInbox` reads the fate of a message off the tables (`FateOf`) and
`ImplementsLedger` says that every step is a step, or a stutter, of the ledger.

#### `MetadataSync`

`Syncer` is the metadata loop (`Loop`) and the manual requests; nothing in the code
excludes them from each other. `Fetch` is both fetches; `ReplaceAuthFiles`,
`CountReal`, `CountSynthetic`, `FinishCompare`, `InsertSynthetic` are `syncAuthFiles`;
`ReplaceProviders` is `syncProviderMetadata`; `ReadIdentities` and `Aggregate` are the two
halves of `AggregateUsageIdentityStats`: the list read before the transaction, and
the transaction that writes absolute totals. `AuthFilesFail`, `SyncFails`, `ProcessDies` are
the failures. `Request`, `Deliver` and `Lose` are the world: CPA handles a request (its
auth file counts it at once), and its usage message becomes an event later or never.

A bucket is an identity, a ten-minute window and success or failure; a real event has
no other time than its window. Token counts behave as `total` and are left out, and so
are auth files without an `auth_index` (matched by source), the label parser and a
provider key that moves from one endpoint to another. Event ids are assigned in
commit order, as SQLite with one connection does; on Postgres they need not be.

#### `OverviewCache`

One action is one critical section of `cache.mu` (`ServeFresh`, `ServeStale`, `Wait`,
`Wake`, `StartBuild`, `Finish`) or the build outside it (`Build`). An overview is the
number of events it was built from; ages are counted up to the TTL. A channel is a
number: waiting callers hold the one they receive from, and it is closed when the
cache's open channel is another.

#### `RedisDrain` (with `UsageQueue`)

`RedisDrain` extends `UsageQueue`: it models the poller, that is the two loops of `Run` and the
`POST /sync` requests, each of which asks again and again, and the pop of the caller that holds
the pull flag is that of the client. One action is one critical section of `d.mu` or one step
outside it.

| action | code |
|---|---|
| `Start`, `Stop` | `Run` up to both goroutines; its return |
| `Cancel` | `stopBackgroundTasks`, after the server has returned |
| `Wake`, `Leave`, `Asleep` | `sleepContext` in both loops, and the check of the context at the top of the pull loop |
| `Ask` | a request the limiter of `/sync` lets through |
| `Begin`, `Refuse` | the test of `pullRunning` or `processRunning`; `ErrSyncAlreadyRunning` |
| `PopUsage`, `StorePulled`, `Process` | the stage itself; what it does to the database is `UsageInbox` |
| `Record`, `Release` | `recordPullResult` or `recordResult`; the deferred reset, and where the caller goes next |
| `Panic` (`AbandonPop`) | a panic in a request, which gin recovers; one in a loop ends the process |
| `Metadata` | the end of `manualSyncRunner.SyncNow` |
| `Arrive` | a message reaches a shard (external) |

The rate limiter is abstracted to any sequence of requests: one it refuses changes
nothing. All state is in memory, so a restart is `Init` again.

`UsageQueue` is the client: `StartPop`, `RedisAnswers` or `RedisFails`, then
`ShardAnswers` and `ShardFails` for one shard after the other, then `Return`; `Abandon` is a
pop whose caller panics. Either failure may come after CPA has taken a batch out of
its queue, which is then gone. `cursor` is `currentShard` modulo the number of shards, all
that the code reads of it; that the counter overflows after 2^64 pops is left out.
Messages are counted by shard. CPA itself is external: over Redis it serves any queue
that has messages. That `RedisDrain` uses the client as `QueueSpec` says, `Spec => QueueSpec`, is a
theorem (section 4).

#### `SnapshotRotation`

The database of a container whose disk is gone when it stops (`entrypoint.space.sh`,
`hf_state_snapshot.py`), as the set of its usage events, and the repository it is
restored from and uploaded to.

| action | code |
|---|---|
| `Restore`, `RestoreFails` | `download_latest`; its failure, which the shell script prints and ignores |
| `OpenDatabase`, `StoreEvent` | the server creates the file if there is none, and writes to it |
| `Copy` | `upload_snapshot` up to the temporary copy, whose time fixes its file name |
| `Commit`, `CommitFails` | the operations and `create_commit`; in `Commit` the answer may be lost, in `CommitFails` the content may have been pre-uploaded |
| `Prune` | `prune_lfs_storage_if_due`: not due, failed, or deletes the stored contents no file refers to |
| `Restart`, `NextInterval` | the container stops; a rotation interval passes |

One container uploads, so what `upload_snapshot` reads between the copy and the commit
does not change and is read in the `Commit` step. A sha256 identifies its content. Files
of the history are named by their rotation interval, whose order is the order of
their names. The listing of the repository may fail (`available`). The interval and the
number of files to keep do not change, so the parts of `needs_manifest_update` about
them are left out; so are a deployment without rotation, the marker of the last
pruning and a disk that survives (where a restored file meets an old write-ahead
log). `uploaded` and `intact` are auxiliary.

#### `BackupRunner`

`DatabaseBackupRunner.Run` with the writer, the history and the cleanup. `Plan` is
`nextDelay` (`DailyBackupAt`, `IntervalBackupAt`, with a history that may be unreadable),
`Wake` the end of the sleep, `WriteDatabase` and `WriteFails` the attempt, `Cleanup` the
retention, which may stop after some of the expired days. `Stop` ends the process at any
point and `Start` begins with empty memory. A file is when its backup began (its name)
and when it ended (its modification time): the runner's memory has the former, a
restarted process reads the latter.

Time is counted in ticks of the local clock without daylight saving; `Shift` is the
distance to UTC's midnight, for the truncation in `Cutoff`. The counter of attempts is not
followed beyond four: the code asks only whether it is above three. An unfinished
copy ends in `.tmp`, which neither the history nor a restore reads. The configured
interval may be any of a set, so one run covers schedules by interval and by day.

### The web client

#### `OverviewStore`

`useUsageStatsStore.ts` and the hook that uses it. `LoadStats` is `loadUsageStats`: it does nothing
for an unready custom range, for a fresh overview of the range or when a request for
the range is under way, and else aborts what is under way. `OverviewArrives`,
`OverviewFails`, `OverviewAges` are the answer, its failure and the end of `staleTimeMs`;
`SelectRange`, `OpenOverview`, `LeaveOverview`, `HideBrowserTab`, `ShowBrowserTab`, `AutoRefresh`,
`RefreshOverview`, `StartSync` and `EndSync` are the page with the effects each handler leads to.
An overview is its key and the number of events it counts. An answer counts those
stored at some time since its request was sent, or, for the range "all" (`Cached`), those of
the backend's cache at such a time: `cached` is what the cache counts, and `RefreshCache` the
end of a build, as `OverviewCache` has it.

#### `TabLoads`

The tabs of `UsagePage.tsx` with loads of their own. `flight`, `shown`, `spin` and `error` are, per
tab, the request under way, what the data were asked for, the spinner and the error.
`LoadTab` is any of `loadEvents`, `loadAnalysis`, `loadCredentials`; `EventsArriveShort` an answer with
fewer pages than the one selected; `OptionsArrive` the filter options, which drop a filter
that is not offered. `late` is, for either button, a refresh that waits for the backend's sync or
for the filter options and goes on with the tab and the selection of the render it was pressed in.
The two buttons have flags of their own and may wait at once. Whoever waits for the options is
woken (`Woken`) when their request is answered, fails, or is aborted because the options are asked
for anew or the tab is left, and goes on in a step of its own (`RefreshGoesOn`). The refresh button is disabled
until the load it leads to ends; `PressRefresh` may ask again before, which is one more order.

#### `ClientSession`

The `SessionManager`, its middleware, the session check and the login handler
(`auth/session.go`, `api/auth.go`); `lib/api.ts` with the token of localStorage, which goes before
the cookie; `App.tsx` with the login form. A request carries the credential it was sent with and
is answered, refused or failed later. Only some requests can be aborted (`Lasting` are the others).
A sync (`Syncing`) is three requests one after the other, none of which anything aborts: the sync, after
the refresh of the tab the status ("synced"), and, when either fails, the status once more
("unsynced"), whose own failure is ignored.

#### `ClientPricing`

`usePricingData.ts` and the editors of `PriceSettingsCard.tsx`. `SetModelPrices` shows, remembers and sends
an edit at once; `SaveFails` puts back the prices from before it. `load` is the load under
way with what it has read. `BackendReads` and `BackendStores` are `repository/pricing.go`, and `SyncPricing`
is the pricing sync of the server (`app/pricing_sync.go`, `service/pricing_sync.go`), which in one transaction
gives any models any prices, those the user has set included. `orderly` and `synced` are auxiliary.

#### `ClientModal`, `ClientSelect`, `HealthTooltip`

`Modal.tsx`: `closeTimer` and whether it notifies the parent, the scroll lock shared by
all dialogs (`activeModalCount`, `snapshot`), the focus, its trap and its return. `RenderParent` is
a render with a new `onClose`, which runs the effect again.
`Select.tsx`: the list, its highlight, and its place (`DropdownStyle` is `resolveDropdownStyle`), computed
when it opens and in the frame after a scroll or resize. `ServiceHealthCard.tsx`: the tooltip, its
place and its anchor. Lengths are small integers.

#### `ClientPreferences`

`useThemeStore.ts`, the language of `i18n`, and tab, range, custom dates and chart lines of
`UsagePage.tsx`: each effect that writes a preference, and `Loaded`, what a page makes of what
it reads. `FirstVisit` starts from storage of an earlier version, or edited.

#### `UsageFigures`, `SnapshotFigures`, `DetailFigures`

Operators. `UsageFigures` is `utils/usage.ts` with `latency.ts`; `SnapshotFigures` is the older
`lib/usage.ts`, whose series throw on an undated event (`RangeError`). The names are the source's. A usage detail is a record, a payload
(`Snapshot`) the nested counters over a set of them. Hours, days and the zone are
parameters in ticks, prices whole numbers per token. `DetailFigures` lets details be
recorded while a clock runs and states what the figures must have to do with each other.

#### `OverviewCharts`

The server's answer (`BuildUsageOverview`, `ParseUsageFilter` from `repository/usage.go` and
`api/usage_filter.go`) with its three series, by hour of the last day, by day, and the one of the
sparklines, by day for "all", "7d" and windows of seven days (`ShouldBucketUsageOverviewByDay`) and by hour
otherwise; and what `useChartData.ts`, `CostTrendChart.tsx`, `TokenBreakdownChart.tsx`,
`useSparklines.ts` and `StatCards.tsx` each cut out of it. The page may show an answer while more events
are served and time goes by.

#### `UsageTables`

The rows of models, APIs and credentials, the clicks that sort them (a sort may leave
ties in any order: `SortedBy` is the set of orders), the expanded rows, and the filter
options and pager of the events.

### How the modules meet

`RedisDrain` contains `UsageQueue`; `OneOfEach` is what `UsageInbox` rests on. The events `UsageInbox` and
`MetadataSync` insert are those `OverviewCache` counts, `BackupRunner` copies and `SnapshotRotation` uploads:
each of these takes the others' steps as any sequence of new events. `MetadataSync`'s
`Deliver` and `Lose` are the two fates the ledger leaves a stored or a popped message.
`OverviewStore` and `TabLoads` are two halves of one page and share the buttons.

## 3. Runs

All runs finish within five minutes with two workers. For every property of every
passing run one of the definitions commented "Mutant" must be caught (`PROJECT.json`
"mutants" names it).

| run | instance | shows |
|---|---|---|
| `inbox_rows` | a good, an undecodable and an undated message, list limit 1, 2 attempts, 1 crash, two days of one tick each, fairness | `ImplementsLedger` and `RowLifecycle` while the cleanup deletes rows of a running attempt; `EveryRowSettles` though event inserts may always fail |
| `kept` | *inbox*: three deliveries of one request (one with id), list limit 2, batch 1, 2 attempts, 1 crash. *backups*: three days of ten ticks; every seven ticks, daily, every other day; retention one day, one stop. *backfill*: two syncers, one auth file, two requests, batch 1 | `CountedOnce`, `ProcessedIsCounted`, `AttemptBudget` across crashes and partial commits; `OnSchedule`, `KeptForRetention`; `SyntheticContiguous`, `BackfillCovers` |
| `metadata_stats` | two syncers, one provider key, two windows, three requests | `StatsExact`, `StatsNeverRegress` |
| `metadata_live` | two syncers, one auth file, one request, batch 1, fairness | `EveryEventAggregated` |
| `metadata_overcount` | one auth file, one request | violated: `OnlyMissingAdded` |
| `served` | *cache*: two callers, two refreshers (one superfluous), TTL 1, two events. *snapshots*: two events, two files to keep, four rotation intervals. Fairness of both | `SingleFlight`, `NeverOlder`, `EveryCallAnswered`, `EveryEventShown`; `RestoresLastUpload`, `HistoryIsRetained`, `NothingUploadedLost`, `EventsUploaded` |
| `overview_after_sync` | the cache of `served` | violated: `SeenAtOnce` |
| `redis_drain` | both loops, a request that asks again and again, two shards of one message, fairness | `OneOfEach`, `StoppedMeansQuiet`, `EmptyMeansEmpty`, `StopCompletes`, `EveryStageGoesOn`, `NoShardStarves` |
| `web_loads` | *store*: two ranges, one of them cached by the backend, and an unready one; two events. *tabs*: one range, two pages, one filter. *figures*: six requests. *charts*: two events, four presets, three custom ranges, seven ticks. Fairness of store and tabs | `StoreConsistent`, `OverviewConverges`; `TabSettles`; `FiguresAgree`; `ChartsMatchCards` |
| `web_tabs` | *tabs*: a valid and an invalid range, two pages, one filter. *prices*: two models, two prices, one edit under way, the sync at any time; symmetry of models and of prices | `TabsConsistent`; `PricesAgree` |
| `web_parts` | *session*: two logins, two requests under way, one failed attempt allowed, fairness. Dialogs, lists, preferences, tables and tooltip, each small (below) | `SessionEndShown`; `DialogsGiveBack`, `ListUsable`, `PreferencesKept`, `TablesTrue`, `TooltipAtBlock` |
| `web_range` | two ranges | violated: `ShowsSelectedRange` |

`kept`, `served`, `web_loads`, `web_tabs` and `web_parts` check several modules that share no state. A variable
`part` of their `MC` module chooses one at first; that part takes its steps and the others rest in
one initial state. Every state of each part is reached, and a property of one part
says of the others only what holds at rest. Fairness is that of the parts' modules: a part
at rest has none of its fair actions enabled, which `MCServed` sees to for the cache (no caller comes)
and the container (it is not started).

The type invariants (`TypeOK`, `BackupTypeOK`, ...) are no run's property: all of them are proved
(section 4). To see one checked, add it to the `INVARIANTS` of a configuration.

### Why the bounds are enough

*Inbox.* Three deliveries of one request give two rows of one content, with and without an
id, plus one row beyond the list limit of two; a batch size of one makes every insert of
two rows a partial commit; three messages of different kinds leave two rows waiting behind
a list limit of one; two days let a row of the first expire on the second; two attempts have a first, a last
and no middle failure, as five have; one crash suffices because a second one finds the
state a first one left, all memory being gone. *Metadata.* Two windows distinguish
first from last use; two syncers are the smallest race, and three requests let one
fall before, between and after their reads. *Cache.* Two callers give a builder and a
waiter. *Poller.* The request collides with the pull loop and with the process loop,
stage by stage; a second one would meet it as it meets the loops (the exclusion is
proved for any number). Two shards let one stay busy, or fail, while the other waits.
*Snapshot.* Two events give three contents, one more than the files to keep, and four
intervals one more again. *Backup.* A day of ten ticks is long enough that the retries
after a failure end on the day they began; three days let a backup outlive its
retention, and one stop shows all that a restart forgets.

*Store.* Two ranges that can be asked for are the smallest selection to leave and come
back to, with a third that is refused; two events let an answer, the cache and the store
differ. *Tabs.* Two pages, a filter and an invalid range give every reason a request
is replaced, and three tabs with loads every way to leave one. Whether the loads end does not
depend on the range, of which `web_loads` has one: a change of it replaces requests as a change
of the page does, and an invalid one is answered at once. *Session.* A login over
the sessions of earlier ones, two requests under way: one from before the login, one
after it. *Prices.* Two models tell what the sync has priced from what it has not, two prices let it
overwrite one by the other. One edit is under way at a time, any number after each other; edits that
overlap are excepted by `PricesAgree`, and the theorem is for any number.
*Dialogs.* Two dialogs of two fields: one over the other, either closing first. *Lists.*
None, one, and three options in two orders; windows with room below, above, on
neither side, and a button scrolled half out. *Preferences.* Two tabs, a preset, the
range of earlier versions and custom dates of two days in any order; two lines.
*Figures.* Six requests at chosen instants: dated or not, at the edge of an hour and of a
zone-shifted day, failed, cached beyond the input, without a name or a latency; an
hour of two ticks and a day of three hours are the shortest with partial hours and
windows below a day. *Charts.* A preset of one hour, of two, of a day and one ("7d") longer than a day;
custom ranges of one, two and three days, with the limit between hours and days at three
(`LongDays`, in the code seven), so that a window longer than the last day is drawn by hours and another
by days. *Tables.* Four rows with ties and absent numbers, every subset of
them and every sequence of clicks.

`CHECK_DEADLOCK FALSE` is set for the runs that may stop: the inbox with all bounded
messages settled and the clock at its bound, the backup with its clock, the poller
after `Run` has returned, and the parts of the client with their bounds reached.

### Fairness

*Inbox.* Weak fairness of pull and process: both loops run for ever
(`redis_drain.go` runPullLoop, runProcessLoop). Strong fairness of the successful insert
and marks says that no statement fails for ever while it is retried; that is an
assumption about the database, not a guarantee of the code. Nothing is assumed of the
event inserts: rows settle (as discarded) even if each of them fails.
*Metadata.* The loop runs at every interval whatever happened before
(`metadata_sync.go` Run), so its steps are weakly fair; that CPA and the database do
not fail at every attempt is assumed (strong fairness of the successful steps of the
loop). Nothing is assumed of manual syncs, which may stop anywhere.
*Cache.* A goroutine that can run does; `sync.Mutex` hands itself to a waiter starved
for a millisecond, so entering is strongly fair. That builds succeed again and again
and that requests keep coming is assumed. Without the former a waiting request could
wait through one failed build after the other.
*Poller.* Every goroutine that can run does, timers fire and CPA answers or times out.
`Begin` and `Refuse` are alternatives of one weakly fair step: nothing promises a loop
the flag. `EveryStageGoesOn` therefore says that somebody completes each stage again
and again. It assumes that requests do not panic for ever; nothing makes requests
come, succeed or stay away. `NoShardStarves` is about deployments in which Redis no
longer answers (over Redis CPA chooses the queue); that a shard asked again and again
does not fail for ever is assumed, by strong fairness of its answer.
*Snapshot.* A container that stops is started again, its loop goes on whatever an
upload returns (`entrypoint.space.sh`), and that not every commit fails is assumed (strong
fairness of `Commit`). Nothing makes restores succeed or containers stay up.
*Store.* The timer of the automatic refresh fires, a request is answered or fails, a
sync ends, and a backend that is asked again and again for the range selected answers in the end
(strong fairness of the arrival). That the backend's cache is built anew while "all" is asked
for again and again (strong fairness of `RefreshCache`) is what `EveryEventShown` says of
`OverviewCache`, under the assumptions there. Nothing is assumed of the user.
*Tabs.* Requests are answered, fail or are aborted (weak fairness of `Answers` as a whole).
`TabSettles` speaks of behaviours in which the user acts finitely often.
*Session.* The page polls the status every 30 s and every request is answered in the
end; some of the polls meet a server that does not fail and are read before the next
one aborts them.

### Findings

Quoted against the repository's own words in `PROJECT.json`:

* `OnlyMissingAdded` (`internal/service/sync.go:619`): a request the auth file reports while its
  message is still queued is backfilled, and counted again when the message arrives.
* `SeenAtOnce` (`internal/service/usage.go:54`): after a manual sync the "all" overview may be one
  cached before it.
* `ShowsSelectedRange` (`web/src/stores/useUsageStatsStore.ts:50`): select another range and come back to
  one that is still fresh: the load returns without aborting the other's request,
  whose answer then replaces the overview. With the page open and visible the
  automatic refresh repairs it (`OverviewConverges`).

### What the properties except

These are behaviours of the code, kept in the model, that a property had to leave out.

* Messages with neither request id nor timestamp: their key holds the instant of the
  attempt, so a retry after a partial commit counts them twice (`Stable` in `CountedOnce`).
* A failed restore starts an empty database, which is then uploaded (`intact` in `NothingUploadedLost`).
* A backup history that cannot be read may let one backup come early (`blind` in `Spaced`).
* The buttons of the page refresh the selection of the render they were pressed in: after
  a slow sync that answer overwrites a newer selection until the next change (`outdated`
  in `TabShowsSelection`; `EndSync` in `OverviewStore`, which `ShowsSelectedRange` does not blame).
* A forced refresh of the overview joins a request for its range that is under way,
  although that was sent before the sync it follows (`Joined`); the next automatic refresh
  shows the rest.
* A fresh overview is returned to with the error of another range still shown.
* A price the pricing sync has written since the prices were read is not the one shown:
  nothing tells the client (`synced` in `PricesAgree`).
* The "all" overview may count fewer events than were stored when it was asked for, as the backend's
  cache was built before (`Cached` in `OverviewStore`); with the page open it catches up.
* A 401 to a request sent with an old token also throws out a user who has logged in
  since (`RequestRefused`); `SessionEndShown` only asks for the other direction.
* Price edits that overlap: a save that fails puts back the prices from before it and
  with them undoes newer edits; a load that was sent before a save and is read after it
  shows the old price (`orderly` in `PricesAgree`).
* A dialog whose parent renders with a new `onClose` while it fades out is shown again
  (`RenderParent`), a close by the user included.
* The highlight of a list is an index; after a change of the options Enter may choose
  nothing, or another option (`stale` in `ListUsable`).
* The token breakdown draws N buckets for N hours where the other hour charts draw N + 1
  (`TokenBreakdownChart.tsx:61`, as its test expects): it leaves the first, partial hour
  out, which `ChartsMatchCards` states.
* The hour chart over details adds under keys it does not read back and is always 0
  (`HourChart`); the server sends no details, so the page does not draw it. A line "all"
  chosen explicitly counts details without a line of their own twice (`AddedTo`), likewise.
* Two formulas of a cost: the older one charges the cached part of the input twice
  (`CalculateEventCost`). Models and APIs of the analysis clamp cached tokens before and
  after adding up, so the two tables differ when more is cached than sent (`TablesAgree`).
* The series of the older `lib/usage.ts` throw on an undated event (`lib/usage.ts:344`, `:369`), where every
  other figure counts it: `RatesAgree` and `CostsAgree` compare them when all events are dated.
* `collectUsageDetails` makes an absent latency a sample of 0 (`CollectUsageDetails`), and the totals of
  `ServiceHealth` are not restricted to its grid (`HealthAgrees`).
* The older filter ends a preset at the newest event, the newer one at now (`RangesNest`);
  the hour chart of the range "all" ends with the last refresh, not the newest event.
* A tooltip stays where its block was until the page scrolls when an answer lays the
  grid out anew (`relaid`).

## 4. Proofs

`UsageInboxProofs` proves, for every set of messages and every value of the bounds:

* `TypeCorrect`: `Spec => []TypeOK`. The inductive part is `TypeInv`: `TypeOK` with the
  relations between the working variables that keep it (the listed rows are rows of
  the table's id range, `keys` is no longer than `valid`, there is a row at `pos + 1`
  where a step reads one).
* `MessagesCountedOnce`: `Spec => []CountedOnce`. `CountedOnce` is not inductive: whether a
  retry inserts depends on the key it will be aligned to. The invariant `CountInv` adds
  `BatchInv` (an aligned row that has a request id has it as its key; one without has
  the key of an event, or of an earlier row of the batch, with its content, or its own
  canonical key, which then no other content can have) and `LedgerInv` (ids and keys of
  events are unique; an event with a request id's key stems from a message with that
  id, one with a content as key has that content). From it a row whose message already
  has an event always meets that event's key, so the insert does nothing.
* `BudgetIsKept` (`Spec => []AttemptBudget`) and `RowsMoveOnward` (`Spec => RowLifecycle`). Both rest on
  `RowInv`: an attempt holds each row once (`HeldOnce`), and a row it has yet to mark is still open, or the
  cleanup has deleted it and its message is given up (`HeldOpen`); a mark of a deleted row then
  changes nothing.
* `ProcessedRowsAreCounted`: `Spec => []ProcessedIsCounted`, under the hypothesis `OneBodyPerId`
  that CPA gives one request id to one request. Without it a second request would be taken for a
  repetition of the first. `ReferInv` says of every key of the batch and of every event which
  body it means (`KeyMeans`).
* `InboxImplementsLedger`: `Spec => ImplementsLedger`, a refinement. `FateInv` says that a sent message
  is in exactly one place: CPA's queue, the pull, lost, or the table and what was counted or given up
  from it. Every action moves messages between places (`Flow`) and `LedgerMoves` reads each such
  move as a step of the ledger for the messages that moved.

The assumptions are the two named ones of `UsageInbox` (`MessagesAssumption`: request
ids and contents are different things, and `BoundsAssumption`); TLC evaluates them in
every run.

`RedisDrainProofs` proves for every set of requests, any shards, batch size and capacity:

* `StagesExclusive`: `Spec => []OneOfEach`. `OneOfEach` is inductive with the types of
  `flag`, `pc` and `stage` (`DrainType`): that the flag is set *exactly* while its stage
  runs is what makes it so, since `Begin` trusts the flag and `Release` and `Panic` reset it.
* `QuietAfterStop`: `Spec => []StoppedMeansQuiet`. It needs that both loops are new
  until Run starts them, together.
* `DrainUsesQueue`: `Spec => QueueSpec`, a refinement: every step of the poller is a step of
  the queue client or leaves it alone. What is proved of the client alone therefore holds
  of the client in the poller.
* `PollerTypeCorrect`: `Spec => []TypeOK`, the queue's part by that refinement.

It also proves, of the queue client alone, `QueueTypeCorrect` and `EmptyPopMissesNothing`
(`QueueSpec => []EmptyMeansEmpty`) for every number of shards. The invariant says that the
shards with messages when the round began are among those still to be asked, where
"still to be asked" is the distance from the next shard, modulo the number of shards,
being less than `left`: the arithmetic of the wrap-around is in lemmas of its own.

`MetadataSyncProofs` proves `MetadataTypeCorrect`, `StatsAreExact` (`MetadataSpec => []StatsExact`) and
`StatsNeverGoBack` (`MetadataSpec => StatsNeverRegress`) for every set of syncers, identities and windows and
any number of requests. The hard part is that a syncer writes totals it computed from a list read
earlier, while others write too. `StatsInv` therefore says the same of the stored rows and of what
every syncer has read: the statistics are those of the identity's events up to a cursor that is the
id of an event (`Sound`), and events are numbered in the order of their insertion (`Numbered`). The
transaction adds to the totals it had read all events after the cursor it had read, so what it writes
counts every event there is by then, whatever was written in between; without such an event it
writes nothing. Totals are cardinalities, so the lemmas count sets of events.

`SyntheticNumbersAreContiguous` (`MetadataSpec => []SyntheticContiguous`) and `BackfillCoversReported`
(`MetadataSpec => []BackfillCovers`) rest on `BackfillInv`, which speaks of the plan between the
comparison and the inserts, while other syncers insert the same ordinals and real events arrive. `PlanSound`:
an ordinal is planned once, below the requests reported, and every ordinal before it is inserted or
planned before it; so a batch that fails half-way, or finds some of its events inserted by another
syncer, leaves no gap. `Compared`: the ordinals a compared bucket lacked, which are those below
what was reported minus what was real then, are inserted or planned; so when the plan is empty none is
missing. Both survive the steps of other syncers because requests, real and synthetic events only
grow (`PartsGrow`). That the inserted ordinals are an initial segment makes their number their
cardinality, by a lemma on finite sets of naturals.

`OverviewCacheProofs` proves `OneBuild` (`CacheSpec => []SingleFlight`) and `CacheNeverOlder`
(`CacheSpec => NeverOlder`) for every set of requests and refreshers. `NeverOlder` rests on
`OrderInv`: the cached overview is no newer than what a finished build has read, which
holds because a build reads after the one before it has been stored, and that is
`SingleFlight`. The assumption `BuilderAssumption` says requests and refreshers are
different and requests finitely many at a time, so that a fresh channel always exists.
`CacheTypeCorrect` is the types' part of the invariant.

`SnapshotRotationProofs` proves `RestoreGetsLastUpload` (`SnapshotSpec => []RestoresLastUpload`) and
`UploadedIsKept` (`SnapshotSpec => NothingUploadedLost`) for any number of files to keep, with and
without the plain file. `PointerInv` adds what makes the first inductive: the state
file has the checksum of the last commit, so an upload that skips unchanged content
leaves the manifest at a file that has it, and the latest file is always retained.
`ContainerInv` adds for the second that, until a restore fails, the local database and
the temporary copy contain the last commit. `HistoryIsBounded` (`SnapshotSpec => []HistoryIsRetained`) follows
from the first invariant: a new manifest lists its own file first and cuts the rest, and an upload that
is skipped changes neither manifest nor history. `SnapshotTypeCorrect` is `SnapshotSpec => []SnapshotTypeOK`.

`BackupRunnerProofs` proves, for every length of the day, zone, schedule, retention and time of a copy:

* `BackupsAreKept`: `BackupSpec => KeptForRetention`. The truncation to a UTC day only makes the cutoff
  earlier, and an attempt begins no later than its cleanup (`ClockInv`).
* `BackupsAreSpaced`: `BackupSpec => []Spaced`. `SpaceInv` says that what a sleep waits for, and the
  beginning of an attempt or of its retry, are ready after *every* stored backup, not only the one remembered;
  the time of the last backup is that of the latest file by `LastBackupIsLatest`.
* `BackupsAreOnSchedule`: `BackupSpec => []OnSchedule`, that is `Spaced` and `NotOverdue`. `NewestInv` follows
  the newest backup: the next attempt is planned at most an interval after its end. For a daily schedule
  that needs to know how late in the day an attempt can be: `LateInv` counts, from four o'clock,
  one copy and one delay for each retry so far. Hence the hypothesis `RetriesEndThatDay`: the copies of an
  attempt and of its three quick retries end before midnight. The code has a retry delay of 15 minutes,
  so nineteen hours are left for four copies. It is not idle: the day of a backup is the day
  its copy *ended*, so one that ends after midnight takes the next day's place, and that day gets none.
* `BackupTypeCorrect`: `BackupSpec => []BackupTypeOK`.

`WebPartsProofs` proves of the loads of the client, for any ranges, filters, pages and number of events:

* `StoreStaysConsistent`: `StoreSpec => []StoreConsistent`. With the types it is inductive;
  `LoadKeepsInv` is the part every handler that loads shares, `PageKeepsInv` the rest of a handler.
* `TabTypeCorrect` (`TabSpec => []TabTypeOK`) and `TabsAreConsistent` (`TabSpec => []TabsConsistent`). What a tab
  shows at rest is what its last request asked for, so `TabShows` speaks of requests too: unless an
  outdated refresh was sent (`outdated`), the open tab's request, if there is one, asks for
  what is selected. Each selection that changes what a tab wants aborts and sends anew
  (`LoadActiveKeeps`), and one that does not leaves what is wanted as it was (`SameQueryKeeps`).

and of six other parts of the web client, for all values of their constants:

* `PricesTypeCorrect` and `PricesStayTrue` (`PricesSpec => []PricesAgree`). `PricesInv` says of an orderly
  editor that there is at most one save, whose edit is on top of the prices before it, while the backend
  has them with or without it; so whether it succeeds or is rolled back, the two agree. All of this is
  said of the models outside `synced`, and a load that has been read agrees with the backend but for the
  models the sync has priced since (`load.missed`).
* `DialogsAlwaysGiveBack`: `ModalSpec => DialogsGiveBack`. The lock of the page is a counter and a
  snapshot shared by all dialogs: `ScrollInv` says that the counter is the number of dialogs on the
  screen and that the snapshot is the unlocked page with its place as long as there is one.
  `DialogInv` ties the timers to the dialogs that fade out, `FocusInv` says the focus is on the
  page or in a dialog on the screen.
* `ListsStayUsable`: `SelectSpec => []ListUsable`. `SelectInv` says that an open list that waits for no
  frame was placed for the layout of now; `PlacedFits` is the geometry, for any button and window.
* `TooltipsStayAtBlock`: `HealthSpec => []TooltipAtBlock`, under the hypothesis `WideScreen`: the window is at
  least half as wide again as a tooltip, which is taken to be 180 px wide (`ServiceHealthCard.tsx:15`). In
  a narrower one a tooltip at the left side can leave the window on the right. `TooltipInv` ties the
  tooltip to the grid and the scroll position it was placed for.
* `PreferencesSurvive`: `PrefSpec => []PreferencesKept`. `PrefInv` says that what is saved is what is
  chosen, but for the name of an unknown language. That reading it back changes nothing needs that
  `NormalizeLines` keeps what is already normal: the lines at a set of positions, in their order, are
  defined by the rank of a position (`LinesAt`), and ranks of a finite set of positions run through
  all numbers (`RankIsOnto`).
* `SessionTypeCorrect`: `SessionSpec => []SessionTypeOK`; the session's own property is liveness.
  `DialogsTypeCorrect`, `ListsTypeCorrect`, `TooltipsTypeCorrect`, `PreferencesTypeCorrect` and
  `StoreTypeCorrect` say the same of the other parts.

`WebFiguresProofs` proves of everything the page counts and adds up:

* `ChartsMatchTheCards`: `ChartsSpec => []ChartsMatchCards`. `ChartsInv` says that what the page shows is the
  answer to a finite set of served events within its window, none after the clock (`Shown`); the property
  then is a statement about that set. A chart is a series of buckets, cut where the card is not, so the
  proof is about which buckets can hold events: `DaysLast` and its neighbours show that the hours
  of a window reach from the hour its oldest event is in to the hour it ends in, for every zone and
  length of hours and days. The series of the sparklines holds every event of the window, in hours or in
  days, so its sum is the card's for every range, whatever the server chooses.
* `TablesStayTrue`: `TablesSpec => []TablesTrue`. The two tables group the same rows by model and by
  API, and both sums are the sum of the rows; costs differ by the clamping of cached tokens, which is
  no linear matter, hence the inequality and its exception. That a sort shows every row once, and
  that turning a column around reverses exactly the rows it tells apart, is proved of the place of a
  row as the number of rows before it.
* `FiguresStayInAgreement`: `FiguresSpec => []FiguresAgree`, in the six parts of that property.
  `FiguresInv` only says that finitely many details are recorded, none after the clock; the depth is in
  what follows from it. A payload is nested (API, model, details) and each function walks
  it in its own way, so `SnapshotCollected` and `FilterIs` show that collecting a payload gives back
  the details, that filtering one is rebuilding it from the details of the window, and that a second
  filter finds nothing to drop although the first has replaced absent numbers. Durations are split into
  units by remainders; `PartsRead` of the first units is what they hold, and less than a last unit is lost.
* `ChartsTypeCorrect`, `TablesTypeCorrect` and `FiguresTypeCorrect`.

All of these are sums over finite sets, which the community modules define by recursion (`MapThenSumSet`),
and the provers cannot use an induction theorem that takes an operator. `SetsByRemoval` is an induction without
one: a *family* of sets that holds the empty set, and each set that holds an element without which it
is in the family, holds every finite set. The theory is built on it once: the sum of a set is that of one element
and of the rest, whichever it is, of two parts, and of groups (`SumByKey`: adding up by
key first and over the keys then), or over a one-to-one image (`SumOverImage`).

The assumptions of these modules (`FiguresAssumption`, `ChartsAssumption`, `TablesAssumption`, `DetailsAssumption`; TLC
evaluates them in `web_loads` and `web_parts`) say:

* prices are not negative, which `UpdatePricing` refuses (`internal/service/pricing_service.go:60`);
* counts of tokens and latencies of a row are from 0. The server stores what CPA reports, and no code
  of this repository refuses a negative count; with one the inequalities between costs need not hold;
* a detail has an identity, which the server's event id is; and there are finitely many rows;
* no model has the name of an API, or is called `all`. Nothing refuses such a name either:
  `utils/usage.ts:604` looks a line up by model first and by API then, and keeps the line of all
  requests under `all`, so a model named like either would share its line;
* a custom range ends after the epoch, and an absent number (`Missing`) is no number.

### Only model-checked

Every safety invariant and every action property of the passing runs is a theorem. Out of the prover's reach
is liveness, with `ENABLED` and fairness: `EveryRowSettles`, `EveryEventAggregated`, `EveryCallAnswered`,
`EveryEventShown`, `NoShardStarves`, `StopCompletes`, `EveryStageGoesOn`, `EventsUploaded`,
`OverviewConverges`, `TabSettles`, `SessionEndShown`.

## 5. What could come next

How the pricing sync matches the models of CPA with those of the catalogue
(`service/pricing_sync.go:86-95`), a pure function whose choices `SyncPricing` leaves open; and the events
page of the server (`repository/usage.go`), whose pages and filters `TabLoads` takes as answers.

## 6. Not modelled

* **CPA HTTP client.** It builds requests and decodes JSON; its failures are the
  nondeterministic failures of the modules that call it.
* **How the pricing sync finds its prices.** It fetches CPA's models and a catalogue and matches them; a
  failure writes nothing and is retried at the next interval. That the sync overwrites prices the
  user has set is `SyncPricing` of `ClientPricing`. An edit looks its row up and writes it in two statements
  (`repository/pricing.go:73`, `:86`): when the sync commits in between, the edit is written after
  it all the same, or, if the row was new, is refused by the unique index, which is `SaveFails`.
* **Log files.** Nothing reads what the writer writes. That the old file is closed before the new
  one is open (`logging.go:201`), so that a failing open leaves a closed file current, is a
  matter of two adjacent lines.
* **Schema migrations.** Each is one transaction with its version row; what it does to the data is
  one-off SQL.
* **HTTP handlers, configuration, redaction, start.** Parsing and formatting without state.
* **Deployment scripts, icons, layout, texts.** One-shot calls of external services, and markup.
* **Queries beyond the overview**: the grid of the health card, RPM and TPM, the paged list of
  events. They read the events as the overview does and keep nothing.
* **Behaviour left out of modelled components**, as the notes of the components in `PROJECT.json`
  also say: ids of events that become visible out of order on
  Postgres (the modules follow SQLite with one connection); bucket labels, which have no date, around
  midnight (`sync.go:702`); the growth of `retryAttempts` until a backup succeeds
  (`backup_runner.go:114`) beyond what its bound reaches; daylight saving; `SyncRedisBatch`, a composition
  of pull and process that only tests call; the logout, which the client never calls; the reading of
  numbers from the price fields; the formatting of numbers other than durations.
