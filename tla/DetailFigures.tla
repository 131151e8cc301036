--------------------------- MODULE DetailFigures ----------------------------
(***************************************************************************)
(* Details are recorded while the clock runs, and the figures of           *)
(* UsageFigures and SnapshotFigures are taken at any moment: the tables,   *)
(* charts and cards computed by different functions must tell the same     *)
(* story.                                                                  *)
(***************************************************************************)
EXTENDS SnapshotFigures

CONSTANTS
  UsageDetail,          \* the details that may be recorded
  Opening, Closing,     \* the clock's first and last tick
  LineChoices,                \* choices of chart lines
  CustomWindow,         \* pairs <<start, end>> of custom windows
  Durations             \* durations in milliseconds

(* A detail counts tokens from 0, and has an identity of its own.  No      *)
(* model has the name of an API or of the line of all requests.            *)
ASSUME DetailsAssumption ==
  /\ Opening \in Nat \ {0} /\ Closing \in Nat /\ Opening <= Closing
  /\ BlockTicks \in Nat \ {0} /\ Blocks \in Nat \ {0}
  /\ RateTicks \in Nat /\ TopSeries \in Nat /\ RecentLimit \in Nat
  /\ UsageDetail \subseteq
       [id : Int, api : STRING, model : STRING, at : Nat, failed : BOOLEAN,
        latency : Int \cup {Missing}, input : Nat, output : Nat, reasoning : Nat,
        cached : Nat, cache : Nat \cup {Missing}, total : Nat]
  /\ \A d, e \in UsageDetail : /\ d.id = e.id => d = e
                               /\ d.model \notin {"all", e.api}
  /\ \A w \in CustomWindow : {w[1], w[2]} \subseteq Int \cup {Missing}
  /\ Durations \subseteq Nat

VARIABLES recorded, clock

figureVars == <<recorded, clock>>

FiguresInit == recorded = {} /\ clock = Opening

RecordDetail(d) ==
  /\ d \notin recorded /\ d.at <= clock
  /\ recorded' = recorded \cup {d}
  /\ UNCHANGED clock

PassTime ==
  /\ clock < Closing
  /\ clock' = clock + 1
  /\ UNCHANGED recorded

FiguresNext == PassTime \/ \E d \in UsageDetail : RecordDetail(d)

FiguresSpec == FiguresInit /\ [][FiguresNext]_figureVars

FiguresTypeOK == recorded \subseteq UsageDetail /\ clock \in Opening..Closing

-----------------------------------------------------------------------------
(* The payload the server sends: the same counters over the raw details.   *)
Payload == Snapshot(TokensOf(recorded))

Windows ==
  {ResolveUsageFilterWindow(Payload, range, clock, Missing, Missing) :
     range \in DOMAIN PresetHours \cup {"all", "today"}}
  \cup {ResolveUsageFilterWindow(Payload, "custom", clock, w[1], w[2]) : w \in CustomWindow}

Ids(usage) == {d.id : d \in CollectUsageDetails(usage)}
ByRange(range) == FilterUsageByTimeRange(Payload, range, clock, Missing, Missing)

(* All counters of a snapshot describe the same set of details.            *)
CountsAgree(usage) ==
  LET apis == usage.apis
      OverApis(field) == SumOf([a \in DOMAIN apis |-> apis[a].tally[field]])
      OverModels(field) ==
        SumOf([a \in DOMAIN apis |->
          SumOf([m \in DOMAIN apis[a].models |-> apis[a].models[m].tally[field]])])
  IN  /\ \A field \in DOMAIN usage.tally :
           OverApis(field) = usage.tally[field] /\ OverModels(field) = usage.tally[field]
      /\ usage.tally.total_requests = Cardinality(Ids(usage))
      /\ usage.tally.success_count + usage.tally.failure_count = usage.tally.total_requests
      /\ SumOf(usage.requests_by_day) = usage.tally.total_requests
      /\ SumOf(usage.tokens_by_hour) = usage.tally.total_tokens

(* What a range shows.  Filtering keeps exactly the dated details of the   *)
(* window, each once and in every counter, and filtering again changes     *)
(* nothing, although the copies have been normalised in between; a longer  *)
(* preset never hides what a shorter one shows; and the two filters of the *)
(* code, which end a preset at now and at the newest event, agree whenever *)
(* that event is now and otherwise differ in one direction only.           *)
RangesNest ==
  /\ \A window \in Windows :
       LET shown == FilterUsageByWindow(Payload, window) IN
       /\ CountsAgree(shown)
       /\ FilterUsageByWindow(shown, window) = shown \/ window = NoWindow \/ recorded = {}
       /\ window # NoWindow => Ids(shown) = {d.id : d \in {e \in recorded : InWindow(e, window)}}
  /\ \A r, s \in DOMAIN PresetHours :
       PresetHours[r] <= PresetHours[s] => Ids(ByRange(r)) \subseteq Ids(ByRange(s))
  /\ \A r \in DOMAIN PresetHours :
       LET older == Ids(FilterUsageSnapshot(Payload, r, clock))
           latest == DetailTimestampBounds(recorded)
       IN  \/ latest = Missing
           \/ /\ Ids(ByRange(r)) \subseteq older
              /\ latest.latest = clock => Ids(ByRange(r)) = older

-----------------------------------------------------------------------------
Normal == CollectUsageDetails(BuildUsageFromDetails(recorded))

(* The tables, the chart and the card price the same requests alike, and   *)
(* the older formula differs by the cached part of the input alone.        *)
CostsAgree ==
  LET D == CollectUsageDetails(Payload)
      dated == {d \in D : Dated(d)}
      apis == GetApiStats(Payload)
      models == GetModelStats(Payload)
      older == BuildApiSummary(Payload)
      rows == BuildModelSummary(Payload)
  IN  /\ SumOf([a \in DOMAIN apis |-> apis[a].totalCost]) = TotalCost(D)
      /\ SumOf([m \in DOMAIN models |-> models[m].cost]) = TotalCost(D)
      /\ SumOf(DailyCostSeries(D)) = TotalCost(dated)
      /\ \A a \in DOMAIN older :
           older[a].totalCost = SumOf([row \in {r \in DOMAIN rows : r[1] = a} |-> rows[row].totalCost])
      /\ SumOf([a \in DOMAIN older |-> older[a].totalCost]) = BuildCostSummary(Payload)
      /\ dated = D => SumOf(BuildCostTrendPoints(Payload)) = BuildCostSummary(Payload)
      /\ \A d \in Normal : /\ CalculateCost(d) <= CalculateEventCost(d)
                           /\ d.cached = 0 => CalculateCost(d) = CalculateEventCost(d)

(* A model's line counts each of its requests once; the hour buckets of a  *)
(* short window hold everything since the window's start.                  *)
ChartsAgree ==
  LET dated == {d \in CollectUsageDetails(Payload) : Dated(d)} IN
  /\ \A lines \in LineChoices : \A metric \in {"requests", "tokens"} :
       LET chart == DayChart(dated, metric, lines)
           OfModel(m) == {d \in dated : d.model = m}
       IN  \A m \in lines \cap {d.model : d \in dated} :
             SumOf(chart[m]) = Measured(metric, OfModel(m))
  /\ \A r \in {p \in DOMAIN PresetHours : PresetHours[p] < DayHours} :
       LET shown == {d \in dated : d.at >= clock - PresetHours[r] * HourTicks}
           costs == HourlyCostSeries(dated, PresetHours[r], clock, clock)
           tokens == HourlyTokenBreakdown(dated, PresetHours[r], clock, clock)
       IN  /\ {HourKey(d) : d \in shown} \subseteq DOMAIN costs
           /\ SumOf(costs) >= TotalCost(shown) /\ SumOf(costs) <= SumOf(DailyCostSeries(dated))
           /\ \A c \in DOMAIN tokens : SumOf(tokens[c]) <= SumOf(DailyTokenBreakdown(dated)[c])
           /\ DOMAIN tokens["input"] = DOMAIN costs

(* Each block of the health grid counts its own requests, and the grid     *)
(* ends with the moment it is drawn; the totals cover all details.         *)
HealthAgrees ==
  LET health == ServiceHealth(recorded, clock)
      inGrid == {d \in recorded : d.at >= health.windowStart}
  IN  /\ health.windowStart <= clock /\ clock < health.windowEnd
      /\ SumOf([i \in 1..Blocks |-> health.blocks[i].success + health.blocks[i].failure])
           = Cardinality(inGrid)
      /\ health.totalSuccess + health.totalFailure = Cardinality(recorded)

(* The latency of the models adds up to that of all details; the rate      *)
(* window holds the newest request and nothing a preset would hide; and    *)
(* the trends, drawn when every request has a time, keep as many models as *)
(* they may and count each request of them in one hour.                    *)
RatesAgree ==
  LET models == GetModelStats(Payload)
      all == LatencyStats(CollectUsageDetails(Payload))
      rate == BuildRateStats(Payload)
  IN  /\ SumOf([m \in DOMAIN models |-> models[m].latency.sampleCount]) = all.sampleCount
      /\ SumOf([m \in DOMAIN models |-> models[m].latency.totalMs]) = ToNumber(all.totalMs)
      /\ rate.requestCount > 0 <=> \E d \in recorded : Dated(d)
      /\ \A r \in DOMAIN PresetHours :
           \/ PresetHours[r] * HourTicks < RateTicks
           \/ rate.requestCount <= FilterUsageSnapshot(Payload, r, clock).tally.total_requests
      /\ \A recent \in BuildRecentEvents(Payload) :
           rate.requestCount >= RecentLimit =>
             \A d \in recent : d.at >= DetailTimestampBounds(recorded).latest - RateTicks
      /\ (\A d \in recorded : Dated(d)) =>
           \A kept \in BuildSeriesTrends(Payload, "model", "requests") :
             /\ Cardinality(kept) = TopSeries \/ kept = {d.model : d \in recorded}
             /\ \A m \in kept : SumOf(SeriesOf(Payload, "model", "requests")[m])
                                 = Cardinality({d \in recorded : d.model = m})

(* A duration of a minute or more never reads longer than it is, nor       *)
(* shorter by as much as its last unit; one below a minute is rounded by   *)
(* at most half of its last digit, which still is less than a second.      *)
DurationReads(ms, units) ==
  LET read == FormatDuration(ms, units, Missing)
      parts == DurationParts(ms, units)
  IN  IF ms < 60000 THEN read - ms <= 50 /\ ms - read <= 50
      ELSE read <= ms /\ ms < read + 1000 * parts[Len(parts)].unit

DurationsRead == \A ms \in Durations : \A units \in {Missing} \cup 0..5 : DurationReads(ms, units)

(* From the first step on, the figures computed along different ways from  *)
(* the same details agree.                                                 *)
FiguresAgree ==
  FiguresInit \/ (RangesNest /\ CostsAgree /\ ChartsAgree /\ HealthAgrees /\ RatesAgree /\ DurationsRead)
=============================================================================
