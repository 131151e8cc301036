--------------------------- MODULE OverviewCharts ---------------------------
(***************************************************************************)
(* The overview page's hour and day charts over the answer of the server,  *)
(* which holds counters per hour and per day and no details: UsagePage.tsx *)
(* chooses the chart's hours and end, useChartData.ts, CostTrendChart.tsx, *)
(* TokenBreakdownChart.tsx and StatCards.tsx each cut their buckets out of *)
(* it.  The answer is modelled after internal/repository/usage.go.         *)
(***************************************************************************)
EXTENDS UsageFigures

CONSTANTS
  ServedEvent,              \* events that may happen: [id, model, tokens, reasoning, cost]
  FirstTick, LastTick, \* the clock
  MaxServed,           \* events in a behaviour
  CustomDays,          \* pairs <<first day, last day>> of custom ranges
  LongDays             \* days of usageOverviewDailyBucketThresholdMinutes, 7

VARIABLES
  served,   \* the server's events with their time: [id, model, ..., at]
  tick,
  answer    \* what the page shows: the filter, and the counters of the answer

chartVars == <<served, tick, answer>>

NoAnswer == [range |-> "none"]

DayStart(day) == day * DayHours * HourTicks - ZoneShift

(* Days of a custom range begin and end after the epoch, and no model has  *)
(* the name of the line of all requests.                                   *)
ASSUME ChartsAssumption ==
  /\ FirstTick \in Nat \ {0} /\ LastTick \in Nat /\ FirstTick <= LastTick
  /\ MaxServed \in Nat /\ LongDays \in Nat
  /\ \A e \in ServedEvent : /\ e.tokens \in Int /\ e.reasoning \in Int /\ e.cost \in Int
                            /\ e.model # "all"
  /\ \A days \in CustomDays : /\ days[1] \in Int /\ days[2] \in Int
                             /\ DayStart(days[2] + 1) > 1

ChartsInit == served = {} /\ tick = FirstTick /\ answer = NoAnswer

-----------------------------------------------------------------------------
(* The server. *)

(* The window of a request; the range all has none. *)
ParseUsageFilter(range, days) ==
  CASE range = "all" -> [start |-> Missing, end |-> Missing]
    [] range = "today" -> [start |-> DayStart(DayNumber(tick)), end |-> DayStart(DayNumber(tick) + 1) - 1]
    [] range = "custom" -> [start |-> DayStart(days[1]), end |-> DayStart(days[2] + 1) - 1]
    [] OTHER -> [start |-> tick - PresetHours[range] * HourTicks, end |-> tick]

LatestHourlySeriesStart(filter, D) ==
  IF filter.end # Missing THEN HourNumber(filter.end) - (DayHours - 1)
  ELSE IF D = {} THEN Missing ELSE HourNumber(Max({d.at : d \in D})) - (DayHours - 1)

(* The counters of one series, per bucket, over all models and per model. *)
OverviewSeries(period, D) ==
  LET Counters(E) ==
        [requests |-> Sums(period, Ones(E)),
         tokens |-> Sums(period, [d \in E |-> d.tokens]),
         cost |-> Sums(period, [d \in E |-> d.cost]),
         reasoning |-> Sums(period, [d \in E |-> d.reasoning])]
  IN  [all |-> Counters(D),
       models |-> [m \in {d.model : d \in D} |-> Counters({d \in D : d.model = m})]]

FilteredEvents(filter) == {d \in served : InWindow(d, filter)}

(* A window whose end is the last tick of a day lasts to the end of it. *)
ShouldBucketUsageOverviewByDay(range, filter) ==
  \/ range \in {"all", "7d"}
  \/ /\ filter.start # Missing /\ filter.end # Missing
     /\ filter.end - filter.start + 1 >= LongDays * DayHours * HourTicks

(* The series of the cards has all events, per day or per hour; that of    *)
(* the hours only those of the last day.                                   *)
BuildUsageOverview(range, filter, D) ==
  LET first == LatestHourlySeriesStart(filter, D)
  IN  [summary |-> [requests |-> Cardinality(D),
                    tokens |-> SumOf([d \in D |-> d.tokens]),
                    cost |-> SumOf([d \in D |-> d.cost]),
                    reasoning |-> SumOf([d \in D |-> d.reasoning])],
       series |-> OverviewSeries(
                    IF ShouldBucketUsageOverviewByDay(range, filter) THEN "day" ELSE "hour", D),
       hourly |-> OverviewSeries("hour",
                    IF first = Missing THEN D ELSE {d \in D : HourKey(d) >= first}),
       daily |-> OverviewSeries("day", D)]

-----------------------------------------------------------------------------
Serve(e) ==
  /\ Cardinality(served) < MaxServed
  /\ e.id \notin {d.id : d \in served}
  /\ served' = served \cup
       {[id |-> e.id, model |-> e.model, tokens |-> e.tokens, reasoning |-> e.reasoning,
         cost |-> e.cost, at |-> tick]}
  /\ UNCHANGED <<tick, answer>>

AdvanceClock ==
  /\ tick < LastTick
  /\ tick' = tick + 1
  /\ UNCHANGED <<served, answer>>

(* The page shows the answer for a range; refreshed stands for the time of *)
(* the last refresh.                                                       *)
ShowOverview(range, days) ==
  LET filter == ParseUsageFilter(range, days) IN
  /\ answer' = [range |-> range, refreshed |-> tick, filter |-> filter,
                usage |-> BuildUsageOverview(range, filter, FilteredEvents(filter))]
  /\ UNCHANGED <<served, tick>>

ChartsNext ==
  \/ AdvanceClock
  \/ \E e \in ServedEvent : Serve(e)
  \/ \E range \in DOMAIN PresetHours \cup {"all", "today"} : ShowOverview(range, Missing)
  \/ \E days \in CustomDays : ShowOverview("custom", days)

ChartsSpec == ChartsInit /\ [][ChartsNext]_chartVars

ChartsTypeOK ==
  /\ tick \in FirstTick..LastTick
  /\ \A d \in served : d.at \in FirstTick..tick
  /\ answer = NoAnswer \/ answer.refreshed \in FirstTick..tick

-----------------------------------------------------------------------------
(* The window the page derives; without details, all has no bounds.        *)
FilterWindow ==
  CASE answer.range = "all" -> NoWindow
    [] answer.range = "custom" -> WindowOf(answer.filter.start, answer.filter.end)
    [] answer.range = "today" -> WindowOf(DayStart(DayNumber(answer.filter.end)), answer.filter.end)
    [] OTHER -> WindowOf(answer.filter.end - PresetHours[answer.range] * HourTicks, answer.filter.end)

GetOverviewHourWindowHours ==
  CASE answer.range \in {"all", "today"} -> DayHours
    [] answer.range = "custom" ->
         IF FilterWindow.hours = Missing THEN DayHours
         ELSE Smaller(Bigger(FilterWindow.hours, 1), DayHours)
    [] OTHER -> Smaller(PresetHours[answer.range], DayHours)

(* The server's range end, else the window's own, else the last refresh.   *)
GetOverviewChartEnd ==
  IF answer.filter.end # Missing THEN answer.filter.end
  ELSE IF FilterWindow.end # Missing THEN FilterWindow.end ELSE answer.refreshed

At(bucketMap, key) == IF key \in DOMAIN bucketMap THEN bucketMap[key] ELSE 0

(* buildChartData without details: an empty map draws nothing, and so does *)
(* a model that has no series.                                             *)
BuildChart(source, period, metric, lines) ==
  LET raw == source.all[metric]
      keys == IF period = "day" THEN DOMAIN raw
              ELSE BuildHourlyWindow(GetOverviewHourWindowHours, GetOverviewChartEnd, tick)
      drawn == IF DOMAIN raw = {} THEN {} ELSE lines \cap ({"all"} \cup DOMAIN source.models)
      MapOf(line) == IF line = "all" THEN raw ELSE source.models[line][metric]
  IN  [line \in drawn |-> [k \in keys |-> At(MapOf(line), k)]]

(* useChartData: the series of the chosen period. *)
RequestsChart(period, lines) ==
  BuildChart(IF period = "hour" THEN answer.usage.hourly ELSE answer.usage.daily,
             period, "requests", lines)

TokensChart(period, lines) ==
  BuildChart(IF period = "hour" THEN answer.usage.hourly ELSE answer.usage.daily,
             period, "tokens", lines)

(* resolveHourBucketCount: a partial hour before a window short of a day.  *)
ResolveHourBucketCount(hours) ==
  LET normal == NormalizeHourWindow(hours) IN
  IF normal >= DayHours THEN DayHours ELSE normal + 1

(* Mutant: the cost chart anchored one bucket early. *)
CostTrendSeriesLate(period) ==
  LET last == HourNumber(GetOverviewChartEnd) - 1
      count == ResolveHourBucketCount(GetOverviewHourWindowHours)
  IN  IF period = "day" THEN answer.usage.daily.all.cost
      ELSE [k \in (last - count + 1) .. last |-> At(answer.usage.hourly.all.cost, k)]

BuildOverviewCostTrendSeries(period) ==
  LET last == HourNumber(GetOverviewChartEnd)
      count == ResolveHourBucketCount(GetOverviewHourWindowHours)
  IN  IF period = "day" THEN answer.usage.daily.all.cost
      ELSE [k \in (last - count + 1) .. last |-> At(answer.usage.hourly.all.cost, k)]

(* The token breakdown has no bucket for the partial hour, and none at all *)
(* when the server sent none.                                              *)
BuildHourlyLabels(source) ==
  LET last == HourNumber(GetOverviewChartEnd) IN
  IF DOMAIN source.reasoning = {} THEN {}
  ELSE (last - NormalizeHourWindow(GetOverviewHourWindowHours) + 1) .. last

BuildTokenBreakdownChartSeries(period) ==
  LET source == IF period = "hour" THEN answer.usage.hourly.all ELSE answer.usage.daily.all
      labels == IF period = "hour" THEN BuildHourlyLabels(source) ELSE DOMAIN source.reasoning
  IN  [k \in labels |-> At(source.reasoning, k)]

(* Mutant: the sparklines draw the hours, of the last day only. *)
SparklineOfHours == answer.usage.hourly.all

(* The sparklines in the cards draw the server's series as sent; the cards *)
(* read the summary.                                                       *)
BuildUsageSparklineSeries == answer.usage.series.all

BuildStatCardMetrics ==
  IF answer = NoAnswer THEN [requests |-> 0, tokens |-> 0, cost |-> 0, reasoning |-> 0]
  ELSE answer.usage.summary

-----------------------------------------------------------------------------
AllLine(chart) == IF "all" \in DOMAIN chart THEN SumOf(chart["all"]) ELSE 0
ShortRange == answer.range \in DOMAIN PresetHours /\ PresetHours[answer.range] < DayHours

(* The hour in which a short range begins, of which it holds a part. *)
PartialHour == HourNumber(GetOverviewChartEnd) - GetOverviewHourWindowHours

(* The charts show what the cards beside them count: the sparklines in     *)
(* them and every day chart, and the hour charts of requests, tokens and   *)
(* cost for a range shorter than a day, the partial hour at its start      *)
(* included; for a longer range with an end the hour charts show all the   *)
(* hours the server sent in the hourly series.  Model lines add up to the  *)
(* line of all requests.  The token breakdown of a short range is the      *)
(* exception: it shows all but the partial hour.                           *)
ChartsMatchCards ==
  answer # NoAnswer =>
    LET card == BuildStatCardMetrics
        lines == {"all"} \cup {e.model : e \in ServedEvent}
        ModelLines(chart) == SumOf([m \in DOMAIN chart \ {"all"} |-> SumOf(chart[m])])
    IN  /\ AllLine(RequestsChart("day", {"all"})) = card.requests
        /\ AllLine(TokensChart("day", {"all"})) = card.tokens
        /\ SumOf(BuildOverviewCostTrendSeries("day")) = card.cost
        /\ SumOf(BuildTokenBreakdownChartSeries("day")) = card.reasoning
        /\ \A metric \in {"requests", "tokens", "cost"} :
             SumOf(BuildUsageSparklineSeries[metric]) = card[metric]
        /\ ShortRange =>
             /\ AllLine(RequestsChart("hour", {"all"})) = card.requests
             /\ AllLine(TokensChart("hour", {"all"})) = card.tokens
             /\ SumOf(BuildOverviewCostTrendSeries("hour")) = card.cost
             /\ SumOf(BuildTokenBreakdownChartSeries("hour"))
                  = card.reasoning - At(answer.usage.hourly.all.reasoning, PartialHour)
        /\ answer.range # "all" =>
             AllLine(RequestsChart("hour", {"all"})) = SumOf(answer.usage.hourly.all.requests)
        /\ \A period \in {"hour", "day"} :
             LET chart == TokensChart(period, lines) IN ModelLines(chart) = AllLine(chart)
=============================================================================
