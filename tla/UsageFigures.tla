---------------------------- MODULE UsageFigures ----------------------------
(***************************************************************************)
(* What the web client computes from usage details: utils/usage.ts and     *)
(* utils/usage/latency.ts.                                                 *)
(*                                                                         *)
(* A detail is a record; the payload's nesting api -> model -> details is  *)
(* kept as the fields api and model, and collections are sets, because the *)
(* sums do not depend on the order.  Time is counted in ticks, HourTicks   *)
(* to the hour and DayHours hours to the day (24 in the code, which also   *)
(* is the widest hour chart); 0 is a timestamp that does not parse.  A     *)
(* local day starts ZoneShift ticks before the UTC day.  Prices are per    *)
(* token, so a cost is a whole number of the price's unit.                 *)
(***************************************************************************)
EXTENDS Integers, Sequences, FiniteSetsExt, Functions

CONSTANTS
  Missing,      \* an absent or unparsable number, and an absent bound
  HourTicks, DayHours, ZoneShift,
  PresetHours,  \* a preset range -> its hours (4h, 8h, 12h, 24h, 7d)
  ModelPrices,  \* a priced model -> [prompt, completion, cache]
  BlockTicks, Blocks  \* the health grid: ticks per block (15 min), blocks (7 * 96)

ASSUME FiguresAssumption ==
  /\ Missing \notin Int /\ Missing \notin [earliest : Int, latest : Int]
  /\ HourTicks \in Nat \ {0} /\ DayHours \in Nat \ {0} /\ ZoneShift \in Int
  /\ PresetHours \in [DOMAIN PresetHours -> Nat \ {0}]
  /\ DOMAIN PresetHours \cap {"all", "today", "custom"} = {}
  /\ ModelPrices \in [DOMAIN ModelPrices -> [prompt : Nat, completion : Nat, cache : Nat]]

Bigger(a, b) == IF a >= b THEN a ELSE b
Smaller(a, b) == IF a <= b THEN a ELSE b
SumOf(f) == MapThenSumSet(LAMBDA k : f[k], DOMAIN f)

ToNumber(v) == IF v = Missing THEN 0 ELSE v

NoKey == -1 \* the key '' of a detail whose timestamp does not parse
DayNumber(t) == (t + ZoneShift) \div (DayHours * HourTicks)
HourNumber(t) == t \div HourTicks
Dated(d) == d.at > 0
DayKey(d) == IF Dated(d) THEN DayNumber(d.at) ELSE NoKey
HourKey(d) == IF Dated(d) THEN HourNumber(d.at) ELSE NoKey
BucketKey(period, d) == IF period = "day" THEN DayKey(d) ELSE HourKey(d)

(* Map<key, number>: what each detail contributes, added up by day or by hour. *)
Sums(period, value) ==
  [k \in {BucketKey(period, d) : d \in DOMAIN value} |->
    SumOf([d \in {e \in DOMAIN value : BucketKey(period, e) = k} |-> value[d]])]

Ones(D) == [d \in D |-> 1]

CachedTokens(d) == Bigger(ToNumber(d.cached), ToNumber(d.cache))

ExtractTotalTokens(d) ==
  IF ToNumber(d.total) > 0 THEN d.total
  ELSE ToNumber(d.input) + ToNumber(d.output) + ToNumber(d.reasoning) + CachedTokens(d)

TokensOf(D) == [d \in D |-> ExtractTotalTokens(d)]

CalculateCost(d) ==
  IF d.model \notin DOMAIN ModelPrices THEN 0
  ELSE LET price == ModelPrices[d.model]
           prompt == Bigger(Bigger(ToNumber(d.input), 0) - CachedTokens(d), 0)
       IN  prompt * price.prompt + Bigger(ToNumber(d.output), 0) * price.completion
           + CachedTokens(d) * price.cache

TotalCost(D) == SumOf([d \in D |-> CalculateCost(d)])

-----------------------------------------------------------------------------
(* Payloads. *)

Tally(tokens) ==
  LET D == DOMAIN tokens IN
  [total_requests |-> Cardinality(D),
   success_count |-> Cardinality({d \in D : ~d.failed}),
   failure_count |-> Cardinality({d \in D : d.failed}),
   total_tokens |-> SumOf(tokens)]

(* The counters of a snapshot over the details that have tokens: overall,  *)
(* per day, per hour, per API and per model.                               *)
Snapshot(tokens) ==
  LET D == DOMAIN tokens IN
  [tally |-> Tally(tokens),
   requests_by_day |-> Sums("day", Ones(D)),
   requests_by_hour |-> Sums("hour", Ones(D)),
   tokens_by_day |-> Sums("day", tokens),
   tokens_by_hour |-> Sums("hour", tokens),
   apis |-> [a \in {d.api : d \in D} |->
     LET ofApi == {d \in D : d.api = a} IN
     [tally |-> Tally(Restrict(tokens, ofApi)),
      models |-> [m \in {d.model : d \in ofApi} |->
        LET ofModel == {d \in ofApi : d.model = m} IN
        [tally |-> Tally(Restrict(tokens, ofModel)), details |-> ofModel]]]]]

Named(name) == IF name = "" THEN "unknown" ELSE name

(* The copy of a detail that a rebuilt payload holds. *)
Rebuilt(d) ==
  [d EXCEPT !.api = Named(@), !.model = Named(@), !.latency = ToNumber(@),
            !.input = ToNumber(@), !.output = ToNumber(@), !.reasoning = ToNumber(@),
            !.cached = CachedTokens(d), !.cache = Missing,
            !.total = ExtractTotalTokens(d)]

BuildUsageFromDetails(D) == Snapshot(TokensOf({Rebuilt(d) : d \in D}))

(* Collecting turns an absent latency into the number 0. *)
CollectUsageDetails(usage) ==
  {[d EXCEPT !.latency = ToNumber(@)] :
     d \in UNION {UNION {usage.apis[a].models[m].details :
                         m \in DOMAIN usage.apis[a].models} : a \in DOMAIN usage.apis}}

GetModelNames(usage) ==
  UNION {DOMAIN usage.apis[a].models : a \in DOMAIN usage.apis} \ {""}

-----------------------------------------------------------------------------
(* Time ranges. *)

ToValidTimestamp(t) == IF t = Missing \/ t <= 0 THEN Missing ELSE t

DetailTimestampBounds(D) ==
  LET times == {d.at : d \in {e \in D : Dated(e)}} IN
  IF times = {} THEN Missing ELSE [earliest |-> Min(times), latest |-> Max(times)]

NoWindow == [start |-> Missing, end |-> Missing, hours |-> Missing]

(* hours stands for windowMinutes / 60, rounded up: all the hour charts use. *)
WindowOf(start, end) ==
  [start |-> start, end |-> end,
   hours |-> Bigger((end - start + HourTicks - 1) \div HourTicks, 1)]

ResolveUsageFilterWindow(usage, range, now, customStart, customEnd) ==
  LET bounds == DetailTimestampBounds(CollectUsageDetails(usage))
      start == ToValidTimestamp(customStart)
      end == ToValidTimestamp(customEnd)
  IN CASE range = "all" ->
            IF bounds = Missing THEN NoWindow ELSE WindowOf(bounds.earliest, bounds.latest)
       [] range = "custom" ->
            IF start = Missing \/ end = Missing THEN NoWindow
            ELSE IF start > end THEN NoWindow ELSE WindowOf(start, end)
       [] range = "today" -> WindowOf(DayNumber(now) * DayHours * HourTicks - ZoneShift, now)
       [] OTHER -> WindowOf(now - PresetHours[range] * HourTicks, now)

InWindow(d, window) ==
  /\ Dated(d)
  /\ window.start = Missing \/ d.at >= window.start
  /\ window.end = Missing \/ d.at <= window.end

FilterUsageByWindow(usage, window) ==
  LET D == CollectUsageDetails(usage) IN
  IF D = {} \/ (window.start = Missing /\ window.end = Missing) THEN usage
  ELSE BuildUsageFromDetails({d \in D : InWindow(d, window)})

FilterUsageByTimeRange(usage, range, now, customStart, customEnd) ==
  FilterUsageByWindow(usage, ResolveUsageFilterWindow(usage, range, now, customStart, customEnd))

-----------------------------------------------------------------------------
(* The buckets of an hour chart. *)

NormalizeHourWindow(hours) ==
  IF hours = Missing THEN DayHours
  ELSE IF hours <= 0 THEN DayHours ELSE Smaller(Bigger(hours, 1), DayHours)

(* Mutant of BuildHourlyWindow: no bucket for the first, partial hour. *)
HourlyWindowExact(hours, end, now) ==
  LET last == HourNumber(IF ToValidTimestamp(end) = Missing THEN now ELSE end)
  IN  (last - NormalizeHourWindow(hours) + 1) .. last

(* A window of less than a day has one bucket more, its first, partial hour. *)
BuildHourlyWindow(hours, end, now) ==
  LET normal == NormalizeHourWindow(hours)
      count == IF normal >= DayHours THEN DayHours ELSE normal + 1
      last == HourNumber(IF ToValidTimestamp(end) = Missing THEN now ELSE end)
  IN  (last - count + 1) .. last

ResolveHourlyChartEnd(D, end) ==
  IF ToValidTimestamp(end) # Missing THEN end
  ELSE LET bounds == DetailTimestampBounds(D)
       IN  IF bounds = Missing THEN Missing ELSE bounds.latest

HourChartKeys(D, hours, end, now) == BuildHourlyWindow(hours, ResolveHourlyChartEnd(D, end), now)

-----------------------------------------------------------------------------
(* Tables and charts over details. *)

GetApiStats(usage) ==
  [a \in DOMAIN usage.apis |->
    LET models == usage.apis[a].models IN
    [tally |-> usage.apis[a].tally,
     models |-> [m \in DOMAIN models |-> models[m].tally],
     totalCost |-> SumOf([m \in DOMAIN models |-> TotalCost(models[m].details)])]]

(* A sample counts unless it is absent or negative. *)
ExtractLatency(d) == IF d.latency = Missing \/ d.latency < 0 THEN Missing ELSE d.latency

LatencyStats(D) ==
  LET samples == {d \in D : ExtractLatency(d) # Missing} IN
  [totalMs |-> IF samples = {} THEN Missing
               ELSE SumOf([d \in samples |-> ExtractLatency(d)]),
   sampleCount |-> Cardinality(samples)]

(* The total of a model without a sample is 0. *)
GetModelStats(usage) ==
  LET D == CollectUsageDetails(usage)
      Row(d) == IF d.model = "" THEN "-" ELSE d.model
  IN  [m \in {Row(d) : d \in D} |->
        LET ofModel == {d \in D : Row(d) = m} IN
        [tally |-> Tally(TokensOf(ofModel)),
         latency |-> [LatencyStats(ofModel) EXCEPT !.totalMs = ToNumber(@)],
         cost |-> TotalCost(ofModel)]]

Metric(metric, d) == IF metric = "requests" THEN 1 ELSE ExtractTotalTokens(d)
Measured(metric, D) == SumOf([d \in D |-> Metric(metric, d)])

ChartLines(lines) == IF lines = {} THEN {"all"} ELSE lines

(* The line a detail belongs to: its model's, else its API's, else all. *)
LineOf(d, lines) ==
  IF d.model \in lines THEN d.model ELSE IF d.api \in lines THEN d.api ELSE "all"

(* Every drawn detail is added to its own line and, when the line all is   *)
(* chosen, to that line too: twice when all is its own line.               *)
AddedTo(line, D, lines, metric) ==
  Measured(metric, {d \in D : LineOf(d, lines) = line /\ line \in lines})
  + (IF line = "all" /\ "all" \in lines THEN Measured(metric, D) ELSE 0)

LinesDrawn(D, lines) ==
  ({LineOf(d, lines) : d \in D} \cup (IF D = {} THEN {} ELSE {"all"})) \cap lines

DayChart(D, metric, chosen) ==
  LET lines == ChartLines(chosen)
      dated == {d \in D : Dated(d)}
  IN  [line \in LinesDrawn(dated, lines) |->
        [k \in {DayKey(d) : d \in dated} |->
          AddedTo(line, {d \in dated : DayKey(d) = k}, lines, metric)]]

(* The hour chart adds under keys with milliseconds and reads them back    *)
(* without, so no value it adds is ever read: every bucket shows 0.        *)
HourChart(D, metric, chosen, hours, end, now) ==
  LET lines == ChartLines(chosen)
      keys == HourChartKeys(D, hours, end, now)
      drawn == {d \in D : Dated(d) /\ HourKey(d) \in keys}
      Added(line) == [k \in {<<HourKey(d), "milliseconds">> : d \in drawn} |->
        AddedTo(line, {d \in drawn : HourKey(d) = k[1]}, lines, metric)]
      Read(line, key) == IF key \in DOMAIN Added(line) THEN Added(line)[key] ELSE 0
  IN  [line \in LinesDrawn(drawn, lines) |-> [k \in keys |-> Read(line, <<k, "seconds">>)]]

Category(c, d) ==
  CASE c = "input" -> ToNumber(d.input)
    [] c = "output" -> ToNumber(d.output)
    [] c = "cached" -> CachedTokens(d)
    [] c = "reasoning" -> ToNumber(d.reasoning)

DailyTokenBreakdown(D) ==
  [c \in {"input", "output", "cached", "reasoning"} |->
    Sums("day", [d \in {e \in D : Dated(e)} |-> Category(c, d)])]

HourlyTokenBreakdown(D, hours, end, now) ==
  [c \in {"input", "output", "cached", "reasoning"} |->
    [k \in HourChartKeys(D, hours, end, now) |->
      SumOf([d \in {e \in D : Dated(e) /\ HourKey(e) = k} |-> Category(c, d)])]]

DailyCostSeries(D) == Sums("day", [d \in {e \in D : Dated(e)} |-> CalculateCost(d)])

HourlyCostSeries(D, hours, end, now) ==
  [k \in HourChartKeys(D, hours, end, now) |->
    TotalCost({d \in D : Dated(d) /\ HourKey(d) = k})]

(* The grid ends with the block the clock is in; the totals over all       *)
(* details are not restricted to it.                                       *)
ServiceHealth(D, now) ==
  LET newest == now \div BlockTicks + 1
      Start(i) == (newest - Blocks + i - 1) * BlockTicks
      In(i) == {d \in D : d.at >= Start(i) /\ d.at < Start(i) + BlockTicks}
  IN  [totalSuccess |-> Cardinality({d \in D : ~d.failed}),
       totalFailure |-> Cardinality({d \in D : d.failed}),
       windowStart |-> Start(1), windowEnd |-> newest * BlockTicks,
       blocks |-> [i \in 1..Blocks |->
         [success |-> Cardinality({d \in In(i) : ~d.failed}),
          failure |-> Cardinality({d \in In(i) : d.failed})]]]

-----------------------------------------------------------------------------
(* formatDurationMs: the non-zero parts from days to seconds, at most      *)
(* maxUnits of them, of a duration of a minute or more.                    *)

DurationUnits == <<86400, 3600, 60, 1>>

NormalizeMaxUnits(units) ==
  IF units = Missing THEN 2 ELSE IF units <= 0 THEN 2 ELSE Smaller(units, 4)

SecondDecimals(seconds, decimals) ==
  IF decimals = Missing THEN IF seconds < 10 THEN 2 ELSE 1
  ELSE IF decimals < 0 THEN IF seconds < 10 THEN 2 ELSE 1 ELSE Smaller(decimals, 3)

(* Milliseconds rounded to decimals of a second. *)
RoundTo(decimals, ms) ==
  LET unit == <<1000, 100, 10, 1>>[decimals + 1] IN ((2 * ms + unit) \div (2 * unit)) * unit

DurationParts(ms, units) ==
  LET seconds == ms \div 1000
      Part(i) == [unit |-> DurationUnits[i],
                  value |-> (IF i = 1 THEN seconds ELSE seconds % DurationUnits[i - 1])
                            \div DurationUnits[i]]
      shown == {i \in 1..4 : Part(i).value > 0}
      Before(i) == Cardinality({j \in shown : j < i})
  IN  [k \in 1..Smaller(NormalizeMaxUnits(units), Cardinality(shown)) |->
        Part(CHOOSE i \in shown : Before(i) = k - 1)]

(* The milliseconds that parts, and a formatted duration, read as. *)
PartsRead(parts) == 1000 * SumOf([i \in DOMAIN parts |-> parts[i].unit * parts[i].value])

FormatDuration(ms, units, decimals) ==
  IF ms = Missing THEN Missing
  ELSE IF ms < 0 THEN Missing
  ELSE IF ms < 1000 THEN ms
  ELSE IF ms < 60000 THEN RoundTo(SecondDecimals(ms \div 1000, decimals), ms)
  ELSE PartsRead(DurationParts(ms, units))
=============================================================================
