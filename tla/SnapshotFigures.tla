-------------------------- MODULE SnapshotFigures ---------------------------
(***************************************************************************)
(* The older set of figures over a usage snapshot: lib/usage.ts.  Token    *)
(* totals are the recorded ones, presets end at the newest event instead   *)
(* of now, and a cost charges the whole input besides the cached part.     *)
(***************************************************************************)
EXTENDS UsageFigures

CONSTANTS
  RateTicks,   \* the 30 minutes of the rate statistics
  TopSeries,   \* series a trend chart keeps (5)
  RecentLimit  \* rows of the recent events list (12)

TotalTokens(d) == d.total

GetPrice(d) ==
  IF d.model \in DOMAIN ModelPrices THEN ModelPrices[d.model]
  ELSE [prompt |-> 0, completion |-> 0, cache |-> 0]

CalculateEventCost(d) ==
  d.input * GetPrice(d).prompt + d.output * GetPrice(d).completion + d.cached * GetPrice(d).cache

CollectUsageEvents(usage) ==
  UNION {UNION {usage.apis[a].models[m].details : m \in DOMAIN usage.apis[a].models} :
         a \in DOMAIN usage.apis}

FilterUsageSnapshot(usage, range, now) ==
  LET events == CollectUsageEvents(usage)
      bounds == DetailTimestampBounds(events)
      dayStart == DayNumber(now) * DayHours * HourTicks - ZoneShift
      Kept(d) == IF range = "today" THEN d.at >= dayStart /\ d.at <= now
                 ELSE d.at >= bounds.latest - PresetHours[range] * HourTicks
  IN  IF range \in {"all", "custom"} \/ bounds = Missing THEN usage
      ELSE Snapshot([d \in {e \in events : Dated(e) /\ Kept(e)} |-> TotalTokens(d)])

BuildRateStats(usage) ==
  LET events == CollectUsageEvents(usage)
      bounds == DetailTimestampBounds(events)
      recent == IF bounds = Missing THEN {}
                ELSE {d \in events : Dated(d) /\ d.at >= bounds.latest - RateTicks}
  IN  [requestCount |-> Cardinality(recent), tokenCount |-> SumOf([d \in recent |-> TotalTokens(d)])]

EventsCost(D) == SumOf([d \in D |-> CalculateEventCost(d)])
BuildCostSummary(usage) == EventsCost(CollectUsageEvents(usage))

(* A row of the model summary per API and model. *)
BuildModelSummary(usage) ==
  [row \in UNION {{a} \X DOMAIN usage.apis[a].models : a \in DOMAIN usage.apis} |->
    LET model == usage.apis[row[1]].models[row[2]]
        samples == {d \in model.details : d.latency # Missing}
    IN  [tally |-> model.tally,
         totalLatencyMs |-> SumOf([d \in samples |-> d.latency]),
         totalCost |-> EventsCost(model.details)]]

BuildApiSummary(usage) ==
  [a \in DOMAIN usage.apis |->
    [tally |-> usage.apis[a].tally,
     modelCount |-> Cardinality(DOMAIN usage.apis[a].models),
     totalCost |-> SumOf([m \in DOMAIN usage.apis[a].models |->
                            EventsCost(usage.apis[a].models[m].details)])]]

(* Possible contents of the recent list: RecentLimit events, none of them  *)
(* older than an event left out.                                           *)
BuildRecentEvents(usage) ==
  LET events == CollectUsageEvents(usage) IN
  {recent \in kSubset(Smaller(RecentLimit, Cardinality(events)), events) :
     \A d \in recent, e \in events \ recent : d.at >= e.at}

SeriesValue(metric, d) == IF metric = "requests" THEN 1 ELSE TotalTokens(d)

(* toISOString throws at a timestamp that does not parse, and with it the  *)
(* trends: no chart is drawn.                                              *)
RangeError == Missing
Throws(events) == \E d \in events : ~Dated(d)

(* Every series of a dimension, hour by hour; and the choices of the       *)
(* TopSeries largest that a chart may keep.                                *)
SeriesOf(usage, dimension, metric) ==
  LET events == CollectUsageEvents(usage)
      Key(d) == IF dimension = "api" THEN d.api ELSE d.model
  IN  IF Throws(events) THEN RangeError
      ELSE [k \in {Key(d) : d \in events} |->
              Sums("hour", [d \in {e \in events : Key(e) = k} |-> SeriesValue(metric, d)])]

BuildSeriesTrends(usage, dimension, metric) ==
  LET all == SeriesOf(usage, dimension, metric) IN
  IF Throws(CollectUsageEvents(usage)) THEN RangeError
  ELSE {kept \in kSubset(Smaller(TopSeries, Cardinality(DOMAIN all)), DOMAIN all) :
          \A k \in kept, j \in DOMAIN all \ kept : SumOf(all[k]) >= SumOf(all[j])}

BuildCostTrendPoints(usage) ==
  LET events == CollectUsageEvents(usage) IN
  IF Throws(events) THEN RangeError
  ELSE Sums("hour", [d \in events |-> CalculateEventCost(d)])

BuildTokenBreakdown(usage) ==
  LET events == CollectUsageEvents(usage) IN
  [inputTokens |-> SumOf([d \in events |-> d.input]),
   outputTokens |-> SumOf([d \in events |-> d.output]),
   reasoningTokens |-> SumOf([d \in events |-> d.reasoning]),
   cachedTokens |-> SumOf([d \in events |-> d.cached])]

BuildSummaryCards(usage) ==
  [requests |-> usage.tally.total_requests, tokens |-> usage.tally.total_tokens,
   rate |-> BuildRateStats(usage), breakdown |-> BuildTokenBreakdown(usage),
   cost |-> IF DOMAIN ModelPrices = {} THEN Missing ELSE BuildCostSummary(usage)]
=============================================================================
