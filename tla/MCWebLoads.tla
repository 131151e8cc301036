----------------------------- MODULE MCWebLoads -----------------------------
(* What the page loads, in the end, and what it draws of it: the overview's   *)
(* store (three ranges, of which the backend answers one from its cache), the *)
(* tabs, the figures and the charts share no state.  One run checks them all: *)
(* a behaviour is one of a single part, chosen at first, and the others rest. *)
EXTENDS TLC, OverviewStore, TabLoads, DetailFigures, OverviewCharts

(* Requests of two interfaces and models, one without a name; one failed, two undated or
   without a latency, two the same but for the identity, with more cached than sent. *)
Detail(id, api, model, at, failed_, latency, tokens) ==
  [id |-> id, api |-> api, model |-> model, at |-> at, failed |-> failed_, latency |-> latency,
   input |-> tokens[1], output |-> tokens[2], reasoning |-> tokens[3], cached |-> tokens[4],
   cache |-> tokens[5], total |-> tokens[6]]
MCUsageDetail ==
  {Detail(1, "x", "m", 20, FALSE, 5, <<3, 1, 0, 1, Missing, 0>>),
   Detail(2, "x", "m", 20, FALSE, 5, <<3, 1, 0, 1, Missing, 0>>),
   Detail(3, "x", "n", 22, TRUE, Missing, <<1, 0, 2, 2, 3, 0>>),
   Detail(4, "y", "m", 25, TRUE, -1, <<2, 2, 0, 0, 0, 4>>),
   Detail(5, "y", "", 23, FALSE, 7, <<1, 1, 1, 0, 0, 0>>),
   Detail(6, "y", "n", 0, FALSE, 2, <<1, 0, 0, 0, 1, 1>>)}
(* A day has three hours, and from three days on the series of the cards is by day. *)
MCPresetHours == "h1" :> 1 @@ "h2" :> 2 @@ "d1" :> 3 @@ "7d" :> 6
MCModelPrices == [m |-> [prompt |-> 2, completion |-> 3, cache |-> 1]]
MCLineChoices == {{}, {"all"}, {"m"}, {"m", "all"}, {"m", "x"}}
MCCustomWindow == {<<20, 22>>, <<24, 21>>, <<Missing, 22>>}
(* Milliseconds about the bounds at which a duration is written in another unit. *)
MCDurations == {0, 999, 1000, 9996, 59999, 60000, 3600000, 3605000, 86399000, 86400000, 90061000}

MCServedEvent ==
  {[id |-> 1, model |-> "m", tokens |-> 3, reasoning |-> 1, cost |-> 2],
   [id |-> 2, model |-> "n", tokens |-> 1, reasoning |-> 2, cost |-> 0]}
MCCustomDays == {<<3, 3>>, <<3, 4>>, <<3, 5>>}

-----------------------------------------------------------------------------
VARIABLE part

LoadsInit ==
  /\ part \in {"store", "tabs", "figures", "charts"}
  /\ StoreInit /\ (part # "store" => visible /\ range = CHOOSE r \in StoreRange : TRUE)
  /\ TabInit /\ (part # "tabs" => choice.range = CHOOSE r \in TabRange : TRUE)
  /\ FiguresInit /\ ChartsInit

OthersRest ==
  /\ UNCHANGED part
  /\ part # "store" => UNCHANGED storeVars
  /\ part # "tabs" => UNCHANGED tabVars
  /\ part # "figures" => UNCHANGED figureVars
  /\ part # "charts" => UNCHANGED chartVars

LoadsNext ==
  \/ part = "store" /\ StoreNext /\ OthersRest
  \/ part = "tabs" /\ TabNext /\ OthersRest
  \/ part = "figures" /\ FiguresNext /\ OthersRest
  \/ part = "charts" /\ ChartsNext /\ OthersRest

(* At rest, as at first, neither the store nor the tabs have a fair action enabled. *)
LoadsSpec ==
  /\ LoadsInit /\ [][LoadsNext]_<<part, storeVars, tabVars, figureVars, chartVars>>
  /\ StoreFairness /\ TabFairness
=============================================================================
