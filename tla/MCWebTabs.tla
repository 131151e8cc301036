----------------------------- MODULE MCWebTabs ------------------------------
(* What the tabs of the page show at rest: the tabs with their loads, with an *)
(* invalid range, and the price editor, one edit under way at a time.  They   *)
(* share no state: a behaviour is one of either, chosen at first.             *)
EXTENDS TabLoads, ClientPricing, TLC

VARIABLE part

TabsInit ==
  /\ part \in {"loads", "prices"}
  /\ TabInit /\ (part # "loads" => choice.range = CHOOSE r \in TabRange : TRUE)
  /\ PricesInit /\ (part # "prices" => priced = Unread /\ prices = Unread)

OtherRests ==
  /\ UNCHANGED part
  /\ part # "loads" => UNCHANGED tabVars
  /\ part # "prices" => UNCHANGED priceVars

TabsNext ==
  \/ part = "loads" /\ TabNext /\ OtherRests
  \/ part = "prices" /\ PriceNext /\ OtherRests

TabsSpec == TabsInit /\ [][TabsNext]_<<part, tabVars, priceVars>>

(* The models are interchangeable, and so are the prices. *)
Symmetry == Permutations(PricedModel) \cup Permutations(Price)
=============================================================================
