---------------------------- MODULE ClientPricing ----------------------------
(***************************************************************************)
(* The prices of models in the web client: loaded from the backend while   *)
(* the pricing tab is open, remembered in the browser, and edited by the   *)
(* user.  An edit is shown at once and rolled back, with every edit made   *)
(* since, when the backend refuses it.  The backend has a second writer:   *)
(* its own sync with a price catalogue, which no client is told of.        *)
(***************************************************************************)
EXTENDS Naturals, FiniteSets

CONSTANTS
  PricedModel,
  Price,     \* the prices of a model, as parsePriceValue accepts them
  NoPrice,
  MaxSaves   \* bound: edits under way at once

ASSUME PriceAssumption == NoPrice \notin Price
ASSUME MaxSavesAssumption == MaxSaves \in Nat \ {0}

VARIABLES
  priced,     \* the prices the backend stores
  prices,     \* modelPrices
  remembered, \* cpa-model-prices in localStorage
  enabled,    \* the pricing tab is open
  busy,       \* loading
  load,       \* the current load, the prices it was answered with, and, auxiliary, whether
              \* no edit was under way since it began and what was synced since it was read
  saves,      \* the edits under way
  editing,    \* editModel
  orderly,    \* auxiliary: nothing has been edited or loaded on top of an edit under way,
              \* and none was stored whose answer was lost, since all was loaded
  synced      \* auxiliary: the models the sync has priced since what is shown was read

priceVars == <<priced, prices, remembered, enabled, busy, load, saves, editing, orderly, synced>>

Prices == [PricedModel -> Price \cup {NoPrice}]
Save == [model : PricedModel, price : Price \cup {NoPrice}, before : Prices, stored : BOOLEAN]
Unread == [m \in PricedModel |-> NoPrice]
NoLoad == [at |-> "none", read |-> Unread, rest |-> FALSE, missed |-> {}]

PricesTypeOK ==
  /\ priced \in Prices /\ prices \in Prices /\ remembered \in Prices
  /\ enabled \in BOOLEAN /\ busy \in BOOLEAN /\ orderly \in BOOLEAN
  /\ load.at \in {"none", "sent", "read"} /\ load.read \in Prices /\ load.missed \subseteq PricedModel
  /\ saves \subseteq Save
  /\ editing \subseteq PricedModel /\ synced \subseteq PricedModel

(* The browser remembers prices that may not be those of the backend any more. *)
PricesInit ==
  /\ priced \in Prices /\ prices \in Prices /\ remembered = prices
  /\ enabled = FALSE /\ busy = FALSE
  /\ load = NoLoad
  /\ saves = {} /\ editing = {} /\ orderly = FALSE /\ synced = {}

-----------------------------------------------------------------------------
(* SyncPricing, at the start of the server and at every interval, in one transaction: the
   models CPA offers that the catalogue has a price for, S, are given that price, whatever
   the user has set.  The others keep theirs. *)
SyncPricing ==
  /\ \E S \in SUBSET PricedModel : \E price \in [S -> Price] :
       /\ priced' = [m \in PricedModel |-> IF m \in S THEN price[m] ELSE priced[m]]
       /\ synced' = synced \cup S
       /\ load' = IF load.at = "read" THEN [load EXCEPT !.missed = @ \cup S] ELSE load
  /\ UNCHANGED <<prices, remembered, enabled, busy, saves, editing, orderly>>

-----------------------------------------------------------------------------
(* loadPricing: a load before is aborted. *)
LoadPricing ==
  /\ load' = [NoLoad EXCEPT !.at = "sent", !.rest = saves = {}]
  /\ busy' = TRUE

(* The tab is opened. *)
OpenPricing ==
  /\ ~enabled
  /\ enabled' = TRUE
  /\ LoadPricing
  /\ orderly' = (orderly /\ saves = {})
  /\ UNCHANGED <<priced, prices, remembered, saves, editing, synced>>

RefreshPricing ==
  /\ enabled
  /\ LoadPricing
  /\ orderly' = (orderly /\ saves = {})
  /\ UNCHANGED <<priced, prices, remembered, enabled, saves, editing, synced>>

(* The load is aborted; edits go on. *)
LeavePricing ==
  /\ enabled
  /\ enabled' = FALSE /\ busy' = FALSE /\ load' = NoLoad
  /\ editing' = {}
  /\ UNCHANGED <<priced, prices, remembered, saves, orderly, synced>>

BackendReads ==
  /\ load.at = "sent"
  /\ load' = [load EXCEPT !.at = "read", !.read = priced]
  /\ UNCHANGED <<priced, prices, remembered, enabled, busy, saves, editing, orderly, synced>>

PricingArrives ==
  /\ load.at = "read"
  /\ prices' = load.read /\ remembered' = load.read
  /\ orderly' = load.rest /\ synced' = load.missed
  /\ load' = NoLoad /\ busy' = FALSE
  /\ UNCHANGED <<priced, enabled, saves, editing>>

(* loadModelPrices. *)
PricingFails ==
  /\ load.at # "none"
  /\ prices' = remembered
  /\ load' = NoLoad /\ busy' = FALSE
  /\ UNCHANGED <<priced, remembered, enabled, saves, editing, orderly, synced>>

-----------------------------------------------------------------------------
(* setModelPrices: of the prices one differs, or none does and nothing is sent. *)
SetModelPrices(m, p) ==
  /\ prices' = [prices EXCEPT ![m] = p]
  /\ remembered' = prices'
  /\ IF p = prices[m]
     THEN UNCHANGED <<saves, orderly, load>>
     ELSE /\ Cardinality(saves) < MaxSaves
          /\ saves' = saves \cup {[model |-> m, price |-> p, before |-> prices, stored |-> FALSE]}
          /\ orderly' = (orderly /\ saves = {} /\ load.at = "none")
          /\ load' = [load EXCEPT !.rest = FALSE]
  /\ UNCHANGED <<priced, enabled, busy, synced>>

(* handleSavePrice. *)
SavePrice(m, p) == enabled /\ editing = {} /\ SetModelPrices(m, p) /\ UNCHANGED editing

(* handleDeletePrice. *)
DeletePrice(m) ==
  /\ enabled /\ editing = {} /\ prices[m] # NoPrice
  /\ SetModelPrices(m, NoPrice)
  /\ UNCHANGED editing

(* handleOpenEdit: until it is saved, the price may go, or the model with it. *)
OpenEdit(m) ==
  /\ enabled /\ editing = {} /\ prices[m] # NoPrice
  /\ editing' = {m}
  /\ UNCHANGED <<priced, prices, remembered, enabled, busy, load, saves, orderly, synced>>

CloseEdit ==
  /\ editing # {}
  /\ editing' = {}
  /\ UNCHANGED <<priced, prices, remembered, enabled, busy, load, saves, orderly, synced>>

(* handleSaveEdit. *)
SaveEdit(p) ==
  /\ \E m \in editing : SetModelPrices(m, p)
  /\ editing' = {}

(* updatePricing or deletePricing reaches the backend and overwrites what is there.  A row the
   sync creates between the lookup and the insert of UpsertModelPriceSetting refuses the edit:
   SaveFails. *)
BackendStores(s) ==
  /\ s \in saves /\ ~s.stored
  /\ priced' = [priced EXCEPT ![s.model] = s.price]
  /\ synced' = synced \ {s.model}
  /\ saves' = (saves \ {s}) \cup {[s EXCEPT !.stored = TRUE]}
  /\ UNCHANGED <<prices, remembered, enabled, busy, load, editing, orderly>>

SaveSucceeds(s) ==
  /\ s \in saves /\ s.stored
  /\ saves' = saves \ {s}
  /\ UNCHANGED <<priced, prices, remembered, enabled, busy, load, editing, orderly, synced>>

(* Mutant: a refused edit stays in the browser. *)
SaveFailsKept(s) ==
  /\ s \in saves
  /\ saves' = saves \ {s}
  /\ orderly' = (orderly /\ ~s.stored)
  /\ UNCHANGED <<priced, prices, remembered, enabled, busy, load, editing, synced>>

(* Refused, or stored with the answer lost: the prices of before the edit come back. *)
SaveFails(s) ==
  /\ s \in saves
  /\ saves' = saves \ {s}
  /\ prices' = s.before /\ remembered' = s.before
  /\ orderly' = (orderly /\ ~s.stored)
  /\ UNCHANGED <<priced, enabled, busy, load, editing, synced>>

PriceNext ==
  \/ SyncPricing
  \/ OpenPricing \/ RefreshPricing \/ LeavePricing
  \/ BackendReads \/ PricingArrives \/ PricingFails
  \/ \E m \in PricedModel : DeletePrice(m) \/ OpenEdit(m) \/ \E p \in Price : SavePrice(m, p)
  \/ CloseEdit \/ \E p \in Price : SaveEdit(p)
  \/ \E s \in saves : BackendStores(s) \/ SaveSucceeds(s) \/ SaveFails(s)

PricesSpec == PricesInit /\ [][PriceNext]_priceVars

-----------------------------------------------------------------------------
(* Properties. *)

(***************************************************************************)
(* Once the prices have been loaded with no edit under way, what is shown  *)
(* and what the browser remembers are the backend's, for any number of     *)
(* edits after each other that succeed, or are refused and rolled back,    *)
(* and of loads that fail, for every model but those the pricing sync has  *)
(* priced since the prices were read and nobody has edited after it: the   *)
(* sync overwrites any price, and a client only learns of it with its next *)
(* load.  Not so after edits that overlap: see README.                     *)
(***************************************************************************)
PricesAgree ==
  /\ orderly /\ saves = {} => \A m \in PricedModel \ synced : prices[m] = priced[m]
  /\ remembered = prices
  /\ busy <=> load.at # "none"
=============================================================================
