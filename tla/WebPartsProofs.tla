--------------------------- MODULE WebPartsProofs ---------------------------
(***************************************************************************)
(* What holds of eight parts of the web client, each for all values of its *)
(* constants: the price editor, the dialogs, the drop-down lists, the      *)
(* tooltip of the service health grid, the preferences, the store of the   *)
(* overview, the requests of the other tabs, and the session.              *)
(***************************************************************************)
EXTENDS ClientPricing, ClientModal, ClientSelect, HealthTooltip, ClientPreferences,
        OverviewStore, TabLoads, ClientSession, FiniteSetTheorems, SequenceTheorems, TLAPS

-----------------------------------------------------------------------------
(* The prices. *)

(* The prices of the models not synced since: shown as they are, and with the edit s on top of
   the backend's before or after it. *)
ShownIsStored == \A m \in PricedModel \ synced : prices[m] = priced[m]

Edited(s) ==
  /\ prices = [s.before EXCEPT ![s.model] = s.price]
  /\ \A m \in PricedModel \ synced : priced[m] = IF s.stored THEN prices[m] ELSE s.before[m]

Load == [at : {"none", "sent", "read"}, read : Prices, rest : BOOLEAN, missed : SUBSET PricedModel]

(* The edits in order: none, or one on top of what the backend stored before it. *)
InOrder == /\ saves = {} => ShownIsStored
           /\ \A s \in saves : saves = {s} /\ Edited(s)

(* An answer that no edit has overtaken. *)
ReadIsTrue == load.at = "read" => \A m \in PricedModel \ load.missed : load.read[m] = priced[m]

PricesInv ==
  /\ PricesTypeOK /\ load \in Load
  /\ remembered = prices
  /\ busy <=> load.at # "none"
  /\ load.rest => saves = {} /\ ReadIsTrue
  /\ orderly => InOrder

LEMMA NoLoadType == NoLoad \in Load /\ NoLoad.at = "none" /\ NoLoad.rest = FALSE
<1>1. Unread \in Prices
  BY DEF Unread, Prices
<1>2. QED
  BY <1>1 DEF NoLoad, Load

LEMMA PricesInvInit == PricesInit => PricesInv
<1> SUFFICES ASSUME PricesInit PROVE PricesInv
  OBVIOUS
<1>1. load \in Load /\ load.at = "none" /\ load.rest = FALSE
  BY NoLoadType DEF PricesInit
<1>2. PricesTypeOK
  BY <1>1 DEF PricesInit, PricesTypeOK, Load
<1>3. QED
  BY <1>1, <1>2 DEF PricesInit, PricesInv

(* An edit, or one of no effect. *)
LEMMA EditKeepsInv ==
  ASSUME PricesInv, NEW m \in PricedModel, NEW p \in Price \cup {NoPrice}, SetModelPrices(m, p),
         editing' \subseteq PricedModel
  PROVE  PricesInv'
<1>1. /\ priced \in Prices /\ prices \in Prices /\ saves \subseteq Save /\ orderly \in BOOLEAN
      /\ load \in Load /\ synced \subseteq PricedModel
  BY DEF PricesInv, PricesTypeOK
<1>2. /\ prices' = [prices EXCEPT ![m] = p] /\ remembered' = prices'
      /\ UNCHANGED <<priced, enabled, busy, synced>>
  BY DEF SetModelPrices
<1>3. prices' \in Prices
  BY <1>1, <1>2 DEF Prices
<1>4. CASE p = prices[m]
  <2>1. prices' = prices
    BY <1>1, <1>2, <1>4 DEF Prices
  <2>2. UNCHANGED <<saves, orderly, load>>
    BY <1>4 DEF SetModelPrices
  <2>3. QED
    BY <1>2, <2>1, <2>2 DEF PricesInv, PricesTypeOK, InOrder, ShownIsStored, Edited, ReadIsTrue
<1>5. CASE p # prices[m]
  <2> PICK s : s = [model |-> m, price |-> p, before |-> prices, stored |-> FALSE]
    OBVIOUS
  <2>1. /\ saves' = saves \cup {s}
        /\ orderly' = (orderly /\ saves = {} /\ load.at = "none")
        /\ load' = [load EXCEPT !.rest = FALSE]
    BY <1>5 DEF SetModelPrices
  <2>2. s \in Save
    BY <1>1 DEF Save
  <2>3. load' \in Load /\ load'.at = load.at /\ load'.rest = FALSE
    BY <1>1, <2>1 DEF Load
  <2>4. PricesTypeOK'
    <3>1. orderly' \in BOOLEAN /\ saves' \subseteq Save
      BY <1>1, <2>1, <2>2
    <3>2. QED
      BY <1>2, <1>3, <2>3, <3>1 DEF PricesInv, PricesTypeOK, Load
  <2>5. ASSUME orderly' PROVE saves' = {s} /\ ShownIsStored
    BY <2>1, <2>5 DEF PricesInv, InOrder
  <2>6. ShownIsStored => Edited(s)'
    BY <1>2 DEF Edited, ShownIsStored
  <2>7. orderly' => InOrder'
    BY <2>5, <2>6 DEF InOrder
  <2>8. QED
    BY <1>2, <2>3, <2>4, <2>7 DEF PricesInv
<1>6. QED
  BY <1>4, <1>5

(* The sync may change the backend's price of any model; it is not told to the client. *)
LEMMA SyncKeepsInv == ASSUME PricesInv, SyncPricing PROVE PricesInv'
<1>1. PICK S \in SUBSET PricedModel : \E price \in [S -> Price] :
        /\ priced' = [m \in PricedModel |-> IF m \in S THEN price[m] ELSE priced[m]]
        /\ synced' = synced \cup S
        /\ load' = IF load.at = "read" THEN [load EXCEPT !.missed = @ \cup S] ELSE load
  BY DEF SyncPricing
<1>2. UNCHANGED <<prices, remembered, enabled, busy, saves, editing, orderly>>
  BY DEF SyncPricing
<1>3. /\ priced \in Prices /\ saves \subseteq Save /\ synced \subseteq PricedModel /\ load \in Load
  BY DEF PricesInv, PricesTypeOK
<1>4. priced' \in Prices /\ synced' \subseteq PricedModel
  BY <1>1, <1>3 DEF Prices
<1>5. \A m \in PricedModel \ S : priced'[m] = priced[m]
  BY <1>1
<1>6. /\ load' \in Load /\ load'.at = load.at /\ load'.rest = load.rest
      /\ load.at = "read" => load'.read = load.read /\ load'.missed = load.missed \cup S
  BY <1>1, <1>3 DEF Load
<1>7. PricesTypeOK'
  BY <1>2, <1>4, <1>6 DEF PricesInv, PricesTypeOK, Load
<1>8. InOrder => InOrder'
  BY <1>1, <1>2, <1>5 DEF InOrder, ShownIsStored, Edited
<1>9. ReadIsTrue => ReadIsTrue'
  BY <1>5, <1>6 DEF ReadIsTrue
<1>10. QED
  BY <1>2, <1>6, <1>7, <1>8, <1>9 DEF PricesInv

LEMMA PricesInvStep == PricesInv /\ [PriceNext]_priceVars => PricesInv'
<1> SUFFICES ASSUME PricesInv, [PriceNext]_priceVars PROVE PricesInv'
  OBVIOUS
<1>1. /\ priced \in Prices /\ prices \in Prices /\ saves \subseteq Save /\ orderly \in BOOLEAN
      /\ load \in Load /\ synced \subseteq PricedModel
  BY DEF PricesInv, PricesTypeOK
<1>2. ASSUME OpenPricing \/ RefreshPricing PROVE PricesInv'
  <2>1. /\ load' = [NoLoad EXCEPT !.at = "sent", !.rest = saves = {}] /\ busy' = TRUE
        /\ orderly' = (orderly /\ saves = {}) /\ enabled' \in BOOLEAN
        /\ UNCHANGED <<priced, prices, remembered, saves, editing, synced>>
    BY <1>2 DEF OpenPricing, RefreshPricing, LoadPricing, PricesInv, PricesTypeOK
  <2>2. load' \in Load /\ load'.at = "sent" /\ (load'.rest => saves = {})
    BY <2>1, NoLoadType DEF Load
  <2>3. orderly' \in BOOLEAN /\ (orderly' => orderly)
    BY <1>1, <2>1
  <2>4. PricesTypeOK'
    BY <2>1, <2>2, <2>3 DEF PricesInv, PricesTypeOK, Load
  <2>5. QED
    BY <2>1, <2>2, <2>3, <2>4 DEF PricesInv, InOrder, ShownIsStored, Edited, ReadIsTrue
<1>3. CASE LeavePricing
  <2>1. /\ load' = NoLoad /\ busy' = FALSE /\ enabled' = FALSE /\ editing' = {}
        /\ UNCHANGED <<priced, prices, remembered, saves, orderly, synced>>
    BY <1>3 DEF LeavePricing
  <2>2. load' \in Load /\ load'.at = "none" /\ load'.rest = FALSE
    BY <2>1, NoLoadType
  <2>3. QED
    BY <2>1, <2>2 DEF PricesInv, PricesTypeOK, InOrder, ShownIsStored, Edited, Load
<1>4. CASE BackendReads
  <2>1. /\ load' = [load EXCEPT !.at = "read", !.read = priced] /\ load.at = "sent"
        /\ UNCHANGED <<priced, prices, remembered, enabled, busy, saves, editing, orderly, synced>>
    BY <1>4 DEF BackendReads
  <2>2. load' \in Load /\ load'.at = "read" /\ load'.rest = load.rest /\ load'.read = priced
    BY <1>1, <2>1 DEF Load
  <2>3. QED
    BY <2>1, <2>2 DEF PricesInv, PricesTypeOK, InOrder, ShownIsStored, Edited, ReadIsTrue, Load
<1>5. CASE PricingArrives
  <2>1. /\ load.at = "read" /\ prices' = load.read /\ remembered' = load.read
        /\ orderly' = load.rest /\ synced' = load.missed /\ load' = NoLoad /\ busy' = FALSE
        /\ UNCHANGED <<priced, enabled, saves, editing>>
    BY <1>5 DEF PricingArrives
  <2>2. load' \in Load /\ load'.at = "none" /\ load'.rest = FALSE
    BY <2>1, NoLoadType
  <2>3. load.read \in Prices /\ load.rest \in BOOLEAN /\ load.missed \subseteq PricedModel
    BY <1>1 DEF Load
  <2>4. PricesTypeOK'
    BY <2>1, <2>2, <2>3 DEF PricesInv, PricesTypeOK, Load
  <2>5. load.rest => saves = {} /\ ReadIsTrue
    BY DEF PricesInv
  <2>6. load.rest => InOrder'
    BY <2>1, <2>5 DEF InOrder, ShownIsStored, ReadIsTrue
  <2>7. QED
    BY <2>1, <2>2, <2>4, <2>6 DEF PricesInv
<1>6. CASE PricingFails
  <2>1. /\ prices' = remembered /\ load' = NoLoad /\ busy' = FALSE
        /\ UNCHANGED <<priced, remembered, enabled, saves, editing, orderly, synced>>
    BY <1>6 DEF PricingFails
  <2>2. load' \in Load /\ load'.at = "none" /\ load'.rest = FALSE
    BY <2>1, NoLoadType
  <2>3. prices' = prices
    BY <2>1 DEF PricesInv
  <2>4. QED
    BY <2>1, <2>2, <2>3 DEF PricesInv, PricesTypeOK, InOrder, ShownIsStored, Edited, Load
<1>7. ASSUME NEW m \in PricedModel, DeletePrice(m) \/ \E p \in Price : SavePrice(m, p)
      PROVE  PricesInv'
  <2>1. PICK p \in Price \cup {NoPrice} : SetModelPrices(m, p) /\ editing' = editing
    BY <1>7 DEF DeletePrice, SavePrice
  <2>2. QED
    BY <2>1, EditKeepsInv DEF PricesInv, PricesTypeOK
<1>8. ASSUME NEW p \in Price, SaveEdit(p) PROVE PricesInv'
  <2>1. PICK m \in editing : SetModelPrices(m, p)
    BY <1>8 DEF SaveEdit
  <2>2. m \in PricedModel /\ editing' \subseteq PricedModel
    BY <1>8 DEF SaveEdit, PricesInv, PricesTypeOK
  <2>3. QED
    BY <2>1, <2>2, EditKeepsInv
<1>9. ASSUME NEW m \in PricedModel, OpenEdit(m) PROVE PricesInv'
  BY <1>9 DEF OpenEdit, PricesInv, PricesTypeOK, InOrder, ShownIsStored, Edited, ReadIsTrue
<1>10. CASE CloseEdit
  BY <1>10 DEF CloseEdit, PricesInv, PricesTypeOK, InOrder, ShownIsStored, Edited, ReadIsTrue
<1>11. ASSUME NEW s \in saves, BackendStores(s) PROVE PricesInv'
  <2> DEFINE t == [s EXCEPT !.stored = TRUE]
  <2>1. /\ ~s.stored /\ priced' = [priced EXCEPT ![s.model] = s.price]
        /\ synced' = synced \ {s.model} /\ saves' = (saves \ {s}) \cup {t}
        /\ UNCHANGED <<prices, remembered, enabled, busy, load, editing, orderly>>
    BY <1>11 DEF BackendStores
  <2>2. s \in Save
    BY <1>1
  <2>3. t \in Save /\ t.stored = TRUE /\ t.before = s.before /\ t.model = s.model /\ t.price = s.price
    BY <2>2 DEF Save
  <2>4. priced' \in Prices
    BY <1>1, <2>1, <2>2 DEF Prices, Save
  <2>5. PricesTypeOK'
    BY <1>1, <2>1, <2>3, <2>4 DEF PricesInv, PricesTypeOK
  <2>6. ASSUME orderly PROVE saves' = {t} /\ Edited(t)'
    <3>1. saves = {s} /\ Edited(s)
      BY <2>6 DEF PricesInv, InOrder
    <3>2. prices = [s.before EXCEPT ![s.model] = s.price]
      BY <3>1 DEF Edited
    <3>3. ASSUME NEW m \in PricedModel \ synced' PROVE priced'[m] = prices[m]
      <4>1. CASE m = s.model
        BY <1>1, <2>1, <2>2, <3>2, <4>1 DEF Save, Prices
      <4>2. CASE m # s.model
        <5>1. m \in PricedModel \ synced
          BY <2>1, <3>3, <4>2
        <5>2. priced[m] = s.before[m]
          BY <2>1, <3>1, <5>1 DEF Edited
        <5>3. priced'[m] = priced[m] /\ prices[m] = s.before[m]
          BY <1>1, <2>1, <2>2, <3>2, <4>2, <5>1 DEF Save, Prices
        <5>4. QED
          BY <5>2, <5>3
      <4>3. QED
        BY <4>1, <4>2
    <3>4. saves' = {t}
      BY <2>1, <3>1
    <3>5. prices' = [t.before EXCEPT ![t.model] = t.price]
      BY <2>1, <2>3, <3>2
    <3>6. QED
      BY <2>1, <2>3, <3>3, <3>4, <3>5 DEF Edited
  <2>7. ~load.rest
    BY DEF PricesInv
  <2>8. saves' # {}
    BY <2>1
  <2>9. orderly' => InOrder'
    BY <2>1, <2>6, <2>8 DEF InOrder
  <2> HIDE DEF t
  <2>10. QED
    BY <1>1, <2>1, <2>5, <2>7, <2>9 DEF PricesInv
<1>12. ASSUME NEW s \in saves, SaveSucceeds(s) PROVE PricesInv'
  <2>1. /\ s.stored /\ saves' = saves \ {s}
        /\ UNCHANGED <<priced, prices, remembered, enabled, busy, load, editing, orderly, synced>>
    BY <1>12 DEF SaveSucceeds
  <2>2. orderly => InOrder'
    BY <2>1 DEF PricesInv, InOrder, ShownIsStored, Edited
  <2>3. ~load.rest
    BY DEF PricesInv
  <2>4. QED
    BY <1>1, <2>1, <2>2, <2>3 DEF PricesInv, PricesTypeOK
<1>13. ASSUME NEW s \in saves, SaveFails(s) PROVE PricesInv'
  <2>1. /\ saves' = saves \ {s} /\ prices' = s.before /\ remembered' = s.before
        /\ orderly' = (orderly /\ ~s.stored)
        /\ UNCHANGED <<priced, enabled, busy, load, editing, synced>>
    BY <1>13 DEF SaveFails
  <2>2. s.before \in Prices /\ s.stored \in BOOLEAN
    BY <1>1 DEF Save
  <2>3. orderly' \in BOOLEAN
    BY <1>1, <2>1, <2>2
  <2>4. orderly' => InOrder'
    <3>1. orderly' => orderly /\ ~s.stored
      BY <2>1
    <3>2. orderly /\ ~s.stored => /\ saves = {s}
                                 /\ \A m \in PricedModel \ synced : priced[m] = s.before[m]
      BY DEF PricesInv, InOrder, Edited
    <3>3. QED
      BY <2>1, <3>1, <3>2 DEF InOrder, ShownIsStored
  <2>5. ~load.rest
    BY DEF PricesInv
  <2>6. QED
    BY <1>1, <2>1, <2>2, <2>3, <2>4, <2>5 DEF PricesInv, PricesTypeOK
<1>14. CASE SyncPricing
  BY <1>14, SyncKeepsInv
<1>15. CASE UNCHANGED priceVars
  BY <1>15 DEF priceVars, PricesInv, PricesTypeOK, InOrder, ShownIsStored, Edited, ReadIsTrue
<1>16. QED
  BY <1>2, <1>3, <1>4, <1>5, <1>6, <1>7, <1>8, <1>9, <1>10, <1>11, <1>12, <1>13, <1>14, <1>15
  DEF PriceNext

LEMMA PricesInvariant == PricesSpec => []PricesInv
BY PricesInvInit, PricesInvStep, PTL DEF PricesSpec

(***************************************************************************)
(* The prices and the edits under way keep their types, for any models and *)
(* prices.                                                                 *)
(***************************************************************************)
THEOREM PricesTypeCorrect == PricesSpec => []PricesTypeOK
<1>1. PricesInv => PricesTypeOK
  BY DEF PricesInv
<1>2. QED
  BY <1>1, PricesInvariant, PTL

(***************************************************************************)
(* For any models and prices: after a load with no edit under way, what    *)
(* useUsageData shows and what the browser remembers stay the backend's    *)
(* through edits after each other, refusals, failed loads and runs of the  *)
(* server's own pricing sync, whose models alone are excepted until the    *)
(* next edit or load of them.                                              *)
(***************************************************************************)
THEOREM PricesStayTrue == PricesSpec => []PricesAgree
<1>1. PricesInv => PricesAgree
  BY DEF PricesInv, InOrder, ShownIsStored, PricesAgree
<1>2. QED
  BY <1>1, PricesInvariant, PTL

-----------------------------------------------------------------------------
(* The dialogs. *)

(* The page is fixed while a dialog is on the screen, and then the snapshot knows its place. *)
ScrollInv ==
  /\ IsFiniteSet(isVisible) /\ activeModalCount = Cardinality(isVisible)
  /\ scrollLock \in PageState /\ snapshot \in PageState /\ place \in 0..MaxScroll
  /\ scrollLock.fixed <=> isVisible # {}
  /\ isVisible = {} => scrollLock.y = place
  /\ isVisible # {} => ~snapshot.fixed /\ snapshot.y = place

(* Only dialogs on the screen are open or fade out; a timer that will not notify is that of a
   dialog that is closed. *)
DialogInv ==
  /\ mounted \subseteq Dialog /\ opened \subseteq isVisible /\ isVisible \subseteq mounted
  /\ closeTimer \in [Dialog -> {"none", "quiet", "notify"}] /\ isClosing \subseteq Dialog
  /\ \A d \in Dialog : /\ d \in isClosing <=> closeTimer[d] # "none"
                       /\ closeTimer[d] # "none" => d \in isVisible
                       /\ closeTimer[d] = "quiet" => d \notin opened

(* The focus is on the page or in a dialog on the screen. *)
FocusInv ==
  /\ focusTimer \subseteq opened
  /\ focus \in Element /\ focusBack \in [Dialog -> Element]
  /\ focus = Page \/ focus.in \in isVisible

ModalInv == ScrollInv /\ DialogInv /\ FocusInv

LEMMA LockKeeps ==
  ASSUME ScrollInv, LockScroll, NEW d, d \notin isVisible,
         isVisible' = isVisible \cup {d}, place' = place
  PROVE  ScrollInv'
<1>1. /\ IsFiniteSet(isVisible') /\ Cardinality(isVisible') = Cardinality(isVisible) + 1
      /\ Cardinality(isVisible) \in Nat
  BY FS_AddElement, FS_CardinalityType DEF ScrollInv
<1>2. isVisible' # {} /\ (activeModalCount = 0 <=> isVisible = {})
  BY FS_EmptySet DEF ScrollInv
<1>3. activeModalCount' = Cardinality(isVisible')
  BY <1>1 DEF ScrollInv, LockScroll
<1>4. 0 \in 0..MaxScroll
  BY ModalAssumption
<1>5. CASE isVisible = {}
  <2>1. snapshot' = scrollLock /\ scrollLock' = [fixed |-> TRUE, y |-> 0]
    BY <1>2, <1>5 DEF LockScroll
  <2>2. ~scrollLock.fixed /\ scrollLock.y = place
    BY <1>5 DEF ScrollInv
  <2>3. scrollLock' \in PageState /\ snapshot' \in PageState /\ scrollLock'.fixed
    BY <1>4, <2>1 DEF ScrollInv, PageState
  <2>4. QED
    BY <1>1, <1>2, <1>3, <2>1, <2>2, <2>3 DEF ScrollInv, PageState
<1>6. CASE isVisible # {}
  <2>1. UNCHANGED <<snapshot, scrollLock>>
    BY <1>2, <1>6 DEF LockScroll
  <2>2. QED
    BY <1>1, <1>2, <1>3, <1>6, <2>1 DEF ScrollInv, PageState
<1>7. QED
  BY <1>5, <1>6

LEMMA UnlockKeeps ==
  ASSUME ScrollInv, UnlockScroll, NEW d \in isVisible, isVisible' = isVisible \ {d}, place' = place
  PROVE  ScrollInv'
<1>1. /\ IsFiniteSet(isVisible') /\ Cardinality(isVisible') = Cardinality(isVisible) - 1
      /\ Cardinality(isVisible) \in Nat /\ Cardinality(isVisible) # 0
  BY FS_RemoveElement, FS_CardinalityType, FS_EmptySet DEF ScrollInv
<1>2. activeModalCount' = Cardinality(isVisible')
  BY <1>1 DEF ScrollInv, UnlockScroll
<1>3. activeModalCount' = 0 <=> isVisible' = {}
  BY <1>1, <1>2, FS_EmptySet
<1>4. 0 \in 0..MaxScroll
  BY ModalAssumption
<1>5. isVisible # {}
  OBVIOUS
<1>6. CASE isVisible' = {}
  <2>1. scrollLock' = snapshot /\ snapshot' = [snapshot EXCEPT !.y = 0]
    BY <1>3, <1>6 DEF UnlockScroll
  <2>2. ~snapshot.fixed /\ snapshot.y = place /\ snapshot \in PageState
    BY <1>5 DEF ScrollInv
  <2>3. scrollLock' \in PageState /\ snapshot' \in PageState
    BY <1>4, <2>1, <2>2 DEF PageState
  <2>4. QED
    BY <1>1, <1>2, <1>6, <2>1, <2>2, <2>3 DEF ScrollInv, PageState
<1>7. CASE isVisible' # {}
  <2>1. UNCHANGED <<snapshot, scrollLock>>
    BY <1>3, <1>7 DEF UnlockScroll
  <2>2. QED
    BY <1>1, <1>2, <1>5, <1>7, <2>1 DEF ScrollInv, PageState
<1>8. QED
  BY <1>6, <1>7

(* A close that begins, of a dialog that is closed or whose parent will be told. *)
LEMMA CloseBegins ==
  ASSUME DialogInv, NEW d \in isVisible, NEW notify \in BOOLEAN, StartClose(d, notify),
         UNCHANGED <<mounted, isVisible>>, opened' \subseteq opened,
         notify \/ d \notin opened'
  PROVE  DialogInv'
<1>1. d \in Dialog
  BY DEF DialogInv
<1>2. CASE closeTimer[d] # "none"
  BY <1>2 DEF StartClose, DialogInv
<1>3. CASE closeTimer[d] = "none"
  <2>1. /\ closeTimer' = [closeTimer EXCEPT ![d] = IF notify THEN "notify" ELSE "quiet"]
        /\ isClosing' = isClosing \cup {d}
    BY <1>3 DEF StartClose
  <2>2. closeTimer' \in [Dialog -> {"none", "quiet", "notify"}]
    BY <2>1 DEF DialogInv
  <2>3. ASSUME NEW e \in Dialog
        PROVE  /\ e \in isClosing' <=> closeTimer'[e] # "none"
               /\ closeTimer'[e] # "none" => e \in isVisible'
               /\ closeTimer'[e] = "quiet" => e \notin opened'
    <3>1. CASE e = d
      BY <1>1, <2>1, <3>1 DEF DialogInv
    <3>2. CASE e # d
      BY <2>1, <3>2 DEF DialogInv
    <3>3. QED
      BY <3>1, <3>2
  <2>4. isClosing' \subseteq Dialog
    BY <1>1, <2>1 DEF DialogInv
  <2>5. QED
    BY <2>2, <2>3, <2>4 DEF DialogInv
<1>4. QED
  BY <1>2, <1>3

(* A dialog is shown, or its effect runs again. *)
LEMMA ReshowKeeps ==
  ASSUME DialogInv, NEW d \in mounted, Reshow(d), mounted' = mounted,
         opened' = opened \cup {d}
  PROVE  DialogInv'
<1>1. /\ isVisible' = isVisible \cup {d} /\ isClosing' = isClosing \ {d}
      /\ closeTimer' = [closeTimer EXCEPT ![d] = "none"] /\ d \in Dialog
  BY DEF Reshow, DialogInv
<1>2. closeTimer' \in [Dialog -> {"none", "quiet", "notify"}]
  BY <1>1 DEF DialogInv
<1>3. ASSUME NEW e \in Dialog
      PROVE  /\ e \in isClosing' <=> closeTimer'[e] # "none"
             /\ closeTimer'[e] # "none" => e \in isVisible'
             /\ closeTimer'[e] = "quiet" => e \notin opened'
  <2>1. CASE e = d
    BY <1>1, <2>1 DEF DialogInv
  <2>2. CASE e # d
    BY <1>1, <2>2 DEF DialogInv
  <2>3. QED
    BY <2>1, <2>2
<1>4. QED
  BY <1>1, <1>2, <1>3 DEF DialogInv

(* A dialog goes. *)
LEMMA GoneKeeps ==
  ASSUME DialogInv, NEW d \in Dialog, mounted' \subseteq mounted, mounted \ {d} \subseteq mounted',
         d \in mounted' \/ d \notin isVisible',
         closeTimer' = [closeTimer EXCEPT ![d] = "none"], isClosing' = isClosing \ {d},
         isVisible' = isVisible \ {d}, opened' = opened \ {d}
  PROVE  DialogInv'
<1>1. closeTimer' \in [Dialog -> {"none", "quiet", "notify"}]
  BY DEF DialogInv
<1>2. ASSUME NEW e \in Dialog
      PROVE  /\ e \in isClosing' <=> closeTimer'[e] # "none"
             /\ closeTimer'[e] # "none" => e \in isVisible'
             /\ closeTimer'[e] = "quiet" => e \notin opened'
  <2>1. CASE e = d
    BY <2>1 DEF DialogInv
  <2>2. CASE e # d
    BY <2>2 DEF DialogInv
  <2>3. QED
    BY <2>1, <2>2
<1>3. QED
  BY <1>1, <1>2 DEF DialogInv

LEMMA ElementParts ==
  ASSUME NEW e \in Element
  PROVE  /\ e = Page \/ (e.in \in Dialog /\ e.at \in 0..Fields /\ e.in # "page")
         /\ e.in = "page" <=> e = Page
         /\ e.in \in Dialog => e # Page /\ e.at \in 0..Fields
BY ModalAssumption DEF Element, Page

LEMMA NextElementStays ==
  ASSUME focus \in Element, focus # Page, NEW step \in {-1, 1}
  PROVE  /\ NextElement(step) \in Element
         /\ NextElement(step) = Page \/ NextElement(step).in = focus.in
         /\ focus.in \in opened => NextElement(step).in = focus.in
<1> DEFINE d == focus.in
           i == focus.at + step
<1>1. d \in Dialog /\ focus.at \in 0..Fields
  BY ElementParts
<1>2. Page \in Element /\ \A j \in 0..Fields : [in |-> d, at |-> j] \in Element
  BY <1>1 DEF Element
<1>3. 1 \in 0..Fields /\ Fields \in 0..Fields
  BY ModalAssumption
<1>4. CASE focus.at = 0
  <2>1. NextElement(step) = [in |-> d, at |-> IF step = 1 THEN 1 ELSE Fields]
    BY <1>4 DEF NextElement
  <2>2. QED
    BY <1>2, <1>3, <2>1
<1>5. CASE focus.at # 0 /\ i \in 1..Fields
  <2>1. NextElement(step) = [in |-> d, at |-> i]
    BY <1>5 DEF NextElement
  <2>2. i \in 0..Fields
    BY <1>5
  <2>3. QED
    BY <1>2, <2>1, <2>2
<1>6. CASE focus.at # 0 /\ i \notin 1..Fields /\ d \in opened
  <2>1. NextElement(step) = [in |-> d, at |-> IF step = 1 THEN 1 ELSE Fields]
    BY <1>6 DEF NextElement
  <2>2. QED
    BY <1>2, <1>3, <2>1
<1>7. CASE focus.at # 0 /\ i \notin 1..Fields /\ d \notin opened
  <2>1. NextElement(step) = Page
    BY <1>7 DEF NextElement
  <2>2. QED
    BY <1>2, <1>7, <2>1
<1>8. QED
  BY <1>4, <1>5, <1>6, <1>7

LEMMA ModalInvInit == ModalInit => ModalInv
<1> SUFFICES ASSUME ModalInit PROVE ModalInv
  OBVIOUS
<1>1. 0 \in 0..MaxScroll /\ Unlocked \in PageState /\ ~Unlocked.fixed /\ Unlocked.y = 0
  BY ModalAssumption DEF Unlocked, PageState
<1>2. ScrollInv
  BY <1>1, FS_EmptySet DEF ModalInit, ScrollInv
<1>3. DialogInv
  BY DEF ModalInit, DialogInv
<1>4. FocusInv
  BY DEF ModalInit, FocusInv, Element
<1>5. QED
  BY <1>2, <1>3, <1>4 DEF ModalInv

LEMMA ScrollKept ==
  ASSUME ScrollInv, UNCHANGED <<isVisible, scrollVars, place>>
  PROVE  ScrollInv'
BY DEF scrollVars, ScrollInv, PageState

(* What the focus goes back to is on the screen. *)
LEMMA FocusGivenBack ==
  ASSUME ModalInv, NEW d \in Dialog
  PROVE  /\ FocusWithout(d) \in Element
         /\ FocusWithout(d) = Page \/ FocusWithout(d).in \in isVisible \ {d}
<1>1. focusBack[d] \in Element /\ opened \subseteq isVisible /\ Page \in Element
  BY DEF ModalInv, FocusInv, DialogInv, Element
<1>2. QED
  BY <1>1 DEF FocusWithout, InDialog

(* A dialog goes, and takes its focus with it. *)
LEMMA CloseTimerKeeps ==
  ASSUME ModalInv, NEW d \in Dialog, CloseTimer(d)
  PROVE  ModalInv' /\ isVisible' = isVisible \ {d} /\ d \in isVisible /\ focus' = FocusWithout(d)
<1>1. ScrollInv /\ DialogInv /\ FocusInv
  BY DEF ModalInv
<1>2. /\ closeTimer[d] # "none" /\ closeTimer' = [closeTimer EXCEPT ![d] = "none"]
      /\ isVisible' = isVisible \ {d} /\ isClosing' = isClosing \ {d}
      /\ opened' = IF closeTimer[d] = "notify" THEN opened \ {d} ELSE opened
      /\ focusTimer' = focusTimer \cap opened' /\ UNCHANGED <<mounted, place>>
  BY DEF CloseTimer
<1>3. d \in isVisible /\ opened' = opened \ {d}
  BY <1>1, <1>2 DEF DialogInv
<1>4. UnlockScroll /\ focus' = FocusWithout(d) /\ focusBack' = [focusBack EXCEPT ![d] = Page]
  BY <1>3 DEF CloseTimer
<1>5. ScrollInv'
  BY <1>1, <1>2, <1>3, <1>4, UnlockKeeps
<1>6. DialogInv'
  BY <1>1, <1>2, <1>3, GoneKeeps DEF DialogInv
<1>7. FocusInv'
  <2>1. focus' \in Element /\ (focus' = Page \/ focus'.in \in isVisible')
    BY <1>2, <1>4, FocusGivenBack
  <2>2. focusBack' \in [Dialog -> Element]
    BY <1>1, <1>4 DEF FocusInv, Element
  <2>3. QED
    BY <1>2, <2>1, <2>2 DEF FocusInv
<1>8. QED
  BY <1>2, <1>3, <1>4, <1>5, <1>6, <1>7 DEF ModalInv

LEMMA UnmountKeeps ==
  ASSUME ModalInv, NEW d \in Dialog, Unmount(d)
  PROVE  ModalInv' /\ isVisible' = isVisible \ {d} /\ opened' = opened \ {d}
         /\ focus' = IF focus.in = d THEN Page ELSE focus
<1>1. ScrollInv /\ DialogInv /\ FocusInv
  BY DEF ModalInv
<1>2. /\ d \in mounted /\ mounted' = mounted \ {d}
      /\ opened' = opened \ {d} /\ isVisible' = isVisible \ {d} /\ isClosing' = isClosing \ {d}
      /\ closeTimer' = [closeTimer EXCEPT ![d] = "none"]
      /\ IF OnScreen(d) THEN UnlockScroll ELSE UNCHANGED scrollVars
      /\ focus' = IF focus.in = d THEN Page ELSE focus
      /\ focusTimer' = focusTimer \ {d} /\ focusBack' = [focusBack EXCEPT ![d] = Page]
      /\ place' = place
  BY DEF Unmount, InDialog
<1>3. OnScreen(d) <=> d \in isVisible
  BY <1>1 DEF OnScreen, DialogInv
<1>4. ScrollInv'
  <2>1. CASE d \in isVisible
    BY <1>1, <1>2, <1>3, <2>1, UnlockKeeps
  <2>2. CASE d \notin isVisible
    BY <1>1, <1>2, <1>3, <2>2, ScrollKept
  <2>3. QED
    BY <2>1, <2>2
<1>5. DialogInv'
  BY <1>1, <1>2, GoneKeeps
<1>6. FocusInv'
  <2>1. Page \in Element /\ focusBack' \in [Dialog -> Element]
    BY <1>1, <1>2 DEF FocusInv, Element
  <2>2. focus' \in Element /\ (focus' = Page \/ focus'.in \in isVisible')
    BY <1>1, <1>2, <2>1 DEF FocusInv
  <2>3. QED
    BY <1>1, <1>2, <2>1, <2>2 DEF FocusInv
<1>7. QED
  BY <1>2, <1>4, <1>5, <1>6 DEF ModalInv

LEMMA ModalInvStep == ModalInv /\ [ModalNext]_modalVars => ModalInv'
<1> SUFFICES ASSUME ModalInv, [ModalNext]_modalVars PROVE ModalInv'
  OBVIOUS
<1>1. ScrollInv /\ DialogInv /\ FocusInv
  BY DEF ModalInv
<1>2. /\ opened \subseteq isVisible /\ isVisible \subseteq mounted /\ mounted \subseteq Dialog
      /\ \A d \in Dialog : OnScreen(d) <=> d \in isVisible
  BY <1>1 DEF DialogInv, OnScreen
<1>3. /\ focus \in Element /\ focusTimer \subseteq opened /\ focusBack \in [Dialog -> Element]
  BY <1>1 DEF FocusInv
<1>4. ASSUME NEW y \in 0..MaxScroll, ScrollPage(y) PROVE ModalInv'
  <2>1. /\ ~scrollLock.fixed /\ scrollLock' = [scrollLock EXCEPT !.y = y] /\ place' = y
        /\ UNCHANGED <<mounted, opened, isVisible, closeTimer, isClosing, activeModalCount,
                       snapshot, focus, focusTimer, focusBack>>
    BY <1>4 DEF ScrollPage, focusVars
  <2>2. isVisible = {}
    BY <1>1, <2>1 DEF ScrollInv
  <2>3. ScrollInv'
    BY <1>1, <2>1, <2>2 DEF ScrollInv, PageState
  <2>4. DialogInv'
    BY <1>1, <2>1 DEF DialogInv
  <2>5. FocusInv'
    BY <1>1, <2>1 DEF FocusInv
  <2>6. QED
    BY <2>3, <2>4, <2>5 DEF ModalInv
<1>5. ASSUME NEW d \in Dialog, OpenDialog(d) PROVE ModalInv'
  <2>1. /\ d \in mounted \ opened /\ opened' = opened \cup {d} /\ Reshow(d)
        /\ IF OnScreen(d) THEN UNCHANGED scrollVars ELSE LockScroll
        /\ focusBack' = [focusBack EXCEPT ![d] = focus] /\ focusTimer' = focusTimer \cup {d}
        /\ UNCHANGED <<mounted, place, focus>>
    BY <1>5 DEF OpenDialog
  <2>2. isVisible' = isVisible \cup {d}
    BY <2>1 DEF Reshow
  <2>3. ScrollInv'
    <3>1. CASE d \in isVisible
      <4>1. isVisible' = isVisible
        BY <2>2, <3>1
      <4>2. QED
        BY <1>1, <1>2, <2>1, <3>1, <4>1, ScrollKept
    <3>2. CASE d \notin isVisible
      BY <1>1, <1>2, <2>1, <2>2, <3>2, LockKeeps
    <3>3. QED
      BY <3>1, <3>2
  <2>4. DialogInv'
    BY <1>1, <2>1, ReshowKeeps
  <2>5. focusBack' \in [Dialog -> Element]
    BY <1>3, <2>1
  <2>6. FocusInv'
    BY <1>1, <1>3, <2>1, <2>2, <2>5 DEF FocusInv
  <2>7. QED
    BY <2>3, <2>4, <2>6 DEF ModalInv
<1>6. ASSUME NEW d \in Dialog, CloseDialog(d) PROVE ModalInv'
  <2>1. /\ d \in opened /\ opened' = opened \ {d} /\ StartClose(d, FALSE)
        /\ focusTimer' = focusTimer \ {d}
        /\ UNCHANGED <<mounted, isVisible, scrollVars, place, focus, focusBack>>
    BY <1>6 DEF CloseDialog
  <2>2. DialogInv'
    BY <1>1, <1>2, <2>1, CloseBegins
  <2>3. FocusInv'
    BY <1>1, <2>1 DEF FocusInv
  <2>4. QED
    BY <1>1, <2>1, <2>2, <2>3, ScrollKept DEF ModalInv
<1>7. ASSUME NEW d \in Dialog, RenderParent(d) PROVE ModalInv'
  <2>1. /\ d \in isVisible
        /\ IF d \in opened THEN Reshow(d) ELSE UNCHANGED isVisible /\ StartClose(d, FALSE)
        /\ UNCHANGED <<mounted, opened, scrollVars, place, focus, focusTimer, focusBack>>
    BY <1>2, <1>7 DEF RenderParent, focusVars
  <2>2. isVisible' = isVisible
    BY <2>1 DEF Reshow
  <2>3. DialogInv'
    <3>1. CASE d \in opened
      <4>1. opened' = opened \cup {d} /\ d \in mounted
        BY <1>2, <2>1, <3>1
      <4>2. QED
        BY <1>1, <2>1, <3>1, <4>1, ReshowKeeps
    <3>2. CASE d \notin opened
      BY <1>1, <2>1, <2>2, <3>2, CloseBegins
    <3>3. QED
      BY <3>1, <3>2
  <2>4. FocusInv'
    BY <1>1, <2>1, <2>2 DEF FocusInv
  <2>5. QED
    BY <1>1, <2>1, <2>2, <2>3, <2>4, ScrollKept DEF ModalInv
<1>8. ASSUME NEW d \in Dialog, PressClose(d) PROVE ModalInv'
  <2>1. /\ d \in isVisible /\ StartClose(d, TRUE)
        /\ UNCHANGED <<mounted, opened, isVisible, scrollVars, place, focus, focusTimer, focusBack>>
    BY <1>2, <1>8 DEF PressClose, focusVars
  <2>2. DialogInv'
    BY <1>1, <2>1, CloseBegins
  <2>3. FocusInv'
    BY <1>1, <2>1 DEF FocusInv
  <2>4. QED
    BY <1>1, <2>1, <2>2, <2>3, ScrollKept DEF ModalInv
<1>9. CASE PressEscape
  <2>1. /\ closeTimer' = [d \in Dialog |-> IF d \in opened /\ closeTimer[d] = "none"
                                           THEN "notify" ELSE closeTimer[d]]
        /\ isClosing' = isClosing \cup opened
        /\ UNCHANGED <<mounted, opened, isVisible, scrollVars, place, focus, focusTimer, focusBack>>
    BY <1>9 DEF PressEscape, focusVars
  <2>2. closeTimer' \in [Dialog -> {"none", "quiet", "notify"}]
    BY <1>1, <2>1 DEF DialogInv
  <2>3. ASSUME NEW e \in Dialog
        PROVE  /\ e \in isClosing' <=> closeTimer'[e] # "none"
               /\ closeTimer'[e] # "none" => e \in isVisible'
               /\ closeTimer'[e] = "quiet" => e \notin opened'
    BY <1>1, <2>1 DEF DialogInv
  <2>4. DialogInv'
    BY <1>1, <1>2, <2>1, <2>2, <2>3 DEF DialogInv
  <2>5. FocusInv'
    BY <1>1, <2>1 DEF FocusInv
  <2>6. QED
    BY <1>1, <2>1, <2>4, <2>5, ScrollKept DEF ModalInv
<1>10. ASSUME NEW d \in Dialog, CloseTimer(d) \/ Unmount(d) PROVE ModalInv'
  BY <1>10, CloseTimerKeeps, UnmountKeeps
<1>11. ASSUME NEW d \in Dialog, Mount(d) PROVE ModalInv'
  <2>1. /\ mounted' = mounted \cup {d}
        /\ UNCHANGED <<opened, isVisible, closeTimer, isClosing, scrollVars, place, focus, focusTimer, focusBack>>
    BY <1>11 DEF Mount, focusVars
  <2>2. DialogInv'
    BY <1>1, <2>1 DEF DialogInv
  <2>3. FocusInv'
    BY <1>1, <2>1 DEF FocusInv
  <2>4. QED
    BY <1>1, <2>1, <2>2, <2>3, ScrollKept DEF ModalInv
<1>12. ASSUME UNCHANGED <<mounted, opened, isVisible, closeTimer, isClosing, scrollVars, place, focusBack>>,
              focusTimer' \subseteq focusTimer, focus' \in Element,
              focus' = focus \/ focus' = Page \/ focus'.in \in isVisible
       PROVE  ModalInv'
  <2>1. DialogInv'
    BY <1>1, <1>12 DEF DialogInv
  <2>2. FocusInv'
    BY <1>1, <1>12 DEF FocusInv
  <2>3. QED
    BY <1>1, <1>12, <2>1, <2>2, ScrollKept DEF ModalInv
<1>13. ASSUME NEW d \in Dialog, FocusFirst(d) \/ ClickDialog(d) PROVE ModalInv'
  <2>1. d \in opened /\ \E i \in {0, 1} : focus' = [in |-> d, at |-> i]
    BY <1>3, <1>13 DEF FocusFirst, ClickDialog
  <2>2. focus' \in Element /\ focus'.in \in isVisible
    BY <1>2, <2>1, ModalAssumption DEF Element
  <2>3. QED
    BY <1>12, <1>13, <2>2 DEF FocusFirst, ClickDialog
<1>14. ASSUME NEW step \in {-1, 1}, PressTab(step) PROVE ModalInv'
  <2>1. focus # Page /\ focus' = NextElement(step)
    BY <1>14 DEF PressTab
  <2>2. focus' \in Element /\ (focus' = Page \/ focus'.in = focus.in)
    BY <1>3, <2>1, NextElementStays
  <2>3. focus.in \in isVisible
    BY <1>1, <2>1 DEF FocusInv
  <2>4. QED
    BY <1>12, <1>14, <2>2, <2>3 DEF PressTab
<1>15. CASE UNCHANGED modalVars
  <2>1. UNCHANGED <<mounted, opened, isVisible, closeTimer, isClosing, scrollVars, place,
                    focus, focusTimer, focusBack>>
    BY <1>15 DEF modalVars, scrollVars
  <2>2. QED
    BY <1>3, <1>12, <2>1
<1>16. QED
  BY <1>4, <1>5, <1>6, <1>7, <1>8, <1>9, <1>10, <1>11, <1>13, <1>14, <1>15 DEF ModalNext

LEMMA FocusStep == ModalInv /\ ModalInv' /\ ModalNext => FocusTrapped
<1> SUFFICES ASSUME ModalInv, ModalInv', ModalNext, NEW d \in Dialog, focus.in = d
             PROVE  /\ d \in opened /\ d \in opened' /\ isVisible \subseteq isVisible' =>
                         focus'.in = d \/ focus'.in \in opened'
                    /\ d \notin (opened \cup isVisible)' => focus'.in # d
  BY DEF FocusTrapped, InDialog
<1>1. /\ focus \in Element /\ focus' \in Element /\ focus # Page
      /\ opened' \subseteq isVisible' /\ focusTimer \subseteq opened
      /\ focus' = Page \/ focus'.in \in isVisible'
  BY ElementParts DEF ModalInv, FocusInv, DialogInv
<1>2. d \notin (opened \cup isVisible)' => focus'.in # d
  <2>1. focus' = Page => focus'.in # d
    BY ModalAssumption DEF Page
  <2>2. QED
    BY <1>1, <2>1
<1> SUFFICES ASSUME d \in opened, d \in opened', isVisible \subseteq isVisible'
             PROVE  focus'.in = d \/ focus'.in \in opened'
  BY <1>2
<1>3. ASSUME focus' = focus PROVE focus'.in = d \/ focus'.in \in opened'
  BY <1>3
<1>4. ASSUME NEW e \in Dialog, CloseTimer(e) PROVE FALSE
  BY <1>4, CloseTimerKeeps
<1>5. ASSUME NEW e \in Dialog, Unmount(e) PROVE focus' = focus
  <2>1. d # e
    BY <1>5, UnmountKeeps
  <2>2. QED
    BY <1>5, <2>1, UnmountKeeps
<1>6. ASSUME NEW e \in Dialog, FocusFirst(e) \/ ClickDialog(e) PROVE focus'.in \in opened'
  <2>1. e \in opened /\ opened' = opened /\ focus'.in = e
    BY <1>1, <1>6 DEF FocusFirst, ClickDialog
  <2>2. QED
    BY <2>1
<1>7. ASSUME NEW step \in {-1, 1}, PressTab(step) PROVE focus'.in = d
  BY <1>1, <1>7, NextElementStays DEF PressTab
<1>8. ASSUME NEW e \in Dialog, OpenDialog(e) \/ CloseDialog(e) \/ RenderParent(e) \/ PressClose(e) \/ Mount(e)
      PROVE  focus' = focus
  BY <1>8 DEF OpenDialog, CloseDialog, RenderParent, PressClose, Mount, focusVars
<1>9. CASE PressEscape \/ \E y \in 0..MaxScroll : ScrollPage(y)
  BY <1>3, <1>9 DEF PressEscape, ScrollPage, focusVars
<1>10. QED
  BY <1>3, <1>4, <1>5, <1>6, <1>7, <1>8, <1>9 DEF ModalNext

(***************************************************************************)
(* For any dialogs, any fields in them and any place of the page, however  *)
(* dialogs are opened over each other, closed twice, opened again while    *)
(* they fade out, or unmounted: the page is fixed while one is on the      *)
(* screen and then lies where it did, and Modal.tsx keeps the focus in a   *)
(* dialog that stays open and never leaves it in one that has gone.        *)
(***************************************************************************)
THEOREM DialogsAlwaysGiveBack == ModalSpec => DialogsGiveBack
<1>1. ModalInv => ScrollRestored
  <2> SUFFICES ASSUME ModalInv PROVE ScrollRestored
    OBVIOUS
  <2>1. opened \cup isVisible = isVisible /\ opened \subseteq isVisible
    BY DEF ModalInv, DialogInv
  <2>2. Cardinality(isVisible) \in Nat /\ (Cardinality(isVisible) = 0 <=> isVisible = {})
    BY FS_CardinalityType, FS_EmptySet DEF ModalInv, ScrollInv
  <2>3. activeModalCount > 0 <=> isVisible # {}
    BY <2>2 DEF ModalInv, ScrollInv
  <2>4. QED
    BY <2>1, <2>3 DEF ModalInv, ScrollInv, DialogInv, ScrollRestored
<1>2. ModalInv /\ ModalInv' /\ ScrollRestored' /\ [ModalNext]_modalVars
        => [ScrollRestored' /\ FocusTrapped]_modalVars
  BY FocusStep
<1>3. QED
  BY <1>1, <1>2, ModalInvInit, ModalInvStep, PTL DEF ModalSpec, DialogsGiveBack

-----------------------------------------------------------------------------
(* The lists. *)

(* The highlight is none or, unless the options have changed, one of them; an open list that
   waits for no frame is placed for the layout of now. *)
SelectInv ==
  /\ choices \in Seq(OptionValues) /\ layout \in Layouts
  /\ listed \in BOOLEAN /\ inert \in BOOLEAN /\ frame \in BOOLEAN
  /\ highlighted = -1 \/ (highlighted \in Nat /\ (~stale => highlighted < Len(choices)))
  /\ IsOpen /\ ~frame => placed = DropdownStyle(layout)

LEMMA SelectedIndexType ==
  ASSUME choices \in Seq(OptionValues)
  PROVE  SelectedIndex = -1 \/ (SelectedIndex \in Nat /\ SelectedIndex < Len(choices))
<1>1. CASE chosen \in {choices[i] : i \in DOMAIN choices}
  <2>1. PICK i \in DOMAIN choices : choices[i] = chosen
    BY <1>1
  <2> DEFINE j == CHOOSE k \in DOMAIN choices : choices[k] = chosen
  <2>2. j \in DOMAIN choices
    BY <2>1
  <2>3. SelectedIndex = j - 1
    BY <1>1 DEF SelectedIndex
  <2> HIDE DEF j
  <2>4. j \in 1..Len(choices) /\ Len(choices) \in Nat
    BY <2>2
  <2>5. QED
    BY <2>3, <2>4
<1>2. CASE chosen \notin {choices[i] : i \in DOMAIN choices}
  BY <1>2 DEF SelectedIndex
<1>3. QED
  BY <1>1, <1>2

(* What is highlighted. *)
LEMMA HighlightType ==
  ASSUME SelectInv, choices # <<>>
  PROVE  /\ Len(choices) \in Nat \ {0} /\ Highlight \in Nat
         /\ ~stale => Highlight < Len(choices)
<1>1. choices \in Seq(OptionValues)
  BY DEF SelectInv
<1>2. Len(choices) \in Nat \ {0}
  BY <1>1
<1>3. SelectedIndex = -1 \/ (SelectedIndex \in Nat /\ SelectedIndex < Len(choices))
  BY <1>1, SelectedIndexType
<1>4. highlighted = -1 \/ (highlighted \in Nat /\ (~stale => highlighted < Len(choices)))
  BY DEF SelectInv
<1>5. Highlight = IF highlighted >= 0 THEN highlighted
                  ELSE IF SelectedIndex >= 0 THEN SelectedIndex ELSE 0
  BY DEF Highlight
<1> DEFINE s == SelectedIndex
           h == Highlight
           n == Len(choices)
<1> HIDE DEF s, h, n
<1>6. QED
  BY <1>2, <1>3, <1>4, <1>5 DEF s, h, n

LEMMA SelectInvInit == SelectInit => SelectInv
BY OptionListsAssumption DEF SelectInit, SelectInv

(* A highlight is moved to an option. *)
LEMMA HighlightKeeps ==
  ASSUME SelectInv, NEW i \in Nat, i < Len(choices), HighlightAt(i)
  PROVE  SelectInv'
<1>1. /\ highlighted' = i /\ stale' = FALSE
      /\ UNCHANGED <<choices, chosen, listed, inert, layout, placed, frame>>
  BY DEF HighlightAt
<1>2. QED
  BY <1>1 DEF SelectInv, IsOpen

LEMMA SelectInvStep == SelectInv /\ [SelectNext]_selectVars => SelectInv'
<1> SUFFICES ASSUME SelectInv, [SelectNext]_selectVars PROVE SelectInv'
  OBVIOUS
<1>1. choices \in Seq(OptionValues) /\ Len(choices) \in Nat
  BY DEF SelectInv
<1>2. CASE OpenList
  <2>1. /\ listed' = TRUE /\ placed' = DropdownStyle(layout)
        /\ UNCHANGED <<frame, choices, inert, highlighted, layout, stale>>
    BY <1>2 DEF OpenList, ShowList
  <2>2. QED
    BY <2>1 DEF SelectInv
<1>3. CASE CloseList
  <2>1. /\ listed' = FALSE /\ frame' = FALSE
        /\ UNCHANGED <<choices, inert, highlighted, layout, stale>>
    BY <1>3 DEF CloseList, HideList
  <2>2. QED
    BY <2>1 DEF SelectInv, IsOpen
<1>4. ASSUME NEW direction \in {-1, 1}, MoveHighlight(direction) PROVE SelectInv'
  <2>1. choices # <<>> /\ HighlightAt((Highlight + direction + Len(choices)) % Len(choices))
    BY <1>4 DEF MoveHighlight
  <2>2. Len(choices) \in Nat \ {0} /\ Highlight \in Nat
    BY <2>1, HighlightType
  <2> DEFINE h == Highlight
             n == Len(choices)
  <2>3. n \in Nat \ {0} /\ h \in Nat
    BY <2>2
  <2> HIDE DEF h, n
  <2>4. (h + direction + n) % n \in Nat /\ (h + direction + n) % n < n
    BY <2>3
  <2>5. QED
    BY <2>1, <2>4, HighlightKeeps DEF h, n
<1>5. CASE PressHome \/ PressEnd
  <2>1. PICK i \in {0, Len(choices) - 1} : choices # <<>> /\ HighlightAt(i)
    BY <1>5 DEF PressHome, PressEnd
  <2>2. i \in Nat /\ i < Len(choices)
    BY <1>1, <2>1, HighlightType
  <2>3. QED
    BY <2>1, <2>2, HighlightKeeps
<1>6. ASSUME NEW i, PointAt(i) PROVE SelectInv'
  <2>1. PICK j \in DOMAIN choices : i = j - 1
    BY <1>6 DEF PointAt, Positions
  <2>2. i \in Nat /\ i < Len(choices)
    BY <1>1, <2>1
  <2>3. QED
    BY <1>6, <2>2, HighlightKeeps DEF PointAt
<1>7. ASSUME NEW i, CommitSelection(i) PROVE SelectInv'
  <2>1. PICK j \in DOMAIN choices : i = j - 1
    BY <1>7 DEF CommitSelection, Positions
  <2>2. i \in Nat /\ i < Len(choices)
    BY <1>1, <2>1
  <2>3. /\ listed' = FALSE /\ highlighted' = i /\ frame' = FALSE
        /\ UNCHANGED <<choices, inert, layout>>
    BY <1>7 DEF CommitSelection, HideList
  <2>4. QED
    BY <2>2, <2>3 DEF SelectInv, IsOpen
<1>8. ASSUME NEW l \in OptionLists, ChangeOptions(l) PROVE SelectInv'
  <2>1. /\ choices' = l /\ stale' = (highlighted >= 0)
        /\ UNCHANGED <<listed, inert, highlighted, layout, placed, frame>>
    BY <1>8 DEF ChangeOptions
  <2>2. l \in Seq(OptionValues)
    BY OptionListsAssumption
  <2>3. highlighted \in Nat => stale'
    <3>1. highlighted \in Nat => highlighted >= 0
      OBVIOUS
    <3>2. QED
      BY <2>1, <3>1, Zenon
  <2>4. highlighted = -1 \/ highlighted \in Nat
    BY DEF SelectInv
  <2>5. QED
    BY <2>1, <2>2, <2>3, <2>4 DEF SelectInv, IsOpen
<1>9. ASSUME NEW v \in OptionValues, ChangeValue(v) PROVE SelectInv'
  BY <1>9 DEF ChangeValue, SelectInv, IsOpen
<1>10. CASE SetDisabled
  <2>1. /\ inert' = ~inert
        /\ UNCHANGED <<choices, listed, highlighted, layout, stale>>
    BY <1>10 DEF SetDisabled
  <2>2. CASE listed /\ inert
    <3>1. placed' = DropdownStyle(layout)
      BY <1>10, <2>2 DEF SetDisabled, ShowList
    <3>2. inert' \in BOOLEAN /\ frame' = frame
      BY <1>10, <2>1, <2>2 DEF SetDisabled, ShowList, SelectInv
    <3>3. QED
      BY <2>1, <3>1, <3>2 DEF SelectInv
  <2>3. CASE listed /\ ~inert
    <3>1. frame' = FALSE /\ placed' = placed
      BY <1>10, <2>3 DEF SetDisabled, HideList
    <3>2. ~IsOpen' /\ inert' \in BOOLEAN
      BY <2>1, <2>3 DEF SelectInv, IsOpen
    <3>3. QED
      BY <2>1, <3>1, <3>2 DEF SelectInv
  <2>4. CASE ~listed
    BY <1>10, <2>1, <2>4 DEF SetDisabled, SelectInv, IsOpen
  <2>5. QED
    BY <2>2, <2>3, <2>4
<1>11. ASSUME NEW l \in Layouts, ViewportChange(l) PROVE SelectInv'
  <2>1. /\ layout' = l /\ frame' = IsOpen
        /\ UNCHANGED <<choices, listed, inert, highlighted, placed, stale>>
    BY <1>11 DEF ViewportChange
  <2>2. IsOpen \in BOOLEAN /\ IsOpen' = IsOpen
    BY <2>1 DEF SelectInv, IsOpen
  <2>3. QED
    BY <2>1, <2>2 DEF SelectInv
<1>12. CASE NextFrame
  BY <1>12 DEF NextFrame, SelectInv
<1>13. CASE UNCHANGED selectVars
  BY <1>13 DEF selectVars, SelectInv, IsOpen
<1>14. QED
  BY <1>2, <1>3, <1>4, <1>5, <1>6, <1>7, <1>8, <1>9, <1>10, <1>11, <1>12, <1>13
  DEF SelectNext, PressEnter, ClickOption

(* The geometry of a placed list, wherever the button is. *)
LEMMA PlacedFits ==
  ASSUME NEW l \in Layouts
  PROVE  LET p == DropdownStyle(l) IN
         /\ p.height = Most(0, Least(MaxHeight, Most(SpaceBelow(l), SpaceAbove(l))))
         /\ p.height > 0 => p.edge + p.height <= l.high - Margin
         /\ l.wide >= 2 * Margin => p.left >= Margin /\ p.left + p.width <= l.wide - Margin
<1>1. /\ l.wide \in Int /\ l.high \in Int /\ l.left \in Int /\ l.right \in Int
      /\ l.top \in Int /\ l.bottom \in Int
  BY LayoutsAssumption
<1>2. Margin \in Int /\ Offset \in Int /\ MaxHeight \in Int /\ MaxHeight >= 0
  BY MarginAssumption
<1> DEFINE p == DropdownStyle(l)
           below == SpaceBelow(l)
           above == SpaceAbove(l)
<1>3. /\ below = l.high - l.bottom - Margin - Offset /\ above = l.top - Margin - Offset
      /\ Down(l) <=> below >= MaxHeight \/ below >= above
  BY DEF SpaceBelow, SpaceAbove, Down
<1>4. /\ p.edge = IF Down(l) THEN l.bottom + Offset ELSE l.high - l.top + Offset
      /\ p.height = Most(0, Least(MaxHeight, IF Down(l) THEN below ELSE above))
      /\ p.width = Least(l.right - l.left, Most(0, l.wide - 2 * Margin))
      /\ p.left = Clamp(l.left, Margin, Most(Margin, l.wide - p.width - Margin))
  BY DEF DropdownStyle
<1> HIDE DEF p, below, above
<1>5. below \in Int /\ above \in Int
  BY <1>1, <1>2, <1>3
<1>6. ASSUME Down(l) PROVE /\ p.height = Most(0, Least(MaxHeight, Most(below, above)))
                           /\ p.height > 0 => p.edge + p.height <= l.high - Margin
  <2>1. p.edge = l.bottom + Offset /\ p.height = Most(0, Least(MaxHeight, below))
    BY <1>4, <1>6
  <2>2. p.height = Most(0, Least(MaxHeight, Most(below, above)))
    BY <1>2, <1>3, <1>5, <1>6, <2>1 DEF Most, Least
  <2>3. p.height \in Int /\ (p.height > 0 => p.height <= below)
    BY <1>2, <1>5, <2>1 DEF Most, Least
  <2>4. (l.bottom + Offset) + below = l.high - Margin /\ (l.bottom + Offset) \in Int /\ l.high - Margin \in Int
    BY <1>1, <1>2, <1>3
  <2>5. p.height > 0 => p.edge + p.height <= l.high - Margin
    BY <1>5, <2>1, <2>3, <2>4
  <2>6. QED
    BY <2>2, <2>5
<1>7. ASSUME ~Down(l) PROVE /\ p.height = Most(0, Least(MaxHeight, Most(below, above)))
                            /\ p.height > 0 => p.edge + p.height <= l.high - Margin
  <2>1. p.edge = l.high - l.top + Offset /\ p.height = Most(0, Least(MaxHeight, above))
    BY <1>4, <1>7
  <2>2. p.height = Most(0, Least(MaxHeight, Most(below, above)))
    BY <1>2, <1>3, <1>5, <1>7, <2>1 DEF Most, Least
  <2>3. p.height \in Int /\ (p.height > 0 => p.height <= above)
    BY <1>2, <1>5, <2>1 DEF Most, Least
  <2>4. (l.high - l.top + Offset) + above = l.high - Margin /\ (l.high - l.top + Offset) \in Int /\ l.high - Margin \in Int
    BY <1>1, <1>2, <1>3
  <2>5. p.height > 0 => p.edge + p.height <= l.high - Margin
    BY <1>5, <2>1, <2>3, <2>4
  <2>6. QED
    BY <2>2, <2>5
<1>8. ASSUME l.wide >= 2 * Margin PROVE p.left >= Margin /\ p.left + p.width <= l.wide - Margin
  <2>1. p.width \in Int /\ p.width <= l.wide - 2 * Margin
    BY <1>1, <1>2, <1>4, <1>8 DEF Most, Least
  <2>2. p.left = Least(Most(l.left, Margin), l.wide - p.width - Margin)
    BY <1>1, <1>2, <1>4, <2>1 DEF Most, Clamp
  <2>3. QED
    BY <1>1, <1>2, <2>1, <2>2 DEF Most, Least
<1>9. QED
  <2>1. /\ p.height = Most(0, Least(MaxHeight, Most(below, above)))
        /\ p.height > 0 => p.edge + p.height <= l.high - Margin
    BY <1>6, <1>7
  <2>2. QED
    BY <1>8, <2>1 DEF p, below, above

(***************************************************************************)
(* For any options and any button, window and list: in every order of      *)
(* opening, moving, disabling, scrolling and late frames, an open list of  *)
(* Select.tsx lies where its button is, within a window that is wide       *)
(* enough, and Enter has an option to choose.                              *)
(***************************************************************************)
THEOREM ListsStayUsable == SelectSpec => []ListUsable
<1>1. SelectInv => ListUsable
  <2> SUFFICES ASSUME SelectInv PROVE ListUsable
    OBVIOUS
  <2>1. ASSUME choices # <<>>, ~stale PROVE Highlight \in Positions
    <3>1. Highlight \in Nat /\ Highlight < Len(choices)
      BY <2>1, HighlightType
    <3>2. choices \in Seq(OptionValues) /\ Len(choices) \in Nat
      BY DEF SelectInv
    <3> DEFINE h == Highlight
    <3> HIDE DEF h
    <3>3. h + 1 \in DOMAIN choices /\ h = (h + 1) - 1
      BY <3>1, <3>2 DEF h
    <3>4. QED
      BY <3>3 DEF Positions, h
  <2>2. ASSUME IsOpen, ~frame PROVE placed = DropdownStyle(layout) /\ layout \in Layouts
    BY <2>2 DEF SelectInv
  <2>3. QED
    BY <2>1, <2>2, PlacedFits DEF ListUsable
<1>2. QED
  BY <1>1, SelectInvInit, SelectInvStep, PTL DEF SelectSpec

-----------------------------------------------------------------------------
(* The tooltip. *)

(* The tooltip of an element in the document is that of a block; it is placed for the scroll
   position and the grid of now unless the grid has changed, and then it is one. *)
TooltipInv ==
  /\ grid \in GridSizes \cup {0} /\ scroll \in Scrolls
  /\ tip = NoTip \/ tip.idx \in Nat \ {0}
  /\ attached => tip.idx <= grid
  /\ tip # NoTip /\ ~relaid => attached /\ tip = BuildTooltipState(tip.idx, scroll)

LEMMA BuiltIsShown ==
  ASSUME NEW i \in Nat \ {0}, NEW s
  PROVE  BuildTooltipState(i, s).idx = i
BY DEF BuildTooltipState

LEMMA TooltipInvInit == HealthInit => TooltipInv
BY DEF HealthInit, TooltipInv, NoTip

(* A tooltip that has just been placed. *)
LEMMA PlacedKeepsTooltipInv ==
  ASSUME NEW i \in Nat \ {0}, NEW s \in Scrolls, i <= grid, grid \in GridSizes \cup {0},
         grid' = grid, scroll' = s,
         attached' = TRUE, relaid' = FALSE, tip' = BuildTooltipState(i, s)
  PROVE  TooltipInv'
<1>1. tip'.idx = i
  BY BuiltIsShown
<1>2. BuildTooltipState(tip.idx, scroll)' = BuildTooltipState(i, s)
  BY <1>1 DEF BuildTooltipState, Horizontal, Vertical, Center, RectLeft, RectRight, RectTop, Width
<1>3. QED
  BY <1>1, <1>2 DEF TooltipInv

LEMMA ClosedKeepsTooltipInv ==
  ASSUME TooltipInv, Close, grid' \in GridSizes \cup {0}, scroll' \in Scrolls
  PROVE  TooltipInv'
BY DEF Close, TooltipInv, NoTip

LEMMA TooltipInvStep == TooltipInv /\ [HealthNext]_healthVars => TooltipInv'
<1> SUFFICES ASSUME TooltipInv, [HealthNext]_healthVars PROVE TooltipInv'
  OBVIOUS
<1>1. grid \in GridSizes \cup {0} /\ grid \in Nat /\ scroll \in Scrolls
  BY GridAssumption DEF TooltipInv
<1>2. ASSUME NEW i \in 1..grid, Open(i), UNCHANGED <<grid, scroll>> PROVE TooltipInv'
  <2>1. i \in Nat \ {0} /\ i <= grid
    BY <1>1
  <2>2. QED
    BY <1>1, <1>2, <2>1, PlacedKeepsTooltipInv DEF Open
<1>3. ASSUME Close, UNCHANGED <<grid, scroll>> PROVE TooltipInv'
  BY <1>1, <1>3, ClosedKeepsTooltipInv
<1>4. ASSUME NEW i \in Block, PointerEnter(i) \/ Touch(i) \/ Focus(i) PROVE TooltipInv'
  BY <1>2, <1>3, <1>4 DEF PointerEnter, Touch, Focus
<1>5. CASE PointerLeave \/ PressOutside \/ Blur
  BY <1>3, <1>5 DEF PointerLeave, PressOutside, Blur
<1>6. ASSUME NEW s \in Scrolls, ScrollTo(s) PROVE TooltipInv'
  <2>1. /\ scroll' = s /\ grid' = grid
        /\ IF tip = NoTip THEN UNCHANGED <<tip, attached, relaid>>
           ELSE IF ~attached THEN Close
           ELSE tip' = BuildTooltipState(tip.idx, s) /\ relaid' = FALSE /\ UNCHANGED attached
    BY <1>6 DEF ScrollTo
  <2>2. CASE tip = NoTip
    BY <2>1, <2>2 DEF TooltipInv, NoTip
  <2>3. CASE tip # NoTip /\ ~attached
    BY <1>1, <2>1, <2>3, ClosedKeepsTooltipInv
  <2>4. CASE tip # NoTip /\ attached
    <3>1. tip.idx \in Nat \ {0} /\ tip.idx <= grid
      BY <2>4 DEF TooltipInv
    <3>2. tip' = BuildTooltipState(tip.idx, s) /\ relaid' = FALSE /\ attached' = attached
      BY <2>1, <2>4
    <3>3. (attached' = TRUE) \/ ~attached'
      BY <3>2
    <3>4. QED
      BY <1>1, <2>1, <2>4, <3>1, <3>2, PlacedKeepsTooltipInv
  <2>5. QED
    BY <2>2, <2>3, <2>4
<1>7. ASSUME NEW n \in GridSizes, ShowHealth(n) PROVE TooltipInv'
  <2>1. grid' = n /\ scroll' = scroll /\ tip' = tip
    BY <1>7 DEF ShowHealth
  <2>2. attached' => tip.idx <= n
    BY <1>7, Zenon DEF ShowHealth
  <2>3. tip # NoTip => relaid'
    BY <1>7, Zenon DEF ShowHealth
  <2>4. QED
    BY <2>1, <2>2, <2>3 DEF TooltipInv, NoTip
<1>8. CASE UNCHANGED healthVars
  BY <1>8 DEF healthVars, TooltipInv, NoTip, BuildTooltipState, Horizontal, Vertical, Center,
     RectLeft, RectRight, RectTop, Width
<1>9. QED
  BY <1>4, <1>5, <1>6, <1>7, <1>8 DEF HealthNext

(* The window is at least half as wide again as a tooltip; TOOLTIP_SAFE_WIDTH is 180 px. *)
WideScreen == 3 * SafeWidth <= 2 * ScreenWidth

(* Where the block [l, r) is on the screen, so is a tooltip placed for its center. *)
LEMMA TooltipFits ==
  ASSUME WideScreen, NEW l \in Int, NEW r \in Int, l <= r, l >= 0, r <= ScreenWidth,
         NEW c \in Int, c = (l + r) \div 2
  PROVE  /\ c <= SafeWidth \div 2 => l + SafeWidth <= ScreenWidth
         /\ c >= ScreenWidth - SafeWidth \div 2 => r - SafeWidth >= 0
         /\ c > SafeWidth \div 2 /\ c < ScreenWidth - SafeWidth \div 2 =>
              /\ c - SafeWidth \div 2 >= 0
              /\ c - SafeWidth \div 2 + SafeWidth <= ScreenWidth
<1> DEFINE w == ScreenWidth
           t == SafeWidth
           h == SafeWidth \div 2
<1>1. w \in Nat /\ t \in Nat /\ h \in Nat
  BY ScreenAssumption
<1>2. 2 * h <= t /\ t <= 2 * h + 1
  BY ScreenAssumption
<1>3. 2 * c <= l + r /\ l + r <= 2 * c + 1
  OBVIOUS
<1>4. 3 * t <= 2 * w
  BY DEF WideScreen
<1> HIDE DEF w, t, h
<1>5. l <= r /\ l >= 0 /\ r <= w
  BY DEF w
<1>6. c <= h => l + t <= w
  BY <1>1, <1>2, <1>3, <1>4, <1>5
<1>7. c >= w - h => r - t >= 0
  BY <1>1, <1>2, <1>3, <1>4, <1>5
<1>8. c > h /\ c < w - h => c - h >= 0 /\ c - h + t <= w
  BY <1>1, <1>2, <1>3, <1>4, <1>5
<1>9. QED
  BY <1>6, <1>7, <1>8 DEF w, t, h

(***************************************************************************)
(* For any grids, any scroll positions and any window half as wide again   *)
(* as a tooltip: in every order of the mouse, touches, focus, scrolling    *)
(* and answers, the tooltip ServiceHealthCard.tsx shows stands at its      *)
(* block, on the screen if the block is.                                   *)
(***************************************************************************)
THEOREM TooltipsStayAtBlock ==
  ASSUME WideScreen
  PROVE  HealthSpec => []TooltipAtBlock
<1>1. TooltipInv => TooltipAtBlock
  <2> SUFFICES ASSUME TooltipInv, Shown, ~relaid PROVE
        /\ attached
        /\ tip = BuildTooltipState(tip.idx, scroll)
        /\ RectLeft(tip.idx, scroll) >= 0 /\ RectRight(tip.idx, scroll) <= ScreenWidth =>
             TipLeft >= 0 /\ TipLeft + SafeWidth <= ScreenWidth
    BY DEF TooltipAtBlock
  <2>1. attached /\ tip = BuildTooltipState(tip.idx, scroll)
    BY DEF TooltipInv, Shown
  <2>2. PICK i \in 1..grid : i = tip.idx
    BY DEF Shown
  <2>3. scroll.x \in Int /\ grid \in Nat
    BY ScreenAssumption, GridAssumption DEF TooltipInv
  <2>4. i \in Nat \ {0} /\ grid \in Nat \ {0} /\ GridWidth \in Nat
    BY <2>2, <2>3, GridAssumption
  <2>5. Width \in Nat
    BY <2>4 DEF Width
  <2> DEFINE l == RectLeft(i, scroll)
             r == RectRight(i, scroll)
             c == Center(i, scroll)
             h == SafeWidth \div 2
  <2>6. l \in Int /\ r \in Int /\ r = l + Width
    BY <2>3, <2>4, <2>5 DEF RectLeft, RectRight
  <2>7. c \in Int /\ c = (l + r) \div 2
    BY <2>6 DEF Center
  <2>8. /\ tip.horizontal = Horizontal(i, scroll)
        /\ tip.left = CASE Horizontal(i, scroll) = "left" -> l
                        [] Horizontal(i, scroll) = "right" -> r
                        [] OTHER -> c
    BY <2>1, <2>2 DEF BuildTooltipState
  <2>9. Horizontal(i, scroll) = IF c <= h THEN "left" ELSE IF c >= ScreenWidth - h THEN "right" ELSE "center"
    BY DEF Horizontal
  <2>10. h \in Int /\ SafeWidth \in Int /\ ScreenWidth \in Int
    BY ScreenAssumption
  <2>11. ASSUME l >= 0, r <= ScreenWidth PROVE TipLeft >= 0 /\ TipLeft + SafeWidth <= ScreenWidth
    <3>1. /\ c <= h => l + SafeWidth <= ScreenWidth
          /\ c >= ScreenWidth - h => r - SafeWidth >= 0
          /\ c > h /\ c < ScreenWidth - h => c - h >= 0 /\ c - h + SafeWidth <= ScreenWidth
      <4>1. l <= r
        BY <2>5, <2>6
      <4>2. QED
        BY <2>6, <2>7, <2>11, <4>1, TooltipFits
    <3> HIDE DEF l, r, c, h
    <3>2. CASE c <= h
      <4>1. Horizontal(i, scroll) = "left"
        BY <2>9, <3>2
      <4>2. TipLeft = l
        BY <2>8, <4>1 DEF TipLeft
      <4>3. QED
        BY <2>11, <3>1, <3>2, <4>2
    <3>3. CASE ~(c <= h) /\ c >= ScreenWidth - h
      <4>1. Horizontal(i, scroll) = "right"
        BY <2>9, <3>3
      <4>2. TipLeft = r - SafeWidth
        BY <2>8, <4>1 DEF TipLeft
      <4>3. QED
        BY <2>6, <2>10, <2>11, <3>1, <3>3, <4>2
    <3>4. CASE ~(c <= h) /\ ~(c >= ScreenWidth - h)
      <4>1. Horizontal(i, scroll) = "center"
        BY <2>9, <3>4
      <4>2. TipLeft = c - h
        BY <2>8, <4>1 DEF TipLeft, h
      <4>3. QED
        BY <2>7, <2>10, <3>1, <3>4, <4>2
    <3>5. QED
      BY <3>2, <3>3, <3>4
  <2>12. QED
    BY <2>1, <2>2, <2>11
<1>2. QED
  BY <1>1, TooltipInvInit, TooltipInvStep, PTL DEF HealthSpec

-----------------------------------------------------------------------------
(* The preferences. *)

(* The positions before each one in P number all of them. *)
LEMMA RankIsOnto ==
  ASSUME NEW m \in Nat, NEW P \in SUBSET (1..m), NEW n \in 1..Cardinality(P)
  PROVE  \E i \in P : Cardinality({k \in P : k < i}) = n - 1
<1> DEFINE Before(i) == {k \in P : k < i}
           c == Cardinality(P)
           f == [i \in P |-> Cardinality(Before(i))]
<1>1. IsFiniteSet(P) /\ c \in Nat
  <2>1. IsFiniteSet(1..m)
    BY FS_Interval
  <2>2. QED
    BY <2>1, FS_Subset, FS_CardinalityType
<1>2. ASSUME NEW i \in P
      PROVE  /\ IsFiniteSet(Before(i)) /\ Cardinality(Before(i)) \in Nat
             /\ \A S \in SUBSET P : Before(i) \cup {i} \subseteq S =>
                  Cardinality(Before(i)) + 1 <= Cardinality(S)
  <2>1. IsFiniteSet(Before(i)) /\ Cardinality(Before(i)) \in Nat
    <3>1. Before(i) \in SUBSET P
      OBVIOUS
    <3>2. QED
      BY <1>1, <3>1, FS_Subset, FS_CardinalityType
  <2>2. Cardinality(Before(i) \cup {i}) = Cardinality(Before(i)) + 1
    <3>1. i \notin Before(i)
      OBVIOUS
    <3> HIDE DEF Before
    <3>2. QED
      BY <2>1, <3>1, FS_AddElement
  <2>3. ASSUME NEW S \in SUBSET P, Before(i) \cup {i} \subseteq S
        PROVE  Cardinality(Before(i)) + 1 <= Cardinality(S)
    <3>1. IsFiniteSet(S)
      BY <1>1, FS_Subset
    <3>2. Cardinality(Before(i) \cup {i}) <= Cardinality(S)
      BY <2>3, <3>1, FS_Subset
    <3>3. QED
      BY <2>2, <3>2
  <2>4. QED
    BY <2>1, <2>3
<1>3. f \in [P -> 0..(c - 1)]
  <2>1. ASSUME NEW i \in P PROVE Cardinality(Before(i)) \in 0..(c - 1)
    <3>1. Before(i) \cup {i} \subseteq P
      OBVIOUS
    <3>2. Cardinality(Before(i)) \in Nat /\ Cardinality(Before(i)) + 1 <= c
      BY <1>2, <3>1
    <3>3. QED
      BY <1>1, <3>2
  <2>2. QED
    BY <2>1
<1>4. ASSUME NEW i \in P, NEW j \in P, i < j PROVE f[i] < f[j]
  <2>1. Before(i) \cup {i} \subseteq Before(j) /\ Before(j) \in SUBSET P
    <3>1. i \in Nat /\ j \in Nat /\ P \subseteq Nat
      OBVIOUS
    <3>2. ASSUME NEW k \in P, k < i PROVE k < j
      BY <1>4, <3>1, <3>2
    <3>3. QED
      BY <1>4, <3>2
  <2>2. f[i] = Cardinality(Before(i)) /\ f[j] = Cardinality(Before(j))
    OBVIOUS
  <2>3. Cardinality(Before(i)) \in Nat /\ Cardinality(Before(j)) \in Nat
    BY <1>2
  <2>4. Cardinality(Before(i)) + 1 <= Cardinality(Before(j))
    BY <1>2, <2>1
  <2> HIDE DEF f, Before
  <2>5. QED
    BY <2>2, <2>3, <2>4
<1>5. f \in Injection(P, 0..(c - 1))
  <2>1. ASSUME NEW i \in P, NEW j \in P, f[i] = f[j] PROVE i = j
    <3>1. i \in Int /\ j \in Int /\ f[i] \in Int /\ f[j] \in Int
      BY <1>3
    <3>2. ~(i < j) /\ ~(j < i)
      <4> HIDE DEF f
      <4>1. QED
        BY <1>4, <2>1, <3>1
    <3>3. QED
      BY <3>1, <3>2
  <2> HIDE DEF f
  <2>2. QED
    BY <1>3, <2>1 DEF Injection, IsInjective
<1>6. IsFiniteSet(0..(c - 1)) /\ Cardinality(0..(c - 1)) = c
  <2> HIDE DEF c
  <2>1. 0 \in Int /\ c - 1 \in Int
    BY <1>1
  <2>2. QED
    BY <1>1, <2>1, FS_Interval
<1>7. f \in Surjection(P, 0..(c - 1))
  BY <1>1, <1>5, <1>6, FS_Injection
<1>8. n - 1 \in 0..(c - 1)
  BY <1>1
<1>9. PICK i \in P : f[i] = n - 1
  BY <1>7, <1>8 DEF Surjection
<1>10. QED
  BY <1>9

LEMMA LinesAtType ==
  ASSUME NEW X, NEW s \in Seq(X), NEW P \in SUBSET DOMAIN s
  PROVE  /\ LinesAt(s, P) \in Seq(X) /\ Len(LinesAt(s, P)) <= Len(s)
         /\ \A n \in 1..Len(LinesAt(s, P)) : \E i \in P : LinesAt(s, P)[n] = s[i]
         /\ P = DOMAIN s => LinesAt(s, P) = s
<1> DEFINE c == Cardinality(P)
           At(n) == CHOOSE i \in P : Cardinality({k \in P : k < i}) = n - 1
           t == LinesAt(s, P)
<1>1. Len(s) \in Nat /\ DOMAIN s = 1..Len(s) /\ \A i \in DOMAIN s : s[i] \in X
  OBVIOUS
<1>2. c \in Nat /\ c <= Len(s) /\ Cardinality(1..Len(s)) = Len(s)
  <2>1. IsFiniteSet(1..Len(s)) /\ Cardinality(1..Len(s)) = Len(s)
    <3>1. 1 \in Int /\ Len(s) \in Int /\ (1 > Len(s) => Len(s) = 0)
      BY <1>1
    <3>2. Cardinality(1..Len(s)) = IF 1 > Len(s) THEN 0 ELSE Len(s) - 1 + 1
      BY <3>1, FS_Interval
    <3>3. QED
      BY <3>1, <3>2, FS_Interval
  <2>2. QED
    BY <1>1, <2>1, FS_Subset, FS_CardinalityType
<1>3. ASSUME NEW n \in 1..c PROVE At(n) \in P /\ Cardinality({k \in P : k < At(n)}) = n - 1
  <2>1. P \in SUBSET (1..Len(s))
    BY <1>1
  <2>2. \E i \in P : Cardinality({k \in P : k < i}) = n - 1
    BY <1>1, <2>1, RankIsOnto
  <2>3. QED
    BY <2>2, Zenon
<1>4. t = [n \in 1..c |-> s[At(n)]]
  BY DEF LinesAt
<1> HIDE DEF t, At, c
<1>5. t \in [1..c -> X]
  <2>1. \A n \in 1..c : s[At(n)] \in X
    BY <1>1, <1>3
  <2>2. QED
    BY <1>4, <2>1
<1>6. t \in Seq(X) /\ Len(t) = c
  BY <1>2, <1>5
<1>7. \A n \in 1..c : At(n) \in P /\ t[n] = s[At(n)]
  BY <1>3, <1>4
<1>8. ASSUME P = DOMAIN s PROVE t = s
  <2>1. c = Len(s)
    BY <1>1, <1>2, <1>8 DEF c
  <2>2. ASSUME NEW n \in 1..c PROVE At(n) = n
    <3>1. At(n) \in 1..Len(s)
      BY <1>1, <1>3, <1>8
    <3>5. {k \in P : k < At(n)} = 1..(At(n) - 1)
      BY <1>1, <1>8, <3>1
    <3>2. Cardinality(1..(At(n) - 1)) = At(n) - 1
      BY <3>1, FS_Interval
    <3>3. At(n) - 1 = n - 1
      BY <1>3, <3>2, <3>5
    <3>4. QED
      BY <3>1, <3>3
  <2>3. QED
    BY <1>1, <1>6, <1>7, <2>1, <2>2
<1>9. QED
  BY <1>2, <1>6, <1>7, <1>8 DEF t

Line == LineModel \cup {"all"}
Text == Line \cup {""}

LEMMA LinesAreSequences == \A l : l \in Lines <=> l \in Seq(Line) /\ Len(l) \in 1..MaxLines
<1> SUFFICES ASSUME NEW l PROVE l \in Lines <=> l \in Seq(Line) /\ Len(l) \in 1..MaxLines
  OBVIOUS
<1>1. MaxLines \in Nat \ {0}
  BY PreferencesAssumption
<1>2. ASSUME l \in Lines PROVE l \in Seq(Line) /\ Len(l) \in 1..MaxLines
  <2>1. PICK m \in 0..MaxLines : l \in [1..m -> Line] /\ l # <<>>
    BY <1>2 DEF Lines, SeqOf, Line
  <2>2. m \in Nat /\ l \in Seq(Line) /\ Len(l) = m
    BY <1>1, <2>1
  <2>3. m # 0
    BY <2>1, <2>2
  <2>4. QED
    BY <1>1, <2>2, <2>3
<1>3. ASSUME l \in Seq(Line), Len(l) \in 1..MaxLines PROVE l \in Lines
  <2>1. Len(l) \in 0..MaxLines /\ l \in [1..Len(l) -> Line] /\ l # <<>>
    BY <1>1, <1>3
  <2>2. QED
    BY <2>1 DEF Lines, SeqOf, Line
<1>4. QED
  BY <1>2, <1>3

LEMMA AllIsALine == <<"all">> \in Lines
<1>1. <<"all">> \in Seq(Line) /\ Len(<<"all">>) = 1
  BY DEF Line
<1>2. 1 \in 1..MaxLines
  <2>1. MaxLines \in Nat \ {0}
    BY PreferencesAssumption
  <2>2. QED
    BY <2>1
<1>3. QED
  BY <1>1, <1>2, LinesAreSequences

(* What is read as lines is lines, and lines are read as they are. *)
LEMMA NormalizeType ==
  ASSUME NEW s \in Seq(Text)
  PROVE  NormalizeLines(s) \in Lines /\ (s \in Lines => NormalizeLines(s) = s)
<1> DEFINE P == {i \in DOMAIN s : s[i] # ""}
           named == LinesAt(s, P)
           n == IF Len(named) < MaxLines THEN Len(named) ELSE MaxLines
           first == SubSeq(named, 1, n)
<1>1. MaxLines \in Nat \ {0}
  BY PreferencesAssumption
<1>2. NormalizeLines(s) = IF first = <<>> THEN <<"all">> ELSE first
  BY DEF NormalizeLines
<1>3. P \in SUBSET DOMAIN s
  OBVIOUS
<1>4. /\ named \in Seq(Text)
      /\ \A k \in 1..Len(named) : \E i \in P : named[k] = s[i]
      /\ P = DOMAIN s => named = s
  <2> HIDE DEF P
  <2>1. QED
    BY <1>3, LinesAtType
<1>5. \A i \in P : s[i] \in Line
  <2>1. \A i \in DOMAIN s : s[i] \in Text
    OBVIOUS
  <2>2. QED
    BY <2>1, Zenon DEF Text
<1> HIDE DEF named, P
<1>6. Len(named) \in Nat /\ \A k \in 1..Len(named) : named[k] \in Line
  BY <1>4, <1>5
<1>7. n \in 0..MaxLines /\ n <= Len(named) /\ n \in Int
  BY <1>1, <1>6
<1> HIDE DEF n
<1>11. first \in Seq(Line) /\ Len(first) = n
  <2>1. \A k \in 1..n : named[k] \in Line
    BY <1>6, <1>7
  <2>2. first \in Seq(Line) /\ Len(first) = IF 1 <= n THEN n - 1 + 1 ELSE 0
    BY <1>7, <2>1, SubSeqProperties
  <2> HIDE DEF first
  <2>3. QED
    BY <1>7, <2>2
<1> HIDE DEF first
<1>8. NormalizeLines(s) \in Lines
  <2>1. CASE first = <<>>
    BY <1>2, <2>1, AllIsALine
  <2>2. CASE first # <<>>
    <3>1. Len(first) # 0
      BY <1>11, <2>2, EmptySeq
    <3>2. n \in 1..MaxLines
      BY <1>7, <1>11, <3>1
    <3>3. QED
      BY <1>2, <1>11, <2>2, <3>2, LinesAreSequences
  <2>3. QED
    BY <2>1, <2>2
<1>9. ASSUME s \in Lines PROVE NormalizeLines(s) = s
  <2>1. s \in Seq(Line) /\ Len(s) \in 1..MaxLines
    BY <1>9, LinesAreSequences
  <2>2. \A i \in DOMAIN s : s[i] # ""
    <3>1. "" \notin Line
      BY PreferencesAssumption DEF Line
    <3>2. \A i \in DOMAIN s : s[i] \in Line
      BY <2>1, ElementOfSeq
    <3>3. QED
      BY <3>1, <3>2
  <2>3. named = s
    <3>1. P = DOMAIN s
      BY <2>2 DEF P
    <3>2. QED
      BY <1>4, <3>1
  <2>4. n = Len(s)
    <3> DEFINE m == Len(s)
    <3>1. m \in 1..MaxLines
      BY <2>1
    <3>2. n = IF m < MaxLines THEN m ELSE MaxLines
      BY <2>3 DEF n
    <3> HIDE DEF m
    <3>3. n = m
      BY <1>1, <3>1, <3>2
    <3>4. QED
      BY <3>3 DEF m
  <2>5. first = s
    BY <2>1, <2>3, <2>4, SubSeqFull DEF first
  <2>6. s # <<>>
    BY <2>1, EmptySeq, <1>1
  <2>7. QED
    BY <1>2, <2>5, <2>6
<1>12. QED
  BY <1>8, <1>9

LEMMA SanitizeType ==
  ASSUME NEW s \in Lines, NEW models
  PROVE  /\ SanitizeLines(s, models) \in Lines
         /\ \A i \in DOMAIN SanitizeLines(s, models) :
              SanitizeLines(s, models)[i] \in models \cup {"all"}
<1> DEFINE P == {i \in DOMAIN s : s[i] \in models \cup {"all"}}
           good == LinesAt(s, P)
<1>1. SanitizeLines(s, models) = IF good = <<>> THEN <<"all">> ELSE good
  BY DEF SanitizeLines
<1>2. s \in Seq(Line) /\ Len(s) \in 1..MaxLines /\ MaxLines \in Nat
  BY LinesAreSequences, PreferencesAssumption
<1>3. P \in SUBSET DOMAIN s /\ \A i \in P : s[i] \in models \cup {"all"}
  OBVIOUS
<1> HIDE DEF P
<1>4. /\ good \in Seq(Line) /\ Len(good) <= Len(s)
      /\ \A k \in 1..Len(good) : \E i \in P : good[k] = s[i]
  BY <1>2, <1>3, LinesAtType
<1> HIDE DEF good
<1>5. CASE good = <<>>
  <2>1. DOMAIN <<"all">> = {1} /\ <<"all">>[1] = "all"
    OBVIOUS
  <2>2. QED
    BY <1>1, <1>5, <2>1, AllIsALine
<1>6. CASE good # <<>>
  <2>1. Len(good) \in 1..MaxLines /\ DOMAIN good = 1..Len(good)
    BY <1>2, <1>4, <1>6
  <2>2. \A k \in 1..Len(good) : good[k] \in models \cup {"all"}
    BY <1>3, <1>4
  <2>3. QED
    BY <1>1, <1>4, <1>6, <2>1, <2>2, LinesAreSequences
<1>7. QED
  BY <1>5, <1>6

LEMMA DefaultType ==
  ASSUME NEW d \in DefaultRange
  PROVE  d.start \in Date /\ d.end \in Date /\ d.start # 0 /\ d.end # 0
<1>1. PICK b \in Date, e \in 1..Days : d = [start |-> b, end |-> e]
  BY DEF DefaultRange, DefaultDates
<1>2. d.start # 0
  BY DEF DefaultRange
<1>3. Days \in Nat
  BY PreferencesAssumption
<1>4. e \in Date /\ e # 0
  BY <1>3 DEF Date
<1>5. QED
  BY <1>1, <1>2, <1>4

LEMMA FilledType ==
  ASSUME NEW p \in Preferences, NEW q \in Filled(p)
  PROVE  /\ q \in Preferences
         /\ q.theme = p.theme /\ q.language = p.language /\ q.tab = p.tab /\ q.range = p.range
         /\ q.lines = p.lines
         /\ q.range = "custom" => q.start # 0 /\ q.end # 0
<1>1. CASE p.range = "custom" /\ (p.start = 0 \/ p.end = 0)
  <2>1. PICK d \in DefaultRange : q = [p EXCEPT !.start = d.start, !.end = d.end]
    BY <1>1 DEF Filled
  <2>2. d.start \in Date /\ d.end \in Date /\ d.start # 0 /\ d.end # 0
    BY DefaultType
  <2>3. QED
    BY <2>1, <2>2 DEF Preferences
<1>2. CASE ~(p.range = "custom" /\ (p.start = 0 \/ p.end = 0))
  BY <1>2 DEF Filled
<1>3. QED
  BY <1>1, <1>2

LEMMA SaneType ==
  ASSUME NEW p \in Preferences, NEW models, NEW r \in BOOLEAN
  PROVE  LET q == Sane(p, models, r) IN
         /\ q \in Preferences
         /\ q = [p EXCEPT !.lines = q.lines]
         /\ q.tab = FirstTab /\ r => \A i \in DOMAIN q.lines : q.lines[i] \in models \cup {"all"}
<1> DEFINE q == Sane(p, models, r)
           good == SanitizeLines(p.lines, models)
<1>1. p.lines \in Lines
  BY DEF Preferences
<1>2. good \in Lines /\ \A i \in DOMAIN good : good[i] \in models \cup {"all"}
  BY <1>1, SanitizeType
<1>3. q = IF p.tab = FirstTab /\ r THEN [p EXCEPT !.lines = good] ELSE p
  BY DEF Sane
<1> HIDE DEF q, good
<1>4. CASE p.tab = FirstTab /\ r
  <2>1. q = [p EXCEPT !.lines = good]
    BY <1>3, <1>4
  <2>2. q \in Preferences /\ q.lines = good
    BY <1>2, <2>1 DEF Preferences
  <2>3. QED
    BY <1>2, <2>1, <2>2 DEF q
<1>5. CASE ~(p.tab = FirstTab /\ r)
  <2>1. q = p
    BY <1>3, <1>5
  <2>2. p = [p EXCEPT !.lines = p.lines]
    BY DEF Preferences
  <2>3. QED
    BY <1>5, <2>1, <2>2 DEF q
<1>6. QED
  BY <1>4, <1>5

(* What is saved is what is chosen, but for the name of a language that is not known. *)
Saved ==
  \E l \in {"en", "zh", "other"} :
    saved = [prefs EXCEPT !.language = l] /\ InitialLanguage(l) = prefs.language

LinesKnown ==
  prefs.tab = FirstTab /\ ready => \A i \in DOMAIN prefs.lines : prefs.lines[i] \in known \cup {"all"}

ChoiceInv ==
  /\ prefs \in Preferences /\ Saved
  /\ prefs.range = "custom" => prefs.start # 0 /\ prefs.end # 0
  /\ LinesKnown
  /\ known \subseteq LineModel /\ ready \in BOOLEAN

ThemeInv == applied = ResolveTheme(prefs.theme, system) /\ resolved = NormalizeResolved(applied)

PrefInv == ChoiceInv /\ ThemeInv

(* The effects of a change. *)
LEMMA ChangeKeeps ==
  ASSUME ChoiceInv, NEW ps \in SUBSET Preferences, Change(ps)
  PROVE  /\ ChoiceInv' /\ system' = system
         /\ \E p \in ps : prefs'.theme = p.theme
<1>8. PICK p \in ps : \E q \in Filled(p) : prefs' = Sane(q, known, ready)
  BY DEF Change
<1>1. PICK q \in Filled(p) : prefs' = Sane(q, known, ready)
  BY <1>8
<1>2. /\ saved' = [f \in DOMAIN saved |-> IF prefs'[f] = prefs[f] THEN saved[f] ELSE prefs'[f]]
      /\ known' = known /\ ready' = ready /\ system' = system
  BY DEF Change
<1>3. q \in Preferences /\ q.theme = p.theme /\ (q.range = "custom" => q.start # 0 /\ q.end # 0)
  BY FilledType
<1>4. /\ prefs' \in Preferences
      /\ prefs' = [q EXCEPT !.lines = prefs'.lines]
      /\ LinesKnown'
  BY <1>1, <1>2, <1>3, SaneType DEF ChoiceInv, LinesKnown
<1>5. /\ prefs'.theme = p.theme
      /\ prefs'.range = "custom" => prefs'.start # 0 /\ prefs'.end # 0
  BY <1>3, <1>4 DEF Preferences
<1>6. Saved'
  <2>1. PICK l \in {"en", "zh", "other"} :
          saved = [prefs EXCEPT !.language = l] /\ InitialLanguage(l) = prefs.language
    BY DEF ChoiceInv, Saved
  <2> DEFINE k == IF prefs'.language = prefs.language THEN l ELSE prefs'.language
  <2>2. prefs \in Preferences
    BY DEF ChoiceInv
  <2>3. k \in {"en", "zh", "other"} /\ InitialLanguage(k) = prefs'.language
    BY <1>4, <2>1 DEF Preferences, InitialLanguage
  <2>4. saved' = [prefs' EXCEPT !.language = k]
    BY <1>2, <1>4, <2>1, <2>2 DEF Preferences
  <2> HIDE DEF k
  <2>5. QED
    BY <2>3, <2>4 DEF Saved
<1>7. QED
  BY <1>1, <1>2, <1>4, <1>5, <1>6 DEF ChoiceInv

(* A step that leaves the choices alone, and changes no models. *)
LEMMA ChoiceUnchanged ==
  ASSUME ChoiceInv, UNCHANGED <<prefs, saved, known>>, ready' \in BOOLEAN, ready' => ready
  PROVE  ChoiceInv'
BY DEF ChoiceInv, Saved, LinesKnown

(* The lines that are asked for are sequences of lines. *)
LEMMA LinesChosen ==
  ASSUME ChoiceInv, NEW lines \in Seq(Line), ChangeLines(lines)
  PROVE  ChoiceInv' /\ system' = system /\ prefs'.theme = prefs.theme
<1> DEFINE p == [prefs EXCEPT !.lines = NormalizeLines(lines)]
<1>1. lines \in Seq(Text)
  BY SeqMonotonic DEF Text
<1>2. NormalizeLines(lines) \in Lines
  BY <1>1, NormalizeType
<1>3. p \in Preferences /\ p.theme = prefs.theme
  BY <1>2 DEF ChoiceInv, Preferences
<1>4. Change({p})
  BY DEF ChangeLines
<1> HIDE DEF p
<1>5. QED
  BY <1>3, <1>4, ChangeKeeps

LEMMA StoredLinesChange ==
  ASSUME ChoiceInv
  PROVE  /\ prefs.lines \in Seq(Line) /\ Len(prefs.lines) \in Nat
         /\ DOMAIN prefs.lines = 1..Len(prefs.lines)
<1>1. prefs.lines \in Lines
  BY DEF ChoiceInv, Preferences
<1>2. prefs.lines \in Seq(Line)
  BY <1>1, LinesAreSequences
<1> DEFINE s == prefs.lines
<1> HIDE DEF s
<1>3. s \in Seq(Line)
  BY <1>2 DEF s
<1>4. Len(s) \in Nat /\ DOMAIN s = 1..Len(s)
  BY <1>3
<1>5. QED
  BY <1>3, <1>4 DEF s

LEMMA AddLineKeeps ==
  ASSUME ChoiceInv, AddLine
  PROVE  ChoiceInv' /\ system' = system /\ prefs'.theme = prefs.theme
<1>1. PICK l : l \in known \cup {"all"} /\ ChangeLines(Append(prefs.lines, l))
  BY DEF AddLine
<1>2. l \in Line
  BY <1>1 DEF ChoiceInv, Line
<1>3. Append(prefs.lines, l) \in Seq(Line)
  BY <1>2, StoredLinesChange, AppendProperties
<1>4. QED
  BY <1>1, <1>3, LinesChosen

LEMMA RemoveLineKeeps ==
  ASSUME ChoiceInv, NEW i, RemoveLine(i)
  PROVE  ChoiceInv' /\ system' = system /\ prefs'.theme = prefs.theme
<1> DEFINE s == prefs.lines
           a == SubSeq(s, 1, i - 1)
           b == SubSeq(s, i + 1, Len(s))
<1>1. i \in DOMAIN s /\ ChangeLines(a \o b)
  BY DEF RemoveLine, RemoveAt
<1>2. s \in Seq(Line) /\ Len(s) \in Nat /\ i \in 1..Len(s) /\ i \in Int
  BY <1>1, StoredLinesChange
<1> HIDE DEF s
<1>3. a \in Seq(Line)
  <2>1. \A k \in 1..(i - 1) : s[k] \in Line
    BY <1>2, ElementOfSeq
  <2>2. QED
    BY <1>2, <2>1, SubSeqProperties
<1>4. b \in Seq(Line)
  <2>1. \A k \in (i + 1)..Len(s) : s[k] \in Line
    BY <1>2, ElementOfSeq
  <2>2. QED
    BY <1>2, <2>1, SubSeqProperties
<1> HIDE DEF a, b
<1>5. a \o b \in Seq(Line)
  BY <1>3, <1>4, ConcatProperties
<1>6. QED
  BY <1>1, <1>5, LinesChosen

LEMMA ChangeLineKeeps ==
  ASSUME ChoiceInv, NEW i, ChangeLine(i)
  PROVE  ChoiceInv' /\ system' = system /\ prefs'.theme = prefs.theme
<1>1. PICK l \in known \cup {"all"} : ChangeLines([prefs.lines EXCEPT ![i] = l])
  BY DEF ChangeLine
<1>2. l \in Line /\ i \in 1..Len(prefs.lines)
  BY <1>1, StoredLinesChange DEF ChoiceInv, Line, ChangeLine
<1>3. [prefs.lines EXCEPT ![i] = l] \in Seq(Line)
  BY <1>2, StoredLinesChange, ExceptSeq
<1>4. QED
  BY <1>1, <1>3, LinesChosen

(* What the page makes of storage, of whatever version. *)
LEMMA LoadedType ==
  ASSUME NEW s, s.theme \in Theme, s.start \in Date, s.end \in Date, s.lines \in Seq(Text),
         NEW p \in Loaded(s)
  PROVE  /\ p \in Preferences /\ p.language = InitialLanguage(s.language)
<1>1. PICK d \in LoadCustomTimeRange(s) :
        p = [theme |-> s.theme, language |-> InitialLanguage(s.language), tab |-> LoadUsageTab(s.tab),
             range |-> LoadTimeRange(s.range), start |-> d.start, end |-> d.end,
             lines |-> NormalizeLines(s.lines)]
  BY DEF Loaded
<1>2. d.start \in Date /\ d.end \in Date
  <2>1. CASE d \in DefaultRange
    BY <2>1, DefaultType
  <2>2. CASE d = [start |-> s.start, end |-> s.end]
    BY <2>2
  <2>3. QED
    BY <2>1, <2>2 DEF LoadCustomTimeRange
<1>3. InitialLanguage(s.language) \in {"en", "zh"}
  BY DEF InitialLanguage
<1>4. LoadUsageTab(s.tab) \in PrefTab
  BY PreferencesAssumption DEF LoadUsageTab
<1>5. LoadTimeRange(s.range) \in PrefRange \ {"24h"}
  BY PreferencesAssumption DEF LoadTimeRange
<1>6. NormalizeLines(s.lines) \in Lines
  BY NormalizeType
<1>7. QED
  BY <1>1, <1>2, <1>3, <1>4, <1>5, <1>6 DEF Preferences

(* The page is open: what is shown is saved. *)
LEMMA OpenedKeeps ==
  ASSUME NEW p \in Preferences, NEW l \in {"en", "zh", "other"}, p.language = InitialLanguage(l),
         prefs' \in Filled(p), saved' = [prefs' EXCEPT !.language = l],
         known' = {}, ready' = FALSE
  PROVE  ChoiceInv'
<1>1. /\ prefs' \in Preferences /\ prefs'.language = p.language
      /\ prefs'.range = "custom" => prefs'.start # 0 /\ prefs'.end # 0
  BY FilledType
<1>2. QED
  BY <1>1 DEF ChoiceInv, Saved, LinesKnown

LEMMA OpenPageKeeps ==
  ASSUME ChoiceInv, OpenPage
  PROVE  ChoiceInv'
<1>1. PICK l \in {"en", "zh", "other"} :
        saved = [prefs EXCEPT !.language = l] /\ InitialLanguage(l) = prefs.language
  BY DEF ChoiceInv, Saved
<1>2. /\ saved.theme \in Theme /\ saved.start \in Date /\ saved.end \in Date
      /\ saved.lines = prefs.lines /\ saved.language = l
  BY <1>1 DEF ChoiceInv, Preferences
<1>3. saved.lines \in Seq(Text)
  <2>1. prefs.lines \in Seq(Line)
    BY StoredLinesChange
  <2>2. Line \subseteq Text
    BY DEF Text
  <2>3. QED
    BY <1>2, <2>1, <2>2, SeqMonotonic
<1>4. PICK p \in Loaded(saved) : prefs' \in Filled(p)
  BY DEF OpenPage
<1>5. p \in Preferences /\ p.language = InitialLanguage(l)
  BY <1>2, <1>3, LoadedType
<1>6. saved' = [prefs' EXCEPT !.language = l] /\ known' = {} /\ ready' = FALSE
  BY <1>2 DEF OpenPage
<1>7. QED
  BY <1>4, <1>5, <1>6, OpenedKeeps

LEMMA ShortSequences ==
  ASSUME NEW T, NEW x \in T, NEW y \in T, NEW n \in Nat
  PROVE  /\ <<>> \in Seq(T) /\ <<x>> \in Seq(T) /\ <<x, y>> \in Seq(T)
         /\ [i \in 1..n + 1 |-> x] \in Seq(T)
OBVIOUS

LEMMA FirstVisitType ==
  ASSUME NEW s \in FirstVisit
  PROVE  /\ s.theme \in Theme /\ s.start \in Date /\ s.end \in Date
         /\ s.language \in {"en", "zh", "other"} /\ s.lines \in Seq(Text)
<1>1. "all" \in Text /\ "" \in Text /\ LineModel \subseteq Text
  BY DEF Text, Line
<1>2. MaxLines \in Nat /\ 0 \in Date
  <2>1. MaxLines \in Nat \ {0} /\ Days \in Nat \ {0}
    BY PreferencesAssumption
  <2>2. QED
    BY <2>1 DEF Date
<1>3. <<"all">> \in Seq(Text) /\ <<>> \in Seq(Text)
  BY <1>1, <1>2, ShortSequences
<1>4. \A m \in LineModel : <<"", m>> \in Seq(Text)
  BY <1>1, <1>2, ShortSequences
<1>5. [i \in 1..MaxLines + 1 |-> "all"] \in Seq(Text)
  BY <1>1, <1>2, ShortSequences
<1>6. "white" \in Theme
  BY DEF Theme
<1> DEFINE A == [theme : Theme, language : {"en", "zh", "other"}, tab : PrefTab \cup {"other"},
                 range : PrefRange \cup {"other"}, start : {0}, end : Date, lines : {<<"all">>}]
           M == {<<>>, [i \in 1..MaxLines + 1 |-> "all"]} \cup {<<"", m>> : m \in LineModel}
           B == [theme : {"white"}, language : {"en"}, tab : {FirstTab}, range : {"custom"},
                 start : Date, end : Date, lines : M]
<1>7. s \in A \/ s \in B
  BY DEF FirstVisit
<1>8. ASSUME s \in A PROVE /\ s.theme \in Theme /\ s.start \in Date /\ s.end \in Date
                           /\ s.language \in {"en", "zh", "other"} /\ s.lines \in Seq(Text)
  BY <1>2, <1>3, <1>8
<1>9. M \subseteq Seq(Text)
  BY <1>3, <1>4, <1>5
<1>10. ASSUME s \in B PROVE /\ s.theme \in Theme /\ s.start \in Date /\ s.end \in Date
                            /\ s.language \in {"en", "zh", "other"} /\ s.lines \in Seq(Text)
  <2> HIDE DEF M
  <2>1. QED
    BY <1>6, <1>9, <1>10
<1>11. QED
  BY <1>7, <1>8, <1>10

LEMMA PrefInvInit == PrefInit => PrefInv
<1> SUFFICES ASSUME PrefInit PROVE PrefInv
  OBVIOUS
<1>1. PICK s \in FirstVisit : \E p \in Loaded(s) :
        prefs \in Filled(p) /\ saved = [prefs EXCEPT !.language = s.language]
  BY DEF PrefInit
<1>2. PICK p \in Loaded(s) :
        prefs \in Filled(p) /\ saved = [prefs EXCEPT !.language = s.language]
  BY <1>1
<1>3. p \in Preferences /\ p.language = InitialLanguage(s.language)
  BY FirstVisitType, LoadedType
<1>4. /\ prefs \in Preferences /\ prefs.language = p.language
      /\ prefs.range = "custom" => prefs.start # 0 /\ prefs.end # 0
  BY <1>2, <1>3, FilledType
<1>5. Saved
  BY <1>2, <1>3, <1>4, FirstVisitType DEF Saved
<1>6. QED
  BY <1>4, <1>5 DEF PrefInit, PrefInv, ChoiceInv, ThemeInv, LinesKnown

(* A change that does not touch the theme. *)
LEMMA ThemeUntouched ==
  ASSUME PrefInv, ChoiceInv', system' = system, prefs'.theme = prefs.theme,
         UNCHANGED <<applied, resolved>>
  PROVE  PrefInv'
BY DEF PrefInv, ThemeInv, ResolveTheme, NormalizeResolved

LEMMA OtherChange ==
  ASSUME PrefInv, NEW ps \in SUBSET Preferences, Change(ps), \A p \in ps : p.theme = prefs.theme,
         UNCHANGED <<applied, resolved>>
  PROVE  PrefInv'
<1>1. ChoiceInv' /\ system' = system /\ prefs'.theme = prefs.theme
  BY ChangeKeeps DEF PrefInv
<1>2. QED
  BY <1>1, ThemeUntouched

LEMMA SetThemeKeeps ==
  ASSUME PrefInv, NEW theme \in Theme, SetTheme(theme)
  PROVE  PrefInv'
<1> DEFINE p == [prefs EXCEPT !.theme = theme]
<1>1. p \in Preferences /\ p.theme = theme
  BY DEF PrefInv, ChoiceInv, Preferences
<1>2. Change({p}) /\ ApplyTheme(theme, system)
  BY DEF SetTheme
<1> HIDE DEF p
<1>3. ChoiceInv' /\ system' = system /\ prefs'.theme = theme
  BY <1>1, <1>2, ChangeKeeps DEF PrefInv
<1>4. QED
  BY <1>2, <1>3 DEF ApplyTheme, PrefInv, ThemeInv, ResolveTheme, NormalizeResolved

LEMMA PrefInvStep == PrefInv /\ [PrefNext]_prefVars => PrefInv'
<1> SUFFICES ASSUME PrefInv, [PrefNext]_prefVars PROVE PrefInv'
  OBVIOUS
<1>1. ChoiceInv /\ prefs \in Preferences
  BY DEF PrefInv, ChoiceInv
<1>2. CASE OpenPage
  <2>1. ChoiceInv'
    BY <1>1, <1>2, OpenPageKeeps
  <2>2. ThemeInv'
    BY <1>2 DEF OpenPage, ApplyTheme, ThemeInv, ResolveTheme, NormalizeResolved
  <2>3. QED
    BY <2>1, <2>2 DEF PrefInv
<1>3. ASSUME NEW theme \in {"white", "dark", "auto"}, SetTheme(theme) PROVE PrefInv'
  BY <1>3, SetThemeKeeps DEF Theme
<1>4. CASE CycleTheme
  <2> DEFINE order == <<"light", "white", "dark", "auto">>
             next == CHOOSE i \in DOMAIN order : order[i] = prefs.theme
             n == (next % Len(order)) + 1
  <2>1. prefs.theme \in {order[i] : i \in DOMAIN order}
    BY <1>1 DEF Preferences, Theme
  <2>2. next \in 1..4 /\ Len(order) = 4
    BY <2>1
  <2>3. n \in 1..4
    <3> HIDE DEF next
    <3>1. QED
      BY <2>2
  <2>4. order[n] \in Theme
    <3> HIDE DEF n
    <3>1. QED
      BY <2>3 DEF Theme
  <2>5. SetTheme(order[n])
    BY <1>4 DEF CycleTheme
  <2> HIDE DEF n, order
  <2>6. QED
    BY <2>4, <2>5, SetThemeKeeps
<1>5. CASE SystemThemeChanges
  <2>1. ChoiceInv' /\ prefs' = prefs
    BY <1>1, <1>5, ChoiceUnchanged DEF SystemThemeChanges, ChoiceInv
  <2>2. ThemeInv'
    <3>1. CASE prefs.theme = "auto"
      BY <1>5, <2>1, <3>1 DEF SystemThemeChanges, ApplyTheme, ThemeInv, ResolveTheme, NormalizeResolved
    <3>2. CASE prefs.theme # "auto"
      BY <1>5, <2>1, <3>2 DEF SystemThemeChanges, PrefInv, ThemeInv, ResolveTheme, NormalizeResolved
    <3>3. QED
      BY <3>1, <3>2
  <2>3. QED
    BY <2>1, <2>2 DEF PrefInv
<1>6. ASSUME NEW language \in {"en", "zh"}, ChangeLanguage(language) PROVE PrefInv'
  <2> DEFINE p == [prefs EXCEPT !.language = language]
  <2>1. p \in Preferences /\ p.theme = prefs.theme
    BY <1>1 DEF Preferences
  <2>2. Change({p}) /\ UNCHANGED <<applied, resolved>>
    BY <1>6 DEF ChangeLanguage
  <2> HIDE DEF p
  <2>3. QED
    BY <2>1, <2>2, OtherChange
<1>7. ASSUME NEW t \in PrefTab, ChangeTab(t) PROVE PrefInv'
  <2> DEFINE p == [prefs EXCEPT !.tab = t]
  <2>1. p \in Preferences /\ p.theme = prefs.theme
    BY <1>1 DEF Preferences
  <2>2. Change({p}) /\ UNCHANGED <<applied, resolved>>
    BY <1>7 DEF ChangeTab
  <2> HIDE DEF p
  <2>3. QED
    BY <2>1, <2>2, OtherChange
<1>8. ASSUME NEW r \in PrefRange, ChangeRange(r) PROVE PrefInv'
  <2> DEFINE p == [prefs EXCEPT !.range = r]
  <2>1. p \in Preferences /\ p.theme = prefs.theme
    BY <1>1, <1>8 DEF Preferences, ChangeRange
  <2>2. Change({p}) /\ UNCHANGED <<applied, resolved>>
    BY <1>8 DEF ChangeRange
  <2> HIDE DEF p
  <2>3. QED
    BY <2>1, <2>2, OtherChange
<1>9. CASE ChangeDates
  <2> DEFINE ps == {[prefs EXCEPT !.start = d] : d \in Date} \cup {[prefs EXCEPT !.end = d] : d \in Date}
  <2>1. \A p \in ps : p \in Preferences /\ p.theme = prefs.theme
    BY <1>1 DEF Preferences
  <2>2. Change(ps) /\ UNCHANGED <<applied, resolved>>
    BY <1>9 DEF ChangeDates
  <2> HIDE DEF ps
  <2>3. QED
    BY <2>1, <2>2, OtherChange
<1>10. ASSUME NEW models \in SUBSET LineModel, OverviewLoads(models) PROVE PrefInv'
  <2>1. /\ prefs' = Sane(prefs, models, TRUE) /\ saved' = [saved EXCEPT !.lines = prefs'.lines]
        /\ known' = models /\ ready' = TRUE /\ UNCHANGED <<system, applied, resolved>>
    BY <1>10 DEF OverviewLoads
  <2>2. /\ prefs' \in Preferences /\ prefs' = [prefs EXCEPT !.lines = prefs'.lines]
        /\ LinesKnown'
    BY <1>1, <2>1, SaneType DEF LinesKnown
  <2>3. Saved'
    <3>1. PICK l \in {"en", "zh", "other"} :
            saved = [prefs EXCEPT !.language = l] /\ InitialLanguage(l) = prefs.language
      BY <1>1 DEF ChoiceInv, Saved
    <3>2. prefs'.language = prefs.language /\ saved' = [prefs' EXCEPT !.language = l]
      BY <1>1, <2>1, <2>2, <3>1 DEF Preferences
    <3>3. QED
      BY <3>1, <3>2 DEF Saved
  <2>4. /\ prefs'.theme = prefs.theme /\ prefs'.range = prefs.range
        /\ prefs'.start = prefs.start /\ prefs'.end = prefs.end
    BY <1>1, <2>2 DEF Preferences
  <2>5. ChoiceInv'
    BY <1>1, <2>1, <2>2, <2>3, <2>4 DEF ChoiceInv
  <2>6. QED
    BY <2>1, <2>4, <2>5, ThemeUntouched
<1>11. CASE OverviewReloads
  <2>1. ChoiceInv'
    BY <1>1, <1>11, ChoiceUnchanged DEF OverviewReloads
  <2>2. QED
    BY <1>11, <2>1, ThemeUntouched DEF OverviewReloads
<1>12. CASE AddLine
  BY <1>1, <1>12, AddLineKeeps, ThemeUntouched DEF AddLine, ChangeLines
<1>13. ASSUME NEW i, RemoveLine(i) PROVE PrefInv'
  BY <1>1, <1>13, RemoveLineKeeps, ThemeUntouched DEF RemoveLine, ChangeLines
<1>14. ASSUME NEW i, ChangeLine(i) PROVE PrefInv'
  BY <1>1, <1>14, ChangeLineKeeps, ThemeUntouched DEF ChangeLine, ChangeLines
<1>15. CASE UNCHANGED prefVars
  <2>1. UNCHANGED <<prefs, saved, system, applied, resolved, known, ready>>
    BY <1>15 DEF prefVars
  <2>2. ChoiceInv'
    BY <1>1, <2>1, ChoiceUnchanged DEF ChoiceInv
  <2>3. QED
    BY <2>1, <2>2, ThemeUntouched
<1>16. QED
  BY <1>2, <1>3, <1>4, <1>5, <1>6, <1>7, <1>8, <1>9, <1>10, <1>11, <1>12, <1>13, <1>14, <1>15
  DEF PrefNext

(***************************************************************************)
(* For any tabs, ranges, models and number of lines: what the client keeps *)
(* in the browser's storage is what its user has chosen, so that opening   *)
(* the page again changes nothing, in every order of changes, overviews    *)
(* and visits; and lines that are shown are of models that are there.      *)
(***************************************************************************)
THEOREM PreferencesSurvive == PrefSpec => []PreferencesKept
<1>1. PrefInv => PreferencesKept
  <2> SUFFICES ASSUME PrefInv PROVE PreferencesKept
    OBVIOUS
  <2>1. prefs \in Preferences
    BY DEF PrefInv, ChoiceInv
  <2>2. ASSUME ValidDates(prefs) \/ prefs.start = 0 \/ prefs.end = 0 PROVE Loaded(saved) = {prefs}
    <3>1. PICK l \in {"en", "zh", "other"} :
            saved = [prefs EXCEPT !.language = l] /\ InitialLanguage(l) = prefs.language
      BY DEF PrefInv, ChoiceInv, Saved
    <3>2. /\ saved.theme = prefs.theme /\ saved.language = l /\ saved.tab = prefs.tab
          /\ saved.range = prefs.range /\ saved.start = prefs.start /\ saved.end = prefs.end
          /\ saved.lines = prefs.lines
      BY <2>1, <3>1 DEF Preferences
    <3>3. LoadCustomTimeRange(saved) = {[start |-> prefs.start, end |-> prefs.end]}
      BY <2>2, <3>2 DEF LoadCustomTimeRange, ValidDates
    <3>4. InitialLanguage(saved.language) = prefs.language
      BY <3>1, <3>2
    <3>5. LoadUsageTab(saved.tab) = prefs.tab /\ LoadTimeRange(saved.range) = prefs.range
      BY <2>1, <3>2 DEF Preferences, LoadUsageTab, LoadTimeRange
    <3>6. NormalizeLines(saved.lines) = prefs.lines
      <4>1. prefs.lines \in Lines
        BY <2>1 DEF Preferences
      <4>2. prefs.lines \in Seq(Text)
        <5>1. prefs.lines \in Seq(Line)
          BY <4>1, LinesAreSequences
        <5>2. Line \subseteq Text
          BY DEF Text
        <5>3. QED
          BY <5>1, <5>2, SeqMonotonic
      <4>3. QED
        BY <3>2, <4>1, <4>2, NormalizeType
    <3>7. prefs = [theme |-> prefs.theme, language |-> prefs.language, tab |-> prefs.tab,
                   range |-> prefs.range, start |-> prefs.start, end |-> prefs.end,
                   lines |-> prefs.lines]
      BY <2>1 DEF Preferences
    <3>8. Loaded(saved) =
            {[theme |-> prefs.theme, language |-> prefs.language, tab |-> prefs.tab,
              range |-> prefs.range, start |-> d.start, end |-> d.end, lines |-> prefs.lines] :
               d \in {[start |-> prefs.start, end |-> prefs.end]}}
      BY <3>2, <3>3, <3>4, <3>5, <3>6 DEF Loaded
    <3>9. QED
      BY <3>7, <3>8
  <2>3. QED
    BY <2>2 DEF PreferencesKept, PrefInv, ChoiceInv, ThemeInv, LinesKnown
<1>2. QED
  BY <1>1, PrefInvInit, PrefInvStep, PTL DEF PrefSpec

-----------------------------------------------------------------------------
(* The overview. *)

StoreInv == StoreTypeOK /\ StoreConsistent

(* The part of the invariant that a load can disturb. *)
LoadInv ==
  /\ request \in StoredOverview /\ loading \in BOOLEAN /\ failed \in MaybeRange
  /\ loading <=> request.key # NoRange
  /\ loading => failed = NoRange /\ request.key \notin Unready

(* A load of a selectable range keeps it, whether it sends a request or not. *)
LEMMA LoadKeepsInv ==
  ASSUME StoreInv, NEW r \in StoreRange, NEW force \in BOOLEAN,
         LoadStats(r, force) \/ UNCHANGED loadVars
  PROVE  LoadInv'
<1>1. LoadInv
  BY DEF StoreInv, StoreTypeOK, StoreConsistent, LoadInv
<1>2. CASE UNCHANGED loadVars
  BY <1>1, <1>2 DEF loadVars, LoadInv, StoredOverview, MaybeRange
<1>3. CASE LoadStats(r, force) /\ ~(UNCHANGED loadVars)
  <2>1. /\ r \notin Unready
        /\ request' = [key |-> r, seen |-> IF r \in Cached THEN cached ELSE stored]
        /\ loading' = TRUE /\ failed' = NoRange
    BY <1>3 DEF LoadStats
  <2>2. stored \in 0..MaxEvents /\ cached \in 0..stored /\ r # NoRange
    BY RangeAssumption DEF StoreInv, StoreTypeOK
  <2>3. (IF r \in Cached THEN cached ELSE stored) \in 0..MaxEvents
    BY <2>2, MaxEventsAssumption
  <2> DEFINE seen == IF r \in Cached THEN cached ELSE stored
  <2>5. request' = [key |-> r, seen |-> seen] /\ seen \in 0..MaxEvents
    BY <2>1, <2>3
  <2> HIDE DEF seen
  <2>6. request' \in StoredOverview /\ request'.key = r
    BY <2>2, <2>5 DEF StoredOverview, MaybeRange
  <2>7. QED
    BY <2>1, <2>2, <2>6 DEF LoadInv, MaybeRange
<1>4. QED
  BY <1>2, <1>3

(* A handler of the page that loads at most, and sets the timer to what is open and visible. *)
LEMMA PageKeepsInv ==
  ASSUME StoreInv, LoadInv', UNCHANGED backendVars, UNCHANGED dataVars,
         range' \in StoreRange, sync' \in MaybeRange,
         open' \in BOOLEAN, visible' \in BOOLEAN, timer' \in BOOLEAN,
         timer' <=> open' /\ visible'
  PROVE  StoreInv'
BY DEF StoreInv, StoreTypeOK, StoreConsistent, LoadInv, backendVars, dataVars, StoredOverview, MaybeRange

LEMMA StoreInvInit == StoreInit => StoreInv
<1>1. NoOverview \in StoredOverview /\ NoOverview.key = NoRange
  BY MaxEventsAssumption DEF NoOverview, StoredOverview, MaybeRange
<1> SUFFICES ASSUME StoreInit
             PROVE  StoreTypeOK /\ StoreConsistent
  BY DEF StoreInv
<1>2. stored \in 0..MaxEvents /\ cached \in 0..stored
  BY MaxEventsAssumption DEF StoreInit
<1>3. StoreTypeOK
  BY <1>1, <1>2 DEF StoreInit, StoreTypeOK, MaybeRange
<1>4. StoreConsistent
  BY <1>1 DEF StoreInit, StoreConsistent
<1>5. QED
  BY <1>3, <1>4

LEMMA StoreInvStep == StoreInv /\ [StoreNext]_storeVars => StoreInv'
<1> SUFFICES ASSUME StoreInv, [StoreNext]_storeVars
             PROVE  StoreInv'
  OBVIOUS
<1> USE DEF pageVars, loadVars, backendVars
<1>1. /\ StoreTypeOK
      /\ timer <=> open /\ visible
      /\ LoadInv
  BY DEF StoreInv, StoreTypeOK, StoreConsistent, LoadInv
<1>2. NoOverview \in StoredOverview /\ NoOverview.key = NoRange
  BY MaxEventsAssumption DEF NoOverview, StoredOverview, MaybeRange
<1>3. CASE EventStored \/ RefreshCache
  <2>1. stored \in 0..MaxEvents /\ cached \in 0..stored
    BY <1>1 DEF StoreTypeOK
  <2>2. stored' \in 0..MaxEvents /\ cached' \in 0..stored'
    <3>1. CASE EventStored
      BY <2>1, <3>1, MaxEventsAssumption DEF EventStored
    <3>2. CASE RefreshCache
      <4>1. PICK n \in cached + 1..stored : cached' = n
        BY <3>2 DEF RefreshCache
      <4>2. stored' = stored /\ n \in 0..stored
        BY <2>1, <3>2, <4>1 DEF RefreshCache
      <4>3. QED
        BY <2>1, <4>1, <4>2
    <3>3. QED
      BY <1>3, <3>1, <3>2
  <2>3. UNCHANGED <<dataVars, loadVars, pageVars>>
    BY <1>3 DEF EventStored, RefreshCache
  <2>4. QED
    BY <1>1, <2>2, <2>3
    DEF StoreInv, StoreTypeOK, StoreConsistent, LoadInv, dataVars, StoredOverview, MaybeRange
<1>4. CASE OverviewArrives
  <2>1. PICK n \in request.seen..stored : usage' = [key |-> request.key, seen |-> n]
    BY <1>4 DEF OverviewArrives
  <2>2. /\ request.key \in MaybeRange /\ request.seen \in 0..MaxEvents
        /\ stored \in 0..MaxEvents
    BY <1>1 DEF StoreTypeOK, StoredOverview
  <2>3. n \in 0..MaxEvents
    BY <2>1, <2>2, MaxEventsAssumption
  <2>4. usage' \in StoredOverview
    BY <2>1, <2>2, <2>3 DEF StoredOverview
  <2>5. QED
    BY <1>1, <1>2, <1>4, <2>4
    DEF OverviewArrives, StoreInv, StoreTypeOK, StoreConsistent, MaybeRange
<1>5. CASE OverviewFails
  <2>1. request.key \in MaybeRange
    BY <1>1 DEF StoreTypeOK, StoredOverview
  <2>2. QED
    BY <1>1, <1>2, <1>5, <2>1
    DEF OverviewFails, StoreInv, StoreTypeOK, StoreConsistent, dataVars
<1>6. CASE OverviewAges
  BY <1>6 DEF OverviewAges, StoreInv, StoreTypeOK, StoreConsistent, StoredOverview, MaybeRange
<1>7. CASE \E r \in StoreRange : SelectRange(r)
  <2>1. PICK r \in StoreRange : SelectRange(r)
    BY <1>7
  <2>2. LoadInv'
    BY <2>1, LoadKeepsInv DEF SelectRange
  <2>3. QED
    BY <1>1, <2>1, <2>2, PageKeepsInv DEF SelectRange, StoreTypeOK
<1>8. CASE OpenOverview
  <2>1. LoadInv'
    BY <1>1, <1>8, LoadKeepsInv DEF OpenOverview, StoreTypeOK
  <2>2. QED
    BY <1>1, <1>8, <2>1, PageKeepsInv DEF OpenOverview, StoreTypeOK
<1>9. CASE LeaveOverview
  <2>1. LoadInv'
    BY <1>1, <1>9, LoadKeepsInv DEF LeaveOverview, StoreTypeOK
  <2>2. QED
    BY <1>1, <1>9, <2>1, PageKeepsInv DEF LeaveOverview, StoreTypeOK
<1>10. CASE HideBrowserTab
  <2>1. LoadInv'
    BY <1>1, <1>10, LoadKeepsInv DEF HideBrowserTab, StoreTypeOK
  <2>2. QED
    BY <1>1, <1>10, <2>1, PageKeepsInv DEF HideBrowserTab, StoreTypeOK
<1>11. CASE ShowBrowserTab
  <2>1. LoadInv'
    BY <1>1, <1>11, LoadKeepsInv DEF ShowBrowserTab, StoreTypeOK
  <2>2. QED
    BY <1>1, <1>11, <2>1, PageKeepsInv DEF ShowBrowserTab, StoreTypeOK
<1>12. CASE AutoRefresh \/ RefreshOverview
  <2>1. LoadInv'
    BY <1>1, <1>12, LoadKeepsInv DEF AutoRefresh, RefreshOverview, StoreTypeOK
  <2>2. /\ UNCHANGED backendVars /\ UNCHANGED dataVars /\ range' = range /\ sync' = sync
        /\ open' = open /\ visible' = visible /\ timer' = timer
    BY <1>12 DEF AutoRefresh, RefreshOverview
  <2>3. QED
    BY <1>1, <2>1, <2>2, PageKeepsInv DEF StoreTypeOK
<1>13. CASE StartSync
  <2>1. LoadInv' /\ sync' \in MaybeRange
    BY <1>1, <1>13, LoadKeepsInv DEF StartSync, StoreTypeOK, MaybeRange
  <2>2. QED
    BY <1>1, <1>13, <2>1, PageKeepsInv DEF StartSync, StoreTypeOK
<1>14. CASE EndSync
  <2>1. sync \in StoreRange /\ sync' \in MaybeRange
    BY <1>1, <1>14 DEF EndSync, StoreTypeOK, MaybeRange
  <2>2. LoadInv'
    BY <1>14, <2>1, LoadKeepsInv DEF EndSync
  <2>3. QED
    BY <1>1, <1>14, <2>1, <2>2, PageKeepsInv DEF EndSync, StoreTypeOK
<1>15. CASE UNCHANGED storeVars
  BY <1>15 DEF storeVars, StoreInv, StoreTypeOK, StoreConsistent, StoredOverview, MaybeRange
<1>16. QED
  BY <1>3, <1>4, <1>5, <1>6, <1>7, <1>8, <1>9, <1>10, <1>11, <1>12, <1>13, <1>14, <1>15
  DEF StoreNext

(***************************************************************************)
(* In every order of selections, loads, answers, failures, syncs and tab   *)
(* changes useUsageStatsStore's loading means that a request is under way, *)
(* an error is shown only when none is, and the automatic refresh runs     *)
(* exactly while the overview is open and visible.                         *)
(***************************************************************************)
THEOREM StoreStaysConsistent == StoreSpec => []StoreConsistent
<1>1. StoreInv => StoreConsistent
  BY DEF StoreInv
<1>2. QED
  BY <1>1, StoreInvInit, StoreInvStep, PTL DEF StoreSpec

-----------------------------------------------------------------------------
(* The loads of the tabs. *)

SlotType ==
  /\ flight \in [Slot -> Query \cup {NoQuery}] /\ shown \in [Slot -> Query \cup {NoQuery}]
  /\ spin \in [Slot -> BOOLEAN] /\ error \in [Slot -> BOOLEAN]
  /\ pages \in 0..Pages

(* Tab s, as its request or what it shows goes, is on the way to what c asks for. *)
Follows(s, c) ==
  /\ flight[s] \in {NoQuery, Wanted(s, c)}
  /\ flight[s] = NoQuery /\ ~error[s] =>
       shown[s] = Wanted(s, c) /\ (s = "events" /\ pages > 0 => c.page <= pages)

TabShows == tab \in Slot /\ ~outdated => Follows(tab, choice)

TabLoadsInv == SlotType /\ SpinnersTrue /\ TabShows

TabInv == TabTypeOK /\ SpinnersTrue /\ TabShows

LEMMA QueryOfType ==
  ASSUME NEW s \in Tab, NEW c \in Query
  PROVE  QueryOf(s, c) \in Query /\ QueryOf(s, c) # NoQuery /\ Everything \in Query
<1>1. Everything \in Query
  BY DEF Everything
<1>2. 1 \in 1..Pages /\ All \in Filter
  BY PagesAssumption DEF Filter
<1>3. [c EXCEPT !.page = 1, !.filter = All] \in Query
  BY <1>2 DEF Query
<1>4. QueryOf(s, c) \in Query
  BY <1>1, <1>3 DEF QueryOf
<1>5. QED
  BY <1>1, <1>4, QueryAssumption

(* What a tab asks for, it asks for again. *)
LEMMA WantedAgain ==
  ASSUME NEW s \in Slot, NEW c \in Query
  PROVE  Wanted(s, QueryOf(s, c)) = Wanted(s, c)
<1>1. CASE s = "events"
  BY <1>1 DEF QueryOf
<1>2. CASE s = "analysis"
  <2> DEFINE d == [c EXCEPT !.page = 1, !.filter = All]
  <2>1. QueryOf(s, c) = d
    BY <1>2 DEF QueryOf
  <2>2. d.range = c.range /\ [d EXCEPT !.page = 1, !.filter = All] = d
    BY DEF Query
  <2>3. QED
    BY <1>2, <2>1, <2>2 DEF Wanted, QueryOf, Refused
<1>3. CASE s = "credentials"
  BY <1>3 DEF Wanted, QueryOf, Refused
<1>4. QED
  BY <1>1, <1>2, <1>3 DEF Slot

(* The page and the filter are the events' alone, the range not the credentials'. *)
LEMMA WantedBySelection ==
  ASSUME NEW s \in Slot, s # "events", NEW c \in Query, NEW d \in Query,
         c.range = d.range \/ s = "credentials"
  PROVE  Wanted(s, c) = Wanted(s, d)
<1>1. CASE s = "credentials"
  BY <1>1 DEF Wanted, QueryOf, Refused
<1>2. CASE s = "analysis" /\ c.range = d.range
  <2>1. [c EXCEPT !.page = 1, !.filter = All] = [d EXCEPT !.page = 1, !.filter = All]
    BY <1>2 DEF Query
  <2>2. QED
    BY <1>2, <2>1 DEF Wanted, QueryOf, Refused
<1>3. QED
  BY <1>1, <1>2 DEF Slot

LEMMA LoadTabFollows ==
  ASSUME SlotType, SpinnersTrue, NEW s \in Slot, NEW c \in Query, LoadTab(s, c)
  PROVE  /\ SlotType' /\ SpinnersTrue' /\ Follows(s, c)'
         /\ \A t \in Slot \ {s} : /\ flight'[t] = flight[t] /\ shown'[t] = shown[t]
                                  /\ error'[t] = error[t]
         /\ s # "events" => pages' = pages
<1>1. QueryOf(s, c) \in Query /\ QueryOf(s, c) # NoQuery /\ Refused(s, c) \in BOOLEAN
  BY QueryOfType DEF Refused, Tab
<1>2. 0 \in 0..Pages
  BY PagesAssumption
<1>3. SlotType'
  <2>1. flight' \in [Slot -> Query \cup {NoQuery}]
    BY <1>1 DEF LoadTab, SlotType
  <2>2. shown' \in [Slot -> Query \cup {NoQuery}]
    BY DEF LoadTab, SlotType
  <2>3. spin' \in [Slot -> BOOLEAN] /\ error' \in [Slot -> BOOLEAN]
    BY <1>1 DEF LoadTab, SlotType
  <2>4. pages' \in 0..Pages
    BY <1>2 DEF LoadTab, SlotType
  <2>5. QED
    BY <2>1, <2>2, <2>3, <2>4 DEF SlotType
<1>4. /\ flight'[s] = IF Refused(s, c) THEN NoQuery ELSE QueryOf(s, c)
      /\ spin'[s] = ~Refused(s, c)
      /\ \A t \in Slot \ {s} : /\ flight'[t] = flight[t] /\ shown'[t] = shown[t]
                               /\ error'[t] = error[t] /\ spin'[t] = spin[t]
      /\ Refused(s, c) => shown'[s] = NoQuery /\ (s = "events" => pages' = 0)
      /\ s # "events" => pages' = pages
  BY DEF LoadTab, SlotType
<1>5. SpinnersTrue'
  <2> SUFFICES ASSUME NEW t \in Slot PROVE spin'[t] <=> flight'[t] # NoQuery
    BY DEF SpinnersTrue
  <2>1. CASE t = s
    BY <1>1, <1>4, <2>1
  <2>2. CASE t # s
    BY <1>4, <2>2 DEF SpinnersTrue
  <2>3. QED
    BY <2>1, <2>2
<1>6. Wanted(s, c) = IF Refused(s, c) THEN NoQuery ELSE QueryOf(s, c)
  BY DEF Wanted
<1>7. Follows(s, c)'
  <2>1. flight'[s] = Wanted(s, c)
    BY <1>4, <1>6
  <2>2. flight'[s] = NoQuery => Refused(s, c)
    BY <1>1, <1>4
  <2>3. flight'[s] = NoQuery => shown'[s] = Wanted(s, c) /\ (s = "events" => pages' = 0)
    BY <1>4, <1>6, <2>2
  <2>4. ~(0 > 0)
    OBVIOUS
  <2>5. QED
    BY <2>1, <2>3, <2>4 DEF Follows, Wanted, Refused, QueryOf, Everything, Query
<1>8. QED
  BY <1>3, <1>4, <1>5, <1>7

LEMMA LoadActiveKeeps ==
  ASSUME TabLoadsInv, NEW c \in Query, LoadActive(c), choice' = c, tab' = tab
  PROVE  TabLoadsInv'
<1>1. CASE tab \in Slot
  <2>1. LoadTab(tab, c)
    BY <1>1 DEF LoadActive
  <2>2. SlotType' /\ SpinnersTrue' /\ Follows(tab, c)'
    BY <1>1, <2>1, LoadTabFollows DEF TabLoadsInv
  <2>3. TabShows'
    BY <2>2 DEF TabShows, Follows, Wanted, Refused, QueryOf
  <2>4. QED
    BY <2>2, <2>3 DEF TabLoadsInv
<1>2. CASE tab \notin Slot
  BY <1>2 DEF LoadActive, slotVars, TabLoadsInv, SlotType, SpinnersTrue, TabShows
<1>3. QED
  BY <1>1, <1>2

(* The selection changes, but nothing the open tab asks for. *)
LEMMA SameQueryKeeps ==
  ASSUME TabLoadsInv, choice \in Query, choice' \in Query, UNCHANGED <<slotVars, tab, outdated>>,
         \/ choice' = choice \/ tab = "elsewhere"
         \/ tab # "events" /\ (choice'.range = choice.range \/ tab = "credentials")
  PROVE  TabLoadsInv'
<1>1. SlotType' /\ SpinnersTrue'
  BY DEF slotVars, TabLoadsInv, SlotType, SpinnersTrue
<1>2. TabShows'
  <2> SUFFICES ASSUME tab \in Slot, ~outdated PROVE Follows(tab, choice)'
    BY DEF TabShows
  <2>1. Follows(tab, choice)
    BY DEF TabLoadsInv, TabShows
  <2>2. tab # "elsewhere"
    BY DEF Slot
  <2>3. Wanted(tab, choice) = Wanted(tab, choice') /\ (tab = "events" => choice'.page = choice.page)
    BY <2>2, WantedBySelection
  <2>4. QED
    BY <2>1, <2>3 DEF slotVars, Follows, Wanted, Refused, QueryOf, Everything, Query
<1>3. QED
  BY <1>1, <1>2 DEF TabLoadsInv

LEMMA RefreshKeeps ==
  ASSUME TabLoadsInv, choice \in Query, NEW t \in Tab, NEW c \in Query, RefreshTab(t, c),
         UNCHANGED <<tab, choice>>
  PROVE  TabLoadsInv' /\ outdated' = (outdated \/ (t = tab /\ c # QueryOf(tab, choice)))
<1>1. outdated' = (outdated \/ (t = tab /\ c # QueryOf(tab, choice)))
  BY DEF RefreshTab
<1>2. CASE t \in Slot
  <2>1. LoadTab(t, c)
    BY <1>2 DEF RefreshTab
  <2>2. /\ SlotType' /\ SpinnersTrue' /\ Follows(t, c)'
        /\ \A s \in Slot \ {t} : /\ flight'[s] = flight[s] /\ shown'[s] = shown[s]
                                 /\ error'[s] = error[s]
        /\ t # "events" => pages' = pages
    BY <1>2, <2>1, LoadTabFollows DEF TabLoadsInv
  <2>3. ASSUME tab \in Slot, ~outdated' PROVE Follows(tab, choice)'
    <3>1. ~outdated /\ Follows(tab, choice)
      BY <1>1, <2>3 DEF TabLoadsInv, TabShows
    <3>2. CASE t = tab
      <4>1. c = QueryOf(tab, choice)
        BY <1>1, <2>3, <3>2
      <4>2. Wanted(tab, c) = Wanted(tab, choice)
        BY <2>3, <4>1, WantedAgain
      <4>3. tab = "events" => c = choice
        BY <4>1 DEF QueryOf
      <4>4. QED
        BY <2>2, <3>2, <4>2, <4>3 DEF Follows, Wanted, Refused, QueryOf, Everything, Query
    <3>3. CASE t # tab
      BY <2>2, <2>3, <3>1, <3>3 DEF Follows, Wanted, Refused, QueryOf, Everything, Query
    <3>4. QED
      BY <3>2, <3>3
  <2>4. QED
    BY <1>1, <2>2, <2>3 DEF TabLoadsInv, TabShows
<1>3. CASE t \notin Slot
  <2>1. UNCHANGED <<slotVars, tab, choice>>
    BY <1>3 DEF RefreshTab
  <2>2. ~outdated' => ~outdated
    BY <1>1
  <2>3. SlotType' /\ SpinnersTrue'
    BY <2>1 DEF slotVars, TabLoadsInv, SlotType, SpinnersTrue
  <2>4. TabShows'
    BY <2>1, <2>2 DEF slotVars, TabLoadsInv, TabShows, Follows, Wanted, Refused, QueryOf, Everything, Query
  <2>5. QED
    BY <1>1, <2>3, <2>4 DEF TabLoadsInv
<1>4. QED
  BY <1>2, <1>3

-----------------------------------------------------------------------------
(* The invariant, over all steps. *)

(* What the steps do beside the loads. *)
RestType ==
  /\ tab \in Tab /\ choice \in Query /\ options \in Options /\ late \in [Button -> Late]
  /\ outdated \in BOOLEAN

LEMMA TabInvParts == TabInv <=> TabLoadsInv /\ RestType
BY DEF TabInv, TabLoadsInv, SlotType, RestType, TabTypeOK

LEMMA AskingType ==
  ASSUME NEW o \in Options
  PROVE  Asking(o) \in Options
BY DEF Asking, Options

LEMMA LateType ==
  ASSUME RestType
  PROVE  /\ NotLate \in Late /\ Woken \in [Button -> Late]
         /\ \A b \in Button, l \in Late : /\ [late EXCEPT ![b] = l] \in [Button -> Late]
                                         /\ [Woken EXCEPT ![b] = l] \in [Button -> Late]
<1>1. Everything \in Query
  BY DEF RestType, Everything
<1>2. NotLate \in Late
  BY <1>1 DEF NotLate, Late, Tab
<1>3. \A b \in Button : [late[b] EXCEPT !.at = "resumed"] \in Late
  BY DEF RestType, Late
<1>4. Woken \in [Button -> Late]
  BY <1>3 DEF Woken, RestType
<1>5. QED
  BY <1>2, <1>4 DEF RestType

LEMMA ChoiceType ==
  ASSUME NEW c \in Query
  PROVE  /\ \A r \in TabRange : [c EXCEPT !.range = r, !.page = 1] \in Query
         /\ \A f \in Filter : [c EXCEPT !.filter = f, !.page = 1] \in Query
         /\ \A p \in 1..Pages : [c EXCEPT !.page = p] \in Query
         /\ \A offered \in SUBSET Model : /\ Sanitized(c, offered) \in Query
                                          /\ Sanitized(c, offered).range = c.range
<1>1. 1 \in 1..Pages /\ All \in Filter
  BY PagesAssumption DEF Filter
<1>2. QED
  BY <1>1 DEF Query, Sanitized

(* The answer to a request is shown, or its failure. *)
LEMMA FinishedKeeps ==
  ASSUME TabLoadsInv, RestType, NEW s \in Slot, flight[s] # NoQuery, Finished(s),
         pages' \in 0..Pages, s # "events" => pages' = pages,
         UNCHANGED <<tab, choice, outdated>>,
         \/ /\ shown' = [shown EXCEPT ![s] = flight[s]] /\ error' = error
            /\ s = "events" => ~Beyond(flight[s], pages')
         \/ shown' = [shown EXCEPT ![s] = NoQuery] /\ error' = [error EXCEPT ![s] = TRUE]
  PROVE  TabLoadsInv'
<1>1. SlotType'
  BY DEF TabLoadsInv, SlotType, Finished
<1>2. SpinnersTrue'
  BY DEF TabLoadsInv, SlotType, Finished, SpinnersTrue
<1>3. ASSUME tab \in Slot, ~outdated PROVE Follows(tab, choice)'
  <2>1. Follows(tab, choice)
    BY <1>3 DEF TabLoadsInv, TabShows
  <2>2. CASE tab # s
    <3>1. /\ flight'[tab] = flight[tab] /\ shown'[tab] = shown[tab] /\ error'[tab] = error[tab]
          /\ tab = "events" => pages' = pages
      BY <1>3, <2>2 DEF TabLoadsInv, SlotType, Finished, Slot
    <3>2. QED
      BY <2>1, <3>1 DEF Follows, Wanted, Refused, QueryOf, Everything, Query
  <2>3. CASE tab = s
    <3>1. flight[s] = Wanted(s, choice)
      BY <2>1, <2>3 DEF Follows
    <3>2. flight'[s] = NoQuery
      BY DEF TabLoadsInv, SlotType, Finished
    <3>3. CASE shown' = [shown EXCEPT ![s] = flight[s]] /\ (s = "events" => ~Beyond(flight[s], pages'))
      <4>1. shown'[s] = Wanted(s, choice)
        BY <3>1, <3>3 DEF TabLoadsInv, SlotType
      <4>2. ASSUME s = "events", pages' > 0 PROVE choice.page <= pages'
        <5>1. flight[s] = choice
          BY <3>1, <4>2 DEF Wanted, QueryOf
        <5>2. choice.page \in Nat /\ pages' \in Nat
          BY DEF RestType, Query
        <5>3. ~(choice.page > pages')
          BY <3>3, <4>2, <5>1 DEF Beyond
        <5>4. QED
          BY <5>2, <5>3
      <4>3. QED
        BY <2>3, <3>2, <4>1, <4>2 DEF Follows, Wanted, Refused, QueryOf, Everything, Query
    <3>4. CASE error' = [error EXCEPT ![s] = TRUE]
      <4>1. error'[s] = TRUE
        BY <3>4 DEF TabLoadsInv, SlotType
      <4>2. QED
        BY <2>3, <3>2, <4>1 DEF Follows
    <3>5. QED
      BY <3>3, <3>4
  <2>4. QED
    BY <2>2, <2>3
<1>4. QED
  BY <1>1, <1>2, <1>3 DEF TabLoadsInv, TabShows

LEMMA TabInvInit == TabInit => TabInv
<1> SUFFICES ASSUME TabInit PROVE TabInv
  OBVIOUS
<1>1. 1 \in 1..Pages /\ 0 \in 0..Pages /\ All \in Filter
  BY PagesAssumption DEF Filter
<1>2. choice \in Query
  BY <1>1 DEF TabInit, Query
<1>3. TabLoadsInv
  BY <1>1 DEF TabInit, TabLoadsInv, SlotType, SpinnersTrue, TabShows, Slot
<1>4. Everything \in Query
  BY <1>2 DEF Everything
<1>5. NotLate \in Late
  BY <1>4 DEF NotLate, Late, Tab
<1>6. RestType
  BY <1>2, <1>5 DEF TabInit, RestType, Options, Tab
<1>7. QED
  BY <1>3, <1>6, TabInvParts

LEMMA ChooseKeeps ==
  ASSUME TabLoadsInv, RestType, NEW c \in Query, ChooseEvents(c), tab' = tab,
         c.range = choice.range
  PROVE  TabLoadsInv' /\ choice' \in Query /\ outdated' \in BOOLEAN
<1>1. choice' = c /\ choice \in Query
  BY DEF ChooseEvents, RestType
<1>2. CASE tab = "events" /\ c # choice
  <2>1. LoadActive(c)
    BY <1>2 DEF ChooseEvents
  <2>2. QED
    BY <1>1, <2>1, LoadActiveKeeps DEF LoadActive
<1>3. CASE ~(tab = "events" /\ c # choice)
  <2>1. UNCHANGED <<slotVars, outdated>>
    BY <1>3 DEF ChooseEvents
  <2>2. choice' = choice \/ (tab # "events" /\ choice'.range = choice.range)
    BY <1>1, <1>3
  <2>3. TabLoadsInv'
    BY <1>1, <2>1, <2>2, SameQueryKeeps
  <2>4. QED
    BY <1>1, <2>1, <2>3 DEF RestType
<1>4. QED
  BY <1>2, <1>3

LEMMA OpenTabKeeps ==
  ASSUME TabLoadsInv, RestType, NEW t \in Tab, OpenTab(t)
  PROVE  TabLoadsInv'
<1> DEFINE left == [s \in Slot |-> NoQuery]
<1>1. /\ tab' = t /\ choice' = choice /\ outdated' = FALSE
      /\ flight' = IF t \in Slot /\ ~Refused(t, choice) THEN [left EXCEPT ![t] = QueryOf(t, choice)] ELSE left
      /\ spin' = [s \in Slot |-> s = t /\ ~Refused(s, choice)]
      /\ error' = IF t \in Slot THEN [error EXCEPT ![t] = FALSE] ELSE error
      /\ shown' = IF t \in Slot /\ (t # "events" \/ Refused(t, choice))
                  THEN [shown EXCEPT ![t] = NoQuery] ELSE shown
      /\ pages' = IF t = "events" /\ Refused(t, choice) THEN 0 ELSE pages
  BY DEF OpenTab
<1>2. choice \in Query /\ 0 \in 0..Pages /\ SlotType
  BY PagesAssumption DEF RestType, TabLoadsInv
<1>3. \A s \in Slot : flight'[s] = IF s = t /\ ~Refused(s, choice) THEN QueryOf(s, choice) ELSE NoQuery
  BY <1>1
<1>4. \A s \in Slot : QueryOf(s, choice) \in Query /\ QueryOf(s, choice) # NoQuery
  BY <1>2, QueryOfType DEF Tab
<1>5. SlotType'
  <2>1. flight' \in [Slot -> Query \cup {NoQuery}]
    BY <1>1, <1>4
  <2>2. spin' \in [Slot -> BOOLEAN] /\ error' \in [Slot -> BOOLEAN]
    BY <1>1, <1>2 DEF SlotType
  <2>3. shown' \in [Slot -> Query \cup {NoQuery}] /\ pages' \in 0..Pages
    BY <1>1, <1>2 DEF SlotType
  <2>4. QED
    BY <2>1, <2>2, <2>3 DEF SlotType
<1>6. SpinnersTrue'
  <2> SUFFICES ASSUME NEW s \in Slot PROVE spin'[s] <=> flight'[s] # NoQuery
    BY DEF SpinnersTrue
  <2>1. spin'[s] <=> (s = t /\ ~Refused(s, choice))
    BY <1>1
  <2>2. QED
    BY <1>3, <1>4, <2>1
<1>7. ASSUME t \in Slot PROVE Follows(t, choice)'
  <2>1. CASE Refused(t, choice)
    <3>1. shown'[t] = NoQuery /\ flight'[t] = NoQuery /\ (t = "events" => pages' = 0)
      BY <1>1, <1>2, <1>3, <1>7, <2>1 DEF SlotType
    <3>2. Wanted(t, choice) = NoQuery
      BY <2>1 DEF Wanted
    <3>3. ~(0 > 0)
      OBVIOUS
    <3>4. QED
      BY <1>1, <3>1, <3>2, <3>3 DEF Follows, Wanted, Refused, QueryOf, Everything, Query
  <2>2. CASE ~Refused(t, choice)
    <3>1. flight'[t] = QueryOf(t, choice) /\ QueryOf(t, choice) # NoQuery
      BY <1>3, <1>4, <1>7, <2>2
    <3>2. Wanted(t, choice) = QueryOf(t, choice)
      BY <2>2 DEF Wanted
    <3>3. QED
      BY <1>1, <3>1, <3>2 DEF Follows, Wanted, Refused, QueryOf, Everything, Query
  <2>3. QED
    BY <2>1, <2>2
<1>8. TabShows'
  BY <1>1, <1>7 DEF TabShows, Follows, Wanted, Refused, QueryOf
<1>9. QED
  BY <1>5, <1>6, <1>8 DEF TabLoadsInv

LEMMA TabInvStep == TabInv /\ [TabNext]_tabVars => TabInv'
<1> SUFFICES ASSUME TabLoadsInv, RestType, [TabNext]_tabVars PROVE TabLoadsInv' /\ RestType'
  BY DEF TabInv, TabLoadsInv, SlotType, RestType, TabTypeOK
<1>1. /\ tab \in Tab /\ choice \in Query /\ options \in Options /\ late \in [Button -> Late]
      /\ outdated \in BOOLEAN /\ Asking(options) \in Options
  BY AskingType DEF RestType
<1>2. /\ NotLate \in Late /\ Woken \in [Button -> Late]
      /\ \A b \in Button, l \in Late : /\ [late EXCEPT ![b] = l] \in [Button -> Late]
                                      /\ [Woken EXCEPT ![b] = l] \in [Button -> Late]
  BY LateType
<1>asked. QueryOf(tab, choice) \in Query
  BY <1>1, QueryOfType
<1>3. ASSUME NEW n \in 0..Pages, EventsArrive(n) PROVE TabLoadsInv' /\ RestType'
  <2>1. "events" \in Slot
    BY DEF Slot
  <2>2. TabLoadsInv'
    BY <1>3, <2>1, FinishedKeeps DEF EventsArrive
  <2>3. QED
    BY <1>3, <2>2 DEF EventsArrive, RestType
<1>4. ASSUME NEW n \in 0..Pages, EventsArriveShort(n) PROVE TabLoadsInv' /\ RestType'
  <2> DEFINE c == [choice EXCEPT !.page = n]
             q == flight["events"]
  <2>1. /\ q # NoQuery /\ Beyond(q, n) /\ choice' = c /\ UNCHANGED tab
        /\ IF tab = "events" /\ c # choice
           THEN LoadActive(c) /\ options' = Asking(options) /\ late' = Woken
           ELSE Finished("events") /\ UNCHANGED <<shown, error, pages, options, late, outdated>>
    BY <1>4 DEF EventsArriveShort, AskOptions
  <2>2. n \in 1..Pages
    BY <2>1, PagesAssumption DEF Beyond
  <2>3. c \in Query /\ c.range = choice.range /\ c.page = n
    BY <1>1, <2>2 DEF Query
  <2>4. q \in Query
    BY <2>1 DEF TabLoadsInv, SlotType, Slot
  <2>5. CASE tab = "events" /\ c # choice
    <3>1. LoadActive(c) /\ options' = Asking(options) /\ late' = Woken
      BY <2>1, <2>5
    <3>2. TabLoadsInv'
      BY <2>1, <2>3, <3>1, LoadActiveKeeps
    <3>3. QED
      BY <1>1, <1>2, <2>1, <2>3, <3>1, <3>2 DEF RestType, LoadActive
  <2>6. CASE ~(tab = "events" /\ c # choice)
    <3>1. Finished("events") /\ UNCHANGED <<shown, error, pages, options, late, outdated, tab>>
      BY <2>1, <2>6
    <3>2. SlotType' /\ SpinnersTrue'
      BY <3>1 DEF TabLoadsInv, SlotType, Finished, SpinnersTrue, Slot
    <3>3. ASSUME tab \in Slot, ~outdated PROVE Follows(tab, choice)'
      <4>1. Follows(tab, choice)
        BY <3>3 DEF TabLoadsInv, TabShows
      <4>2. CASE tab = "events"
        <5>1. choice = c /\ q = choice
          BY <2>1, <2>6, <4>1, <4>2 DEF Follows, Wanted, QueryOf
        <5>2. q.page = n
          BY <2>3, <5>1
        <5>3. n > n
          BY <2>1, <5>2 DEF Beyond
        <5>4. QED
          BY <5>3
      <4>3. CASE tab # "events"
        <5>1. flight'[tab] = flight[tab] /\ shown'[tab] = shown[tab] /\ error'[tab] = error[tab]
          BY <3>1, <3>3, <4>3 DEF TabLoadsInv, SlotType, Finished
        <5>2. Wanted(tab, choice) = Wanted(tab, choice')
          BY <1>1, <2>1, <2>3, <3>3, <4>3, WantedBySelection
        <5>3. QED
          BY <3>1, <4>1, <4>3, <5>1, <5>2 DEF Follows, Wanted, Refused, QueryOf, Everything, Query
      <4>4. QED
        BY <4>2, <4>3
    <3>4. TabLoadsInv'
      BY <3>1, <3>2, <3>3 DEF TabLoadsInv, TabShows
    <3>5. QED
      BY <1>1, <2>1, <2>3, <3>1, <3>4 DEF RestType
  <2>7. QED
    BY <2>5, <2>6
<1>5. ASSUME NEW s \in Slot, DataArrive(s) PROVE TabLoadsInv' /\ RestType'
  <2>1. TabLoadsInv'
    BY <1>5, FinishedKeeps DEF DataArrive, TabLoadsInv, SlotType
  <2>2. QED
    BY <1>5, <2>1 DEF DataArrive, RestType
<1>6. ASSUME NEW s \in Slot, LoadFails(s) PROVE TabLoadsInv' /\ RestType'
  <2>1. pages' \in 0..Pages
    BY <1>6, PagesAssumption DEF LoadFails, TabLoadsInv, SlotType
  <2>2. TabLoadsInv'
    BY <1>6, <2>1, FinishedKeeps DEF LoadFails
  <2>3. QED
    BY <1>6, <2>2 DEF LoadFails, RestType
<1>7. CASE OptionsArrive
  <2>1. PICK o \in {[offered |-> S, loaded |-> TRUE, asked |-> FALSE] : S \in SUBSET Model}
                   \cup {[offered |-> {}, loaded |-> FALSE, asked |-> FALSE]} :
          /\ ChooseEvents(Sanitized(choice, o.offered))
          /\ options' = IF tab = "events" /\ Sanitized(choice, o.offered) # choice
                        THEN Asking(o) ELSE o
    BY <1>7 DEF OptionsArrive
  <2>2. o \in Options
    <3>1. \E S \in SUBSET Model, b \in BOOLEAN : o = [offered |-> S, loaded |-> b, asked |-> FALSE]
      BY <2>1
    <3>2. QED
      BY <3>1 DEF Options
  <2>3. o.offered \in SUBSET Model
    BY <2>2 DEF Options
  <2>4. options' \in Options
    BY <2>1, <2>2, AskingType
  <2>5. Sanitized(choice, o.offered) \in Query /\ Sanitized(choice, o.offered).range = choice.range
    BY <1>1, <2>3, ChoiceType
  <2>6. UNCHANGED tab /\ late' = Woken
    BY <1>7 DEF OptionsArrive
  <2>7. TabLoadsInv' /\ choice' \in Query /\ outdated' \in BOOLEAN
    BY <2>1, <2>5, <2>6, ChooseKeeps
  <2>8. QED
    BY <1>1, <1>2, <2>4, <2>6, <2>7 DEF RestType
<1>8. CASE SyncReturns
  <2> DEFINE was == late["sync"]
  <2>1. was.tab \in Tab /\ was.query \in Query /\ "sync" \in Button
    BY <1>1 DEF Late, Button
  <2>2. UNCHANGED <<tab, choice>>
    BY <1>8 DEF SyncReturns
  <2>3. [late EXCEPT !["sync"] = NotLate] \in [Button -> Late]
    BY <1>2, <2>1
  <2>4. CASE AwaitOptions("sync", was.query)
    <3>1. [at |-> "options", tab |-> "events", query |-> was.query] \in Late
      BY <2>1 DEF Late, Tab, Slot
    <3>2. late' \in [Button -> Late]
      BY <1>2, <2>1, <2>4, <3>1 DEF AwaitOptions
    <3>3. UNCHANGED <<slotVars, outdated>> /\ options' \in Options
      BY <1>1, <2>4 DEF AwaitOptions
    <3>4. TabLoadsInv'
      BY <1>1, <2>2, <3>3, SameQueryKeeps
    <3>5. QED
      BY <1>1, <2>2, <3>2, <3>3, <3>4 DEF RestType
  <2>5. CASE /\ RefreshTab(was.tab, was.query)
             /\ late' = [late EXCEPT !["sync"] = NotLate] /\ UNCHANGED options
    <3>1. TabLoadsInv' /\ outdated' \in BOOLEAN
      BY <1>1, <2>1, <2>2, <2>5, RefreshKeeps
    <3>2. QED
      BY <1>1, <2>2, <2>3, <2>5, <3>1 DEF RestType
  <2>6. CASE /\ late' = [late EXCEPT !["sync"] = NotLate]
             /\ UNCHANGED <<slotVars, options, outdated>>
    <3>1. TabLoadsInv'
      BY <1>1, <2>2, <2>6, SameQueryKeeps
    <3>2. QED
      BY <1>1, <2>2, <2>3, <2>6, <3>1 DEF RestType
  <2>7. QED
    BY <1>8, <2>4, <2>5, <2>6 DEF SyncReturns
<1>9. ASSUME NEW b \in Button, RefreshGoesOn(b) PROVE TabLoadsInv' /\ RestType'
  <2>1. late[b].tab \in Tab /\ late[b].query \in Query
    BY <1>1 DEF Late
  <2>2. /\ RefreshTab(late[b].tab, late[b].query) /\ UNCHANGED <<tab, choice, options>>
        /\ late' = [late EXCEPT ![b] = NotLate]
    BY <1>9 DEF RefreshGoesOn
  <2>3. TabLoadsInv' /\ outdated' \in BOOLEAN
    BY <1>1, <2>1, <2>2, RefreshKeeps
  <2>4. late' \in [Button -> Late]
    BY <1>2, <2>2
  <2>5. QED
    BY <1>1, <2>2, <2>3, <2>4 DEF RestType
<1>10. ASSUME NEW t \in Tab, OpenTab(t) PROVE TabLoadsInv' /\ RestType'
  <2>1. TabLoadsInv'
    BY <1>10, OpenTabKeeps
  <2>2. options' \in Options
    BY <1>1, <1>10 DEF OpenTab, Options
  <2>3. QED
    BY <1>1, <1>2, <1>10, <2>1, <2>2 DEF OpenTab, RestType
<1>11. ASSUME NEW r \in TabRange, SelectTabRange(r) PROVE TabLoadsInv' /\ RestType'
  <2> DEFINE c == [choice EXCEPT !.range = r, !.page = 1]
  <2>1. c \in Query
    BY <1>1, ChoiceType
  <2>2. /\ choice' = c /\ UNCHANGED tab
        /\ options' \in {options, Asking(options)} /\ late' \in {late, Woken}
        /\ IF tab \in {"events", "analysis"} THEN LoadActive(choice')
           ELSE UNCHANGED <<slotVars, outdated>>
    BY <1>11 DEF SelectTabRange, AskOptions
  <2> HIDE DEF c
  <2>3. TabLoadsInv' /\ outdated' \in BOOLEAN
    <3>1. CASE tab \in {"events", "analysis"}
      <4>1. LoadActive(c)
        BY <2>2, <3>1
      <4>2. QED
        BY <2>1, <2>2, <4>1, LoadActiveKeeps DEF LoadActive
    <3>2. CASE tab \notin {"events", "analysis"}
      <4>1. tab \in {"credentials", "elsewhere"}
        BY <1>1, <3>2 DEF Tab, Slot
      <4>2. QED
        BY <1>1, <2>1, <2>2, <3>2, <4>1, SameQueryKeeps
    <3>3. QED
      BY <3>1, <3>2
  <2>4. QED
    BY <1>1, <1>2, <2>1, <2>2, <2>3 DEF RestType
<1>12. ASSUME NEW c \in Query, c.range = choice.range, ChooseEvents(c), AskOptions, UNCHANGED tab
       PROVE  TabLoadsInv' /\ RestType'
  <2>1. TabLoadsInv' /\ choice' \in Query /\ outdated' \in BOOLEAN
    BY <1>12, ChooseKeeps
  <2>2. QED
    BY <1>1, <1>2, <1>12, <2>1 DEF AskOptions, RestType
<1>13. ASSUME NEW f \in Filter, FilterEvents(f) PROVE TabLoadsInv' /\ RestType'
  <2>1. [choice EXCEPT !.filter = f, !.page = 1] \in Query
    BY <1>1, ChoiceType
  <2>2. [choice EXCEPT !.filter = f, !.page = 1].range = choice.range
    BY <1>1 DEF Query
  <2>3. QED
    BY <1>12, <1>13, <2>1, <2>2 DEF FilterEvents
<1>14. ASSUME NEW p \in 1..Pages, TurnPage(p) PROVE TabLoadsInv' /\ RestType'
  <2>1. [choice EXCEPT !.page = p] \in Query
    BY <1>1, ChoiceType
  <2>2. [choice EXCEPT !.page = p].range = choice.range
    BY <1>1 DEF Query
  <2>3. QED
    BY <1>12, <1>14, <2>1, <2>2 DEF TurnPage
<1>15. CASE PressRefresh
  <2>1. CASE AwaitOptions("refresh", choice)
    <3>1. [at |-> "options", tab |-> "events", query |-> choice] \in Late /\ "refresh" \in Button
      BY <1>1 DEF Late, Tab, Slot, Button
    <3>2. late' \in [Button -> Late]
      BY <1>2, <2>1, <3>1 DEF AwaitOptions
    <3>3. UNCHANGED <<slotVars, outdated, tab, choice>> /\ options' \in Options
      BY <1>1, <1>15, <2>1 DEF AwaitOptions, PressRefresh
    <3>4. TabLoadsInv'
      BY <1>1, <3>3, SameQueryKeeps
    <3>5. QED
      BY <1>1, <3>2, <3>3, <3>4 DEF RestType
  <2>2. CASE RefreshTab(tab, QueryOf(tab, choice)) /\ UNCHANGED <<options, late>>
    <3>1. UNCHANGED <<tab, choice>>
      BY <1>15 DEF PressRefresh
    <3>2. TabLoadsInv' /\ outdated' \in BOOLEAN
      BY <1>1, <1>asked, <2>2, <3>1, RefreshKeeps
    <3>3. QED
      BY <1>1, <2>2, <3>1, <3>2 DEF RestType
  <2>3. QED
    BY <1>15, <2>1, <2>2 DEF PressRefresh
<1>16. CASE PressSync
  <2>1. TabLoadsInv'
    BY <1>1, <1>16, SameQueryKeeps DEF PressSync
  <2>2. /\ [at |-> "backend", tab |-> tab, query |-> QueryOf(tab, choice)] \in Late
        /\ "sync" \in Button
    BY <1>1, <1>asked DEF Late, Button
  <2>3. late' \in [Button -> Late]
    BY <1>2, <1>16, <2>2 DEF PressSync
  <2>4. QED
    BY <1>1, <1>16, <2>1, <2>3 DEF PressSync, RestType
<1>17. CASE UNCHANGED tabVars
  <2>1. TabLoadsInv'
    BY <1>1, <1>17, SameQueryKeeps DEF tabVars, slotVars
  <2>2. QED
    BY <1>1, <1>17, <2>1 DEF tabVars, RestType
<1>18. QED
  BY <1>3, <1>4, <1>5, <1>6, <1>7, <1>8, <1>9, <1>10, <1>11, <1>13, <1>14, <1>15, <1>16, <1>17
  DEF TabNext, Answers, Actions

LEMMA TabInvariant == TabSpec => []TabInv
BY TabInvInit, TabInvStep, PTL DEF TabSpec

(***************************************************************************)
(* The state of the tabs keeps its type, the queries of their requests     *)
(* among them, for any ranges, models and number of pages.                 *)
(***************************************************************************)
THEOREM TabTypeCorrect == TabSpec => []TabTypeOK
<1>1. TabInv => TabTypeOK
  BY DEF TabInv
<1>2. QED
  BY <1>1, TabInvariant, PTL

(***************************************************************************)
(* In every order of tab changes, selections, refreshes, syncs, answers,   *)
(* failures and pages that have gone, a tab's spinner turns exactly while  *)
(* its request is under way, and the open tab, once it is at rest, shows   *)
(* what the selection asks for, unless a late refresh has overtaken it.    *)
(***************************************************************************)
THEOREM TabsAreConsistent == TabSpec => []TabsConsistent
<1>1. TabInv => TabsConsistent
  BY DEF TabInv, TabsConsistent, TabShows, TabShowsSelection, Follows
<1>2. QED
  BY <1>1, TabInvariant, PTL

-----------------------------------------------------------------------------
(* The types of the parts. *)

(* The dialogs keep their types, and no more of them hold the page than there are. *)
THEOREM DialogsTypeCorrect == ModalSpec => []ModalTypeOK
<1>1. ModalInv => ModalTypeOK
  <2> SUFFICES ASSUME ModalInv PROVE ModalTypeOK
    OBVIOUS
  <2>1. ScrollInv /\ DialogInv /\ FocusInv
    BY DEF ModalInv
  <2>2. /\ mounted \subseteq Dialog /\ opened \subseteq isVisible /\ isVisible \subseteq mounted
        /\ closeTimer \in [Dialog -> {"none", "quiet", "notify"}]
        /\ isClosing \subseteq isVisible
    BY <2>1 DEF DialogInv
  <2>3. activeModalCount \in 0..Cardinality(Dialog)
    <3>1. /\ IsFiniteSet(Dialog) /\ isVisible \subseteq Dialog /\ Cardinality(isVisible) \in Nat
          /\ activeModalCount = Cardinality(isVisible)
      BY <2>1, <2>2, ModalAssumption, FS_CardinalityType DEF ScrollInv
    <3>2. Cardinality(isVisible) <= Cardinality(Dialog) /\ Cardinality(Dialog) \in Nat
      BY <3>1, FS_Subset, FS_CardinalityType
    <3>3. QED
      BY <3>1, <3>2
  <2>4. /\ scrollLock \in PageState /\ snapshot \in PageState /\ place \in 0..MaxScroll
    BY <2>1 DEF ScrollInv
  <2>5. focus \in Element /\ focusTimer \subseteq Dialog /\ focusBack \in [Dialog -> Element]
    BY <2>1, <2>2 DEF FocusInv
  <2>6. QED
    BY <2>2, <2>3, <2>4, <2>5 DEF ModalTypeOK
<1>2. QED
  BY <1>1, ModalInvInit, ModalInvStep, PTL DEF ModalSpec

(* What SelectInv does not say of the types. *)
SelectRest ==
  /\ choices \in OptionLists /\ chosen \in OptionValues /\ stale \in BOOLEAN
  /\ placed \in {DropdownStyle(l) : l \in Layouts}

LEMMA SelectRestStep ==
  ASSUME SelectInv, SelectRest, [SelectNext]_selectVars
  PROVE  SelectRest'
<1> USE DEF SelectRest
<1>1. layout \in Layouts
  BY DEF SelectInv
<1>2. DropdownStyle(layout) \in {DropdownStyle(l) : l \in Layouts}
  BY <1>1
<1>3. CASE OpenList
  BY <1>2, <1>3 DEF OpenList, ShowList
<1>4. CASE CloseList
  BY <1>4 DEF CloseList, HideList
<1>5. ASSUME NEW i, HighlightAt(i) PROVE SelectRest'
  BY <1>5 DEF HighlightAt
<1>6. ASSUME NEW i, CommitSelection(i) PROVE SelectRest'
  <2>1. PICK j \in DOMAIN choices : i = j - 1
    BY <1>6 DEF CommitSelection, Positions
  <2>2. choices \in Seq(OptionValues)
    BY DEF SelectInv
  <2>3. j \in Int /\ i + 1 = j
    BY <2>1, <2>2
  <2>4. chosen' \in OptionValues
    BY <1>6, <2>1, <2>3 DEF CommitSelection, OptionValues
  <2>5. QED
    BY <1>6, <2>4 DEF CommitSelection, HideList
<1>7. ASSUME NEW l \in OptionLists, ChangeOptions(l) PROVE SelectRest'
  <2>1. stale' \in BOOLEAN
    <3>1. stale' = (highlighted >= 0)
      BY <1>7 DEF ChangeOptions
    <3>2. CASE highlighted >= 0
      BY <3>1, <3>2
    <3>3. CASE ~(highlighted >= 0)
      BY <3>1, <3>3
    <3>4. QED
      BY <3>2, <3>3
  <2>2. QED
    BY <1>7, <2>1 DEF ChangeOptions
<1>8. ASSUME NEW v \in OptionValues, ChangeValue(v) PROVE SelectRest'
  BY <1>8 DEF ChangeValue
<1>9. CASE SetDisabled
  BY <1>2, <1>9 DEF SetDisabled, ShowList, HideList
<1>10. ASSUME NEW l \in Layouts, ViewportChange(l) PROVE SelectRest'
  BY <1>10 DEF ViewportChange
<1>11. CASE NextFrame
  BY <1>2, <1>11 DEF NextFrame
<1>12. CASE UNCHANGED selectVars
  BY <1>12 DEF selectVars
<1>13. QED
  BY <1>3, <1>4, <1>5, <1>6, <1>7, <1>8, <1>9, <1>10, <1>11, <1>12
  DEF SelectNext, PressEnter, ClickOption, PointAt, MoveHighlight, PressHome, PressEnd

(* The lists keep their types: what is chosen is an option of some list, and a list lies
   where some button of the window would place it. *)
THEOREM ListsTypeCorrect == SelectSpec => []SelectTypeOK
<1>1. SelectInit => SelectRest
  BY DEF SelectInit, SelectRest
<1>2. SelectInv /\ SelectRest => SelectTypeOK
  BY DEF SelectInv, SelectRest, SelectTypeOK
<1>3. SelectInv /\ SelectRest /\ [SelectNext]_selectVars => SelectRest'
  BY SelectRestStep
<1>4. QED
  BY <1>1, <1>2, <1>3, SelectInvInit, SelectInvStep, PTL DEF SelectSpec

(* A tooltip is of a block that some answer has, whatever answers come after it. *)
THEOREM TooltipsTypeCorrect == HealthSpec => []HealthTypeOK
<1>1. ASSUME HealthInit PROVE HealthTypeOK
  BY <1>1 DEF HealthInit, HealthTypeOK, NoTip
<1>2. ASSUME HealthTypeOK, [HealthNext]_healthVars PROVE HealthTypeOK'
  <2> USE <1>2 DEF HealthTypeOK
  <2>1. \A i, s : BuildTooltipState(i, s).idx = i
    BY DEF BuildTooltipState
  <2>2. NoTip.idx = None
    BY DEF NoTip
  <2>3. ASSUME NEW i \in Block, PointerEnter(i) \/ Touch(i) \/ Focus(i) PROVE HealthTypeOK'
    <3>4. Open(i) \/ Close
      BY <2>3 DEF PointerEnter, Touch, Focus
    <3>5. tip'.idx \in {i, None} /\ attached' \in BOOLEAN /\ relaid' \in BOOLEAN
      <4>1. CASE Open(i)
        BY <2>1, <4>1 DEF Open
      <4>2. CASE Close
        BY <2>2, <4>2 DEF Close
      <4>3. QED
        BY <3>4, <4>1, <4>2
    <3>1. /\ tip'.idx \in Block \cup {None} /\ attached' \in BOOLEAN /\ relaid' \in BOOLEAN
          /\ grid' = grid /\ scroll' = scroll
      BY <2>3, <3>5 DEF PointerEnter, Touch, Focus
    <3>2. mouse' \in {mouse, i} /\ focused' \in {focused, i}
      BY <2>3 DEF PointerEnter, Touch, Focus
    <3>3. QED
      BY <3>1, <3>2
  <2>4. CASE PointerLeave \/ PressOutside \/ Blur
    BY <2>2, <2>4 DEF PointerLeave, PressOutside, Blur, Close
  <2>5. ASSUME NEW s \in Scrolls, ScrollTo(s) PROVE HealthTypeOK'
    <3>1. tip'.idx \in Block \cup {None} /\ attached' \in BOOLEAN /\ relaid' \in BOOLEAN
      BY <2>1, <2>2, <2>5 DEF ScrollTo, Close
    <3>2. QED
      BY <2>5, <3>1 DEF ScrollTo
  <2>6. ASSUME NEW n \in GridSizes, ShowHealth(n) PROVE HealthTypeOK'
    <3>1. attached' \in BOOLEAN /\ relaid' \in BOOLEAN
      BY <2>6, Zenon DEF ShowHealth
    <3>2. mouse' \in {mouse, None} /\ focused' \in {focused, None}
      BY <2>6 DEF ShowHealth
    <3>3. grid' = n /\ tip' = tip /\ scroll' = scroll
      BY <2>6 DEF ShowHealth
    <3>4. QED
      BY <3>1, <3>2, <3>3
  <2>7. CASE UNCHANGED healthVars
    BY <2>7 DEF healthVars
  <2>8. QED
    BY <2>3, <2>4, <2>5, <2>6, <2>7 DEF HealthNext
<1>3. QED
  BY <1>1, <1>2, PTL DEF HealthSpec

(* What storage holds is what a page has saved, in every order of changes and visits. *)
THEOREM PreferencesTypeCorrect == PrefSpec => []PrefTypeOK
<1> DEFINE SystemInv == system \in {"light", "dark"}
<1>1. PrefInit => SystemInv
  BY DEF PrefInit
<1>2. SystemInv /\ [PrefNext]_prefVars => SystemInv'
  BY DEF PrefNext, prefVars, OpenPage, SetTheme, CycleTheme, SystemThemeChanges, ChangeLanguage,
     ChangeTab, ChangeRange, ChangeDates, OverviewLoads, OverviewReloads, ChangeLines, AddLine,
     RemoveLine, ChangeLine, Change
<1>3. PrefInv /\ SystemInv => PrefTypeOK
  <2> SUFFICES ASSUME PrefInv, system \in {"light", "dark"} PROVE PrefTypeOK
    OBVIOUS
  <2>1. prefs \in Preferences /\ Saved /\ known \subseteq LineModel /\ ready \in BOOLEAN
    BY DEF PrefInv, ChoiceInv
  <2>2. saved \in Stored
    <3>1. PICK l \in {"en", "zh", "other"} : saved = [prefs EXCEPT !.language = l]
      BY <2>1 DEF Saved
    <3>2. saved \in {[p EXCEPT !.language = l] : p \in Preferences}
      BY <2>1, <3>1
    <3>3. QED
      BY <3>2 DEF Stored
  <2>3. prefs.theme \in Theme
    BY <2>1 DEF Preferences
  <2>4. /\ applied \in {"light", "white", "dark"} /\ resolved \in {"light", "dark"}
    BY <2>3 DEF PrefInv, ThemeInv, ResolveTheme, NormalizeResolved, Theme
  <2>5. QED
    BY <2>1, <2>2, <2>4 DEF PrefTypeOK
<1>4. QED
  <2> HIDE DEF SystemInv
  <2>1. QED
    BY <1>1, <1>2, <1>3, PrefInvInit, PrefInvStep, PTL DEF PrefSpec

(* The store keeps its types, whatever answers arrive for whatever range. *)
THEOREM StoreTypeCorrect == StoreSpec => []StoreTypeOK
<1>1. StoreInv => StoreTypeOK
  BY DEF StoreInv
<1>2. QED
  BY <1>1, StoreInvInit, StoreInvStep, PTL DEF StoreSpec

-----------------------------------------------------------------------------
(* The session. *)

LEMMA RequestTypes ==
  ASSUME SessionTypeOK, NEW k \in Kind
  PROVE  /\ sent[k] \in {NotSent, Due} \/ sent[k] \in [cred : Credentials, answer : Answer]
         /\ NotSent.answer = "idle" /\ Due.answer = "due"
BY DEF SessionTypeOK, NotSent, Due

(* A request that is sent, answered or forgotten. *)
LEMMA SentType ==
  ASSUME SessionTypeOK, NEW k \in Kind,
         NEW r \in {NotSent, Due} \cup [cred : Credentials, answer : Answer],
         sent' = [sent EXCEPT ![k] = r]
  PROVE  sent' \in [Kind -> {NotSent, Due} \cup [cred : Credentials, answer : Answer]]
BY DEF SessionTypeOK

LEMMA AskedType ==
  ASSUME SessionTypeOK
  PROVE  /\ NotAsked \in Ask /\ asked \in Ask
         /\ asked.session \in Credentials /\ asked.answer \in Answer
         /\ \A a \in Answer : [asked EXCEPT !.answer = a] \in Ask
         /\ \A s \in Credentials, a \in Answer : [asked EXCEPT !.session = s, !.answer = a] \in Ask
<1>1. asked \in Ask
  BY DEF SessionTypeOK
<1>2. NotAsked \in Ask
  BY SessionAssumption DEF NotAsked, Ask, Credentials, Answer
<1>3. asked.session \in Credentials /\ asked.answer \in Answer
  BY <1>1 DEF Ask
<1>4. ASSUME NEW a \in Answer PROVE [asked EXCEPT !.answer = a] \in Ask
  BY <1>1 DEF Ask
<1>5. ASSUME NEW s \in Credentials, NEW a \in Answer
      PROVE  [asked EXCEPT !.session = s, !.answer = a] \in Ask
  BY <1>1 DEF Ask
<1>6. QED
  BY <1>1, <1>2, <1>3, <1>4, <1>5

LEMMA CredentialType ==
  ASSUME SessionTypeOK
  PROVE  Credential \in Credentials /\ Sent \in [cred : Credentials, answer : Answer]
<1>1. Credential \in Credentials
  BY DEF SessionTypeOK, Credential
<1>2. QED
  BY <1>1 DEF Sent, Answer

(* Every request is in one state with the credential it was sent with, and failed attempts stay
   within the limit, for any number of logins, attempts and requests under way. *)
THEOREM SessionTypeCorrect == SessionSpec => []SessionTypeOK
<1>1. ASSUME SessionInit PROVE SessionTypeOK
  <2>1. created \in Credentials /\ 1..created \subseteq Session /\ 0..created \subseteq Credentials
    BY <1>1, SessionAssumption DEF SessionInit, Credentials, Session
  <2>2. cookie \in Credentials /\ token \in Credentials
    BY <1>1, <2>1 DEF SessionInit
  <2>3. NotAsked \in Ask /\ 0 \in 0..MaxFailed
    BY SessionAssumption DEF NotAsked, Ask, Credentials, Answer
  <2>4. QED
    BY <1>1, <2>1, <2>2, <2>3 DEF SessionInit, SessionTypeOK
<1>2. ASSUME SessionTypeOK, [SessionNext]_sessionVars PROVE SessionTypeOK'
  <2>1. 0 \in Credentials /\ NotAsked \in Ask
    <3>1. 0 \in Credentials
      BY SessionAssumption DEF Credentials
    <3>2. QED
      BY <1>2, <3>1, AskedType
  <2>2. ASSUME NEW s \in Session, SessionExpires(s) PROVE SessionTypeOK'
    <3>1. cookie' \in Credentials /\ valid' \subseteq Session
      BY <1>2, <2>1, <2>2 DEF SessionExpires, SessionTypeOK
    <3>2. QED
      BY <1>2, <2>2, <3>1 DEF SessionExpires, SessionTypeOK
  <2>3. CASE ServerRestarts
    BY <1>2, <2>3, SessionAssumption DEF ServerRestarts, SessionTypeOK
  <2>4. CASE ServeSession
    <3>1. asked' \in Ask
      BY <1>2, <2>4, AskedType DEF ServeSession, Answer
    <3>2. QED
      BY <1>2, <2>4, <3>1 DEF ServeSession, serverVars, SessionTypeOK
  <2>5. CASE ServeWrongPassword
    <3>1. asked' \in Ask
      BY <1>2, <2>5, AskedType DEF ServeWrongPassword, Answer
    <3>2. attempts' \in 0..MaxFailed
      BY <1>2, <2>5, SessionAssumption DEF ServeWrongPassword, RecordFailedAttempt, SessionTypeOK
    <3>3. QED
      BY <1>2, <2>5, <3>1, <3>2 DEF ServeWrongPassword, SessionTypeOK
  <2>6. CASE ServeLogin
    <3>1. created + 1 \in Session /\ created + 1 \in Credentials /\ 0 \in 0..MaxFailed
      BY <1>2, <2>6, SessionAssumption DEF ServeLogin, SessionTypeOK, Session, Credentials
    <3>2. asked' \in Ask
      BY <1>2, <2>6, <3>1, AskedType DEF ServeLogin, Answer
    <3>3. QED
      BY <1>2, <2>6, <3>1, <3>2 DEF ServeLogin, SessionTypeOK
  <2>7. CASE ConnectionFails
    <3>1. asked' \in Ask
      BY <1>2, <2>7, AskedType DEF ConnectionFails, Answer
    <3>2. QED
      BY <1>2, <2>7, <3>1 DEF ConnectionFails, serverVars, SessionTypeOK
  <2>8. CASE OpenApp
    <3>1. asked' \in Ask
      BY <1>2, <2>8, CredentialType DEF OpenApp, Ask, Answer
    <3>2. sent' \in [Kind -> {NotSent, Due} \cup [cred : Credentials, answer : Answer]]
      BY <2>8 DEF OpenApp
    <3>3. QED
      BY <1>2, <2>8, <3>1, <3>2 DEF OpenApp, serverVars, SessionTypeOK
  <2>9. CASE SessionChecked
    BY <1>2, <2>1, <2>9 DEF SessionChecked, serverVars, SessionTypeOK
  <2>10. CASE SubmitLogin
    <3>1. asked' \in Ask
      BY <2>1, <2>10 DEF SubmitLogin, Ask, Answer
    <3>2. QED
      BY <1>2, <2>10, <3>1 DEF SubmitLogin, serverVars, SessionTypeOK
  <2>11. CASE LoginAnswered
    <3>1. cookie' \in Credentials /\ token' \in Credentials
      BY <1>2, <2>1, <2>11, AskedType DEF LoginAnswered, SessionTypeOK
    <3>2. QED
      BY <1>2, <2>1, <2>11, <3>1 DEF LoginAnswered, serverVars, SessionTypeOK
  <2>12. ASSUME NEW k \in Kind, Send(k) PROVE SessionTypeOK'
    <3>1. sent' \in [Kind -> {NotSent, Due} \cup [cred : Credentials, answer : Answer]]
      BY <1>2, <2>12, CredentialType, SentType DEF Send
    <3>2. QED
      BY <1>2, <2>12, <3>1 DEF Send, serverVars, SessionTypeOK
  <2>13. CASE Requests \/ FetchStatus
    <3>1. PICK k \in Kind : Send(k)
      BY <2>13 DEF Requests, FetchUsageOverview, FetchUsageEventFilterOptions, FetchUsageEvents,
         FetchUsageIdentities, FetchUsageAnalysis, FetchUsedModels, FetchStatus, TriggerSync,
         FetchPricing, UpdatePricing, DeletePricing, Kind, Lasting, Syncing
    <3>2. QED
      BY <2>12, <3>1
  <2>14. ASSUME NEW k \in Kind, ServeRequest(k) PROVE SessionTypeOK'
    <3>1. sent[k] \in [cred : Credentials, answer : Answer]
      BY <1>2, <2>14, RequestTypes DEF ServeRequest
    <3>2. PICK a \in {"error", "ok", "refused"} : sent' = [sent EXCEPT ![k].answer = a]
      BY <2>14 DEF ServeRequest
    <3>3. [sent[k] EXCEPT !.answer = a] \in [cred : Credentials, answer : Answer]
      BY <3>1 DEF Answer
    <3>4. sent' = [sent EXCEPT ![k] = [sent[k] EXCEPT !.answer = a]]
      BY <3>2
    <3>5. sent' \in [Kind -> {NotSent, Due} \cup [cred : Credentials, answer : Answer]]
      BY <1>2, <3>3, <3>4, SentType
    <3>6. QED
      BY <1>2, <2>14, <3>5 DEF ServeRequest, serverVars, SessionTypeOK
  <2>15. ASSUME NEW k \in Kind, RequestAnswered(k) PROVE SessionTypeOK'
    <3>1. sent' \in [Kind -> {NotSent, Due} \cup [cred : Credentials, answer : Answer]]
      BY <1>2, <2>15, SentType DEF RequestAnswered
    <3>2. QED
      BY <1>2, <2>15, <3>1 DEF RequestAnswered, serverVars, SessionTypeOK
  <2>16. ASSUME NEW k \in Kind, RequestRefused(k) PROVE SessionTypeOK'
    <3>1. sent' \in [Kind -> {NotSent, Due} \cup [cred : Credentials, answer : Answer]]
      BY <1>2, <2>16 DEF RequestRefused, SessionTypeOK
    <3>2. QED
      BY <1>2, <2>1, <2>16, <3>1 DEF RequestRefused, serverVars, SessionTypeOK
  <2>17. ASSUME NEW k \in Kind, RequestAborted(k) PROVE SessionTypeOK'
    <3>1. sent' \in [Kind -> {NotSent, Due} \cup [cred : Credentials, answer : Answer]]
      BY <1>2, <2>17, SentType DEF RequestAborted
    <3>2. token' \in Credentials
      BY <1>2, <2>1, <2>17 DEF RequestAborted, SessionTypeOK
    <3>3. QED
      BY <1>2, <2>17, <3>1, <3>2 DEF RequestAborted, serverVars, SessionTypeOK
  <2>18. CASE SyncAnswered \/ RefreshStatus \/ SyncStatusRefused \/ \E k \in Kind : SyncFails(k)
    <3>1. {"sync", "synced", "unsynced"} \subseteq Kind
      BY DEF Kind, Lasting, Syncing
    <3>2. sent' \in [Kind -> {NotSent, Due} \cup [cred : Credentials, answer : Answer]]
      BY <1>2, <2>18, <3>1, CredentialType
      DEF SyncAnswered, RefreshStatus, SyncStatusRefused, SyncFails, SessionTypeOK
    <3>3. token' \in Credentials /\ UNCHANGED <<valid, created, attempts, cookie, app, asked>>
      BY <1>2, <2>1, <2>18
      DEF SyncAnswered, RefreshStatus, SyncStatusRefused, SyncFails, serverVars, SessionTypeOK
    <3>4. QED
      BY <1>2, <3>2, <3>3 DEF SessionTypeOK
  <2>19. CASE UNCHANGED sessionVars
    BY <1>2, <2>19 DEF sessionVars, SessionTypeOK
  <2>20. QED
    BY <1>2, <2>2, <2>3, <2>4, <2>5, <2>6, <2>7, <2>8, <2>9, <2>10, <2>11, <2>13, <2>14, <2>15,
       <2>16, <2>17, <2>18, <2>19 DEF SessionNext, AnswerOf
<1>3. QED
  BY <1>1, <1>2, PTL DEF SessionSpec
=============================================================================
