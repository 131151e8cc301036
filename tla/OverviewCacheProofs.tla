------------------------ MODULE OverviewCacheProofs ------------------------
(***************************************************************************)
(* What holds of the overview cache for any finite number of requests, any *)
(* number of refreshers and any TTL.                                       *)
(***************************************************************************)
EXTENDS OverviewCache, Integers, TLAPS, FunctionTheorems, FiniteSetTheorems

(* There is always a number no waiting request holds. *)
LEMMA ChannelExists ==
  ASSUME waits \in [Caller -> Nat]
  PROVE  NewChannel \in Nat \ {0}
<1> DEFINE N == Cardinality(Caller) + 1
           held == {waits[c] : c \in Caller}
           f == [c \in Caller |-> waits[c]]
<1>1. IsFiniteSet(Caller) /\ N \in Nat
  BY BuilderAssumption, FS_CardinalityType
<1>2. IsFiniteSet(held) /\ Cardinality(held) < N
  <2>1. f \in Surjection(Caller, held)
    BY DEF Surjection
  <2>2. IsFiniteSet(held) /\ Cardinality(held) <= Cardinality(Caller)
    BY <1>1, <2>1, FS_Surjection
  <2>3. QED
    BY <1>1, <2>2, FS_CardinalityType
<1>3. ~(1..N \subseteq held)
  <2>1. SUFFICES ASSUME 1..N \subseteq held
                 PROVE  FALSE
    OBVIOUS
  <2>2. Cardinality(1..N) = N
    BY <1>1, FS_Interval
  <2>3. Cardinality(1..N) <= Cardinality(held) /\ Cardinality(held) \in Nat
    BY <1>2, <2>1, FS_Subset, FS_CardinalityType
  <2>4. QED
    BY <1>1, <1>2, <2>2, <2>3
<1>4. \E n \in 1..N : \A c \in Caller : waits[c] # n
  BY <1>3
<1>5. NewChannel \in 1..N
  BY <1>4 DEF NewChannel
<1>6. QED
  BY <1>1, <1>5

(***************************************************************************)
(* What a builder holds is no older than what the cache holds, and neither *)
(* is from the future.                                                     *)
(***************************************************************************)
OrderInv ==
  /\ value # NoValue => value <= added
  /\ \A b \in Builder : pc[b] = "finish" /\ built[b] # NoValue =>
       /\ built[b] <= added
       /\ value # NoValue => value <= built[b]

CacheInv == CacheTypeOK /\ SingleFlight /\ OrderInv

(* A step that touches neither cache nor builders. *)
LEMMA CacheUndisturbed ==
  ASSUME CacheInv, CacheTypeOK', UNCHANGED <<refreshing, ready, value, built>>, added <= added',
         \A b \in Builder : pc'[b] \in {"build", "finish"} <=> pc[b] \in {"build", "finish"},
         \A b \in Builder : pc'[b] = "finish" <=> pc[b] = "finish"
  PROVE  CacheInv'
<1>1. Building' = Building
  BY DEF Building
<1>2. SingleFlight'
  BY <1>1 DEF CacheInv, SingleFlight
<1>3. added \in Nat /\ added' \in Nat /\ (value # NoValue => value \in Nat)
      /\ \A b \in Builder : built[b] # NoValue => built[b] \in Nat
  BY CacheAssumption DEF CacheInv, CacheTypeOK, Overview
<1>4. OrderInv'
  BY <1>3 DEF CacheInv, OrderInv
<1>5. QED
  BY <1>2, <1>4 DEF CacheInv

(* A builder that enters when nobody builds. *)
LEMMA BuildBegins ==
  ASSUME CacheInv, CacheTypeOK', NEW b \in Builder, ~refreshing, refreshing', ready' # 0,
         UNCHANGED <<value, built, added>>, pc'[b] = "build",
         \A d \in Builder \ {b} : pc'[d] \notin {"build", "finish"} \/ pc'[d] = pc[d]
  PROVE  CacheInv'
<1>1. Building = {}
  BY DEF CacheInv, SingleFlight
<1>2. Building' = {b}
  BY <1>1 DEF Building
<1>3. SingleFlight'
  BY <1>2 DEF SingleFlight
<1>4. OrderInv'
  BY <1>2 DEF CacheInv, OrderInv, Building
<1>5. QED
  BY <1>3, <1>4 DEF CacheInv

LEMMA CacheInductive ==
  ASSUME CacheInv, [CacheNext]_overviewVars
  PROVE  CacheInv'
<1> USE DEF CacheTypeOK
<1>0. /\ CacheTypeOK /\ MaxAdded \in Nat /\ TTL \in Nat
      /\ Caller \subseteq Builder /\ Refresher \subseteq Builder
  BY CacheAssumption DEF CacheInv, Builder
<1>1. ASSUME NEW c \in Caller, Call(c) \/ ServeFresh(c)
      PROVE  CacheInv'
  <2>1. CacheTypeOK'
    BY <1>0, <1>1 DEF Call, ServeFresh, cacheVars
  <2>2. QED
    BY <1>0, <1>1, <2>1, CacheUndisturbed DEF Call, ServeFresh, cacheVars, Overview
<1>2. ASSUME NEW c \in Caller, Wait(c) \/ Wake(c)
      PROVE  CacheInv'
  <2>1. CacheTypeOK'
    BY <1>0, <1>2 DEF Wait, Wake, cacheVars
  <2>2. QED
    BY <1>0, <1>2, <2>1, CacheUndisturbed DEF Wait, Wake, cacheVars, Overview
<1>3. ASSUME NEW c \in Caller, ServeStale(c)
      PROVE  CacheInv'
  <2>1. CASE refreshing
    <3>1. CacheTypeOK' /\ UNCHANGED <<refreshing, ready, value, built, added>>
      BY <1>0, <1>3, <2>1 DEF ServeStale
    <3>2. pc' = [pc EXCEPT ![c] = "idle"] /\ pc[c] = "enter"
      BY <1>3, <2>1 DEF ServeStale
    <3>3. QED
      BY <1>0, <3>1, <3>2, CacheUndisturbed DEF Overview
  <2>2. CASE ~refreshing
    <3>1. PICK r \in Refresher : pc[r] = "idle" /\ pc' = [pc EXCEPT ![c] = "idle", ![r] = "build"]
      BY <1>3, <2>2 DEF ServeStale
    <3>2. refreshing' = TRUE /\ ready' = NewChannel /\ UNCHANGED <<value, age, waits, built, added, synced>>
      BY <1>3, <2>2 DEF ServeStale
    <3>3. NewChannel \in Nat \ {0}
      BY <1>0, ChannelExists
    <3>4. CacheTypeOK'
      BY <1>0, <3>1, <3>2, <3>3
    <3>5. pc'[r] = "build" /\ \A d \in Builder \ {r} : pc'[d] = "idle" \/ pc'[d] = pc[d]
      BY <1>0, <3>1
    <3>6. QED
      BY <1>0, <2>2, <3>2, <3>3, <3>4, <3>5, BuildBegins
  <2>3. QED
    BY <2>1, <2>2
<1>4. ASSUME NEW c \in Caller, StartBuild(c)
      PROVE  CacheInv'
  <2>1. NewChannel \in Nat \ {0}
    BY <1>0, ChannelExists
  <2>2. CacheTypeOK'
    BY <1>0, <1>4, <2>1 DEF StartBuild
  <2>3. QED
    BY <1>0, <1>4, <2>1, <2>2, BuildBegins DEF StartBuild
<1>5. ASSUME NEW b \in Builder, Build(b)
      PROVE  CacheInv'
  <2>1. PICK v \in {added, NoValue} : built' = [built EXCEPT ![b] = v]
    BY <1>5 DEF Build
  <2>2. CacheTypeOK' /\ UNCHANGED <<refreshing, ready, value, added>>
    BY <1>0, <1>5, <2>1 DEF Build, cacheVars
  <2>3. pc[b] = "build" /\ pc' = [pc EXCEPT ![b] = "finish"]
    BY <1>5 DEF Build
  <2>4. Building' = Building
    BY <1>0, <2>3 DEF Building
  <2>5. SingleFlight'
    BY <2>2, <2>4 DEF CacheInv, SingleFlight
  <2>6. OrderInv'
    BY <1>0, <2>1, <2>2, <2>3 DEF CacheInv, OrderInv, Overview
  <2>7. QED
    BY <2>2, <2>5, <2>6 DEF CacheInv
<1>6. ASSUME NEW b \in Builder, Finish(b)
      PROVE  CacheInv'
  <2>1. /\ pc[b] = "finish" /\ pc' = [pc EXCEPT ![b] = "idle"] /\ added' = added
        /\ refreshing' = FALSE /\ ready' = 0 /\ built' = [built EXCEPT ![b] = NoValue]
        /\ value' = IF built[b] # NoValue THEN built[b] ELSE value
    BY <1>6 DEF Finish
  <2>2. CacheTypeOK'
    <3>1. pc' \in [Builder -> {"idle", "enter", "wait", "build", "finish"}]
      BY <1>0, <2>1
    <3>2. built' \in [Builder -> Overview \cup {NoValue}] /\ value' \in Overview \cup {NoValue}
      BY <1>0, <2>1
    <3>3. age' \in 0..TTL
      BY <1>0, <1>6 DEF Finish
    <3>4. waits' \in [Caller -> Nat] /\ added' \in Overview /\ synced' \in Overview
      BY <1>0, <1>6 DEF Finish
    <3>5. QED
      BY <2>1, <3>1, <3>2, <3>3, <3>4
  <2>3. Building = {b}
    BY <2>1 DEF CacheInv, SingleFlight, Building
  <2>4. Building' = {}
    BY <1>0, <2>1, <2>3 DEF Building
  <2>5. SingleFlight'
    BY <2>1, <2>4 DEF SingleFlight
  <2>6. OrderInv'
    BY <2>1, <2>4 DEF CacheInv, OrderInv, Building
  <2>7. QED
    BY <2>2, <2>5, <2>6 DEF CacheInv
<1>7. CASE AddEvent
  <2>1. CacheTypeOK' /\ added <= added'
    BY <1>0, <1>7 DEF AddEvent, cacheVars, Overview
  <2>2. QED
    BY <1>7, <2>1, CacheUndisturbed DEF AddEvent, cacheVars
<1>8. CASE SyncNow \/ CacheAges
  <2>1. CacheTypeOK'
    BY <1>0, <1>8 DEF SyncNow, CacheAges, cacheVars
  <2>2. QED
    BY <1>0, <1>8, <2>1, CacheUndisturbed DEF SyncNow, CacheAges, cacheVars, Overview
<1>9. CASE UNCHANGED overviewVars
  <2>1. CacheTypeOK'
    BY <1>0, <1>9 DEF overviewVars, cacheVars
  <2>2. QED
    BY <1>0, <1>9, <2>1, CacheUndisturbed DEF overviewVars, cacheVars, Overview
<1>10. QED
  BY <1>1, <1>2, <1>3, <1>4, <1>5, <1>6, <1>7, <1>8, <1>9 DEF CacheNext, Enter, BuildStep

THEOREM CacheInvariant == CacheSpec => []CacheInv
<1>1. CacheInit => CacheInv
  <2>1. ASSUME CacheInit PROVE CacheTypeOK
    <3>1. 0 \in Overview /\ 0 \in 0..TTL
      BY CacheAssumption DEF Overview
    <3>2. /\ value \in Overview \cup {NoValue} /\ age \in 0..TTL /\ refreshing \in BOOLEAN
          /\ ready \in Nat /\ added \in Overview /\ synced \in Overview
      BY <2>1, <3>1 DEF CacheInit
    <3>3. /\ pc \in [Builder -> {"idle", "enter", "wait", "build", "finish"}]
          /\ waits \in [Caller -> Nat]
      BY <2>1 DEF CacheInit
    <3>4. built \in [Builder -> Overview \cup {NoValue}]
      BY <2>1 DEF CacheInit
    <3>5. QED
      BY <3>2, <3>3, <3>4 DEF CacheTypeOK
  <2>2. ASSUME CacheInit PROVE Building = {}
    BY <2>2 DEF CacheInit, Building
  <2>3. ASSUME CacheInit PROVE SingleFlight
    BY <2>2, <2>3 DEF CacheInit, SingleFlight
  <2>4. ASSUME CacheInit PROVE OrderInv
    BY <2>2, <2>4 DEF CacheInit, OrderInv
  <2>5. QED
    BY <2>1, <2>3, <2>4 DEF CacheInv
<1>2. CacheInv /\ [CacheNext]_overviewVars => CacheInv'
  BY CacheInductive
<1>3. QED
  BY <1>1, <1>2, PTL DEF CacheSpec

(* The cache keeps its types: an age up to the lifetime, and overviews of so many events. *)
THEOREM CacheTypeCorrect == CacheSpec => []CacheTypeOK
BY CacheInvariant, PTL DEF CacheInv

(* One overview is built at a time, and the cache knows whether one is. *)
THEOREM OneBuild == CacheSpec => []SingleFlight
BY CacheInvariant, PTL DEF CacheInv

(* The cached overview never goes back to fewer events and is never dropped.*)
THEOREM CacheNeverOlder == CacheSpec => NeverOlder
<1>1. ASSUME CacheInv, [CacheNext]_overviewVars, value # NoValue
      PROVE  value' # NoValue /\ value' >= value
  <2>1. value \in Nat
    BY <1>1, CacheAssumption DEF CacheInv, CacheTypeOK, Overview
  <2>2. value' = value \/ \E b \in Builder : Finish(b)
    BY <1>1 DEF CacheNext, Enter, BuildStep, overviewVars, cacheVars, Call, ServeFresh, ServeStale, Wait, Wake,
                StartBuild, Build, AddEvent, SyncNow, CacheAges
  <2>3. ASSUME NEW b \in Builder, Finish(b), built[b] # NoValue
        PROVE  value' # NoValue /\ value' >= value
    <3>1. value' = built[b] /\ value <= built[b]
      BY <1>1, <2>3 DEF Finish, CacheInv, OrderInv
    <3>2. built[b] \in Nat
      BY <1>1, <2>3, CacheAssumption DEF CacheInv, CacheTypeOK, Overview
    <3>3. QED
      BY <2>1, <2>3, <3>1, <3>2
  <2>4. ASSUME NEW b \in Builder, Finish(b), built[b] = NoValue
        PROVE  value' = value
    BY <2>4 DEF Finish
  <2>5. QED
    BY <1>1, <2>1, <2>2, <2>3, <2>4
<1>2. QED
  BY <1>1, CacheInvariant, PTL DEF CacheSpec, NeverOlder
=============================================================================
