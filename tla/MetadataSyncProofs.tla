------------------------- MODULE MetadataSyncProofs -------------------------
(***************************************************************************)
(* The statistics of the identities are exact and never go back, and the   *)
(* backfill numbers its events without gaps and leaves none out, for any   *)
(* identities, windows and number of syncs that overlap.                   *)
(***************************************************************************)
EXTENDS MetadataSync, TLAPS, WellFoundedInduction, FunctionTheorems, FiniteSetTheorems

-----------------------------------------------------------------------------
(* Least and greatest elements. *)

LEMMA LeastExists ==
  ASSUME NEW T \in SUBSET Nat, T # {}
  PROVE  Least(T) \in T /\ \A y \in T : Least(T) <= y
<1>1. PICK x \in T : \A y \in T : <<y, x>> \notin OpToRel(<, Nat)
  BY NatLessThanWellFounded, WFMin
<1>2. ASSUME NEW y \in T PROVE x <= y
  <2>1. <<y, x>> \notin {ss \in Nat \X Nat : ss[1] < ss[2]}
    BY <1>1 DEF OpToRel
  <2>2. QED
    BY <2>1
<1>3. QED
  BY <1>2 DEF Least

LEMMA GreatestExists ==
  ASSUME NEW T \in SUBSET Nat, T # {}, NEW n \in Nat, \A t \in T : t <= n
  PROVE  Greatest(T) \in T /\ \A y \in T : y <= Greatest(T)
<1> DEFINE D == {d \in Nat : \E t \in T : d = n - t}
<1>1. D \in SUBSET Nat /\ D # {}
  <2>1. PICK t \in T : TRUE
    OBVIOUS
  <2>2. n - t \in D
    BY <2>1
  <2>3. QED
    BY <2>2
<1>2. Least(D) \in D /\ \A d \in D : Least(D) <= d
  BY <1>1, LeastExists
<1>3. PICK x \in T : Least(D) = n - x
  BY <1>2
<1>4. ASSUME NEW y \in T PROVE y <= x
  <2>1. n - y \in D
    OBVIOUS
  <2>2. n - x <= n - y
    BY <1>2, <1>3, <2>1
  <2>3. QED
    BY <2>2
<1>5. QED
  BY <1>4 DEF Greatest

(* A finite set of naturals has a bound: a smallest one without would still
   have none without one of its elements. *)
LEMMA FiniteIsBounded ==
  ASSUME NEW T \in SUBSET Nat, IsFiniteSet(T)
  PROVE  \E n \in Nat : \A t \in T : t <= n
<1> DEFINE Bounded(U) == \E n \in Nat : \A u \in U : u <= n
           Sizes == {k \in Nat : \E U \in SUBSET Nat : IsFiniteSet(U) /\ Cardinality(U) = k /\ ~Bounded(U)}
<1>1. SUFFICES ASSUME ~Bounded(T) PROVE FALSE
  OBVIOUS
<1>2. Sizes # {}
  BY <1>1, FS_CardinalityType
<1>3. Least(Sizes) \in Sizes /\ \A k \in Sizes : Least(Sizes) <= k
  BY <1>2, LeastExists
<1>4. PICK U \in SUBSET Nat : IsFiniteSet(U) /\ Cardinality(U) = Least(Sizes) /\ ~Bounded(U)
  BY <1>3
<1>5. PICK u \in U : TRUE
  BY <1>4
<1>6. IsFiniteSet(U \ {u}) /\ Cardinality(U \ {u}) = Least(Sizes) - 1
  BY <1>4, <1>5, FS_RemoveElement
<1>7. Cardinality(U \ {u}) \in Nat /\ Cardinality(U \ {u}) \notin Sizes
  <2>1. Cardinality(U \ {u}) \in Nat
    BY <1>6, FS_CardinalityType
  <2>2. Least(Sizes) \in Nat
    BY <1>3
  <2> HIDE DEF Sizes
  <2>3. QED
    BY <1>3, <1>6, <2>1, <2>2
<1>8. Bounded(U \ {u})
  <2>1. U \ {u} \in SUBSET Nat
    BY <1>4
  <2>2. \A V \in SUBSET Nat : IsFiniteSet(V) /\ ~Bounded(V) /\ Cardinality(V) \in Nat
                              => Cardinality(V) \in Sizes
    OBVIOUS
  <2>3. QED
    BY <1>6, <1>7, <2>1, <2>2
<1>9. PICK n \in Nat : \A v \in U \ {u} : v <= n
  BY <1>8
<1>10. \A v \in U : v <= n + u
  BY <1>9, <1>5
<1>11. Bounded(U)
  BY <1>10, <1>5
<1>12. QED
  BY <1>4, <1>11

-----------------------------------------------------------------------------
(* Sets of numbered events and what adds up to their statistics. *)

Numbered(E) ==
  /\ IsFiniteSet(E) /\ E \subseteq UsageEvent
  /\ \A e \in E : e.id <= Cardinality(E)

Upto(E, i, n) == {e \in E : e.bucket.of = i /\ e.id <= n}
Beyond(E, i, n) == {e \in E : e.bucket.of = i /\ e.id > n}

Spans(S, st) ==
  /\ S = {} => st.first = NoTime /\ st.latest = NoTime
  /\ S # {} => /\ st.first \in Times(S) /\ st.latest \in Times(S)
               /\ \A t \in Times(S) : st.first <= t /\ t <= st.latest

AddsUp(E, i, st) ==
  /\ st.total = Cardinality(Upto(E, i, st.last))
  /\ st.failures = Cardinality(Failures(Upto(E, i, st.last)))
  /\ Spans(Upto(E, i, st.last), st)

(* Statistics that add up and whose cursor is the id of an event, or zero. *)
Sound(E, i, st) ==
  /\ AddsUp(E, i, st)
  /\ st.last = 0 \/ \E e \in E : e.bucket.of = i /\ e.id = st.last

LEMMA ExactIsAddsUp ==
  ASSUME NEW i, NEW st
  PROVE  Exact(i, st) <=> AddsUp(events, i, st)
BY DEF Exact, AddsUp, Spans, Counted, EventsOf, Upto

(* New events are numbered behind every cursor. *)
LEMMA SoundGrows ==
  ASSUME NEW E, NEW F, Numbered(E), E \subseteq F, F \subseteq UsageEvent,
         \A e \in F \ E : e.id > Cardinality(E),
         NEW i, NEW st \in Stats, Sound(E, i, st)
  PROVE  Sound(F, i, st)
<1>1. Cardinality(E) \in Nat
  BY FS_CardinalityType DEF Numbered
<1>2. st.last \in Nat /\ st.last <= Cardinality(E)
  BY <1>1 DEF Sound, Numbered, Stats
<1>3. \A e \in F : e.id \in Nat
  BY DEF UsageEvent
<1>4. Upto(F, i, st.last) = Upto(E, i, st.last)
  BY <1>1, <1>2, <1>3 DEF Upto
<1>5. QED
  BY <1>4 DEF Sound, AddsUp

(* No event is counted before the first. *)
LEMMA NoStatsSound ==
  ASSUME NEW E, E \subseteq UsageEvent, NEW i
  PROVE  NoStats \in Stats /\ Sound(E, i, NoStats)
<1>1. NoStats \in Stats
  BY DEF NoStats, Stats
<1>2. \A e \in E : e.id \in Nat \ {0}
  BY DEF UsageEvent
<1>3. Upto(E, i, 0) = {}
  BY <1>2 DEF Upto
<1>4. Failures({}) = {}
  BY DEF Failures
<1>5. QED
  BY <1>1, <1>3, <1>4, FS_EmptySet DEF Sound, AddsUp, Spans, NoStats

(* The times of events are windows, and finitely many. *)
LEMMA TimesOfEvents ==
  ASSUME NEW S, IsFiniteSet(S), S \subseteq UsageEvent
  PROVE  Times(S) \in SUBSET Window /\ Times(S) \in SUBSET Nat /\ IsFiniteSet(Times(S))
<1> DEFINE f == [e \in S |-> e.bucket.at]
<1>1. Times(S) \in SUBSET Window
  BY DEF Times, UsageEvent, Bucket
<1>2. f \in Surjection(S, Times(S))
  BY DEF Surjection, Times
<1>3. IsFiniteSet(Times(S))
  BY <1>2, FS_Surjection
<1>4. QED
  BY <1>1, <1>3, WindowAssumption

LEMMA TimesOfUnion ==
  ASSUME NEW S, NEW R
  PROVE  Times(S \cup R) = Times(S) \cup Times(R) /\ (S # {} => Times(S) # {})
BY DEF Times

LEMMA FiniteParts ==
  ASSUME NEW E, Numbered(E), NEW i, NEW n \in Nat
  PROVE  /\ IsFiniteSet(Upto(E, i, n)) /\ Upto(E, i, n) \subseteq UsageEvent
         /\ IsFiniteSet(Beyond(E, i, n)) /\ Beyond(E, i, n) \subseteq UsageEvent
<1>1. Upto(E, i, n) \subseteq E /\ Beyond(E, i, n) \subseteq E
  BY DEF Upto, Beyond
<1>2. QED
  BY <1>1, FS_Subset DEF Numbered

IdsOf(S) == {e.id : e \in S}

(***************************************************************************)
(* What the update writes for an identity: the statistics that were read   *)
(* and the events beyond their cursor add up to those of all its events.   *)
(***************************************************************************)
LEMMA PlusCoversAll ==
  ASSUME NEW E, Numbered(E), NEW i, NEW st \in Stats, Sound(E, i, st),
         NEW new, new = Beyond(E, i, st.last), new # {},
         NEW last, last = Greatest(IdsOf(new))
  PROVE  /\ last \in Nat /\ last > st.last
         /\ \E e \in E : e.bucket.of = i /\ e.id = last
         /\ \A e \in E : e.bucket.of = i => e.id <= last
         /\ Upto(E, i, last) = Upto(E, i, st.last) \cup new
<1> DEFINE ids == IdsOf(new)
<1>1. \A e \in E : e.id \in Nat
  BY DEF Numbered, UsageEvent
<1>2. st.last \in Nat /\ Cardinality(E) \in Nat
  BY FS_CardinalityType DEF Stats, Numbered
<1>3. ids \in SUBSET Nat /\ ids # {} /\ \A n \in ids : n <= Cardinality(E)
  BY <1>1 DEF IdsOf, Beyond, Numbered
<1>4. last \in ids /\ \A n \in ids : n <= last
  BY <1>2, <1>3, GreatestExists
<1>5. PICK g \in new : g.id = last
  BY <1>4 DEF IdsOf
<1>6. last \in Nat /\ last > st.last /\ g \in E /\ g.bucket.of = i
  BY <1>3, <1>4, <1>5 DEF Beyond
<1>7. ASSUME NEW e \in E, e.bucket.of = i PROVE e.id <= last
  <2>1. CASE e.id > st.last
    <3>1. e \in new
      BY <1>7, <2>1 DEF Beyond
    <3>2. e.id \in ids
      BY <3>1 DEF IdsOf
    <3>3. QED
      BY <1>4, <3>2
  <2>2. CASE ~(e.id > st.last)
    BY <1>1, <1>2, <1>6, <2>2
  <2>3. QED
    BY <2>1, <2>2
<1>8. Upto(E, i, last) = Upto(E, i, st.last) \cup new
  BY <1>1, <1>2, <1>7 DEF Upto, Beyond
<1>9. QED
  BY <1>5, <1>6, <1>7, <1>8

(* Two disjoint sets count, fail and span as their union does. *)
LEMMA UnionCounts ==
  ASSUME NEW S, NEW R, IsFiniteSet(S), IsFiniteSet(R), S \cap R = {}
  PROVE  /\ Cardinality(S \cup R) = Cardinality(S) + Cardinality(R)
         /\ Cardinality(Failures(S \cup R)) = Cardinality(Failures(S)) + Cardinality(Failures(R))
<1>1. \A P, Q : IsFiniteSet(P) /\ IsFiniteSet(Q) /\ P \cap Q = {}
                => Cardinality(P \cup Q) = Cardinality(P) + Cardinality(Q)
  <2> SUFFICES ASSUME NEW P, NEW Q, IsFiniteSet(P), IsFiniteSet(Q), P \cap Q = {}
               PROVE  Cardinality(P \cup Q) = Cardinality(P) + Cardinality(Q)
    OBVIOUS
  <2>1. Cardinality(P) \in Nat /\ Cardinality(Q) \in Nat
    BY FS_CardinalityType
  <2>2. Cardinality(P \cup Q) = Cardinality(P) + Cardinality(Q) - Cardinality(P \cap Q)
    BY FS_Union
  <2>3. Cardinality(P \cap Q) = 0
    BY FS_EmptySet
  <2>4. QED
    BY <2>1, <2>2, <2>3
<1>2. Failures(S) \subseteq S /\ Failures(R) \subseteq R
  BY DEF Failures
<1>3. IsFiniteSet(Failures(S)) /\ IsFiniteSet(Failures(R)) /\ Failures(S) \cap Failures(R) = {}
  BY <1>2, FS_Subset
<1>4. Failures(S \cup R) = Failures(S) \cup Failures(R)
  BY DEF Failures
<1>5. QED
  BY <1>1, <1>3, <1>4

LEMMA UnionSpans ==
  ASSUME NEW S, NEW R, S \subseteq UsageEvent, R \subseteq UsageEvent,
         IsFiniteSet(S), IsFiniteSet(R), R # {}, NEW st \in Stats, Spans(S, st),
         NEW first, NEW latest, first = Earlier(st.first, Least(Times(R))),
         latest = Later(st.latest, Greatest(Times(R)))
  PROVE  /\ first \in Window /\ latest \in Window
         /\ first \in Times(S \cup R) /\ latest \in Times(S \cup R)
         /\ \A t \in Times(S \cup R) : first <= t /\ t <= latest
<1> DEFINE lo == Least(Times(R))
           hi == Greatest(Times(R))
<1>1. /\ Times(R) \in SUBSET Nat /\ Times(S) \in SUBSET Nat /\ Times(R) # {}
      /\ Times(R) \subseteq Window /\ Times(S) \subseteq Window
      /\ Times(S \cup R) = Times(S) \cup Times(R)
  BY TimesOfEvents, TimesOfUnion
<1>2. lo \in Times(R) /\ \A t \in Times(R) : lo <= t
  BY <1>1, LeastExists
<1>3. PICK n \in Nat : \A t \in Times(R) : t <= n
  BY <1>1, TimesOfEvents, FiniteIsBounded
<1>4. hi \in Times(R) /\ \A t \in Times(R) : t <= hi
  BY <1>1, <1>3, GreatestExists
<1> HIDE DEF lo, hi
<1>5. first = Earlier(st.first, lo) /\ latest = Later(st.latest, hi)
  BY DEF lo, hi
<1>6. CASE S = {}
  <2>1. st.first = NoTime /\ st.latest = NoTime
    BY <1>6 DEF Spans
  <2>2. first = lo /\ latest = hi
    BY <1>5, <2>1 DEF Earlier, Later
  <2>3. Times(S) = {}
    BY <1>6 DEF Times
  <2>4. QED
    BY <1>1, <1>2, <1>4, <2>2, <2>3
<1>7. CASE S # {}
  <2>1. /\ st.first \in Times(S) /\ st.latest \in Times(S)
        /\ \A t \in Times(S) : st.first <= t /\ t <= st.latest
    BY <1>7 DEF Spans
  <2>2. st.first # NoTime /\ st.latest # NoTime
    BY <1>1, <2>1, WindowAssumption
  <2>3. first = (IF lo < st.first THEN lo ELSE st.first)
    BY <1>5, <2>2 DEF Earlier
  <2>4. latest = IF st.latest < hi THEN hi ELSE st.latest
    BY <1>5, <2>2 DEF Later
  <2>5. lo \in Nat /\ hi \in Nat /\ st.first \in Nat /\ st.latest \in Nat
    BY <1>1, <1>2, <1>4, <2>1
  <2>6. /\ \A t \in Times(S) : first <= t /\ t <= latest
        /\ \A t \in Times(R) : first <= t /\ t <= latest
    BY <1>1, <1>2, <1>4, <2>1, <2>3, <2>4, <2>5
  <2>7. QED
    BY <1>1, <1>2, <1>4, <2>1, <2>3, <2>4, <2>6
<1>8. QED
  BY <1>6, <1>7

LEMMA PlusSound ==
  ASSUME NEW E, Numbered(E), NEW i, NEW st \in Stats, Sound(E, i, st),
         NEW new, new = Beyond(E, i, st.last), new # {}
  PROVE  /\ Plus(st, new) \in Stats /\ Sound(E, i, Plus(st, new))
         /\ \A e \in E : e.bucket.of = i => e.id <= Plus(st, new).last
<1> DEFINE old == Upto(E, i, st.last)
           sum == Plus(st, new)
<1>1. st.last \in Nat /\ st.total \in Nat /\ st.failures \in Nat
  BY DEF Stats
<1>2. /\ IsFiniteSet(old) /\ old \subseteq UsageEvent
      /\ IsFiniteSet(new) /\ new \subseteq UsageEvent
  BY <1>1, FiniteParts
<1>3. old \cap new = {}
  <2>1. \A e \in E : e.id \in Nat
    BY DEF Numbered, UsageEvent
  <2>2. QED
    BY <1>1, <2>1 DEF Upto, Beyond
<1>4. /\ sum.last \in Nat /\ sum.last > st.last
      /\ \E e \in E : e.bucket.of = i /\ e.id = sum.last
      /\ \A e \in E : e.bucket.of = i => e.id <= sum.last
      /\ Upto(E, i, sum.last) = old \cup new
  <2>1. sum.last = Greatest(IdsOf(new))
    BY DEF Plus, IdsOf
  <2> HIDE DEF sum
  <2>2. QED
    BY <2>1, PlusCoversAll
<1>5. sum.total = st.total + Cardinality(new) /\ sum.failures = st.failures + Cardinality(Failures(new))
  BY DEF Plus
<1>6. Spans(old, st) /\ st.total = Cardinality(old) /\ st.failures = Cardinality(Failures(old))
  BY DEF Sound, AddsUp
<1>7. /\ sum.first \in Window /\ sum.latest \in Window
      /\ sum.first \in Times(old \cup new) /\ sum.latest \in Times(old \cup new)
      /\ \A t \in Times(old \cup new) : sum.first <= t /\ t <= sum.latest
  <2>1. sum.first = Earlier(st.first, Least(Times(new)))
    BY DEF Plus
  <2>2. sum.latest = Later(st.latest, Greatest(Times(new)))
    BY DEF Plus
  <2>3. QED
    BY <1>2, <1>6, <2>1, <2>2, UnionSpans
<1>8. Cardinality(new) \in Nat /\ Cardinality(Failures(new)) \in Nat
  <2>1. Failures(new) \subseteq new
    BY DEF Failures
  <2>2. QED
    BY <1>2, <2>1, FS_Subset, FS_CardinalityType
<1>9. sum \in Stats
  <2>1. sum = [total |-> sum.total, failures |-> sum.failures, last |-> sum.last,
               first |-> sum.first, latest |-> sum.latest]
    BY DEF Plus
  <2> HIDE DEF sum
  <2>2. sum.total \in Nat /\ sum.failures \in Nat
    BY <1>1, <1>5, <1>8
  <2>3. QED
    BY <1>4, <1>7, <2>1, <2>2 DEF Stats
<1>10. AddsUp(E, i, sum)
  <2>1. /\ Cardinality(old \cup new) = Cardinality(old) + Cardinality(new)
        /\ Cardinality(Failures(old \cup new))
             = Cardinality(Failures(old)) + Cardinality(Failures(new))
    BY <1>2, <1>3, UnionCounts
  <2>2. Spans(old \cup new, sum)
    BY <1>7 DEF Spans
  <2> HIDE DEF sum, old
  <2>3. QED
    BY <1>4, <1>5, <1>6, <2>1, <2>2 DEF AddsUp
<1>11. QED
  BY <1>4, <1>9, <1>10 DEF Sound

-----------------------------------------------------------------------------
(* The numbering of new events. *)

(* One event with the next id. *)
LEMMA NumberedAfterOne ==
  ASSUME NEW E, Numbered(E), NEW e \in UsageEvent, e.id = Cardinality(E) + 1
  PROVE  Numbered(E \cup {e})
<1>1. Cardinality(E) \in Nat
  BY FS_CardinalityType DEF Numbered
<1>2. e \notin E
  BY <1>1 DEF Numbered
<1>3. IsFiniteSet(E \cup {e}) /\ Cardinality(E \cup {e}) = Cardinality(E) + 1
  BY <1>2, FS_AddElement DEF Numbered
<1>4. \A d \in E : d.id \in Nat /\ d.id <= Cardinality(E)
  BY DEF Numbered, UsageEvent
<1>5. \A d \in E \cup {e} : d.id <= Cardinality(E \cup {e})
  BY <1>1, <1>3, <1>4
<1>6. E \cup {e} \subseteq UsageEvent
  BY DEF Numbered
<1>7. QED
  BY <1>3, <1>5, <1>6 DEF Numbered

UpTo(N, i) == {j \in N : j <= i}

(* The rank of an element is at most the size of its set and grows with it. *)
LEMMA Ranks ==
  ASSUME NEW N \in SUBSET Nat, IsFiniteSet(N)
  PROVE  /\ Cardinality(N) \in Nat
         /\ \A i \in N : Cardinality(UpTo(N, i)) \in 1..Cardinality(N)
         /\ \A i, j \in N : i < j => Cardinality(UpTo(N, i)) # Cardinality(UpTo(N, j))
<1>1. Cardinality(N) \in Nat
  BY FS_CardinalityType
<1>2. ASSUME NEW i \in N
      PROVE  /\ IsFiniteSet(UpTo(N, i)) /\ i \in UpTo(N, i)
             /\ Cardinality(UpTo(N, i)) \in 1..Cardinality(N)
  <2>1. UpTo(N, i) \subseteq N /\ i \in UpTo(N, i)
    BY DEF UpTo
  <2>2. IsFiniteSet(UpTo(N, i)) /\ Cardinality(UpTo(N, i)) <= Cardinality(N)
    BY <2>1, FS_Subset
  <2>3. Cardinality(UpTo(N, i)) \in Nat /\ Cardinality(UpTo(N, i)) # 0
    BY <2>1, <2>2, FS_CardinalityType, FS_EmptySet
  <2>4. QED
    BY <1>1, <2>1, <2>2, <2>3
<1>3. ASSUME NEW i \in N, NEW j \in N, i < j
      PROVE  Cardinality(UpTo(N, i)) # Cardinality(UpTo(N, j))
  <2>0. i \in Nat /\ j \in Nat /\ \A k \in N : k \in Nat
    OBVIOUS
  <2>1. UpTo(N, i) \subseteq UpTo(N, j) /\ j \notin UpTo(N, i) /\ j \in UpTo(N, j)
    <3>1. \A k \in N : k <= i => k <= j
      BY <1>3, <2>0
    <3>2. UpTo(N, i) \subseteq UpTo(N, j)
      BY <3>1 DEF UpTo
    <3>3. j \notin UpTo(N, i)
      BY <1>3, <2>0 DEF UpTo
    <3>4. j \in UpTo(N, j)
      BY <2>0 DEF UpTo
    <3>5. QED
      BY <3>2, <3>3, <3>4
  <2>2. IsFiniteSet(UpTo(N, j))
    BY <1>2
  <2>3. UpTo(N, i) \in SUBSET UpTo(N, j)
    BY <2>1
  <2>4. Cardinality(UpTo(N, j)) = Cardinality(UpTo(N, i)) => UpTo(N, j) = UpTo(N, i)
    BY <2>2, <2>3, FS_Subset
  <2>5. QED
    BY <2>1, <2>4
<1>4. QED
  BY <1>1, <1>2, <1>3

(* A batch of events whose ids continue the numbering. *)
LEMMA NumberedAfterBatch ==
  ASSUME NEW E, Numbered(E), NEW N \in SUBSET Nat, IsFiniteSet(N), NEW f \in [N -> UsageEvent],
         \A i \in N : f[i].id = Cardinality(E) + Cardinality(UpTo(N, i)),
         NEW F, F = {f[i] : i \in N}
  PROVE  Numbered(E \cup F) /\ \A e \in F : e.id > Cardinality(E)
<1>1. Cardinality(E) \in Nat /\ Cardinality(N) \in Nat
  BY FS_CardinalityType DEF Numbered
<1>2. \A i \in N : Cardinality(UpTo(N, i)) \in 1..Cardinality(N)
  BY Ranks
<1>3. \A i, j \in N : f[i] = f[j] => i = j
  <2>1. SUFFICES ASSUME NEW i \in N, NEW j \in N, f[i] = f[j], i < j PROVE FALSE
    OBVIOUS
  <2>2. Cardinality(UpTo(N, i)) # Cardinality(UpTo(N, j))
    BY <2>1, Ranks
  <2>3. QED
    BY <1>1, <1>2, <2>1, <2>2
<1>4. f \in Surjection(N, F) /\ f \in Injection(N, F)
  <2>1. f \in [N -> F] /\ \A t \in F : \E i \in N : f[i] = t
    OBVIOUS
  <2>2. QED
    BY <1>3, <2>1, Zenon DEF Surjection, Injection, IsInjective
<1>5. IsFiniteSet(F) /\ Cardinality(F) = Cardinality(N)
  BY <1>4, FS_Surjection
<1>6. \A e \in F : e.id > Cardinality(E) /\ e.id <= Cardinality(E) + Cardinality(N)
  BY <1>1, <1>2
<1>7. E \cap F = {}
  <2>1. \A e \in E : e.id <= Cardinality(E) /\ e.id \in Nat
    BY DEF Numbered, UsageEvent
  <2>2. QED
    BY <1>1, <1>6, <2>1
<1>8. IsFiniteSet(E \cup F) /\ Cardinality(E \cup F) = Cardinality(E) + Cardinality(N)
  <2>1. IsFiniteSet(E)
    BY DEF Numbered
  <2>2. IsFiniteSet(E \cup F)
    BY <1>5, <2>1, FS_Union
  <2>3. Cardinality(E \cup F) = Cardinality(E) + Cardinality(F)
    BY <1>5, <1>7, <2>1, UnionCounts
  <2>4. QED
    BY <1>5, <2>2, <2>3
<1>9. \A e \in E : e.id \in Nat /\ e.id <= Cardinality(E)
  BY DEF Numbered, UsageEvent
<1>10. F \subseteq UsageEvent
  OBVIOUS
<1>11. \A e \in E \cup F : e.id <= Cardinality(E \cup F)
  BY <1>1, <1>6, <1>8, <1>9
<1>12. QED
  BY <1>6, <1>8, <1>10, <1>11 DEF Numbered

-----------------------------------------------------------------------------
(* The invariant: with the types, the events are numbered, and the statistics
   of every identity, stored or read by a sync, are sound. *)

RowsSound == \A i \in DOMAIN rows : Sound(events, i, rows[i].stats)
BasesSound == \A s \in Syncer, i \in Identity : Sound(events, i, sync[s].base[i])
StatsInv == MetadataTypeOK /\ Numbered(events) /\ RowsSound /\ BasesSound

LEMMA BucketTypes == FileBucket \subseteq Bucket /\ \A b \in FileBucket : b.of \in AuthFile
BY DEF FileBucket, Bucket, Identity

LEMMA IdleType == Idle \in Work /\ Idle.base = [i \in Identity |-> NoStats]
<1>1. NoStats \in Stats
  BY DEF NoStats, Stats
<1>2. <<>> \in Seq(Planned)
  OBVIOUS
<1>3. QED
  BY <1>1, <1>2 DEF Idle, Work

(* A step of one sync that leaves the tables alone. *)
LEMMA SyncMoves ==
  ASSUME StatsInv, NEW s \in Syncer, NEW w \in Work,
         \A i \in Identity : Sound(events, i, w.base[i]),
         sync' = [sync EXCEPT ![s] = w]
  PROVE  /\ sync' \in [Syncer -> Work]
         /\ events' = events => BasesSound'
<1>1. sync \in [Syncer -> Work]
  BY DEF StatsInv, MetadataTypeOK
<1>2. sync' \in [Syncer -> Work]
  BY <1>1
<1>3. ASSUME events' = events, NEW t \in Syncer, NEW i \in Identity
      PROVE  Sound(events', i, sync'[t].base[i])
  <2>1. CASE t = s
    BY <1>1, <1>3, <2>1
  <2>2. CASE t # s
    BY <1>1, <1>3, <2>2 DEF StatsInv, BasesSound
  <2>3. QED
    BY <2>1, <2>2
<1>4. QED
  BY <1>2, <1>3 DEF BasesSound

LEMMA SyncMovesAlone ==
  ASSUME StatsInv, NEW s \in Syncer, NEW w \in Work,
         \A i \in Identity : Sound(events, i, w.base[i]),
         sync' = [sync EXCEPT ![s] = w], UNCHANGED <<requests, queued, events, rows>>
  PROVE  StatsInv'
<1>1. sync' \in [Syncer -> Work] /\ BasesSound'
  BY SyncMoves
<1>2. MetadataTypeOK'
  BY <1>1 DEF StatsInv, MetadataTypeOK
<1>3. Numbered(events)' /\ RowsSound'
  BY DEF StatsInv, RowsSound
<1>4. QED
  BY <1>1, <1>2, <1>3 DEF StatsInv

(* New events behind the last id disturb no statistics. *)
LEMMA EventsAdded ==
  ASSUME StatsInv, Numbered(events'), events \subseteq events',
         \A e \in events' \ events : e.id > Cardinality(events),
         UNCHANGED rows
  PROVE  /\ RowsSound'
         /\ \A s \in Syncer, i \in Identity : Sound(events', i, sync[s].base[i])
<1>1. \A i, st : st \in Stats /\ Sound(events, i, st) => Sound(events', i, st)
  BY SoundGrows DEF StatsInv, Numbered
<1>2. \A i \in DOMAIN rows : rows[i].stats \in Stats
  BY DEF StatsInv, MetadataTypeOK, IdentityRow
<1>3. \A s \in Syncer, i \in Identity : sync[s].base[i] \in Stats
  BY DEF StatsInv, MetadataTypeOK, Work
<1>4. QED
  BY <1>1, <1>2, <1>3 DEF StatsInv, RowsSound, BasesSound

(* The upsert keeps the statistics of a row and begins a new one at zero. *)
LEMMA ReplacedKeeps ==
  ASSUME StatsInv, NEW incoming \in SUBSET Identity, NEW scope, rows' = Replaced(incoming, scope)
  PROVE  /\ DOMAIN rows' = DOMAIN rows \cup incoming /\ DOMAIN rows' \subseteq Identity
         /\ rows' \in [DOMAIN rows' -> IdentityRow]
         /\ \A i \in DOMAIN rows : rows'[i].stats = rows[i].stats
         /\ \A i \in DOMAIN rows' \ DOMAIN rows : rows'[i].stats = NoStats
<1>1. DOMAIN rows' = DOMAIN rows \cup incoming /\ DOMAIN rows' \subseteq Identity
  BY DEF StatsInv, MetadataTypeOK, Replaced
<1>2. \A i \in DOMAIN rows : rows[i] \in IdentityRow
  BY DEF StatsInv, MetadataTypeOK
<1>3. \A i \in DOMAIN rows : rows'[i].stats = rows[i].stats
  BY <1>1, <1>2 DEF Replaced, StatsOf, IdentityRow
<1>4. \A i \in DOMAIN rows' \ DOMAIN rows : rows'[i].stats = NoStats
  BY <1>1 DEF Replaced, StatsOf
<1>5. ASSUME NEW i \in DOMAIN rows' PROVE rows'[i] \in IdentityRow
  <2>1. NoStats \in Stats
    BY DEF NoStats, Stats
  <2>2. CASE i \in incoming
    <3>1. rows'[i] = [stats |-> StatsOf(i), deleted |-> FALSE]
      BY <1>1, <2>2 DEF Replaced
    <3>2. StatsOf(i) \in Stats
      BY <1>2, <2>1 DEF StatsOf, IdentityRow
    <3>3. QED
      BY <3>1, <3>2 DEF IdentityRow
  <2>3. CASE i \notin incoming
    <3>1. rows'[i] = [rows[i] EXCEPT !.deleted = @ \/ i \in scope] /\ i \in DOMAIN rows
      BY <1>1, <2>3 DEF Replaced
    <3>2. QED
      BY <1>2, <3>1 DEF IdentityRow
  <2>4. QED
    BY <2>2, <2>3
<1>6. rows' \in [DOMAIN rows' -> IdentityRow]
  <2>1. rows' = [i \in DOMAIN rows' |-> rows'[i]]
    BY <1>1 DEF Replaced
  <2>2. QED
    BY <1>5, <2>1
<1>7. QED
  BY <1>1, <1>3, <1>4, <1>6

LEMMA UpsertKeeps ==
  ASSUME StatsInv, NEW incoming \in SUBSET Identity, NEW scope, rows' = Replaced(incoming, scope),
         NEW s \in Syncer, NEW w \in Work, w.base = sync[s].base \/ w = Idle,
         sync' = [sync EXCEPT ![s] = w], UNCHANGED <<requests, queued, events>>
  PROVE  StatsInv'
<1>0. events \subseteq UsageEvent
  BY DEF StatsInv, Numbered
<1>1. \A i \in Identity : Sound(events, i, w.base[i])
  BY <1>0, IdleType, NoStatsSound DEF StatsInv, BasesSound
<1>2. sync' \in [Syncer -> Work] /\ BasesSound'
  BY <1>1, SyncMoves
<1>3. RowsSound'
  BY <1>0, ReplacedKeeps, NoStatsSound DEF StatsInv, RowsSound
<1>4. DOMAIN rows' \subseteq Identity /\ rows' \in [DOMAIN rows' -> IdentityRow]
  BY ReplacedKeeps
<1>5. MetadataTypeOK'
  BY <1>2, <1>4 DEF StatsInv, MetadataTypeOK
<1>6. QED
  BY <1>2, <1>3, <1>5 DEF StatsInv

-----------------------------------------------------------------------------
(* The synthetic events of a batch. *)

LEMMA FiniteBuckets ==
  ASSUME Numbered(events), NEW b
  PROVE  Cardinality(Real(b)) \in Nat /\ Cardinality(Synthetic(b)) \in Nat
<1>1. Real(b) \in SUBSET events /\ Synthetic(b) \in SUBSET events
  BY DEF Real, Synthetic
<1>2. QED
  BY <1>1, FS_Subset, FS_CardinalityType DEF Numbered

LEMMA MissingType ==
  ASSUME Numbered(events), NEW w \in Work, NEW b \in FileBucket
  PROVE  Missing(w, b) \in Seq(Planned)
<1> DEFINE synthetic == Cardinality(Synthetic(b))
           missing == w.reported[b] - w.real - synthetic
<1>1. synthetic \in Nat
  BY FiniteBuckets
<1>2. missing \in Int
  BY <1>1 DEF Work
<1>3. Missing(w, b) = [i \in 1..missing |-> [bucket |-> b, ordinal |-> synthetic + i - 1]]
  BY DEF Missing
<1>4. PICK n \in Nat : 1..missing = 1..n
  <2>1. CASE missing > 0
    BY <1>2, <2>1
  <2>2. CASE ~(missing > 0)
    <3>1. 1..missing = 1..0
      BY <1>2, <2>2
    <3>2. QED
      BY <3>1
  <2>3. QED
    BY <2>1, <2>2
<1>5. \A i \in 1..n : [bucket |-> b, ordinal |-> synthetic + i - 1] \in Planned
  BY <1>1 DEF Planned
<1>6. Missing(w, b) = [i \in 1..n |-> [bucket |-> b, ordinal |-> synthetic + i - 1]]
  BY <1>3, <1>4
<1> HIDE DEF missing, synthetic
<1>7. Missing(w, b) \in [1..n -> Planned]
  BY <1>5, <1>6
<1>8. QED
  BY <1>7

LEMMA BatchType ==
  ASSUME NEW w \in Work
  PROVE  /\ NewInBatch(w) \in SUBSET Nat /\ IsFiniteSet(NewInBatch(w))
         /\ NewInBatch(w) \subseteq 1..Len(w.plan)
<1>1. w.plan \in Seq(Planned) /\ Len(w.plan) \in Nat
  BY DEF Work
<1>2. Batch(w) \subseteq 1..Len(w.plan)
  BY <1>1, BoundAssumption DEF Batch
<1>3. NewInBatch(w) \subseteq 1..Len(w.plan)
  BY <1>2 DEF NewInBatch
<1>4. IsFiniteSet(1..Len(w.plan))
  BY <1>1, FS_Interval
<1>5. QED
  BY <1>1, <1>3, <1>4, FS_Subset

LEMMA SyntheticNumbered ==
  ASSUME Numbered(events), NEW w \in Work, NEW F,
         F = {SyntheticEvent(w, i) : i \in NewInBatch(w)}
  PROVE  Numbered(events \cup F) /\ \A e \in F : e.id > Cardinality(events)
<1> DEFINE N == NewInBatch(w)
           f == [i \in N |-> SyntheticEvent(w, i)]
<1>1. N \in SUBSET Nat /\ IsFiniteSet(N) /\ N \subseteq 1..Len(w.plan)
  BY BatchType
<1>2. Cardinality(events) \in Nat
  BY FS_CardinalityType DEF Numbered
<1>3. ASSUME NEW i \in N
      PROVE  /\ SyntheticEvent(w, i) \in UsageEvent
             /\ SyntheticEvent(w, i).id = Cardinality(events) + Cardinality(UpTo(N, i))
  <2> DEFINE id == Cardinality(events) + Cardinality(UpTo(N, i))
  <2>1. SyntheticEvent(w, i) = [id |-> id, bucket |-> w.plan[i].bucket,
                                synthetic |-> TRUE, ordinal |-> w.plan[i].ordinal]
    BY DEF SyntheticEvent, UpTo
  <2>2. Cardinality(N) \in Nat /\ Cardinality(UpTo(N, i)) \in 1..Cardinality(N)
    BY <1>1, Ranks
  <2>3. id \in Nat \ {0}
    BY <1>2, <2>2
  <2>4. w.plan[i].bucket \in Bucket /\ w.plan[i].ordinal \in Nat
    <3>1. w.plan \in Seq(Planned)
      BY DEF Work
    <3>2. i \in 1..Len(w.plan)
      BY <1>1
    <3>3. w.plan[i] \in Planned
      BY <3>1, <3>2
    <3>4. QED
      BY <3>3, BucketTypes DEF Planned
  <2> HIDE DEF id
  <2>5. SyntheticEvent(w, i) \in UsageEvent /\ SyntheticEvent(w, i).id = id
    BY <2>1, <2>3, <2>4 DEF UsageEvent
  <2>6. QED
    BY <2>5 DEF id
<1>4. f \in [N -> UsageEvent]
  BY <1>3
<1>5. F = {f[i] : i \in N}
  OBVIOUS
<1>6. \A i \in N : f[i].id = Cardinality(events) + Cardinality(UpTo(N, i))
  BY <1>3
<1> HIDE DEF f, N
<1>7. QED
  BY <1>1, <1>4, <1>5, <1>6, NumberedAfterBatch

-----------------------------------------------------------------------------
(* What the transaction of AggregateUsageIdentityStats writes. *)

LEMMA AggregatedSound ==
  ASSUME StatsInv, NEW s \in Syncer, NEW i \in DOMAIN rows
  PROVE  LET st == Aggregated(sync[s], i) IN
         /\ st \in Stats /\ Sound(events, i, st)
         /\ rows[i].stats.last <= st.last /\ rows[i].stats.total <= st.total
<1> DEFINE base == sync[s].base[i]
           new == After(i, base.last)
           st == Aggregated(sync[s], i)
<1>1. i \in Identity /\ base \in Stats /\ Sound(events, i, base) /\ Numbered(events)
  BY DEF StatsInv, BasesSound, MetadataTypeOK, Work
<1>2. rows[i].stats \in Stats /\ Sound(events, i, rows[i].stats)
  BY DEF StatsInv, RowsSound, MetadataTypeOK, IdentityRow
<1>3. CASE i \in sync[s].known /\ new # {}
  <2>1. st = Plus(base, new)
    BY <1>3 DEF Aggregated
  <2>2. new = Beyond(events, i, base.last)
    BY DEF After, EventsOf, Beyond
  <2> HIDE DEF new, st
  <2>3. /\ st \in Stats /\ Sound(events, i, st)
        /\ \A e \in events : e.bucket.of = i => e.id <= st.last
    BY <1>1, <1>3, <2>1, <2>2, PlusSound
  <2>4. rows[i].stats.last <= st.last
    <3>1. rows[i].stats.last \in Nat /\ st.last \in Nat
      BY <1>2, <2>3 DEF Stats
    <3>2. QED
      BY <1>2, <2>3, <3>1 DEF Sound
  <2>5. rows[i].stats.total <= st.total
    <3>1. rows[i].stats.last \in Nat /\ st.last \in Nat /\ \A e \in events : e.id \in Nat
      BY <1>1, <1>2, <2>3 DEF Stats, Numbered, UsageEvent
    <3>2. Upto(events, i, rows[i].stats.last) \in SUBSET Upto(events, i, st.last)
      BY <2>4, <3>1 DEF Upto
    <3>3. IsFiniteSet(Upto(events, i, st.last))
      BY <1>1, <3>1, FiniteParts
    <3>4. Cardinality(Upto(events, i, rows[i].stats.last)) <= Cardinality(Upto(events, i, st.last))
      BY <3>2, <3>3, FS_Subset
    <3>5. QED
      BY <1>2, <2>3, <3>4 DEF Sound, AddsUp
  <2>6. QED
    BY <2>3, <2>4, <2>5 DEF st
<1>4. CASE ~(i \in sync[s].known /\ new # {})
  <2>1. st = rows[i].stats
    BY <1>4 DEF Aggregated
  <2>2. rows[i].stats.last \in Nat /\ rows[i].stats.total \in Nat
    BY <1>2 DEF Stats
  <2> HIDE DEF st
  <2>3. QED
    BY <1>2, <2>1, <2>2 DEF st
<1>5. QED
  BY <1>3, <1>4

LEMMA AggregateKeeps ==
  ASSUME StatsInv, NEW s \in Syncer, Aggregate(s)
  PROVE  /\ StatsInv' /\ DOMAIN rows' = DOMAIN rows
         /\ \A i \in DOMAIN rows : /\ rows[i].stats.last <= rows'[i].stats.last
                                  /\ rows[i].stats.total <= rows'[i].stats.total
<1> DEFINE w == sync[s]
<1>1. /\ DOMAIN rows' = DOMAIN rows
      /\ rows' = [i \in DOMAIN rows |-> [rows[i] EXCEPT !.stats = Aggregated(w, i)]]
  BY DEF Aggregate
<1>2. \A i \in DOMAIN rows : rows[i] \in IdentityRow
  BY DEF StatsInv, MetadataTypeOK
<1>3. \A i \in DOMAIN rows : /\ rows'[i].stats = Aggregated(w, i)
                            /\ rows'[i] = [stats |-> Aggregated(w, i), deleted |-> rows[i].deleted]
  BY <1>1, <1>2 DEF IdentityRow
<1>4. \A i \in DOMAIN rows : /\ Aggregated(w, i) \in Stats /\ Sound(events, i, Aggregated(w, i))
                            /\ rows[i].stats.last <= Aggregated(w, i).last
                            /\ rows[i].stats.total <= Aggregated(w, i).total
  BY AggregatedSound
<1>5. rows' \in [DOMAIN rows' -> IdentityRow]
  <2>1. ASSUME NEW i \in DOMAIN rows PROVE rows'[i] \in IdentityRow
    <3>1. rows'[i] = [rows[i] EXCEPT !.stats = Aggregated(w, i)]
      BY <1>1
    <3>2. rows[i] \in IdentityRow /\ Aggregated(w, i) \in Stats
      BY <1>2, <1>4
    <3>3. QED
      BY <3>1, <3>2 DEF IdentityRow
  <2>2. rows' = [i \in DOMAIN rows' |-> rows'[i]]
    BY <1>1
  <2>3. QED
    BY <1>1, <2>1, <2>2
<1>6. sync' = [sync EXCEPT ![s] = Idle] /\ UNCHANGED <<requests, queued, events>>
  BY DEF Aggregate, Become
<1>7. \A i \in Identity : Sound(events, i, Idle.base[i])
  BY IdleType, NoStatsSound DEF StatsInv, Numbered
<1>8. sync' \in [Syncer -> Work] /\ BasesSound'
  BY <1>6, <1>7, IdleType, SyncMoves
<1>9. MetadataTypeOK'
  BY <1>1, <1>5, <1>6, <1>8 DEF StatsInv, MetadataTypeOK
<1>10. RowsSound'
  BY <1>1, <1>3, <1>4, <1>6 DEF RowsSound
<1>11. Numbered(events)'
  BY <1>6 DEF StatsInv
<1>12. StatsInv'
  BY <1>8, <1>9, <1>10, <1>11 DEF StatsInv
<1>13. QED
  BY <1>1, <1>3, <1>4, <1>12

-----------------------------------------------------------------------------
(* Every step. *)

LEMMA StatsInvInit == MetadataInit => StatsInv
<1> SUFFICES ASSUME MetadataInit PROVE StatsInv
  OBVIOUS
<1>1. events = {} /\ DOMAIN rows = {} /\ rows = [i \in {} |-> [stats |-> NoStats, deleted |-> FALSE]]
  BY DEF MetadataInit
<1>2. Numbered(events)
  BY <1>1, FS_EmptySet DEF Numbered
<1>3. sync \in [Syncer -> Work] /\ \A s \in Syncer : sync[s] = Idle
  BY IdleType DEF MetadataInit
<1>4. MetadataTypeOK
  BY <1>1, <1>3 DEF MetadataInit, MetadataTypeOK
<1>5. \A i \in Identity : Sound(events, i, Idle.base[i])
  BY <1>2, IdleType, NoStatsSound DEF Numbered
<1>6. QED
  BY <1>1, <1>2, <1>3, <1>4, <1>5 DEF StatsInv, RowsSound, BasesSound

(* Requests, and the events their messages become. *)
LEMMA ExternalStep ==
  ASSUME StatsInv, NEW b \in Bucket, Request(b) \/ Deliver(b) \/ Lose(b)
  PROVE  StatsInv' /\ rows' = rows
<1>1. requests \in [Bucket -> Nat] /\ queued \in [Bucket -> Nat]
  BY DEF StatsInv, MetadataTypeOK
<1>2. CASE Request(b) \/ Lose(b)
  <2>1. /\ UNCHANGED <<events, rows, sync>>
        /\ requests' \in [Bucket -> Nat] /\ queued' \in [Bucket -> Nat]
    BY <1>1, <1>2 DEF Request, Lose
  <2>2. MetadataTypeOK'
    BY <2>1 DEF StatsInv, MetadataTypeOK
  <2>3. QED
    BY <2>1, <2>2 DEF StatsInv, RowsSound, BasesSound
<1>3. CASE Deliver(b)
  <2> DEFINE e == [id |-> NextId, bucket |-> b, synthetic |-> FALSE, ordinal |-> 0]
  <2>1. /\ events' = events \cup {e} /\ UNCHANGED <<requests, rows, sync>>
        /\ queued' \in [Bucket -> Nat]
    BY <1>1, <1>3 DEF Deliver
  <2>2. Numbered(events) /\ Cardinality(events) \in Nat
    BY FS_CardinalityType DEF StatsInv, Numbered
  <2>3. e \in UsageEvent /\ e.id = Cardinality(events) + 1
    BY <2>2 DEF NextId, UsageEvent
  <2> HIDE DEF e
  <2>4. Numbered(events')
    BY <2>1, <2>2, <2>3, NumberedAfterOne
  <2>5. \A d \in events' \ events : d.id > Cardinality(events)
    BY <2>1, <2>2, <2>3
  <2>6. RowsSound' /\ \A s \in Syncer, i \in Identity : Sound(events', i, sync[s].base[i])
    BY <2>1, <2>4, <2>5, EventsAdded
  <2>7. MetadataTypeOK'
    BY <2>1, <2>4 DEF StatsInv, MetadataTypeOK, Numbered
  <2>8. QED
    BY <2>1, <2>4, <2>6, <2>7 DEF StatsInv, BasesSound
<1>4. QED
  BY <1>2, <1>3

LEMMA InsertStep ==
  ASSUME StatsInv, NEW s \in Syncer, InsertSynthetic(s)
  PROVE  StatsInv' /\ rows' = rows
<1> DEFINE w == sync[s]
           rest == SubSeq(w.plan, SyntheticBatch + 1, Len(w.plan))
           next == [w EXCEPT !.plan = rest, !.pc = IF rest = <<>> THEN "providers" ELSE "insert"]
           F == {SyntheticEvent(w, i) : i \in NewInBatch(w)}
<1>1. w \in Work /\ Numbered(events)
  BY DEF StatsInv, MetadataTypeOK
<1>2. /\ events' = events \cup F /\ sync' = [sync EXCEPT ![s] = next]
      /\ UNCHANGED <<requests, queued, rows>>
  BY DEF InsertSynthetic, Become
<1>3. Numbered(events \cup F) /\ \A e \in F : e.id > Cardinality(events)
  BY <1>1, SyntheticNumbered
<1>4. next \in Work /\ next.base = w.base
  <2>1. rest \in Seq(Planned)
    BY <1>1, BoundAssumption DEF Work
  <2>2. QED
    BY <1>1, <2>1 DEF Work
<1> HIDE DEF F, next
<1>5. RowsSound' /\ \A t \in Syncer, i \in Identity : Sound(events', i, sync[t].base[i])
  BY <1>2, <1>3, EventsAdded
<1>6. sync' \in [Syncer -> Work]
  BY <1>2, <1>4 DEF StatsInv, MetadataTypeOK
<1>7. \A t \in Syncer : sync'[t].base = sync[t].base
  BY <1>2, <1>4 DEF StatsInv, MetadataTypeOK
<1>8. MetadataTypeOK'
  BY <1>2, <1>3, <1>6 DEF StatsInv, MetadataTypeOK, Numbered
<1>9. QED
  BY <1>2, <1>3, <1>5, <1>7, <1>8 DEF StatsInv, BasesSound

(* The steps of a sync that only read, plan or end. *)
LEMMA ReadingStep ==
  ASSUME StatsInv, NEW s \in Syncer,
         \/ Fetch(s) \/ CountReal(s) \/ CountSynthetic(s) \/ FinishCompare(s)
         \/ AuthFilesFail(s) \/ ReadIdentities(s) \/ SyncFails(s)
  PROVE  StatsInv' /\ rows' = rows
<1> DEFINE w == sync[s]
<1>1. /\ w \in Work /\ Numbered(events) /\ requests \in [Bucket -> Nat]
      /\ \A i \in Identity : Sound(events, i, w.base[i]) /\ Sound(events, i, Idle.base[i])
  BY IdleType, NoStatsSound DEF StatsInv, MetadataTypeOK, BasesSound, Numbered
<1>2. UNCHANGED <<requests, queued, events, rows>>
  BY DEF Fetch, CountReal, CountSynthetic, FinishCompare, AuthFilesFail, ReadIdentities, SyncFails
<1>3. SUFFICES \E n \in Work : /\ sync' = [sync EXCEPT ![s] = n]
                               /\ \A i \in Identity : Sound(events, i, n.base[i])
  BY <1>2, SyncMovesAlone
<1>4. CASE Fetch(s)
  <2>1. PICK ok \in BOOLEAN, files \in SUBSET AuthFile, types \in SUBSET Types :
        \E providers \in SUBSET {p \in Provider : ProviderType[p] \in types} :
          Become(s, [Idle EXCEPT !.pc = IF ok THEN "files" ELSE "providers",
                                 !.files = files, !.failed = ~ok,
                                 !.reported = [b \in FileBucket |-> IF b.of \in files
                                                                    THEN requests[b] ELSE 0],
                                 !.providers = providers, !.types = types])
    BY <1>4, ZenonT(30) DEF Fetch
  <2>2. PICK providers \in SUBSET Provider :
          Become(s, [Idle EXCEPT !.pc = IF ok THEN "files" ELSE "providers",
                                 !.files = files, !.failed = ~ok,
                                 !.reported = [b \in FileBucket |-> IF b.of \in files
                                                                    THEN requests[b] ELSE 0],
                                 !.providers = providers, !.types = types])
    BY <2>1
  <2> DEFINE reported == [b \in FileBucket |-> IF b.of \in files THEN requests[b] ELSE 0]
             n == [Idle EXCEPT !.pc = IF ok THEN "files" ELSE "providers",
                               !.files = files, !.failed = ~ok, !.reported = reported,
                               !.providers = providers, !.types = types]
  <2>3. reported \in [FileBucket -> Nat]
    BY <1>1, BucketTypes
  <2>4. n \in Work /\ n.base = Idle.base
    <3>1. (~ok) \in BOOLEAN
      OBVIOUS
    <3> HIDE DEF reported
    <3>2. QED
      BY <2>3, <3>1, IdleType DEF Work
  <2>5. sync' = [sync EXCEPT ![s] = n]
    BY <2>2 DEF Become
  <2> HIDE DEF n
  <2>6. QED
    BY <1>1, <2>4, <2>5
<1>5. CASE CountReal(s)
  <2>1. PICK b \in w.buckets :
          Become(s, [w EXCEPT !.pc = "compare", !.comparing = {b}, !.buckets = @ \ {b},
                              !.real = Cardinality(Real(b))])
    BY <1>5 DEF CountReal
  <2> DEFINE n == [w EXCEPT !.pc = "compare", !.comparing = {b}, !.buckets = @ \ {b},
                            !.real = Cardinality(Real(b))]
  <2>2. Cardinality(Real(b)) \in Nat
    BY <1>1, FiniteBuckets
  <2>3. n \in Work /\ n.base = w.base
    BY <1>1, <2>2 DEF Work
  <2>4. sync' = [sync EXCEPT ![s] = n]
    BY <2>1 DEF Become
  <2> HIDE DEF n
  <2>5. QED
    BY <1>1, <2>3, <2>4
<1>6. CASE CountSynthetic(s)
  <2>1. PICK b \in w.comparing :
          Become(s, [w EXCEPT !.pc = "count", !.comparing = {}, !.real = 0,
                              !.plan = @ \o Missing(w, b)])
    BY <1>6 DEF CountSynthetic
  <2> DEFINE n == [w EXCEPT !.pc = "count", !.comparing = {}, !.real = 0,
                            !.plan = @ \o Missing(w, b)]
  <2>2. b \in FileBucket /\ w.plan \in Seq(Planned)
    BY <1>1 DEF Work
  <2>3. Missing(w, b) \in Seq(Planned)
    BY <1>1, <2>2, MissingType
  <2>4. w.plan \o Missing(w, b) \in Seq(Planned)
    BY <2>2, <2>3
  <2>5. n \in Work /\ n.base = w.base
    BY <1>1, <2>4 DEF Work
  <2>6. sync' = [sync EXCEPT ![s] = n]
    BY <2>1 DEF Become
  <2> HIDE DEF n
  <2>7. QED
    BY <1>1, <2>5, <2>6
<1>7. CASE FinishCompare(s)
  <2> DEFINE n == [w EXCEPT !.pc = IF w.plan = <<>> THEN "providers" ELSE "insert"]
  <2>1. n \in Work /\ n.base = w.base
    BY <1>1 DEF Work
  <2>2. sync' = [sync EXCEPT ![s] = n]
    BY <1>7 DEF FinishCompare, Become
  <2> HIDE DEF n
  <2>3. QED
    BY <1>1, <2>1, <2>2
<1>8. CASE AuthFilesFail(s)
  <2> DEFINE n == [Idle EXCEPT !.pc = "providers", !.failed = TRUE,
                               !.providers = w.providers, !.types = w.types]
  <2>1. n \in Work /\ n.base = Idle.base
    BY <1>1, IdleType DEF Work
  <2>2. sync' = [sync EXCEPT ![s] = n]
    BY <1>8 DEF AuthFilesFail, Become
  <2> HIDE DEF n
  <2>3. QED
    BY <1>1, <2>1, <2>2
<1>9. CASE ReadIdentities(s)
  <2> DEFINE base == [i \in Identity |-> StatsOf(i)]
             n == [w EXCEPT !.pc = "aggregate", !.known = DOMAIN rows, !.base = base]
  <2>1. \A i \in Identity : StatsOf(i) \in Stats /\ Sound(events, i, StatsOf(i))
    BY <1>1, NoStatsSound DEF StatsOf, StatsInv, RowsSound, MetadataTypeOK, IdentityRow, Numbered
  <2>2. base \in [Identity -> Stats] /\ DOMAIN rows \subseteq Identity
    BY <2>1 DEF StatsInv, MetadataTypeOK
  <2>3. \A i \in Identity : Sound(events, i, base[i])
    BY <2>1
  <2> HIDE DEF base
  <2>4. n \in Work /\ n.base = base
    BY <1>1, <2>2 DEF Work
  <2>5. sync' = [sync EXCEPT ![s] = n]
    BY <1>9 DEF ReadIdentities, Become, base
  <2> HIDE DEF n
  <2>6. QED
    BY <2>3, <2>4, <2>5
<1>10. CASE SyncFails(s)
  BY <1>1, <1>10, IdleType DEF SyncFails, Become
<1>11. QED
  BY <1>4, <1>5, <1>6, <1>7, <1>8, <1>9, <1>10

LEMMA UpsertStep ==
  ASSUME StatsInv, NEW s \in Syncer, ReplaceAuthFiles(s) \/ ReplaceProviders(s)
  PROVE  /\ StatsInv' /\ DOMAIN rows \subseteq DOMAIN rows'
         /\ \A i \in DOMAIN rows : rows'[i].stats = rows[i].stats
<1> DEFINE w == sync[s]
<1>1. w \in Work
  BY DEF StatsInv, MetadataTypeOK
<1>2. CASE ReplaceAuthFiles(s)
  <2> DEFINE n == [w EXCEPT !.pc = "count", !.buckets = {b \in FileBucket : w.reported[b] > 0}]
  <2>1. rows' = Replaced(w.files, AuthFile) /\ UNCHANGED <<requests, queued, events>>
    BY <1>2 DEF ReplaceAuthFiles
  <2>2. sync' = [sync EXCEPT ![s] = n]
    BY <1>2 DEF ReplaceAuthFiles, Become
  <2>3. w.files \in SUBSET Identity
    BY <1>1 DEF Work, Identity
  <2>4. n \in Work /\ n.base = w.base
    BY <1>1 DEF Work
  <2> HIDE DEF n
  <2>5. StatsInv'
    BY <2>1, <2>2, <2>3, <2>4, UpsertKeeps
  <2>6. QED
    BY <2>1, <2>3, <2>5, ReplacedKeeps
<1>3. CASE ReplaceProviders(s)
  <2> DEFINE scope == {p \in Provider : ProviderType[p] \in w.types}
             n == IF w.failed THEN Idle ELSE [w EXCEPT !.pc = "read"]
  <2>1. rows' = Replaced(w.providers, scope) /\ UNCHANGED <<requests, queued, events>>
    BY <1>3 DEF ReplaceProviders
  <2>2. sync' = [sync EXCEPT ![s] = n]
    BY <1>3 DEF ReplaceProviders, Become
  <2>3. w.providers \in SUBSET Identity
    BY <1>1 DEF Work, Identity
  <2>4. n \in Work /\ (n.base = w.base \/ n = Idle)
    BY <1>1, IdleType DEF Work
  <2> HIDE DEF n, scope
  <2>5. StatsInv'
    BY <2>1, <2>2, <2>3, <2>4, UpsertKeeps
  <2>6. QED
    BY <2>1, <2>3, <2>5, ReplacedKeeps
<1>4. QED
  BY <1>2, <1>3

(***************************************************************************)
(* A step of the metadata sync keeps the statistics sound, loses no row    *)
(* and takes no cursor or total of a row back.                             *)
(***************************************************************************)
Forward ==
  \A i \in DOMAIN rows :
    /\ i \in DOMAIN rows'
    /\ rows[i].stats.last <= rows'[i].stats.last
    /\ rows[i].stats.total <= rows'[i].stats.total

LEMMA KeptIsForward ==
  ASSUME StatsInv, DOMAIN rows \subseteq DOMAIN rows',
         \A i \in DOMAIN rows : rows'[i].stats = rows[i].stats
  PROVE  Forward
<1> SUFFICES ASSUME NEW i \in DOMAIN rows
             PROVE  /\ i \in DOMAIN rows'
                    /\ rows[i].stats.last <= rows'[i].stats.last
                    /\ rows[i].stats.total <= rows'[i].stats.total
  BY DEF Forward
<1>1. rows[i].stats \in Stats
  BY DEF StatsInv, MetadataTypeOK, IdentityRow
<1>2. rows[i].stats.last \in Nat /\ rows[i].stats.total \in Nat
  BY <1>1 DEF Stats
<1>3. QED
  BY <1>2

LEMMA DeathStep ==
  ASSUME StatsInv, ProcessDies
  PROVE  StatsInv' /\ rows' = rows
<1>1. sync' = [s \in Syncer |-> Idle] /\ UNCHANGED <<requests, queued, events, rows>>
  BY DEF ProcessDies
<1>2. MetadataTypeOK' /\ Numbered(events)' /\ RowsSound'
  BY <1>1, IdleType DEF StatsInv, MetadataTypeOK, RowsSound
<1>3. \A i \in Identity : Sound(events, i, NoStats)
  BY NoStatsSound DEF StatsInv, Numbered
<1>4. BasesSound'
  <2>1. \A s \in Syncer, i \in Identity : sync'[s].base[i] = NoStats
    BY <1>1, IdleType
  <2>2. QED
    BY <1>1, <1>3, <2>1 DEF BasesSound
<1>5. QED
  BY <1>1, <1>2, <1>4 DEF StatsInv

LEMMA StatsStep ==
  ASSUME StatsInv, [MetadataNext]_metadataVars
  PROVE  StatsInv' /\ Forward
<1>1. ASSUME NEW b \in Bucket, Request(b) \/ Deliver(b) \/ Lose(b)
      PROVE  StatsInv' /\ Forward
  BY <1>1, ExternalStep, KeptIsForward
<1>2. ASSUME NEW s \in Syncer, SyncStep(s)
      PROVE  StatsInv' /\ Forward
  <2>1. CASE InsertSynthetic(s)
    BY <2>1, InsertStep, KeptIsForward
  <2>2. CASE Aggregate(s)
    BY <2>2, AggregateKeeps DEF Forward
  <2>3. CASE ReplaceAuthFiles(s) \/ ReplaceProviders(s)
    BY <2>3, UpsertStep, KeptIsForward
  <2>4. CASE \/ Fetch(s) \/ CountReal(s) \/ CountSynthetic(s) \/ FinishCompare(s)
             \/ AuthFilesFail(s) \/ ReadIdentities(s) \/ SyncFails(s)
    BY <2>4, ReadingStep, KeptIsForward
  <2>5. QED
    BY <1>2, <2>1, <2>2, <2>3, <2>4 DEF SyncStep
<1>3. CASE ProcessDies
  BY <1>3, DeathStep, KeptIsForward
<1>4. CASE UNCHANGED metadataVars
  <2>1. StatsInv'
    BY <1>4 DEF metadataVars, StatsInv, MetadataTypeOK, RowsSound, BasesSound
  <2>2. QED
    BY <1>4, <2>1, KeptIsForward DEF metadataVars
<1>5. QED
  BY <1>1, <1>2, <1>3, <1>4 DEF MetadataNext

-----------------------------------------------------------------------------
(***************************************************************************)
(* Events are numbered in the order they are inserted, and the statistics  *)
(* of every row, and those every syncer has read, are those of the         *)
(* identity's events up to a cursor that is the id of an event.            *)
(***************************************************************************)
THEOREM StatsInvariant == MetadataSpec => []StatsInv
<1>1. StatsInv /\ [MetadataNext]_metadataVars => StatsInv'
  BY StatsStep
<1>2. QED
  BY StatsInvInit, <1>1, PTL DEF MetadataSpec

(* The metadata sync is always well typed. *)
THEOREM MetadataTypeCorrect == MetadataSpec => []MetadataTypeOK
<1>1. StatsInv => MetadataTypeOK
  BY DEF StatsInv
<1>2. QED
  BY StatsInvariant, <1>1, PTL

(***************************************************************************)
(* However many syncs aggregate at the same time, and whatever fails, the  *)
(* stored statistics of an identity count each of its events up to the     *)
(* cursor once and no other.                                               *)
(***************************************************************************)
THEOREM StatsAreExact == MetadataSpec => []StatsExact
<1>1. StatsInv => StatsExact
  BY ExactIsAddsUp DEF StatsInv, RowsSound, Sound, StatsExact
<1>2. QED
  BY StatsInvariant, <1>1, PTL

(***************************************************************************)
(* No sync takes back what another wrote: no row vanishes and no cursor or *)
(* total goes down.                                                        *)
(***************************************************************************)
THEOREM StatsNeverGoBack == MetadataSpec => StatsNeverRegress
<1>1. StatsInv /\ [MetadataNext]_metadataVars
        => [\A i \in DOMAIN rows :
              /\ i \in DOMAIN rows'
              /\ rows[i].stats.last <= rows'[i].stats.last
              /\ rows[i].stats.total <= rows'[i].stats.total]_metadataVars
  BY StatsStep DEF Forward
<1>2. QED
  BY StatsInvariant, <1>1, PTL DEF MetadataSpec, StatsNeverRegress

-----------------------------------------------------------------------------
(***************************************************************************)
(* The backfill.  What a syncer plans to insert is written relative to the *)
(* requests R and the events E, which grow while it plans.                 *)
(***************************************************************************)
Reals(E, b) == {e \in E : e.bucket = b /\ ~e.synthetic}
Synthetics(E, b) == {e \in E : e.bucket = b /\ e.synthetic}
Ordinals(E, b) == {e.ordinal : e \in Synthetics(E, b)}

(* Ordinals are not repeated, leave no gap and stay below the bucket's requests. *)
Contiguous(R, E) ==
  \A b \in FileBucket :
    /\ \A e, f \in Synthetics(E, b) : e.ordinal = f.ordinal => e = f
    /\ \A n \in Ordinals(E, b) : n < R[b] /\ \A k \in 0..(n - 1) : k \in Ordinals(E, b)

(* Ordinal k of bucket b is among the first n of plan p. *)
InPlan(p, n, b, k) == \E j \in 1..n : p[j].bucket = b /\ p[j].ordinal = k

(* An ordinal is planned once, and behind all that come before it. *)
PlanSound(R, E, w) ==
  \A i \in 1..Len(w.plan) :
    /\ w.plan[i].bucket \notin w.buckets \cup w.comparing
    /\ w.plan[i].ordinal < R[w.plan[i].bucket]
    /\ ~InPlan(w.plan, i - 1, w.plan[i].bucket, w.plan[i].ordinal)
    /\ \A k \in 0..(w.plan[i].ordinal - 1) :
         k \in Ordinals(E, w.plan[i].bucket) \/ InPlan(w.plan, i - 1, w.plan[i].bucket, k)

(* What bucket b lacked when it was compared is inserted or planned. *)
Compared(E, w, b) ==
  \A k \in 0..(w.reported[b] - Cardinality(Reals(E, b)) - 1) :
    k \in Ordinals(E, b) \/ InPlan(w.plan, Len(w.plan), b, k)

CompareSound(R, E, w) ==
  /\ \A b \in FileBucket : w.reported[b] <= R[b]
  /\ \A b \in w.comparing : /\ w.real <= Cardinality(Reals(E, b))
                            /\ w.comparing = {b} /\ b \notin w.buckets
  /\ w.pc # "compare" => w.comparing = {}
  /\ w.pc \notin {"idle", "files"} /\ ~w.failed =>
       \A b \in FileBucket \ (w.buckets \cup w.comparing) : Compared(E, w, b)
  /\ w.pc \in {"insert", "providers", "read", "aggregate"} => w.buckets = {}
  /\ w.pc \notin {"count", "compare", "insert"} => w.plan = <<>>

WorkSound(R, E, w) == PlanSound(R, E, w) /\ CompareSound(R, E, w)

BackfillInv ==
  /\ Contiguous(requests, events)
  /\ \A s \in Syncer : WorkSound(requests, events, sync[s])

LEMMA PartsGrow ==
  ASSUME NEW E, NEW F, E \subseteq F, IsFiniteSet(F), NEW b
  PROVE  /\ Ordinals(E, b) \subseteq Ordinals(F, b)
         /\ Cardinality(Reals(E, b)) \in Nat /\ Cardinality(Reals(F, b)) \in Nat
         /\ Cardinality(Reals(E, b)) <= Cardinality(Reals(F, b))
<1>1. Synthetics(E, b) \subseteq Synthetics(F, b)
  BY DEF Synthetics
<1>2. Ordinals(E, b) \subseteq Ordinals(F, b)
  BY <1>1 DEF Ordinals
<1>3. Reals(F, b) \in SUBSET F /\ Reals(E, b) \in SUBSET Reals(F, b)
  BY DEF Reals
<1>4. IsFiniteSet(Reals(F, b))
  BY <1>3, FS_Subset
<1>5. IsFiniteSet(Reals(E, b)) /\ Cardinality(Reals(E, b)) <= Cardinality(Reals(F, b))
  BY <1>3, <1>4, FS_Subset
<1>6. QED
  BY <1>2, <1>4, <1>5, FS_CardinalityType

(* New requests and events leave a plan sound. *)
LEMMA WorkStaysSound ==
  ASSUME NEW R \in [Bucket -> Nat], NEW S \in [Bucket -> Nat], \A b \in Bucket : R[b] <= S[b],
         NEW E, NEW F, E \subseteq F, IsFiniteSet(F),
         NEW w \in Work, WorkSound(R, E, w)
  PROVE  WorkSound(S, F, w)
<1>1. w.plan \in Seq(Planned) /\ w.reported \in [FileBucket -> Nat]
      /\ w.comparing \subseteq FileBucket /\ w.real \in Nat
  BY DEF Work
<1>2. PlanSound(S, F, w)
  <2> SUFFICES ASSUME NEW i \in 1..Len(w.plan)
               PROVE  /\ w.plan[i].bucket \notin w.buckets \cup w.comparing
                      /\ w.plan[i].ordinal < S[w.plan[i].bucket]
                      /\ ~InPlan(w.plan, i - 1, w.plan[i].bucket, w.plan[i].ordinal)
                      /\ \A k \in 0..(w.plan[i].ordinal - 1) :
                           \/ k \in Ordinals(F, w.plan[i].bucket)
                           \/ InPlan(w.plan, i - 1, w.plan[i].bucket, k)
    BY DEF PlanSound
  <2> DEFINE b == w.plan[i].bucket
             n == w.plan[i].ordinal
  <2>1. w.plan[i] \in Planned
    BY <1>1
  <2>2. b \in Bucket /\ n \in Nat
    BY <2>1, BucketTypes DEF Planned
  <2>3. /\ b \notin w.buckets \cup w.comparing /\ n < R[b] /\ ~InPlan(w.plan, i - 1, b, n)
        /\ \A k \in 0..(n - 1) : k \in Ordinals(E, b) \/ InPlan(w.plan, i - 1, b, k)
    BY DEF WorkSound, PlanSound
  <2>4. Ordinals(E, b) \subseteq Ordinals(F, b)
    BY PartsGrow
  <2>5. R[b] \in Nat /\ S[b] \in Nat /\ R[b] <= S[b]
    BY <2>2
  <2>6. n < S[b]
    BY <2>2, <2>3, <2>5
  <2>7. QED
    BY <2>3, <2>4, <2>6
<1>3. CompareSound(S, F, w)
  <2>1. \A b \in FileBucket : w.reported[b] <= S[b]
    <3> SUFFICES ASSUME NEW b \in FileBucket PROVE w.reported[b] <= S[b]
      OBVIOUS
    <3>1. b \in Bucket /\ w.reported[b] \in Nat
      BY <1>1, BucketTypes
    <3>2. R[b] \in Nat /\ S[b] \in Nat /\ R[b] <= S[b]
      BY <3>1
    <3>3. w.reported[b] <= R[b]
      BY DEF WorkSound, CompareSound
    <3>4. QED
      BY <3>1, <3>2, <3>3
  <2>2. ASSUME NEW b \in w.comparing PROVE w.real <= Cardinality(Reals(F, b))
    <3>1. w.real <= Cardinality(Reals(E, b))
      BY DEF WorkSound, CompareSound
    <3>2. /\ Cardinality(Reals(E, b)) \in Nat /\ Cardinality(Reals(F, b)) \in Nat
          /\ Cardinality(Reals(E, b)) <= Cardinality(Reals(F, b))
      BY PartsGrow
    <3>3. QED
      BY <1>1, <3>1, <3>2
  <2>3. ASSUME NEW b \in FileBucket, Compared(E, w, b) PROVE Compared(F, w, b)
    <3> DEFINE r == Cardinality(Reals(E, b))
               q == Cardinality(Reals(F, b))
    <3>1. r \in Nat /\ q \in Nat /\ r <= q /\ Ordinals(E, b) \subseteq Ordinals(F, b)
      BY PartsGrow
    <3>2. \A k \in 0..(w.reported[b] - r - 1) : k \in Ordinals(E, b) \/ InPlan(w.plan, Len(w.plan), b, k)
      BY <2>3 DEF Compared
    <3>3. w.reported[b] \in Nat
      BY <1>1
    <3> HIDE DEF r, q
    <3>4. \A k \in 0..(w.reported[b] - q - 1) : k \in Ordinals(F, b) \/ InPlan(w.plan, Len(w.plan), b, k)
      BY <3>1, <3>2, <3>3
    <3>5. QED
      BY <3>4 DEF Compared, q
  <2>4. QED
    BY <2>1, <2>2, <2>3 DEF WorkSound, CompareSound
<1>4. QED
  BY <1>2, <1>3 DEF WorkSound

LEMMA NothingPlannedSound ==
  ASSUME NEW R, NEW E, NEW w, w.plan = <<>>, w.buckets = {}, w.comparing = {},
         \A b \in FileBucket : w.reported[b] <= R[b],
         w.pc \in {"idle", "files"} \/ w.failed
  PROVE  WorkSound(R, E, w)
<1>1. PlanSound(R, E, w)
  BY DEF PlanSound
<1>2. CompareSound(R, E, w)
  BY DEF CompareSound
<1>3. QED
  BY <1>1, <1>2 DEF WorkSound

(* The ordinals of a bucket are the naturals below the number of its synthetic events. *)
LEMMA OrdinalsCount ==
  ASSUME NEW R, NEW E \in SUBSET UsageEvent, IsFiniteSet(E), Contiguous(R, E), NEW b \in FileBucket
  PROVE  Ordinals(E, b) = 0..(Cardinality(Synthetics(E, b)) - 1)
<1> DEFINE S == Synthetics(E, b)
           O == Ordinals(E, b)
           f == [e \in S |-> e.ordinal]
<1>1. S \in SUBSET E /\ IsFiniteSet(S)
  BY FS_Subset DEF Synthetics
<1>2. O \in SUBSET Nat
  BY DEF Ordinals, Synthetics, UsageEvent
<1>3. f \in Surjection(S, O)
  BY DEF Surjection, Ordinals
<1>4. f \in Injection(S, O)
  <2>1. \A d, e \in S : d.ordinal = e.ordinal => d = e
    BY DEF Contiguous
  <2>2. f \in [S -> O]
    BY DEF Ordinals
  <2>3. QED
    BY <2>1, <2>2 DEF Injection, IsInjective
<1>5. IsFiniteSet(O) /\ Cardinality(O) = Cardinality(S)
  BY <1>1, <1>3, <1>4, FS_Surjection
<1>6. \A n \in O : \A k \in 0..(n - 1) : k \in O
  BY DEF Contiguous
<1> HIDE DEF S, O, f
<1>7. CASE O = {}
  BY <1>5, <1>7, FS_EmptySet DEF S, O
<1>8. CASE O # {}
  <2>1. PICK n \in Nat : \A k \in O : k <= n
    BY <1>2, <1>5, FiniteIsBounded
  <2>2. PICK m \in O : \A k \in O : k <= m
    BY <1>2, <1>8, <2>1, GreatestExists
  <2>3. m \in Nat /\ O = 0..m
    <3>1. m \in Nat /\ O \subseteq 0..m
      BY <1>2, <2>2
    <3>2. ASSUME NEW k \in 0..m PROVE k \in O
      <4>1. CASE k = m
        BY <4>1
      <4>2. CASE k # m
        <5>1. k \in 0..(m - 1)
          BY <3>1, <4>2
        <5>2. QED
          BY <5>1, <1>6
      <4>3. QED
        BY <4>1, <4>2
    <3>3. QED
      BY <3>1, <3>2
  <2>4. Cardinality(O) = m + 1
    BY <2>3, FS_Interval
  <2>5. Cardinality(S) - 1 = m
    BY <1>5, <2>3, <2>4
  <2>6. QED
    BY <2>3, <2>5 DEF S, O
<1>9. QED
  BY <1>7, <1>8

(* The plan for a bucket continues its ordinals and covers what is reported and not real. *)
LEMMA MissingPlan ==
  ASSUME Numbered(events), NEW w \in Work, NEW b \in FileBucket
  PROVE  \E n \in Nat :
           /\ Missing(w, b) \in Seq(Planned) /\ Len(Missing(w, b)) = n
           /\ \A i \in 1..n : /\ Missing(w, b)[i].bucket = b
                              /\ Missing(w, b)[i].ordinal = Cardinality(Synthetic(b)) + i - 1
           /\ n <= 0 \/ n <= w.reported[b] - w.real - Cardinality(Synthetic(b))
           /\ w.reported[b] - w.real - Cardinality(Synthetic(b)) <= n
<1> DEFINE synthetic == Cardinality(Synthetic(b))
           missing == w.reported[b] - w.real - synthetic
<1>1. synthetic \in Nat
  BY FiniteBuckets
<1>2. missing \in Int
  BY <1>1 DEF Work
<1>3. Missing(w, b) = [i \in 1..missing |-> [bucket |-> b, ordinal |-> synthetic + i - 1]]
  BY DEF Missing
<1>4. PICK n \in Nat : 1..missing = 1..n /\ (n <= 0 \/ n <= missing) /\ missing <= n
  <2>1. CASE missing > 0
    BY <1>2, <2>1
  <2>2. CASE ~(missing > 0)
    <3>1. 1..missing = 1..0 /\ missing <= 0 /\ 0 <= 0
      BY <1>2, <2>2
    <3> HIDE DEF missing
    <3>2. QED
      BY <3>1
  <2>3. QED
    BY <2>1, <2>2
<1>5. Missing(w, b) = [i \in 1..n |-> [bucket |-> b, ordinal |-> synthetic + i - 1]]
  BY <1>3, <1>4
<1> HIDE DEF synthetic, missing
<1>6. Missing(w, b) \in Seq(Planned)
  BY MissingType
<1>7. Len(Missing(w, b)) = n
  BY <1>4, <1>5, <1>6
<1>8. \A i \in 1..n : Missing(w, b)[i].bucket = b /\ Missing(w, b)[i].ordinal = synthetic + i - 1
  BY <1>5
<1>9. QED
  BY <1>4, <1>6, <1>7, <1>8 DEF missing, synthetic

LEMMA SyntheticIsOf ==
  ASSUME NEW b
  PROVE  Synthetic(b) = Synthetics(events, b) /\ Real(b) = Reals(events, b)
BY DEF Synthetic, Real, Synthetics, Reals

LEMMA Concatenation ==
  ASSUME NEW S, NEW p \in Seq(S), NEW q \in Seq(S)
  PROVE  /\ Len(p \o q) = Len(p) + Len(q)
         /\ \A i \in 1..Len(p) : (p \o q)[i] = p[i]
         /\ \A i \in 1..Len(q) : (p \o q)[Len(p) + i] = q[i]
OBVIOUS

(* CountSynthetic adds to a sound plan what its bucket lacks. *)
LEMMA PlanExtends ==
  ASSUME StatsInv, Contiguous(requests, events),
         NEW w \in Work, WorkSound(requests, events, w), w.pc = "compare", NEW b \in w.comparing,
         NEW v, v = [w EXCEPT !.pc = "count", !.comparing = {}, !.real = 0,
                              !.plan = @ \o Missing(w, b)]
  PROVE  WorkSound(requests, events, v)
<1> DEFINE p == w.plan
           l == Len(p)
           q == Missing(w, b)
           synthetic == Cardinality(Synthetic(b))
           real == Cardinality(Reals(events, b))
<1>1. /\ p \in Seq(Planned) /\ l \in Nat /\ b \in FileBucket
      /\ w.reported \in [FileBucket -> Nat] /\ w.real \in Nat
  BY DEF Work
<1>2. Numbered(events) /\ events \in SUBSET UsageEvent /\ IsFiniteSet(events)
  BY DEF StatsInv, Numbered
<1>3. PICK n \in Nat :
        /\ q \in Seq(Planned) /\ Len(q) = n
        /\ \A i \in 1..n : q[i].bucket = b /\ q[i].ordinal = synthetic + i - 1
        /\ n <= 0 \/ n <= w.reported[b] - w.real - synthetic
        /\ w.reported[b] - w.real - synthetic <= n
  BY <1>1, <1>2, MissingPlan
<1>4. /\ v.plan = p \o q /\ v.buckets = w.buckets /\ v.comparing = {}
      /\ v.reported = w.reported /\ v.failed = w.failed /\ v.pc = "count"
  BY DEF Work
<1>5. synthetic \in Nat /\ Ordinals(events, b) = 0..(synthetic - 1)
  <2>1. Ordinals(events, b) = 0..(Cardinality(Synthetics(events, b)) - 1)
    BY <1>1, <1>2, OrdinalsCount
  <2>2. QED
    BY <1>2, <2>1, FiniteBuckets, SyntheticIsOf
<1>6. /\ real \in Nat /\ w.real <= real /\ w.comparing = {b} /\ b \notin w.buckets
      /\ w.reported[b] <= requests[b] /\ requests[b] \in Nat
  <2>1. b \in Bucket
    BY <1>1, BucketTypes
  <2>2. QED
    BY <1>1, <1>2, <2>1, PartsGrow DEF WorkSound, CompareSound, StatsInv, MetadataTypeOK
<1>7. /\ Len(v.plan) = l + n
      /\ \A i \in 1..l : v.plan[i] = p[i]
      /\ \A i \in 1..n : v.plan[l + i].bucket = b /\ v.plan[l + i].ordinal = synthetic + i - 1
  <2>1. /\ Len(p \o q) = Len(p) + Len(q)
        /\ \A i \in 1..Len(p) : (p \o q)[i] = p[i]
        /\ \A i \in 1..Len(q) : (p \o q)[Len(p) + i] = q[i]
    <3>1. p \in Seq(Planned) /\ q \in Seq(Planned)
      BY <1>1, <1>3
    <3> HIDE DEF p, q
    <3>2. QED
      BY <3>1, Concatenation
  <2>2. Len(q) = n /\ \A i \in 1..n : q[i].bucket = b /\ q[i].ordinal = synthetic + i - 1
    BY <1>3
  <2>3. v.plan = p \o q
    BY <1>4
  <2> HIDE DEF p, q, synthetic
  <2>4. QED
    BY <2>1, <2>2, <2>3
<1>8. /\ PlanSound(requests, events, w) /\ CompareSound(requests, events, w)
  BY DEF WorkSound
<1> HIDE DEF synthetic, real, l, p, q
<1>0. /\ l \in Nat /\ w.real \in Nat /\ w.reported[b] \in Nat
      /\ n <= 0 \/ n <= w.reported[b] - w.real - synthetic
      /\ w.reported[b] - w.real - synthetic <= n
  BY <1>1, <1>3
<1>9. \A m \in 0..l : \A c, k : InPlan(v.plan, m, c, k) <=> InPlan(p, m, c, k)
  <2> SUFFICES ASSUME NEW m \in 0..l, NEW c, NEW k
               PROVE  InPlan(v.plan, m, c, k) <=> InPlan(p, m, c, k)
    OBVIOUS
  <2>1. \A j \in 1..m : j \in 1..l
    BY <1>1
  <2>2. \A j \in 1..m : v.plan[j] = p[j]
    BY <1>7, <2>1
  <2>3. QED
    BY <2>2 DEF InPlan
<1>10. ASSUME NEW k \in Int, 0 <= k
       PROVE  \A i \in 1..(n + 1) : k < synthetic + i - 1 =>
                k \in Ordinals(events, b) \/ InPlan(v.plan, l + i - 1, b, k)
  <2> SUFFICES ASSUME NEW i \in 1..(n + 1), k < synthetic + i - 1, ~(k \in Ordinals(events, b))
               PROVE  InPlan(v.plan, l + i - 1, b, k)
    OBVIOUS
  <2> DEFINE j == k - synthetic + 1
  <2>1. j \in 1..n /\ l + j \in 1..(l + i - 1) /\ synthetic + j - 1 = k
    <3>1. i \in Int /\ 1 <= i /\ i <= n + 1
      BY <1>3
    <3>2. synthetic <= k
      BY <1>5, <1>10
    <3>3. j \in Int /\ 1 <= j /\ j <= i - 1
      BY <1>5, <1>10, <3>1, <3>2
    <3>4. synthetic + j - 1 = k
      BY <1>5, <1>10
    <3> HIDE DEF j
    <3>5. QED
      BY <1>0, <3>1, <3>3, <3>4
  <2> HIDE DEF j
  <2>2. v.plan[l + j].bucket = b /\ v.plan[l + j].ordinal = k
    BY <1>7, <2>1
  <2>3. QED
    BY <2>1, <2>2 DEF InPlan
<1>11. PlanSound(requests, events, v)
  <2> SUFFICES ASSUME NEW i \in 1..Len(v.plan)
               PROVE  /\ v.plan[i].bucket \notin v.buckets \cup v.comparing
                      /\ v.plan[i].ordinal < requests[v.plan[i].bucket]
                      /\ ~InPlan(v.plan, i - 1, v.plan[i].bucket, v.plan[i].ordinal)
                      /\ \A k \in 0..(v.plan[i].ordinal - 1) :
                           \/ k \in Ordinals(events, v.plan[i].bucket)
                           \/ InPlan(v.plan, i - 1, v.plan[i].bucket, k)
    BY DEF PlanSound
  <2>1. CASE i <= l
    <3>1. i \in 1..l /\ i - 1 \in 0..l /\ v.plan[i] = p[i]
      BY <1>1, <1>7, <2>1
    <3>2. /\ p[i].bucket \notin w.buckets \cup w.comparing
          /\ p[i].ordinal < requests[p[i].bucket]
          /\ ~InPlan(p, i - 1, p[i].bucket, p[i].ordinal)
          /\ \A k \in 0..(p[i].ordinal - 1) :
               k \in Ordinals(events, p[i].bucket) \/ InPlan(p, i - 1, p[i].bucket, k)
      BY <1>8, <3>1 DEF PlanSound, p, l
    <3>3. QED
      BY <1>4, <1>9, <3>1, <3>2
  <2>2. CASE ~(i <= l)
    <3> DEFINE j == i - l
    <3>1. j \in 1..n /\ i = l + j /\ i \in Int
      BY <1>1, <1>3, <1>7, <2>2
    <3> HIDE DEF j
    <3>2. v.plan[i].bucket = b /\ v.plan[i].ordinal = synthetic + j - 1
      BY <1>7, <3>1
    <3>3. synthetic + j - 1 < requests[b]
      <4>1. synthetic + j <= w.reported[b]
        BY <1>0, <1>5, <3>1
      <4>2. w.reported[b] \in Int /\ requests[b] \in Int /\ w.reported[b] <= requests[b]
        BY <1>0, <1>6
      <4>3. synthetic \in Int /\ j \in Int
        BY <1>5, <3>1
      <4>4. QED
        BY <4>1, <4>2, <4>3
    <3>4. ~InPlan(v.plan, i - 1, b, synthetic + j - 1)
      <4> SUFFICES ASSUME NEW m \in 1..(i - 1), v.plan[m].bucket = b,
                          v.plan[m].ordinal = synthetic + j - 1
                   PROVE  FALSE
        BY DEF InPlan
      <4>1. CASE m <= l
        <5>1. m \in 1..l /\ v.plan[m] = p[m]
          <6>1. m \in 1..l
            BY <1>0, <3>1, <4>1
          <6>2. QED
            BY <1>7, <6>1
        <5>2. p[m].bucket # b
          BY <1>6, <1>8, <5>1 DEF PlanSound, p, l
        <5>3. QED
          BY <5>1, <5>2
      <4>2. CASE ~(m <= l)
        <5>1. m - l \in 1..n /\ m - l < j /\ l + (m - l) = m
          <6>1. m \in Int /\ l \in Int /\ m <= i - 1 /\ l < m
            BY <1>0, <3>1, <4>2
          <6>2. j \in Int /\ j <= n /\ i - l = j /\ i \in Int
            BY <1>0, <3>1
          <6>3. m - l <= j - 1 /\ 1 <= m - l
            BY <6>1, <6>2
          <6>4. m - l <= n
            BY <6>1, <6>2, <6>3
          <6>5. QED
            BY <6>1, <6>2, <6>3, <6>4
        <5>2. v.plan[m].ordinal = synthetic + (m - l) - 1
          BY <1>7, <5>1
        <5>3. QED
          <6>1. m - l \in Int /\ m - l < j /\ j \in Int /\ synthetic \in Int
            BY <1>5, <3>1, <5>1
          <6>2. v.plan[m].ordinal < synthetic + j - 1
            BY <5>2, <6>1
          <6>3. QED
            BY <6>1, <6>2
      <4>3. QED
        BY <4>1, <4>2
    <3>5. \A k \in 0..(v.plan[i].ordinal - 1) :
            k \in Ordinals(events, v.plan[i].bucket) \/ InPlan(v.plan, i - 1, v.plan[i].bucket, k)
      <4> DEFINE o == v.plan[i].ordinal
      <4>1. o = synthetic + j - 1 /\ o \in Int
        <5>1. o = synthetic + j - 1
          BY <3>2
        <5>2. synthetic \in Int /\ j \in Int
          BY <1>5, <3>1
        <5> HIDE DEF o
        <5>3. QED
          BY <5>1, <5>2
      <4> HIDE DEF o
      <4>2. ASSUME NEW k \in 0..(o - 1)
            PROVE  k \in Ordinals(events, b) \/ InPlan(v.plan, i - 1, b, k)
        <5>1. k \in Int /\ 0 <= k /\ k < o
          BY <4>1
        <5>2. k < synthetic + j - 1 /\ j \in 1..(n + 1) /\ l + j - 1 = i - 1
          BY <1>0, <3>1, <4>1, <5>1
        <5>3. QED
          BY <1>10, <5>1, <5>2
      <4>3. QED
        BY <3>2, <4>2 DEF o
    <3>6. b \notin v.buckets \cup v.comparing
      BY <1>4, <1>6
    <3>7. v.plan[i].bucket \notin v.buckets \cup v.comparing
      BY <3>2, <3>6
    <3>8. v.plan[i].ordinal < requests[v.plan[i].bucket]
      BY <3>2, <3>3
    <3>9. ~InPlan(v.plan, i - 1, v.plan[i].bucket, v.plan[i].ordinal)
      BY <3>2, <3>4
    <3>10. QED
      BY <3>5, <3>7, <3>8, <3>9
  <2>3. QED
    BY <2>1, <2>2
<1>12. ASSUME ~v.failed, NEW c \in FileBucket \ v.buckets
       PROVE  Compared(events, v, c)
  <2> SUFFICES ASSUME NEW k \in 0..(w.reported[c] - Cardinality(Reals(events, c)) - 1)
               PROVE  k \in Ordinals(events, c) \/ InPlan(v.plan, l + n, c, k)
    BY <1>4, <1>7 DEF Compared
  <2>1. CASE c = b
    <3>1. k \in Int /\ 0 <= k /\ k < synthetic + (n + 1) - 1 /\ n + 1 \in 1..(n + 1) /\ l + (n + 1) - 1 = l + n
      <4>1. k \in Int /\ 0 <= k /\ k <= w.reported[b] - real - 1
        BY <2>1 DEF real
      <4>2. w.reported[b] \in Nat
        BY <1>1
      <4>3. k <= w.reported[b] - w.real - 1
        BY <1>0, <1>6, <4>1, <4>2
      <4>4. k < synthetic + n
        BY <1>0, <1>5, <4>1, <4>2, <4>3
      <4>5. n + 1 \in 1..(n + 1) /\ l + (n + 1) - 1 = l + n
        BY <1>0
      <4>6. QED
        BY <1>5, <4>1, <4>4, <4>5
    <3>2. QED
      BY <1>10, <2>1, <3>1
  <2>2. CASE c # b
    <3>1. c \in FileBucket \ (w.buckets \cup w.comparing)
      BY <1>4, <1>6, <2>2
    <3>2. Compared(events, w, c)
      BY <1>4, <1>8, <1>12, <3>1 DEF CompareSound
    <3>3. k \in Ordinals(events, c) \/ InPlan(p, l, c, k)
      BY <3>2 DEF Compared, p, l
    <3>4. InPlan(p, l, c, k) => InPlan(v.plan, l + n, c, k)
      <4>1. \A j \in 1..l : j \in 1..(l + n) /\ v.plan[j] = p[j]
        BY <1>1, <1>3, <1>7
      <4>2. QED
        BY <4>1 DEF InPlan
    <3>5. QED
      BY <3>3, <3>4
  <2>3. QED
    BY <2>1, <2>2
<1>13. CompareSound(requests, events, v)
  BY <1>4, <1>8, <1>12 DEF CompareSound
<1>14. QED
  BY <1>11, <1>13 DEF WorkSound

(* InsertSynthetic: the batch is the first part of the plan, the rest remains. *)
Splits(w, n, rest) ==
  /\ n <= Len(w.plan) /\ Batch(w) = 1..n
  /\ Len(rest) = Len(w.plan) - n
  /\ \A i \in 1..Len(rest) : rest[i] = w.plan[n + i]

BatchOf(w, F) == \A e : e \in F <=> \E i \in NewInBatch(w) : e = SyntheticEvent(w, i)

LEMMA RestOfPlan ==
  ASSUME NEW w \in Work
  PROVE  \E n \in Nat : Splits(w, n, SubSeq(w.plan, SyntheticBatch + 1, Len(w.plan)))
<1> DEFINE p == w.plan
           rest == SubSeq(p, SyntheticBatch + 1, Len(p))
<1>1. p \in Seq(Planned) /\ Len(p) \in Nat /\ SyntheticBatch \in Nat \ {0}
  BY BoundAssumption DEF Work
<1> HIDE DEF p
<1>2. CASE Len(p) < SyntheticBatch
  <2>1. Batch(w) = 1..Len(p)
    BY <1>1, <1>2 DEF Batch, p
  <2>2. Len(rest) = 0
    BY <1>1, <1>2
  <2> HIDE DEF rest
  <2>3. /\ Len(p) <= Len(p) /\ Len(rest) = Len(p) - Len(p)
        /\ \A i \in 1..Len(rest) : rest[i] = p[Len(p) + i]
    BY <1>1, <2>2
  <2>4. QED
    BY <1>1, <2>1, <2>3 DEF rest, p, Splits
<1>3. CASE ~(Len(p) < SyntheticBatch)
  <2>1. Batch(w) = 1..SyntheticBatch
    BY <1>1, <1>3 DEF Batch, p
  <2>2. /\ SyntheticBatch <= Len(p) /\ Len(rest) = Len(p) - SyntheticBatch
        /\ \A i \in 1..Len(rest) : rest[i] = p[SyntheticBatch + i]
    BY <1>1, <1>3
  <2>3. QED
    BY <1>1, <2>1, <2>2 DEF rest, p, Splits
<1>4. QED
  BY <1>2, <1>3

LEMMA BatchOrdinals ==
  ASSUME Contiguous(requests, events), NEW w, PlanSound(requests, events, w),
         NEW n \in Nat, Len(w.plan) \in Nat, n <= Len(w.plan), Batch(w) = 1..n,
         NEW F, \A e : e \in F <=> \E i \in NewInBatch(w) : e = SyntheticEvent(w, i),
         NEW b \in FileBucket
  PROVE  /\ \A k : k \in Ordinals(events \cup F, b) <=> k \in Ordinals(events, b) \/ InPlan(w.plan, n, b, k)
         /\ \A e, f \in Synthetics(events \cup F, b) : e.ordinal = f.ordinal => e = f
         /\ Reals(events \cup F, b) = Reals(events, b)
<1> DEFINE p == w.plan
<1>1. ASSUME NEW i \in NewInBatch(w)
      PROVE  /\ i \in 1..n /\ SyntheticEvent(w, i).bucket = p[i].bucket
             /\ SyntheticEvent(w, i).synthetic = TRUE /\ SyntheticEvent(w, i).ordinal = p[i].ordinal
             /\ \A e \in Synthetics(events, p[i].bucket) : e.ordinal # p[i].ordinal
  BY SyntheticIsOf DEF NewInBatch, SyntheticEvent
<1>2. ASSUME NEW i \in 1..n, i \notin NewInBatch(w)
      PROVE  p[i].ordinal \in Ordinals(events, p[i].bucket)
  BY <1>2, SyntheticIsOf DEF NewInBatch, Ordinals
<1>3. ASSUME NEW e \in Synthetics(events \cup F, b), e \notin Synthetics(events, b)
      PROVE  \E i \in NewInBatch(w) : e = SyntheticEvent(w, i) /\ p[i].bucket = b /\ p[i].ordinal = e.ordinal
  <2>1. e \in F /\ e.bucket = b
    BY <1>3 DEF Synthetics
  <2>2. PICK i \in NewInBatch(w) : e = SyntheticEvent(w, i)
    BY <2>1
  <2>3. QED
    BY <1>1, <2>1, <2>2
<1>4. ASSUME NEW i \in NewInBatch(w), p[i].bucket = b
      PROVE  p[i].ordinal \in Ordinals(events \cup F, b)
  <2>1. SyntheticEvent(w, i) \in Synthetics(events \cup F, b)
    BY <1>1, <1>4 DEF Synthetics
  <2>2. QED
    BY <1>1, <2>1 DEF Ordinals
<1>5. Synthetics(events, b) \subseteq Synthetics(events \cup F, b)
  BY DEF Synthetics
<1>6. ASSUME NEW k
      PROVE  k \in Ordinals(events \cup F, b) <=> k \in Ordinals(events, b) \/ InPlan(p, n, b, k)
  <2>1. ASSUME k \in Ordinals(events \cup F, b) PROVE k \in Ordinals(events, b) \/ InPlan(p, n, b, k)
    <3>1. PICK e \in Synthetics(events \cup F, b) : k = e.ordinal
      BY <2>1 DEF Ordinals
    <3>2. CASE e \in Synthetics(events, b)
      BY <3>1, <3>2 DEF Ordinals
    <3>3. CASE e \notin Synthetics(events, b)
      BY <1>1, <1>3, <3>1, <3>3 DEF InPlan
    <3>4. QED
      BY <3>2, <3>3
  <2>2. ASSUME k \in Ordinals(events, b) PROVE k \in Ordinals(events \cup F, b)
    BY <1>5, <2>2 DEF Ordinals
  <2>3. ASSUME InPlan(p, n, b, k) PROVE k \in Ordinals(events \cup F, b)
    <3>1. PICK i \in 1..n : p[i].bucket = b /\ p[i].ordinal = k
      BY <2>3 DEF InPlan
    <3>2. CASE i \in NewInBatch(w)
      BY <1>4, <3>1, <3>2
    <3>3. CASE i \notin NewInBatch(w)
      <4>1. k \in Ordinals(events, b)
        BY <1>2, <3>1, <3>3
      <4>2. QED
        BY <1>5, <4>1 DEF Ordinals
    <3>4. QED
      BY <3>2, <3>3
  <2>4. QED
    BY <2>1, <2>2, <2>3
<1>7. ASSUME NEW i \in 1..n, NEW j \in 1..n, p[i].bucket = b, p[j].bucket = b, p[i].ordinal = p[j].ordinal
      PROVE  ~(i < j)
  <2>1. SUFFICES ASSUME i < j PROVE FALSE
    OBVIOUS
  <2>2. j \in 1..Len(p) /\ i \in 1..(j - 1)
    BY <2>1
  <2>3. ~InPlan(p, j - 1, p[j].bucket, p[j].ordinal)
    BY <2>2 DEF PlanSound
  <2>4. QED
    BY <1>7, <2>2, <2>3 DEF InPlan
<1>8. ASSUME NEW i \in 1..n, NEW j \in 1..n, p[i].bucket = b, p[j].bucket = b, p[i].ordinal = p[j].ordinal
      PROVE  i = j
  <2>1. ~(i < j) /\ ~(j < i)
    BY <1>7, <1>8
  <2>2. QED
    BY <2>1
<1>9. ASSUME NEW e \in Synthetics(events \cup F, b), NEW f \in Synthetics(events, b),
             e.ordinal = f.ordinal
      PROVE  e = f
  <2>1. CASE e \in Synthetics(events, b)
    BY <1>9, <2>1 DEF Contiguous
  <2>2. CASE e \notin Synthetics(events, b)
    <3>1. PICK i \in NewInBatch(w) : p[i].bucket = b /\ p[i].ordinal = e.ordinal
      BY <1>3, <2>2
    <3>2. QED
      BY <1>1, <1>9, <3>1
  <2>3. QED
    BY <2>1, <2>2
<1>10. ASSUME NEW e \in Synthetics(events \cup F, b), NEW f \in Synthetics(events \cup F, b),
              e.ordinal = f.ordinal
       PROVE  e = f
  <2>1. CASE e \in Synthetics(events, b) \/ f \in Synthetics(events, b)
    BY <1>9, <1>10, <2>1
  <2>2. CASE e \notin Synthetics(events, b) /\ f \notin Synthetics(events, b)
    <3>1. PICK i \in NewInBatch(w) : e = SyntheticEvent(w, i) /\ p[i].bucket = b /\ p[i].ordinal = e.ordinal
      BY <1>3, <2>2
    <3>2. PICK j \in NewInBatch(w) : f = SyntheticEvent(w, j) /\ p[j].bucket = b /\ p[j].ordinal = f.ordinal
      BY <1>3, <2>2
    <3>3. i \in 1..n /\ j \in 1..n
      BY <1>1
    <3>4. i = j
      BY <1>8, <1>10, <3>1, <3>2, <3>3
    <3>5. QED
      BY <3>1, <3>2, <3>4
  <2>3. QED
    BY <2>1, <2>2
<1>11. Reals(events \cup F, b) = Reals(events, b)
  <2>1. \A e \in F : e.synthetic = TRUE
    <3> SUFFICES ASSUME NEW e \in F PROVE e.synthetic = TRUE
      OBVIOUS
    <3>1. PICK i \in NewInBatch(w) : e = SyntheticEvent(w, i)
      OBVIOUS
    <3>2. QED
      BY <1>1, <3>1
  <2>2. QED
    BY <2>1 DEF Reals
<1>12. QED
  BY <1>6, <1>10, <1>11

LEMMA BatchInserted ==
  ASSUME StatsInv, Contiguous(requests, events),
         NEW w \in Work, WorkSound(requests, events, w), w.pc = "insert",
         NEW F, BatchOf(w, F), NEW n \in Nat, NEW rest, Splits(w, n, rest),
         NEW v, v = [w EXCEPT !.plan = rest, !.pc = IF rest = <<>> THEN "providers" ELSE "insert"]
  PROVE  Contiguous(requests, events \cup F) /\ WorkSound(requests, events \cup F, v)
<1> DEFINE p == w.plan
           l == Len(p)
           r == Len(rest)
           E == events \cup F
<1>1. p \in Seq(Planned) /\ l \in Nat
  BY DEF Work
<1>2. /\ n <= l /\ Batch(w) = 1..n
      /\ r = l - n /\ \A i \in 1..r : rest[i] = p[n + i]
  BY DEF Splits
<1>0. r \in Nat /\ n + r = l /\ l \in Nat
  <2> HIDE DEF r, l
  <2>1. QED
    BY <1>1, <1>2
<1>3. PlanSound(requests, events, w) /\ CompareSound(requests, events, w)
  BY DEF WorkSound
<1>4. ASSUME NEW b \in FileBucket
      PROVE  /\ \A k : k \in Ordinals(E, b) <=> k \in Ordinals(events, b) \/ InPlan(p, n, b, k)
             /\ \A e, f \in Synthetics(E, b) : e.ordinal = f.ordinal => e = f
             /\ Reals(E, b) = Reals(events, b)
  <2>1. Len(w.plan) \in Nat /\ n <= Len(w.plan) /\ Batch(w) = 1..n
    BY <1>1, <1>2
  <2>2. PlanSound(requests, events, w)
    BY <1>3
  <2> HIDE DEF E
  <2>3. QED
    BY <2>1, <2>2, BatchOrdinals DEF E, BatchOf
<1>5. \A i \in 1..l :
        /\ p[i].bucket \in FileBucket /\ p[i].ordinal \in Nat
        /\ p[i].bucket \notin w.buckets \cup w.comparing
        /\ p[i].ordinal < requests[p[i].bucket]
        /\ ~InPlan(p, i - 1, p[i].bucket, p[i].ordinal)
        /\ \A k \in 0..(p[i].ordinal - 1) :
             k \in Ordinals(events, p[i].bucket) \/ InPlan(p, i - 1, p[i].bucket, k)
  <2>1. \A i \in 1..l : p[i] \in Planned
    BY <1>1
  <2>2. QED
    BY <1>3, <2>1 DEF PlanSound, Planned
<1>6. /\ v.plan = rest /\ v.buckets = w.buckets /\ v.comparing = w.comparing /\ v.real = w.real
      /\ v.reported = w.reported /\ v.failed = w.failed
      /\ v.pc = IF rest = <<>> THEN "providers" ELSE "insert"
  BY DEF Work
<1> HIDE DEF p, l, r, E
<1>7. Contiguous(requests, E)
  <2> SUFFICES ASSUME NEW b \in FileBucket, NEW o \in Ordinals(E, b)
               PROVE  o < requests[b] /\ \A k \in 0..(o - 1) : k \in Ordinals(E, b)
    BY <1>4 DEF Contiguous
  <2>1. CASE o \in Ordinals(events, b)
    BY <1>4, <2>1 DEF Contiguous
  <2>2. CASE InPlan(p, n, b, o)
    <3>1. PICK i \in 1..n : p[i].bucket = b /\ p[i].ordinal = o
      BY <2>2 DEF InPlan
    <3>2. i \in 1..l /\ \A j \in 1..(i - 1) : j \in 1..n
      BY <1>1, <1>2
    <3>3. /\ o < requests[b]
          /\ \A k \in 0..(o - 1) : k \in Ordinals(events, b) \/ InPlan(p, i - 1, b, k)
      BY <1>5, <3>1, <3>2
    <3>4. \A k : InPlan(p, i - 1, b, k) => InPlan(p, n, b, k)
      BY <3>2 DEF InPlan
    <3>5. QED
      BY <1>4, <3>3, <3>4
  <2>3. QED
    BY <1>4, <2>1, <2>2
<1>8. ASSUME NEW m \in 0..r, NEW c, NEW k
      PROVE  /\ InPlan(rest, m, c, k) => InPlan(p, n + m, c, k)
             /\ InPlan(p, n + m, c, k) => InPlan(p, n, c, k) \/ InPlan(rest, m, c, k)
  <2>0. r \in Nat /\ m \in Nat /\ m <= r
    BY <1>0
  <2>1. ASSUME InPlan(rest, m, c, k) PROVE InPlan(p, n + m, c, k)
    <3>1. PICK j \in 1..m : rest[j].bucket = c /\ rest[j].ordinal = k
      BY <2>1 DEF InPlan
    <3>2. n + j \in 1..(n + m) /\ j \in 1..r
      BY <2>0
    <3>3. rest[j] = p[n + j]
      BY <1>2, <3>2
    <3>4. QED
      BY <3>1, <3>2, <3>3 DEF InPlan
  <2>2. ASSUME InPlan(p, n + m, c, k), ~InPlan(p, n, c, k) PROVE InPlan(rest, m, c, k)
    <3>1. PICK i \in 1..(n + m) : p[i].bucket = c /\ p[i].ordinal = k
      BY <2>2 DEF InPlan
    <3>2. i \notin 1..n
      BY <2>2, <3>1 DEF InPlan
    <3>3. i - n \in 1..m /\ i - n \in 1..r /\ n + (i - n) = i
      BY <2>0, <3>1, <3>2
    <3>4. rest[i - n] = p[i]
      BY <1>2, <3>3
    <3>5. QED
      BY <3>1, <3>3, <3>4 DEF InPlan
  <2>3. QED
    BY <2>1, <2>2
<1>9. PlanSound(requests, E, v)
  <2> SUFFICES ASSUME NEW i \in 1..r
               PROVE  /\ rest[i].bucket \notin v.buckets \cup v.comparing
                      /\ rest[i].ordinal < requests[rest[i].bucket]
                      /\ ~InPlan(rest, i - 1, rest[i].bucket, rest[i].ordinal)
                      /\ \A k \in 0..(rest[i].ordinal - 1) :
                           \/ k \in Ordinals(E, rest[i].bucket)
                           \/ InPlan(rest, i - 1, rest[i].bucket, k)
    BY <1>6 DEF PlanSound, r
  <2>1. n + i \in 1..l /\ i - 1 \in 0..r /\ n + i - 1 = n + (i - 1)
    BY <1>0
  <2>2. rest[i] = p[n + i]
    BY <1>2
  <2>3. /\ rest[i].bucket \in FileBucket
        /\ rest[i].bucket \notin w.buckets \cup w.comparing
        /\ rest[i].ordinal < requests[rest[i].bucket]
        /\ ~InPlan(p, n + (i - 1), rest[i].bucket, rest[i].ordinal)
        /\ \A k \in 0..(rest[i].ordinal - 1) :
             \/ k \in Ordinals(events, rest[i].bucket)
             \/ InPlan(p, n + (i - 1), rest[i].bucket, k)
    <3> DEFINE j == n + i
    <3>1. j \in 1..l /\ j - 1 = n + (i - 1) /\ rest[i] = p[j]
      BY <2>1, <2>2
    <3> HIDE DEF j
    <3>2. /\ p[j].bucket \in FileBucket
          /\ p[j].bucket \notin w.buckets \cup w.comparing
          /\ p[j].ordinal < requests[p[j].bucket]
          /\ ~InPlan(p, j - 1, p[j].bucket, p[j].ordinal)
          /\ \A k \in 0..(p[j].ordinal - 1) :
               k \in Ordinals(events, p[j].bucket) \/ InPlan(p, j - 1, p[j].bucket, k)
      BY <1>5, <3>1
    <3>3. QED
      BY <3>1, <3>2
  <2>4. ~InPlan(rest, i - 1, rest[i].bucket, rest[i].ordinal)
    BY <1>8, <2>1, <2>3
  <2>5. ASSUME NEW k \in 0..(rest[i].ordinal - 1)
        PROVE  k \in Ordinals(E, rest[i].bucket) \/ InPlan(rest, i - 1, rest[i].bucket, k)
    BY <1>4, <1>8, <2>1, <2>3
  <2>6. QED
    BY <1>6, <2>3, <2>4, <2>5
<1>10. ASSUME ~w.failed, NEW b \in FileBucket \ (w.buckets \cup w.comparing)
       PROVE  Compared(E, v, b)
  <2>1. r \in 0..r /\ n + r = l
    BY <1>0
  <2>2. \A k \in 0..(w.reported[b] - Cardinality(Reals(events, b)) - 1) :
          k \in Ordinals(events, b) \/ InPlan(p, l, b, k)
    BY <1>3, <1>10 DEF CompareSound, Compared, p, l
  <2>3. \A k : InPlan(p, l, b, k) => k \in Ordinals(E, b) \/ InPlan(rest, r, b, k)
    BY <1>4, <1>8, <2>1
  <2>4. QED
    BY <1>4, <1>6, <2>2, <2>3 DEF Compared, r
<1>11. CompareSound(requests, E, v)
  <2>1. w.comparing = {}
    BY <1>3 DEF CompareSound
  <2>2. QED
    BY <1>3, <1>6, <1>10, <2>1 DEF CompareSound
<1>12. QED
  BY <1>7, <1>9, <1>11 DEF WorkSound, E

-----------------------------------------------------------------------------
(* The steps of SyncMetadata: the syncer s goes on with work v. *)

LEMMA IdleSound == StatsInv => WorkSound(requests, events, Idle)
<1> SUFFICES ASSUME StatsInv PROVE WorkSound(requests, events, Idle)
  OBVIOUS
<1>1. \A b \in FileBucket : requests[b] \in Nat
  BY BucketTypes DEF StatsInv, MetadataTypeOK
<1>2. \A b \in FileBucket : Idle.reported[b] <= requests[b]
  BY <1>1 DEF Idle
<1>3. Idle.plan = <<>> /\ Idle.buckets = {} /\ Idle.comparing = {} /\ Idle.pc = "idle"
  BY DEF Idle
<1>4. QED
  BY <1>2, <1>3, NothingPlannedSound

LEMMA StartsSound ==
  ASSUME StatsInv, NEW s \in Syncer, Fetch(s)
  PROVE  \E v : sync' = [sync EXCEPT ![s] = v] /\ WorkSound(requests, events, v)
<1>1. PICK ok \in BOOLEAN, files \in SUBSET AuthFile, types \in SUBSET Types :
      \E providers \in SUBSET {p \in Provider : ProviderType[p] \in types} :
        Become(s, [Idle EXCEPT !.pc = IF ok THEN "files" ELSE "providers",
                               !.files = files, !.failed = ~ok,
                               !.reported = [b \in FileBucket |-> IF b.of \in files
                                                                  THEN requests[b] ELSE 0],
                               !.providers = providers, !.types = types])
  BY ZenonT(30) DEF Fetch
<1>2. PICK providers :
        Become(s, [Idle EXCEPT !.pc = IF ok THEN "files" ELSE "providers",
                               !.files = files, !.failed = ~ok,
                               !.reported = [b \in FileBucket |-> IF b.of \in files
                                                                  THEN requests[b] ELSE 0],
                               !.providers = providers, !.types = types])
  BY <1>1
<1> DEFINE reported == [b \in FileBucket |-> IF b.of \in files THEN requests[b] ELSE 0]
           v == [Idle EXCEPT !.pc = IF ok THEN "files" ELSE "providers",
                             !.files = files, !.failed = ~ok, !.reported = reported,
                             !.providers = providers, !.types = types]
<1>3. \A b \in FileBucket : reported[b] <= requests[b]
  <2>1. \A b \in FileBucket : requests[b] \in Nat
    BY BucketTypes DEF StatsInv, MetadataTypeOK
  <2>2. QED
    BY <2>1
<1>4. sync' = [sync EXCEPT ![s] = v]
  BY <1>2 DEF Become
<1> HIDE DEF reported
<1>5. /\ v.plan = <<>> /\ v.buckets = {} /\ v.comparing = {} /\ v.reported = reported
      /\ v.pc = "files" \/ v.failed
  BY DEF Idle
<1> HIDE DEF v
<1>6. WorkSound(requests, events, v)
  BY <1>3, <1>5, NothingPlannedSound
<1>7. QED
  BY <1>4, <1>6

LEMMA EndsSound ==
  ASSUME StatsInv, NEW s \in Syncer, AuthFilesFail(s) \/ Aggregate(s) \/ SyncFails(s)
  PROVE  \E v : sync' = [sync EXCEPT ![s] = v] /\ WorkSound(requests, events, v)
<1>1. CASE Aggregate(s) \/ SyncFails(s)
  <2>1. sync' = [sync EXCEPT ![s] = Idle]
    BY <1>1 DEF Aggregate, SyncFails, Become
  <2>2. QED
    BY <2>1, IdleSound
<1>2. CASE AuthFilesFail(s)
  <2> DEFINE v == [Idle EXCEPT !.pc = "providers", !.failed = TRUE,
                               !.providers = sync[s].providers, !.types = sync[s].types]
  <2>1. sync' = [sync EXCEPT ![s] = v]
    BY <1>2 DEF AuthFilesFail, Become
  <2>2. /\ v.plan = <<>> /\ v.buckets = {} /\ v.comparing = {} /\ v.failed
        /\ v.reported = [b \in FileBucket |-> 0]
    BY DEF Idle
  <2> HIDE DEF v
  <2>3. \A b \in FileBucket : v.reported[b] <= requests[b]
    <3>1. \A b \in FileBucket : requests[b] \in Nat
      BY BucketTypes DEF StatsInv, MetadataTypeOK
    <3>2. QED
      BY <2>2, <3>1
  <2>4. WorkSound(requests, events, v)
    BY <2>2, <2>3, NothingPlannedSound
  <2>5. QED
    BY <2>1, <2>4
<1>3. QED
  BY <1>1, <1>2

LEMMA MovesSound ==
  ASSUME StatsInv, NEW s \in Syncer, WorkSound(requests, events, sync[s]),
         \/ ReplaceAuthFiles(s) \/ CountReal(s) \/ FinishCompare(s)
         \/ ReplaceProviders(s) \/ ReadIdentities(s)
  PROVE  \E v : sync' = [sync EXCEPT ![s] = v] /\ WorkSound(requests, events, v)
<1> DEFINE w == sync[s]
<1>1. w \in Work /\ Numbered(events)
  BY DEF StatsInv, MetadataTypeOK
<1>2. PlanSound(requests, events, w) /\ CompareSound(requests, events, w)
  BY DEF WorkSound
<1>3. CASE ReplaceAuthFiles(s)
  <2> DEFINE buckets == {b \in FileBucket : w.reported[b] > 0}
             v == [w EXCEPT !.pc = "count", !.buckets = buckets]
  <2>1. sync' = [sync EXCEPT ![s] = v] /\ w.pc = "files"
    BY <1>3 DEF ReplaceAuthFiles, Become
  <2>2. /\ v.plan = w.plan /\ v.reported = w.reported /\ v.comparing = w.comparing
        /\ v.buckets = buckets /\ v.pc = "count"
    BY <1>1 DEF Work
  <2>3. w.plan = <<>> /\ w.comparing = {} /\ \A b \in FileBucket : w.reported[b] <= requests[b]
    BY <1>2, <2>1 DEF CompareSound
  <2>4. ASSUME NEW b \in FileBucket \ buckets PROVE Compared(events, v, b)
    <3>1. w.reported[b] \in Nat /\ ~(w.reported[b] > 0)
      BY <1>1 DEF Work
    <3>2. Cardinality(Reals(events, b)) \in Nat
      BY <1>1, PartsGrow DEF Numbered
    <3> HIDE DEF v
    <3>3. 0..(v.reported[b] - Cardinality(Reals(events, b)) - 1) = {}
      BY <2>2, <3>1, <3>2
    <3>4. QED
      BY <3>3 DEF Compared
  <2> HIDE DEF v
  <2>5. PlanSound(requests, events, v)
    BY <2>2, <2>3 DEF PlanSound
  <2>6. CompareSound(requests, events, v)
    BY <2>2, <2>3, <2>4 DEF CompareSound
  <2>7. QED
    BY <2>1, <2>5, <2>6 DEF WorkSound
<1>4. CASE CountReal(s)
  <2>1. PICK b \in w.buckets :
          Become(s, [w EXCEPT !.pc = "compare", !.comparing = {b}, !.buckets = @ \ {b},
                              !.real = Cardinality(Real(b))])
    BY <1>4 DEF CountReal
  <2> DEFINE v == [w EXCEPT !.pc = "compare", !.comparing = {b}, !.buckets = @ \ {b},
                            !.real = Cardinality(Real(b))]
  <2>2. sync' = [sync EXCEPT ![s] = v] /\ w.pc = "count"
    BY <1>4, <2>1 DEF CountReal, Become
  <2>3. /\ v.plan = w.plan /\ v.reported = w.reported /\ v.comparing = {b} /\ v.failed = w.failed
        /\ v.buckets = w.buckets \ {b} /\ v.pc = "compare" /\ v.real = Cardinality(Real(b))
    BY <1>1 DEF Work
  <2>4. v.real <= Cardinality(Reals(events, b))
    <3>1. Cardinality(Real(b)) \in Nat /\ Real(b) = Reals(events, b)
      BY <1>1, FiniteBuckets, SyntheticIsOf
    <3>2. QED
      BY <2>3, <3>1
  <2>5. w.comparing = {}
    BY <1>2, <2>2 DEF CompareSound
  <2> HIDE DEF v
  <2>6. v.buckets \cup v.comparing = w.buckets \cup w.comparing
    BY <2>3, <2>5
  <2>7. PlanSound(requests, events, v)
    BY <1>2, <2>3, <2>6 DEF PlanSound
  <2>8. CompareSound(requests, events, v)
    BY <1>2, <2>2, <2>3, <2>4, <2>6 DEF CompareSound, Compared
  <2>9. QED
    BY <2>2, <2>7, <2>8 DEF WorkSound
<1>5. CASE FinishCompare(s)
  <2> DEFINE v == [w EXCEPT !.pc = IF w.plan = <<>> THEN "providers" ELSE "insert"]
  <2>1. sync' = [sync EXCEPT ![s] = v] /\ w.pc = "count" /\ w.buckets = {}
    BY <1>5 DEF FinishCompare, Become
  <2>2. /\ v.plan = w.plan /\ v.reported = w.reported /\ v.comparing = w.comparing
        /\ v.failed = w.failed /\ v.buckets = w.buckets /\ v.real = w.real
        /\ v.pc = IF w.plan = <<>> THEN "providers" ELSE "insert"
    BY <1>1 DEF Work
  <2> HIDE DEF v
  <2>3. PlanSound(requests, events, v)
    BY <1>2, <2>2 DEF PlanSound
  <2>4. CompareSound(requests, events, v)
    BY <1>2, <2>1, <2>2 DEF CompareSound, Compared
  <2>5. QED
    BY <2>1, <2>3, <2>4 DEF WorkSound
<1>6. CASE ReplaceProviders(s)
  <2>1. CASE w.failed
    <3>1. sync' = [sync EXCEPT ![s] = Idle]
      BY <1>6, <2>1 DEF ReplaceProviders, Become
    <3>2. QED
      BY <3>1, IdleSound
  <2>2. CASE ~w.failed
    <3> DEFINE v == [w EXCEPT !.pc = "read"]
    <3>1. sync' = [sync EXCEPT ![s] = v] /\ w.pc = "providers"
      BY <1>6, <2>2 DEF ReplaceProviders, Become
    <3>2. /\ v.plan = w.plan /\ v.reported = w.reported /\ v.comparing = w.comparing
          /\ v.failed = w.failed /\ v.buckets = w.buckets /\ v.real = w.real /\ v.pc = "read"
      BY <1>1 DEF Work
    <3> HIDE DEF v
    <3>3. PlanSound(requests, events, v)
      BY <1>2, <3>2 DEF PlanSound
    <3>4. CompareSound(requests, events, v)
      BY <1>2, <3>1, <3>2 DEF CompareSound, Compared
    <3>5. QED
      BY <3>1, <3>3, <3>4 DEF WorkSound
  <2>3. QED
    BY <2>1, <2>2
<1>7. CASE ReadIdentities(s)
  <2> DEFINE v == [w EXCEPT !.pc = "aggregate", !.known = DOMAIN rows,
                            !.base = [i \in Identity |-> StatsOf(i)]]
  <2>1. sync' = [sync EXCEPT ![s] = v] /\ w.pc = "read"
    BY <1>7 DEF ReadIdentities, Become
  <2>2. /\ v.plan = w.plan /\ v.reported = w.reported /\ v.comparing = w.comparing
        /\ v.failed = w.failed /\ v.buckets = w.buckets /\ v.real = w.real /\ v.pc = "aggregate"
    BY <1>1 DEF Work
  <2> HIDE DEF v
  <2>3. PlanSound(requests, events, v)
    BY <1>2, <2>2 DEF PlanSound
  <2>4. CompareSound(requests, events, v)
    BY <1>2, <2>1, <2>2 DEF CompareSound, Compared
  <2>5. QED
    BY <2>1, <2>3, <2>4 DEF WorkSound
<1>8. QED
  BY <1>3, <1>4, <1>5, <1>6, <1>7

LEMMA SyncersStaySound ==
  ASSUME StatsInv, StatsInv', BackfillInv, NEW s \in Syncer, NEW v,
         sync' = [sync EXCEPT ![s] = v], UNCHANGED requests, events \subseteq events',
         Contiguous(requests, events'), WorkSound(requests, events', v)
  PROVE  BackfillInv'
<1>1. sync \in [Syncer -> Work] /\ requests \in [Bucket -> Nat] /\ IsFiniteSet(events')
  BY DEF StatsInv, MetadataTypeOK, Numbered
<1>2. \A b \in Bucket : requests[b] <= requests[b]
  BY <1>1
<1>3. ASSUME NEW t \in Syncer PROVE WorkSound(requests, events', sync'[t])
  <2>1. CASE t = s
    BY <1>1, <2>1
  <2>2. CASE t # s
    <3>1. sync'[t] = sync[t] /\ sync[t] \in Work /\ WorkSound(requests, events, sync[t])
      BY <1>1, <2>2 DEF BackfillInv
    <3>2. WorkSound(requests, events', sync[t])
      BY <1>1, <1>2, <3>1, WorkStaysSound
    <3>3. QED
      BY <3>1, <3>2
  <2>3. QED
    BY <2>1, <2>2
<1>4. QED
  BY <1>3 DEF BackfillInv

LEMMA BackfillSyncStep ==
  ASSUME StatsInv, StatsInv', BackfillInv, NEW s \in Syncer, SyncStep(s)
  PROVE  BackfillInv'
<1> DEFINE w == sync[s]
<1>1. /\ w \in Work /\ WorkSound(requests, events, w) /\ Contiguous(requests, events)
  BY DEF StatsInv, MetadataTypeOK, BackfillInv
<1>2. CASE \/ Fetch(s) \/ AuthFilesFail(s) \/ Aggregate(s) \/ SyncFails(s)
           \/ ReplaceAuthFiles(s) \/ CountReal(s) \/ FinishCompare(s)
           \/ ReplaceProviders(s) \/ ReadIdentities(s)
  <2>1. UNCHANGED <<requests, events>>
    BY <1>2 DEF Fetch, AuthFilesFail, Aggregate, SyncFails, ReplaceAuthFiles, CountReal, FinishCompare,
                ReplaceProviders, ReadIdentities
  <2>2. PICK v : sync' = [sync EXCEPT ![s] = v] /\ WorkSound(requests, events, v)
    BY <1>1, <1>2, StartsSound, EndsSound, MovesSound
  <2>3. QED
    BY <1>1, <2>1, <2>2, SyncersStaySound
<1>3. CASE CountSynthetic(s)
  <2>1. PICK b \in w.comparing :
          Become(s, [w EXCEPT !.pc = "count", !.comparing = {}, !.real = 0,
                              !.plan = @ \o Missing(w, b)])
    BY <1>3 DEF CountSynthetic
  <2> DEFINE v == [w EXCEPT !.pc = "count", !.comparing = {}, !.real = 0,
                            !.plan = @ \o Missing(w, b)]
  <2>2. sync' = [sync EXCEPT ![s] = v] /\ w.pc = "compare" /\ UNCHANGED <<requests, events>>
    BY <1>3, <2>1 DEF CountSynthetic, Become
  <2>3. WorkSound(requests, events, v)
    BY <1>1, <2>2, PlanExtends
  <2> HIDE DEF v
  <2>4. QED
    BY <1>1, <2>2, <2>3, SyncersStaySound
<1>4. CASE InsertSynthetic(s)
  <2> DEFINE rest == SubSeq(w.plan, SyntheticBatch + 1, Len(w.plan))
             F == {SyntheticEvent(w, i) : i \in NewInBatch(w)}
             v == [w EXCEPT !.plan = rest, !.pc = IF rest = <<>> THEN "providers" ELSE "insert"]
  <2>1. /\ sync' = [sync EXCEPT ![s] = v] /\ w.pc = "insert"
        /\ UNCHANGED requests /\ events' = events \cup F
    BY <1>4 DEF InsertSynthetic, Become
  <2>2. PICK n \in Nat : Splits(w, n, rest)
    BY <1>1, RestOfPlan
  <2> HIDE DEF w
  <2>3. BatchOf(w, F)
    BY DEF BatchOf
  <2>4. v = [w EXCEPT !.plan = rest, !.pc = IF rest = <<>> THEN "providers" ELSE "insert"]
    OBVIOUS
  <2> HIDE DEF rest, F, v
  <2>5. Contiguous(requests, events \cup F) /\ WorkSound(requests, events \cup F, v)
    BY <1>1, <2>1, <2>2, <2>3, <2>4, BatchInserted
  <2>6. QED
    BY <2>1, <2>5, SyncersStaySound
<1>5. QED
  BY <1>2, <1>3, <1>4 DEF SyncStep

LEMMA BackfillExternalStep ==
  ASSUME StatsInv, StatsInv', BackfillInv, NEW b \in Bucket, Request(b) \/ Deliver(b) \/ Lose(b)
  PROVE  BackfillInv'
<1>1. /\ sync \in [Syncer -> Work] /\ requests \in [Bucket -> Nat] /\ requests' \in [Bucket -> Nat]
      /\ IsFiniteSet(events')
  BY DEF StatsInv, MetadataTypeOK, Numbered
<1>2. sync' = sync
  BY DEF Request, Deliver, Lose
<1>3. \A c \in Bucket : requests[c] <= requests'[c]
  BY <1>1 DEF Request, Deliver, Lose
<1>4. /\ events \subseteq events' /\ \A c : Synthetics(events', c) = Synthetics(events, c)
  BY DEF Request, Deliver, Lose, Synthetics
<1>5. Contiguous(requests', events')
  <2> SUFFICES ASSUME NEW c \in FileBucket
               PROVE  /\ \A e, f \in Synthetics(events', c) : e.ordinal = f.ordinal => e = f
                      /\ \A n \in Ordinals(events', c) :
                           n < requests'[c] /\ \A k \in 0..(n - 1) : k \in Ordinals(events', c)
    BY DEF Contiguous
  <2>1. Ordinals(events', c) = Ordinals(events, c)
    BY <1>4 DEF Ordinals
  <2>2. c \in Bucket /\ requests[c] \in Nat /\ requests'[c] \in Nat /\ requests[c] <= requests'[c]
    BY <1>1, <1>3, BucketTypes
  <2>3. Ordinals(events, c) \subseteq Nat
    BY DEF Ordinals, Synthetics, StatsInv, MetadataTypeOK, UsageEvent
  <2>4. /\ \A e, f \in Synthetics(events, c) : e.ordinal = f.ordinal => e = f
        /\ \A n \in Ordinals(events, c) :
             n < requests[c] /\ \A k \in 0..(n - 1) : k \in Ordinals(events, c)
    BY DEF BackfillInv, Contiguous
  <2>5. QED
    BY <1>4, <2>1, <2>2, <2>3, <2>4
<1>6. ASSUME NEW s \in Syncer PROVE WorkSound(requests', events', sync[s])
  BY <1>1, <1>3, <1>4, WorkStaysSound DEF BackfillInv
<1>7. QED
  BY <1>2, <1>5, <1>6 DEF BackfillInv

(***************************************************************************)
(* The synthetic events of a bucket are numbered without a gap, what a     *)
(* syncer still plans to insert follows them, and a bucket it has compared *)
(* lacks nothing of what was reported that is not in its plan.             *)
(***************************************************************************)
THEOREM BackfillInvariant == MetadataSpec => []BackfillInv
<1>1. MetadataInit => BackfillInv
  <2> SUFFICES ASSUME MetadataInit PROVE BackfillInv
    OBVIOUS
  <2>1. Contiguous(requests, events)
    BY DEF MetadataInit, Contiguous, Ordinals, Synthetics
  <2>2. \A s \in Syncer : sync[s] = Idle
    BY DEF MetadataInit
  <2>3. WorkSound(requests, events, Idle)
    BY StatsInvInit, IdleSound
  <2>4. QED
    BY <2>1, <2>2, <2>3 DEF BackfillInv
<1>2. StatsInv /\ StatsInv' /\ BackfillInv /\ [MetadataNext]_metadataVars => BackfillInv'
  <2> SUFFICES ASSUME StatsInv, StatsInv', BackfillInv, [MetadataNext]_metadataVars PROVE BackfillInv'
    OBVIOUS
  <2>1. ASSUME NEW b \in Bucket, Request(b) \/ Deliver(b) \/ Lose(b) PROVE BackfillInv'
    BY <2>1, BackfillExternalStep
  <2>2. ASSUME NEW s \in Syncer, SyncStep(s) PROVE BackfillInv'
    BY <2>2, BackfillSyncStep
  <2>3. CASE ProcessDies
    <3>1. UNCHANGED <<requests, events>> /\ sync' = [s \in Syncer |-> Idle]
      BY <2>3 DEF ProcessDies
    <3>2. QED
      BY <3>1, IdleSound DEF BackfillInv
  <2>4. CASE UNCHANGED metadataVars
    BY <2>4 DEF metadataVars, BackfillInv
  <2>5. QED
    BY <2>1, <2>2, <2>3, <2>4 DEF MetadataNext
<1>3. QED
  BY <1>1, <1>2, StatsInvariant, PTL DEF MetadataSpec

(***************************************************************************)
(* However many syncs overlap, and wherever they fail or the process dies, *)
(* the synthetic events of a bucket are numbered 0, 1, 2 ... and are no    *)
(* more than its requests.                                                 *)
(***************************************************************************)
THEOREM SyntheticNumbersAreContiguous == MetadataSpec => []SyntheticContiguous
<1>1. StatsInv /\ BackfillInv => SyntheticContiguous
  <2> SUFFICES ASSUME StatsInv, BackfillInv, NEW b \in FileBucket
               PROVE  /\ {e.ordinal : e \in Synthetic(b)} = 0..(Cardinality(Synthetic(b)) - 1)
                      /\ Cardinality(Synthetic(b)) <= requests[b]
    BY DEF SyntheticContiguous
  <2> DEFINE n == Cardinality(Synthetic(b))
  <2>1. /\ events \in SUBSET UsageEvent /\ IsFiniteSet(events) /\ Numbered(events)
        /\ Contiguous(requests, events) /\ requests[b] \in Nat
    BY BucketTypes DEF StatsInv, MetadataTypeOK, Numbered, BackfillInv
  <2>2. n \in Nat /\ Ordinals(events, b) = 0..(n - 1)
    BY <2>1, FiniteBuckets, OrdinalsCount, SyntheticIsOf
  <2>3. {e.ordinal : e \in Synthetic(b)} = Ordinals(events, b)
    BY SyntheticIsOf DEF Ordinals
  <2> HIDE DEF n
  <2>4. n <= requests[b]
    <3>1. CASE n = 0
      BY <2>1, <3>1
    <3>2. CASE n # 0
      <4>1. n - 1 \in Ordinals(events, b)
        BY <2>2, <3>2
      <4>2. n - 1 < requests[b]
        BY <2>1, <4>1 DEF Contiguous
      <4>3. QED
        BY <2>1, <2>2, <4>2
    <3>3. QED
      BY <3>1, <3>2
  <2>5. QED
    BY <2>2, <2>3, <2>4 DEF n
<1>2. QED
  BY <1>1, StatsInvariant, BackfillInvariant, PTL

(***************************************************************************)
(* A sync that has got past the backfill without an error has left no      *)
(* bucket with fewer events than its auth file reported, whatever another  *)
(* sync or the inbox has inserted between its counts and its inserts.      *)
(***************************************************************************)
THEOREM BackfillCoversReported == MetadataSpec => []BackfillCovers
<1>1. StatsInv /\ BackfillInv => BackfillCovers
  <2> SUFFICES ASSUME StatsInv, BackfillInv, NEW s \in Syncer, NEW b \in FileBucket,
                      sync[s].pc \in {"providers", "read", "aggregate"}, ~sync[s].failed
               PROVE  Cardinality(Real(b)) + Cardinality(Synthetic(b)) >= sync[s].reported[b]
    BY DEF BackfillCovers
  <2> DEFINE w == sync[s]
             real == Cardinality(Real(b))
             n == Cardinality(Synthetic(b))
  <2>1. /\ events \in SUBSET UsageEvent /\ IsFiniteSet(events) /\ Numbered(events)
        /\ Contiguous(requests, events) /\ w \in Work /\ w.reported[b] \in Nat
    BY DEF StatsInv, MetadataTypeOK, Numbered, BackfillInv, Work
  <2>2. real \in Nat /\ n \in Nat /\ Ordinals(events, b) = 0..(n - 1)
    BY <2>1, FiniteBuckets, OrdinalsCount, SyntheticIsOf
  <2>3. w.plan = <<>> /\ w.buckets = {} /\ w.comparing = {} /\ CompareSound(requests, events, w)
    BY DEF BackfillInv, WorkSound, CompareSound
  <2>4. Compared(events, w, b)
    BY <2>3 DEF CompareSound
  <2>5. \A k \in 0..(w.reported[b] - real - 1) : k \in 0..(n - 1)
    <3>1. \A k : ~InPlan(w.plan, Len(w.plan), b, k)
      BY <2>3 DEF InPlan
    <3>2. QED
      BY <2>2, <2>4, <3>1, SyntheticIsOf DEF Compared
  <2> HIDE DEF w, real, n
  <2>6. real + n >= w.reported[b]
    <3>1. CASE w.reported[b] - real <= 0
      BY <2>1, <2>2, <3>1
    <3>2. CASE w.reported[b] - real > 0
      <4>1. w.reported[b] - real - 1 \in 0..(n - 1)
        BY <2>1, <2>2, <2>5, <3>2
      <4>2. QED
        BY <2>1, <2>2, <4>1
    <3>3. QED
      BY <2>1, <2>2, <3>1, <3>2
  <2>7. QED
    BY <2>6 DEF w, real, n
<1>2. QED
  BY <1>1, StatsInvariant, BackfillInvariant, PTL
=============================================================================
