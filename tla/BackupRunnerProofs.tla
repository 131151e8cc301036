------------------------- MODULE BackupRunnerProofs -------------------------
(***************************************************************************)
(* The retention and the schedule, for every length of the day, time zone, *)
(* schedule, retention and time a copy takes.                              *)
(***************************************************************************)
EXTENDS BackupRunner, WellFoundedInduction, TLAPS

(* An attempt began in the past, and so did every backup. *)
ClockInv ==
  /\ clock \in Nat /\ backupAt \in 0..clock
  /\ files \subseteq [at : Nat, mod : Nat]

LEMMA DivideByDay ==
  ASSUME NEW t \in Nat
  PROVE  LocalDay(t) \in Nat /\ LocalDay(t) * Day <= t /\ t < (LocalDay(t) + 1) * Day
BY DayAssumption DEF LocalDay

LEMMA FactorOrder ==
  ASSUME NEW a \in Int, NEW b \in Int, a * Day < b * Day
  PROVE  a < b
BY DayAssumption

LEMMA LaterDay ==
  ASSUME NEW s \in Nat, NEW t \in Nat, s <= t
  PROVE  LocalDay(s) <= LocalDay(t)
<1>1. LocalDay(s) \in Nat /\ LocalDay(t) \in Nat
  BY DivideByDay
<1>2. LocalDay(s) * Day <= s /\ t < (LocalDay(t) + 1) * Day
  BY DivideByDay
<1>3. LocalDay(s) * Day \in Int /\ (LocalDay(t) + 1) * Day \in Int
  BY <1>1, DayAssumption
<1>4. LocalDay(s) * Day < (LocalDay(t) + 1) * Day
  BY <1>2, <1>3
<1>5. LocalDay(s) < LocalDay(t) + 1
  BY <1>1, <1>4, FactorOrder
<1>6. QED
  BY <1>1, <1>5

(* The truncation to a UTC day only makes the cutoff earlier. *)
LEMMA ExpiredIsOld ==
  ASSUME ClockInv, NEW f \in files, Expired(f)
  PROVE  LocalDay(f.at) < LocalDay(backupAt) - RetentionDays
<1>1. LocalDay(f.at) \in Nat /\ LocalDay(backupAt) \in Nat /\ RetentionDays \in Nat
  BY DivideByDay, ConfigAssumption DEF ClockInv
<1> DEFINE kept == LocalDay(backupAt) - RetentionDays
<1>2. kept \in Int
  BY <1>1
<1>3. kept * Day \in Int /\ Shift \in Nat /\ LocalDay(f.at) * Day \in Int
  BY <1>1, <1>2, DayAssumption
<1>4. ((kept * Day + Shift) % Day) \in Nat
  BY <1>3, DayAssumption
<1>5. LocalDay(f.at) * Day < kept * Day - ((kept * Day + Shift) % Day)
  BY DEF Expired, Cutoff
<1>6. LocalDay(f.at) * Day < kept * Day
  BY <1>3, <1>4, <1>5
<1>7. QED
  BY <1>1, <1>2, <1>6, FactorOrder

(***************************************************************************)
(* No backup is deleted on its day or in the RetentionDays days after it,  *)
(* whatever the zone and whenever attempts fail or the process stops.      *)
(***************************************************************************)
THEOREM BackupsAreKept == BackupSpec => KeptForRetention
<1>1. BackupInit => ClockInv
  BY DEF BackupInit, ClockInv
<1>2. ClockInv /\ [BackupNext]_backupVars => ClockInv'
  <2> SUFFICES ASSUME ClockInv, [BackupNext]_backupVars PROVE ClockInv'
    OBVIOUS
  <2>1. CASE WriteDatabase
    BY <2>1 DEF WriteDatabase, ClockInv
  <2>2. CASE Cleanup
    <3>1. files' \subseteq files /\ UNCHANGED <<clock, backupAt>>
      BY <2>2 DEF Cleanup, memory
    <3>2. QED
      BY <3>1 DEF ClockInv
  <2>3. CASE Plan \/ Wake \/ WriteFails \/ Stop \/ Start \/ AdvanceClock \/ UNCHANGED backupVars
    BY <2>3 DEF Plan, Wake, WriteFails, Stop, Start, AdvanceClock, backupVars, memory, ClockInv
  <2>4. QED
    BY <2>1, <2>2, <2>3 DEF BackupNext
<1>3. ClockInv /\ [BackupNext]_backupVars =>
        [\A f \in files \ files' : LocalDay(clock) - LocalDay(f.at) > RetentionDays]_backupVars
  <2> SUFFICES ASSUME ClockInv, BackupNext, NEW f \in files, f \notin files'
               PROVE  LocalDay(clock) - LocalDay(f.at) > RetentionDays
    OBVIOUS
  <2>1. Cleanup
    BY DEF BackupNext, Plan, Wake, WriteDatabase, WriteFails, Stop, Start, AdvanceClock
  <2>2. PICK g \in files : Expired(g) /\ LocalDay(f.at) = LocalDay(g.at)
    BY <2>1 DEF Cleanup
  <2>3. LocalDay(g.at) < LocalDay(backupAt) - RetentionDays
    BY <2>2, ExpiredIsOld
  <2>4. LocalDay(backupAt) <= LocalDay(clock)
    BY LaterDay DEF ClockInv
  <2>5. /\ LocalDay(clock) \in Nat /\ LocalDay(backupAt) \in Nat
        /\ LocalDay(g.at) \in Nat /\ RetentionDays \in Nat
    BY DivideByDay, ConfigAssumption DEF ClockInv
  <2>6. QED
    BY <2>2, <2>3, <2>4, <2>5
<1>4. QED
  BY <1>1, <1>2, <1>3, PTL DEF BackupSpec, KeptForRetention

-----------------------------------------------------------------------------
(* The latest of some times. *)

LEMMA LatestTime ==
  ASSUME NEW T \in SUBSET Nat, T # {}, NEW n \in Nat, \A t \in T : t <= n
  PROVE  Max(T) \in T /\ \A t \in T : t <= Max(T)
<1> DEFINE D == {d \in Nat : \E t \in T : d = n - t}
<1>1. D \in SUBSET Nat /\ D # {}
  <2>1. PICK t \in T : TRUE
    OBVIOUS
  <2>2. n - t \in D
    BY <2>1
  <2>3. QED
    BY <2>2
<1>2. PICK d \in D : \A e \in D : <<e, d>> \notin OpToRel(<, Nat)
  BY <1>1, NatLessThanWellFounded, WFMin
<1>3. ASSUME NEW e \in D PROVE d <= e
  <2>1. <<e, d>> \notin {ss \in Nat \X Nat : ss[1] < ss[2]}
    BY <1>2 DEF OpToRel
  <2>2. QED
    BY <2>1
<1>4. PICK x \in T : d = n - x
  OBVIOUS
<1>5. ASSUME NEW y \in T PROVE y <= x
  <2>1. n - y \in D
    OBVIOUS
  <2>2. n - x <= n - y
    BY <1>3, <1>4, <2>1
  <2>3. QED
    BY <2>2
<1>6. QED
  BY <1>5 DEF Max

-----------------------------------------------------------------------------
(* The schedule, as of the clock t: the interval, or so many days, after a backup that ended at m. *)
Ready(t, m) ==
  IF Daily THEN LocalDay(t) - LocalDay(m) >= interval \div Day ELSE t - m >= interval
AllReady(t) == \A f \in files : Ready(t, f.mod)

LEMMA ReadyLater ==
  ASSUME NEW t \in Nat, NEW u \in Nat, t <= u, NEW m \in Nat, interval \in Nat \ {0}, Ready(t, m)
  PROVE  Ready(u, m)
<1>1. /\ LocalDay(t) \in Nat /\ LocalDay(u) \in Nat /\ LocalDay(m) \in Nat
      /\ LocalDay(t) <= LocalDay(u)
  BY DivideByDay, LaterDay
<1>2. interval \div Day \in Int
  BY DayAssumption
<1> HIDE DEF LocalDay
<1>3. CASE Daily
  BY <1>1, <1>2, <1>3 DEF Ready
<1>4. CASE ~Daily
  BY <1>4 DEF Ready
<1>5. QED
  BY <1>3, <1>4

LEMMA WholeDays ==
  ASSUME interval \in Nat \ {0}, Daily
  PROVE  /\ interval \div Day \in Nat \ {0}
         /\ interval = (interval \div Day) * Day
BY DayAssumption DEF Daily

(* A time within day d. *)
LEMMA DayOf ==
  ASSUME NEW d \in Nat, NEW t \in Nat, d * Day <= t, t < (d + 1) * Day
  PROVE  LocalDay(t) = d
<1>1. LocalDay(t) \in Nat /\ LocalDay(t) * Day <= t /\ t < (LocalDay(t) + 1) * Day
  BY DivideByDay
<1>2. /\ LocalDay(t) * Day \in Int /\ (LocalDay(t) + 1) * Day \in Int
      /\ d * Day \in Int /\ (d + 1) * Day \in Int
  BY <1>1, DayAssumption
<1>3. LocalDay(t) * Day < (d + 1) * Day /\ d * Day < (LocalDay(t) + 1) * Day
  BY <1>1, <1>2
<1>4. LocalDay(t) < d + 1 /\ d < LocalDay(t) + 1
  BY <1>1, <1>3, FactorOrder
<1>5. QED
  BY <1>1, <1>4

FourOf(d) == d * Day + FourOClock

LEMMA FourIsOfDay ==
  ASSUME NEW d \in Nat
  PROVE  /\ FourOf(d) \in Nat /\ LocalDay(FourOf(d)) = d
         /\ d * Day <= FourOf(d) /\ FourOf(d) < (d + 1) * Day
<1>1. d * Day \in Nat /\ (d + 1) * Day = d * Day + Day
  BY DayAssumption
<1>2. /\ FourOf(d) \in Nat /\ d * Day <= FourOf(d) /\ FourOf(d) < (d + 1) * Day
  BY <1>1, DayAssumption DEF FourOf
<1>3. QED
  BY <1>2, DayOf

(* The daily time after now is at four o'clock, and not before now. *)
LEMMA NextDailyIsLater ==
  ASSUME clock \in Nat
  PROVE  \E d \in Nat : NextDailyBackupAt = FourOf(d) /\ clock <= FourOf(d)
<1> DEFINE today == LocalDay(clock)
<1>1. today \in Nat /\ today * Day <= clock /\ clock < (today + 1) * Day
  BY DivideByDay
<1>2. today * Day \in Nat /\ (today + 1) * Day = today * Day + Day
  BY <1>1, DayAssumption
<1> HIDE DEF today
<1>3. CASE clock < today * Day + FourOClock
  <2>1. NextDailyBackupAt = FourOf(today) /\ clock <= FourOf(today)
    BY <1>2, <1>3, DayAssumption DEF NextDailyBackupAt, FourOf, today
  <2>2. QED
    BY <1>1, <2>1
<1>4. CASE ~(clock < today * Day + FourOClock)
  <2>1. NextDailyBackupAt = FourOf(today + 1)
    BY <1>2, <1>4, DayAssumption DEF NextDailyBackupAt, FourOf, today
  <2>2. clock <= FourOf(today + 1)
    BY <1>1, <1>2, DayAssumption DEF FourOf
  <2>3. QED
    BY <1>1, <2>1, <2>2
<1>5. QED
  BY <1>3, <1>4

-----------------------------------------------------------------------------
(* When the next backup is planned. *)

(* The times of the process and of its backups, none of them later than the clock. *)
TimesInv ==
  /\ interval \in Nat \ {0} /\ clock \in Nat \ {0} /\ backupAt \in 0..clock
  /\ wakeAt \in Nat /\ lastBackupAt \in 0..clock
  /\ files \subseteq [at : Nat, mod : Nat \ {0}]
  /\ \A f \in files : f.at <= f.mod /\ f.mod <= clock

LEMMA LastBackupIsLatest ==
  ASSUME TimesInv
  PROVE  /\ LastBackup(TRUE) \in 0..clock /\ lastBackupAt <= LastBackup(TRUE)
         /\ \A f \in files : f.mod <= LastBackup(TRUE)
         /\ LastBackup(TRUE) = lastBackupAt \/ \E f \in files : LastBackup(TRUE) = f.mod
         /\ LastBackup(FALSE) = lastBackupAt
<1> DEFINE T == {lastBackupAt} \cup {f.mod : f \in files}
<1>1. /\ T \in SUBSET Nat /\ T # {} /\ clock \in Nat /\ \A t \in T : t <= clock
  BY DEF TimesInv
<1>2. /\ LastBackup(TRUE) = Max(T)
  BY DEF LastBackup
<1> HIDE DEF T
<1>3. Max(T) \in T /\ \A t \in T : t <= Max(T)
  BY <1>1, LatestTime
<1>4. /\ {lastBackupAt} \in SUBSET Nat /\ clock \in Nat /\ lastBackupAt <= clock
      /\ LastBackup(FALSE) = Max({lastBackupAt})
  BY DEF TimesInv, LastBackup
<1>5. Max({lastBackupAt}) \in {lastBackupAt}
  BY <1>4, LatestTime
<1>6. LastBackup(FALSE) = lastBackupAt
  BY <1>4, <1>5
<1>7. lastBackupAt \in T /\ \A f \in files : f.mod \in T
  BY DEF T
<1>8. LastBackup(TRUE) \in 0..clock
  <2>1. Max(T) \in Nat /\ Max(T) <= clock
    BY <1>1, <1>3
  <2>2. clock \in Nat
    BY <1>1
  <2>3. Max(T) \in 0..clock
    BY <2>1, <2>2
  <2>4. QED
    BY <1>2, <2>3
<1>9. LastBackup(TRUE) = lastBackupAt \/ \E f \in files : LastBackup(TRUE) = f.mod
  BY <1>2, <1>3 DEF T
<1>10. QED
  BY <1>2, <1>3, <1>6, <1>7, <1>8, <1>9

LEMMA LaterOfTwo ==
  ASSUME NEW s \in Nat, NEW t \in Nat
  PROVE  Max({s, t}) = IF s <= t THEN t ELSE s
<1>1. {s, t} \in SUBSET Nat /\ {s, t} # {} /\ s + t \in Nat /\ \A u \in {s, t} : u <= s + t
  OBVIOUS
<1>2. Max({s, t}) \in {s, t} /\ \A u \in {s, t} : u <= Max({s, t})
  BY <1>1, LatestTime
<1>3. QED
  BY <1>2

(* A plan is not before now and, after a backup that ended by the last one, ready. *)
LEMMA PlannedIsReady ==
  ASSUME TimesInv, NEW last \in 0..clock,
         NEW t, t = IF Daily THEN DailyBackupAt(last) ELSE IntervalBackupAt(last)
  PROVE  /\ t \in Nat /\ clock <= t
         /\ Daily => \E d \in Nat : t = FourOf(d)
         /\ \A m \in 1..last : Ready(t, m)
<1>1. /\ interval \in Nat \ {0} /\ clock \in Nat \ {0} /\ last \in Nat /\ last <= clock
  BY DEF TimesInv
<1>2. CASE Daily
  <2> DEFINE n == interval \div Day
             today == LocalDay(last)
             candidate == today * Day + FourOClock + interval
  <2>1. n \in Nat \ {0} /\ interval = n * Day /\ today \in Nat
    BY <1>1, <1>2, WholeDays, DivideByDay
  <2>2. t = IF last # 0 /\ clock < candidate THEN candidate ELSE NextDailyBackupAt
    BY <1>2 DEF DailyBackupAt
  <2>3. candidate = FourOf(today + n)
    <3> HIDE DEF n, today
    <3>1. (today + n) * Day = today * Day + n * Day
      BY <2>1, DayAssumption
    <3>2. today * Day \in Nat /\ n * Day \in Nat
      BY <2>1, DayAssumption
    <3>3. QED
      BY <2>1, <3>1, <3>2, DayAssumption DEF FourOf
  <2>4. candidate \in Nat /\ LocalDay(candidate) = today + n
    <3> HIDE DEF n, today, candidate
    <3>1. today + n \in Nat
      BY <2>1
    <3>2. QED
      BY <2>3, <3>1, FourIsOfDay
  <2>5. PICK d \in Nat : NextDailyBackupAt = FourOf(d) /\ clock <= FourOf(d)
    BY <1>1, NextDailyIsLater
  <2>6. \A m \in 1..last : LocalDay(m) \in Nat /\ LocalDay(m) <= today
    BY <1>1, LaterDay, DivideByDay
  <2> HIDE DEF n, today, candidate
  <2>7. CASE last # 0 /\ clock < candidate
    <3>1. t = candidate
      BY <2>2, <2>7
    <3>2. today + n \in Nat
      BY <2>1
    <3>3. \A m \in 1..last : LocalDay(t) - LocalDay(m) >= n
      BY <2>1, <2>4, <2>6, <3>1
    <3>4. QED
      BY <1>1, <1>2, <2>3, <2>4, <2>7, <3>1, <3>2, <3>3 DEF Ready, n
  <2>8. CASE ~(last # 0 /\ clock < candidate)
    <3>1. t = FourOf(d) /\ t \in Nat /\ clock <= t
      BY <2>2, <2>5, <2>8, FourIsOfDay
    <3>2. ASSUME NEW m \in 1..last PROVE LocalDay(t) - LocalDay(m) >= n
      <4>1. last # 0 /\ candidate <= t
        BY <1>1, <2>4, <2>8, <3>1
      <4>2. LocalDay(t) \in Nat /\ today + n <= LocalDay(t)
        BY <2>4, <3>1, <4>1, LaterDay, DivideByDay
      <4>3. LocalDay(m) \in Nat /\ LocalDay(m) <= today
        BY <2>6
      <4>4. QED
        BY <2>1, <4>2, <4>3
    <3>3. QED
      BY <1>2, <3>1, <3>2 DEF Ready, n
  <2>9. QED
    BY <2>7, <2>8
<1>3. CASE ~Daily
  <2>1. CASE last = 0
    BY <1>1, <1>3, <2>1 DEF IntervalBackupAt
  <2>2. CASE last # 0
    <3>1. t = Max({clock, last + interval}) /\ last + interval \in Nat
      BY <1>1, <1>3, <2>2 DEF IntervalBackupAt
    <3>2. t = IF clock <= last + interval THEN last + interval ELSE clock
      BY <1>1, <3>1, LaterOfTwo
    <3>3. t \in Nat /\ clock <= t /\ last + interval <= t
      BY <1>1, <3>1, <3>2
    <3>4. \A m \in 1..last : t - m >= interval
      BY <1>1, <3>3
    <3>5. QED
      BY <1>3, <3>3, <3>4 DEF Ready
  <2>3. QED
    BY <2>1, <2>2
<1>4. QED
  BY <1>2, <1>3

-----------------------------------------------------------------------------
(* Backups are spaced. *)

(***************************************************************************)
(* While the history could always be read: the backups are spaced, and one *)
(* that is written now, or when a sleep ends or an attempt is repeated, is *)
(* ready after every stored one.                                           *)
(***************************************************************************)
SpaceInv ==
  /\ TimesInv
  /\ pc = "write" => \A f \in files : f.mod <= backupAt
  /\ ~blind => /\ Spaced
               /\ pc = "sleep" => AllReady(wakeAt)
               /\ pc = "write" \/ pendingRetry => AllReady(backupAt)

LEMMA TimesStep ==
  ASSUME TimesInv, [BackupNext]_backupVars
  PROVE  TimesInv'
<1>1. CASE Plan
  <2>1. PICK readable \in BOOLEAN :
          wakeAt' = IF pendingRetry THEN clock + RetryDelay
                    ELSE IF Daily THEN DailyBackupAt(LastBackup(readable))
                         ELSE IntervalBackupAt(LastBackup(readable))
    BY <1>1 DEF Plan
  <2>2. LastBackup(readable) \in 0..clock
    <3>1. readable = TRUE \/ readable = FALSE
      OBVIOUS
    <3>2. QED
      BY <3>1, LastBackupIsLatest DEF TimesInv
  <2>3. wakeAt' \in Nat
    <3>1. CASE pendingRetry
      BY <2>1, <3>1, ConfigAssumption DEF TimesInv
    <3>2. CASE ~pendingRetry
      BY <2>1, <2>2, <3>2, PlannedIsReady
    <3>3. QED
      BY <3>1, <3>2
  <2>4. QED
    BY <1>1, <2>3 DEF Plan, TimesInv
<1>2. CASE WriteDatabase
  BY <1>2 DEF WriteDatabase, TimesInv
<1>3. CASE Cleanup
  <2>1. files' \subseteq files /\ UNCHANGED <<interval, clock, backupAt, wakeAt, lastBackupAt>>
    BY <1>3 DEF Cleanup, memory
  <2>2. QED
    BY <2>1 DEF TimesInv
<1>4. CASE Wake \/ WriteFails \/ Stop \/ Start
  BY <1>4 DEF Wake, WriteFails, Stop, Start, memory, TimesInv
<1>5. CASE AdvanceClock
  <2>1. clock' = clock + 1 /\ UNCHANGED <<interval, files, memory>>
    BY <1>5 DEF AdvanceClock
  <2>2. QED
    BY <2>1 DEF memory, TimesInv
<1>6. CASE UNCHANGED backupVars
  BY <1>6 DEF backupVars, memory, TimesInv
<1>7. QED
  BY <1>1, <1>2, <1>3, <1>4, <1>5, <1>6 DEF BackupNext

LEMMA SpaceStep ==
  ASSUME SpaceInv, [BackupNext]_backupVars
  PROVE  SpaceInv'
<1>1. TimesInv /\ TimesInv'
  BY TimesStep DEF SpaceInv
<1>2. \A t \in 0..clock : t \in Nat
  BY <1>1 DEF TimesInv
<1>3. CASE Plan
  <2>1. UNCHANGED <<interval, files, backupAt, pendingRetry, clock>> /\ pc' = "sleep"
    BY <1>3 DEF Plan
  <2>2. PICK readable \in BOOLEAN :
          /\ wakeAt' = IF pendingRetry THEN clock + RetryDelay
                       ELSE IF Daily THEN DailyBackupAt(LastBackup(readable))
                            ELSE IntervalBackupAt(LastBackup(readable))
          /\ blind' = (blind \/ ~(readable \/ pendingRetry))
    BY <1>3 DEF Plan
  <2>3. ASSUME ~blind' PROVE Spaced /\ AllReady(wakeAt') /\ (pendingRetry => AllReady(backupAt))
    <3>1. ~blind /\ (readable \/ pendingRetry)
      BY <2>2, <2>3
    <3>2. CASE pendingRetry
      <4>1. AllReady(backupAt) /\ backupAt \in Nat /\ wakeAt' \in Nat /\ backupAt <= wakeAt'
        BY <1>1, <2>2, <3>1, <3>2, ConfigAssumption DEF SpaceInv, TimesInv
      <4>2. \A f \in files : Ready(wakeAt', f.mod)
        BY <1>1, <4>1, ReadyLater DEF AllReady, TimesInv
      <4>3. QED
        BY <3>1, <4>1, <4>2 DEF SpaceInv, AllReady
    <3>3. CASE ~pendingRetry
      <4>1. readable = TRUE
        BY <3>1, <3>3
      <4>2. LastBackup(TRUE) \in 0..clock /\ \A f \in files : f.mod <= LastBackup(TRUE)
        BY <1>1, LastBackupIsLatest
      <4>3. wakeAt' = IF Daily THEN DailyBackupAt(LastBackup(TRUE)) ELSE IntervalBackupAt(LastBackup(TRUE))
        BY <2>2, <3>3, <4>1
      <4> DEFINE last == LastBackup(TRUE)
      <4>6. last \in 0..clock
        BY <4>2
      <4>7. wakeAt' = IF Daily THEN DailyBackupAt(last) ELSE IntervalBackupAt(last)
        BY <4>3
      <4> HIDE DEF last
      <4>8. \A m \in 1..last : Ready(wakeAt', m)
        <5> DEFINE t == wakeAt'
        <5>1. t = IF Daily THEN DailyBackupAt(last) ELSE IntervalBackupAt(last)
          BY <4>7
        <5> HIDE DEF t
        <5>2. \A m \in 1..last : Ready(t, m)
          BY <1>1, <4>6, <5>1, PlannedIsReady
        <5>3. QED
          BY <5>2 DEF t
      <4>9. \A f \in files : f.mod <= last
        BY <4>2 DEF last
      <4>10. last \in Nat /\ \A f \in files : f.mod \in Nat \ {0}
        BY <1>1, <4>6 DEF TimesInv
      <4>4. \A f \in files : f.mod \in 1..last
        BY <4>9, <4>10
      <4>5. QED
        BY <3>1, <3>3, <4>8, <4>4 DEF SpaceInv, AllReady
    <3>4. QED
      BY <3>2, <3>3
  <2>4. AllReady(wakeAt') => AllReady(wakeAt)'
    BY <2>1 DEF AllReady, Ready, Daily
  <2>5. AllReady(backupAt) => AllReady(backupAt)'
    BY <2>1 DEF AllReady, Ready, Daily
  <2>6. Spaced /\ ~blind => Spaced'
    BY <2>1 DEF Spaced, Daily
  <2>7. ~blind' => ~blind
    BY <2>2
  <2>8. ~blind' => Spaced' /\ AllReady(wakeAt)' /\ (pendingRetry' => AllReady(backupAt)')
    BY <2>1, <2>3, <2>4, <2>5, <2>6, <2>7
  <2>9. QED
    BY <1>1, <2>1, <2>8 DEF SpaceInv
<1>4. CASE Wake
  <2>1. /\ UNCHANGED <<interval, files, wakeAt, pendingRetry, blind, clock>>
        /\ pc = "sleep" /\ pc' = "write" /\ backupAt' = clock /\ wakeAt <= clock
    BY <1>1, <1>4 DEF Wake, aux, TimesInv
  <2>2. \A f \in files : f.mod <= clock
    BY <1>1 DEF TimesInv
  <2>3. ASSUME ~blind PROVE Spaced /\ AllReady(clock)
    <3>1. Spaced /\ \A f \in files : Ready(wakeAt, f.mod)
      BY <2>1, <2>3 DEF SpaceInv, AllReady
    <3>2. \A f \in files : Ready(clock, f.mod)
      BY <1>1, <2>1, <3>1, ReadyLater DEF TimesInv
    <3>3. QED
      BY <3>1, <3>2 DEF AllReady
  <2>4. QED
    BY <1>1, <2>1, <2>2, <2>3 DEF SpaceInv, Spaced, AllReady, Ready, Daily
<1>5. CASE WriteDatabase
  <2> DEFINE new == [at |-> backupAt, mod |-> clock]
  <2>1. /\ UNCHANGED <<interval, backupAt, blind>> /\ pc = "write" /\ pc' = "clean"
        /\ pendingRetry' = FALSE /\ files' = files \cup {new}
    BY <1>5 DEF WriteDatabase
  <2>2. \A f \in files : f.at \in Nat /\ f.at <= f.mod /\ f.mod \in Nat /\ f.mod <= backupAt
    BY <1>1, <2>1 DEF SpaceInv, TimesInv
  <2>3. backupAt \in Nat
    BY <1>1 DEF TimesInv
  <2>4. ASSUME ~blind, NEW f \in files', NEW g \in files', f.at < g.at
        PROVE  Ready(g.at, f.mod)
    <3>1. CASE f = new
      BY <2>1, <2>2, <2>3, <2>4, <3>1
    <3>2. CASE f \in files /\ g = new
      BY <2>1, <2>4, <3>2 DEF SpaceInv, AllReady
    <3>3. CASE f \in files /\ g \in files
      BY <2>4, <3>3 DEF SpaceInv, Spaced, Ready
    <3>4. QED
      BY <2>1, <3>1, <3>2, <3>3
  <2>5. ~blind' => Spaced'
    BY <2>1, <2>4 DEF Spaced, Ready, Daily
  <2>6. QED
    BY <1>1, <2>1, <2>5 DEF SpaceInv
<1>6. CASE Cleanup
  <2>1. /\ files' \subseteq files /\ UNCHANGED <<interval, backupAt, wakeAt, pendingRetry, blind>>
        /\ pc' = "plan"
    BY <1>6 DEF Cleanup, memory, aux
  <2>2. Spaced => Spaced'
    BY <2>1 DEF Spaced, Daily
  <2>3. AllReady(backupAt) => AllReady(backupAt)'
    BY <2>1 DEF AllReady, Ready, Daily
  <2>4. QED
    BY <1>1, <2>1, <2>2, <2>3 DEF SpaceInv
<1>7. CASE WriteFails \/ Stop \/ Start
  <2>1. /\ UNCHANGED <<interval, files, blind>>
        /\ \/ pc = "write" /\ pc' = "clean" /\ UNCHANGED backupAt
           \/ pc' \in {"down", "plan"} /\ pendingRetry' = FALSE
           \/ pc' = "plan" /\ UNCHANGED <<pendingRetry, backupAt>>
    BY <1>7 DEF WriteFails, Stop, Start, memory, aux
  <2>2. Spaced => Spaced'
    BY <2>1 DEF Spaced, Daily
  <2>3. AllReady(backupAt) /\ backupAt' = backupAt => AllReady(backupAt)'
    BY <2>1 DEF AllReady, Ready, Daily
  <2>4. QED
    BY <1>1, <2>1, <2>2, <2>3 DEF SpaceInv
<1>8. CASE AdvanceClock \/ UNCHANGED backupVars
  <2>1. UNCHANGED <<interval, files, memory, pc, blind>>
    BY <1>8 DEF AdvanceClock, backupVars, aux
  <2>2. Spaced => Spaced'
    BY <2>1 DEF Spaced, Daily
  <2>3. /\ AllReady(backupAt) => AllReady(backupAt)'
        /\ AllReady(wakeAt) => AllReady(wakeAt)'
    BY <2>1 DEF AllReady, Ready, Daily, memory
  <2>4. QED
    BY <1>1, <2>1, <2>2, <2>3 DEF SpaceInv, memory
<1>9. QED
  BY <1>3, <1>4, <1>5, <1>6, <1>7, <1>8 DEF BackupNext

LEMMA SpaceInit == BackupInit => SpaceInv
<1> SUFFICES ASSUME BackupInit PROVE SpaceInv
  OBVIOUS
<1>1. TimesInv
  BY ConfigAssumption DEF BackupInit, TimesInv
<1>2. QED
  BY <1>1 DEF BackupInit, SpaceInv, Spaced, AllReady

(***************************************************************************)
(* For every interval, length of the day and time a copy takes, and        *)
(* however attempts fail or the process stops: backups are spaced by the   *)
(* interval, or by its days, as long as the history can be read.           *)
(***************************************************************************)
THEOREM BackupsAreSpaced == BackupSpec => []Spaced
<1>1. SpaceInv => Spaced
  BY DEF SpaceInv, Spaced
<1>2. SpaceInv /\ [BackupNext]_backupVars => SpaceInv'
  BY SpaceStep
<1>3. QED
  BY SpaceInit, <1>1, <1>2, PTL DEF BackupSpec

-----------------------------------------------------------------------------
(* Backups are not overdue. *)

(* After four o'clock the copies of an attempt and of its three retries end on the same day. *)
RetriesEndThatDay ==
  (\E i \in Interval : i % Day = 0) => FourOClock + 4 * CopyTime + 3 * RetryDelay < Day

Tries == IF pendingRetry THEN retryAttempts ELSE 0

(* t is later than four o'clock by at most n failed attempts. *)
LateBy(t, n) ==
  \E d \in Nat : FourOf(d) <= t /\ t <= FourOf(d) + n * (RetryDelay + CopyTime)

(* How late an attempt can be. *)
LateInv ==
  /\ TimesInv /\ interval \in Interval
  /\ pc \in {"down", "plan", "sleep", "write", "clean"} /\ pendingRetry \in BOOLEAN
  /\ pendingRetry => retryAttempts \in 1..3 /\ disturbed /\ pc # "down"
  /\ ~pendingRetry => retryAttempts \in {0, 4}
  /\ pc = "sleep" => clock <= wakeAt
  /\ pc = "write" => clock <= backupAt + CopyTime
  /\ Daily => /\ pc = "sleep" => LateBy(wakeAt, Tries)
              /\ pc = "write" => LateBy(backupAt, Tries)
              /\ pc \in {"clean", "plan"} /\ pendingRetry => LateBy(clock + RetryDelay, Tries)

(* f is the newest backup, and the next one is at most the interval after its end. *)
Newest(f) ==
  /\ \A g \in files : g.mod <= f.mod
  /\ lastBackupAt <= f.mod /\ pc # "down"
  /\ pc \in {"clean", "plan"} => f.mod = clock /\ (Daily => FourOf(LocalDay(clock)) <= clock)
  /\ pc = "clean" => f.at = backupAt
  /\ ~blind /\ pc = "sleep" => wakeAt <= f.mod + interval
  /\ ~blind /\ pc = "write" => backupAt <= f.mod + interval

NewestInv == LateInv /\ (files # {} /\ ~disturbed => \E f \in files : Newest(f))

(* One more failed attempt. *)
LEMMA LateByOneMore ==
  ASSUME NEW s \in Nat, NEW t \in Nat, NEW n \in 0..3, LateBy(s, n),
         s <= t, t <= s + CopyTime
  PROVE  LateBy(t + RetryDelay, n + 1)
<1> DEFINE slip == RetryDelay + CopyTime
<1>1. slip \in Nat /\ RetryDelay \in Nat /\ CopyTime \in Nat /\ n \in Nat
  BY ConfigAssumption
<1>2. PICK d \in Nat : FourOf(d) <= s /\ s <= FourOf(d) + n * slip
  BY DEF LateBy
<1>3. (n + 1) * slip = n * slip + slip /\ n * slip \in Nat /\ FourOf(d) \in Nat
  BY <1>1, FourIsOfDay
<1> DEFINE four == FourOf(d)
           more == n * slip
<1>4. /\ four \in Nat /\ more \in Nat /\ four <= s /\ s <= four + more
  BY <1>2, <1>3
<1>5. slip = RetryDelay + CopyTime
  OBVIOUS
<1> HIDE DEF slip, four, more
<1>6. four <= t + RetryDelay /\ t + RetryDelay <= four + (more + slip)
  BY <1>1, <1>4, <1>5
<1>7. (n + 1) * slip = more + slip
  BY <1>3 DEF more
<1>8. FourOf(d) <= t + RetryDelay /\ t + RetryDelay <= FourOf(d) + (n + 1) * slip
  BY <1>6, <1>7 DEF four
<1>9. QED
  BY <1>8 DEF LateBy, slip

(* A copy that is late by three attempts ends after four o'clock on its day. *)
LEMMA EndsThatDay ==
  ASSUME RetriesEndThatDay, interval \in Interval, Daily,
         NEW s \in Nat, NEW t \in Nat, NEW n \in 0..3, LateBy(s, n),
         s <= t, t <= s + CopyTime
  PROVE  FourOf(LocalDay(t)) <= t
<1> DEFINE slip == RetryDelay + CopyTime
<1>1. slip \in Nat /\ RetryDelay \in Nat /\ CopyTime \in Nat
  BY ConfigAssumption
<1>2. PICK d \in Nat : FourOf(d) <= s /\ s <= FourOf(d) + n * slip
  BY DEF LateBy
<1>3. n * slip \in Nat /\ n * slip <= 3 * slip
  <2>1. n = 0 \/ n = 1 \/ n = 2 \/ n = 3
    OBVIOUS
  <2>2. QED
    BY <1>1, <2>1
<1>4. FourOClock + 4 * CopyTime + 3 * RetryDelay < Day
  BY DEF RetriesEndThatDay, Daily
<1>5. 3 * slip = 3 * RetryDelay + 3 * CopyTime
  BY <1>1
<1>6. FourOf(d) \in Nat /\ d * Day \in Nat /\ FourOf(d) = d * Day + FourOClock
      /\ (d + 1) * Day = d * Day + Day /\ Day \in Nat /\ FourOClock \in Nat
  BY FourIsOfDay, DayAssumption DEF FourOf
<1> DEFINE start == d * Day
           four == FourOf(d)
           more == n * slip
           next == (d + 1) * Day
<1>7. /\ start \in Nat /\ four = start + FourOClock /\ more \in Nat
      /\ more <= 3 * RetryDelay + 3 * CopyTime /\ next = start + Day
      /\ four <= s /\ s <= four + more
  BY <1>2, <1>3, <1>5, <1>6
<1> HIDE DEF slip, four, more, start, next
<1>8. start <= t /\ four <= t /\ t < next
  BY <1>1, <1>4, <1>6, <1>7
<1>9. LocalDay(t) = d
  BY <1>8, DayOf DEF start, next
<1>10. QED
  BY <1>8, <1>9 DEF four

(* After a backup that ends now, and if daily after four o'clock, the next one is in an interval. *)
LEMMA PlannedInTime ==
  ASSUME TimesInv, NEW last \in 0..clock, last = clock,
         Daily => FourOf(LocalDay(clock)) <= clock,
         NEW t, t = IF Daily THEN DailyBackupAt(last) ELSE IntervalBackupAt(last)
  PROVE  t <= clock + interval
<1>1. interval \in Nat \ {0} /\ clock \in Nat \ {0}
  BY DEF TimesInv
<1>2. CASE Daily
  <2> DEFINE n == interval \div Day
             today == LocalDay(clock)
             start == today * Day
             candidate == start + FourOClock + interval
  <2>1. n \in Nat \ {0} /\ interval = n * Day
    BY <1>1, <1>2, WholeDays
  <2>2. today \in Nat /\ clock < (today + 1) * Day
    BY <1>1, DivideByDay
  <2>3. t = IF last # 0 /\ clock < candidate THEN candidate ELSE NextDailyBackupAt
    BY <1>2 DEF DailyBackupAt
  <2>4. start \in Nat /\ FourOClock \in Nat /\ start + FourOClock <= clock
    BY <1>2, <2>2, DayAssumption DEF FourOf
  <2>5. (today + 1) * Day = start + Day /\ Day \in Nat /\ Day <= interval
    BY <2>1, <2>2, DayAssumption
  <2> HIDE DEF n, start, today
  <2>6. clock < candidate /\ candidate <= clock + interval
    BY <1>1, <2>2, <2>4, <2>5
  <2>7. t = candidate
    BY <1>1, <2>3, <2>6
  <2>8. QED
    BY <2>6, <2>7
<1>3. CASE ~Daily
  <2>1. t = Max({clock, clock + interval})
    BY <1>1, <1>3 DEF IntervalBackupAt
  <2>2. QED
    BY <1>1, <2>1, LaterOfTwo
<1>4. QED
  BY <1>2, <1>3

LEMMA LateStep ==
  ASSUME LateInv, [BackupNext]_backupVars
  PROVE  LateInv'
<1>1. TimesInv /\ TimesInv'
  BY TimesStep DEF LateInv
<1>2. clock \in Nat /\ backupAt \in Nat /\ backupAt <= clock /\ wakeAt \in Nat /\ RetryDelay \in Nat
  BY <1>1, ConfigAssumption DEF TimesInv
<1>3. CASE Plan
  <2>1. /\ UNCHANGED <<interval, backupAt, retryAttempts, pendingRetry, clock, disturbed>>
        /\ pc = "plan" /\ pc' = "sleep"
    BY <1>3 DEF Plan
  <2>2. PICK readable \in BOOLEAN :
          wakeAt' = IF pendingRetry THEN clock + RetryDelay
                    ELSE IF Daily THEN DailyBackupAt(LastBackup(readable))
                         ELSE IntervalBackupAt(LastBackup(readable))
    BY <1>3 DEF Plan
  <2>3. clock <= wakeAt' /\ (Daily => LateBy(wakeAt', Tries))
    <3>1. CASE pendingRetry
      BY <1>2, <2>1, <2>2, <3>1 DEF LateInv
    <3>2. CASE ~pendingRetry
      <4> DEFINE last == LastBackup(readable)
                 t == wakeAt'
      <4>1. last \in 0..clock
        <5>1. readable = TRUE \/ readable = FALSE
          OBVIOUS
        <5>2. QED
          BY <1>1, <5>1, LastBackupIsLatest DEF TimesInv
      <4>2. t = IF Daily THEN DailyBackupAt(last) ELSE IntervalBackupAt(last)
        BY <2>2, <3>2
      <4> HIDE DEF last, t
      <4>3. t \in Nat /\ clock <= t /\ (Daily => \E d \in Nat : t = FourOf(d))
        BY <1>1, <4>1, <4>2, PlannedIsReady
      <4>4. 0 * (RetryDelay + CopyTime) = 0 /\ Tries = 0
        BY <3>2, ConfigAssumption DEF Tries
      <4>5. ASSUME Daily PROVE LateBy(t, 0)
        <5>1. PICK d \in Nat : t = FourOf(d)
          BY <4>3, <4>5
        <5>2. FourOf(d) <= t /\ t <= FourOf(d) + 0 * (RetryDelay + CopyTime)
          BY <4>3, <4>4, <5>1
        <5>3. QED
          BY <5>2 DEF LateBy
      <4>6. QED
        BY <4>3, <4>4, <4>5 DEF t
    <3>3. QED
      BY <3>1, <3>2 DEF LateInv
  <2>4. Tries' = Tries /\ (LateBy(wakeAt', Tries) => LateBy(wakeAt, Tries)')
    BY <2>1 DEF Tries, LateBy, FourOf
  <2>5. QED
    BY <1>1, <2>1, <2>3, <2>4 DEF LateInv, Daily
<1>4. CASE Wake
  <2>1. /\ UNCHANGED <<interval, retryAttempts, pendingRetry, clock, disturbed>>
        /\ pc = "sleep" /\ pc' = "write" /\ backupAt' = clock /\ clock >= wakeAt
    BY <1>4 DEF Wake, aux
  <2>2. clock = wakeAt
    BY <1>2, <2>1 DEF LateInv
  <2>3. Daily => LateBy(backupAt, Tries)'
    BY <2>1, <2>2 DEF LateInv, Tries, LateBy, FourOf
  <2>4. (clock <= backupAt + CopyTime)'
    BY <1>2, <2>1, ConfigAssumption
  <2>5. QED
    BY <1>1, <2>1, <2>3, <2>4 DEF LateInv, Daily
<1>5. CASE WriteFails
  <2>1. /\ UNCHANGED <<interval, clock>> /\ pc = "write" /\ pc' = "clean" /\ disturbed' = TRUE
        /\ retryAttempts' = IF retryAttempts = 4 THEN 4 ELSE retryAttempts + 1
        /\ pendingRetry' = (retryAttempts < 3)
    BY <1>5 DEF WriteFails
  <2>2. retryAttempts \in 0..4 /\ (retryAttempts < 3 => Tries = retryAttempts)
    BY DEF LateInv, Tries
  <2>3. /\ pendingRetry' \in BOOLEAN
        /\ pendingRetry' => retryAttempts' \in 1..3 /\ Tries' = Tries + 1 /\ Tries \in 0..3
        /\ ~pendingRetry' => retryAttempts' \in {0, 4}
    <3>1. CASE retryAttempts < 3
      <4>1. pendingRetry' = TRUE
        BY <2>1, <3>1
      <4>2. retryAttempts' = retryAttempts + 1 /\ retryAttempts \in 0..2 /\ Tries = retryAttempts
        BY <2>1, <2>2, <3>1
      <4>3. Tries' = retryAttempts'
        BY <4>1 DEF Tries
      <4>4. QED
        BY <4>1, <4>2, <4>3
    <3>2. CASE ~(retryAttempts < 3)
      <4>1. pendingRetry' \in BOOLEAN /\ ~pendingRetry'
        <5>1. pendingRetry' = (retryAttempts < 3)
          BY <2>1
        <5>2. ~pendingRetry'
          BY <3>2, <5>1, Zenon
        <5>3. pendingRetry' \in BOOLEAN
          BY <5>1
        <5>4. QED
          BY <5>2, <5>3
      <4>2. retryAttempts' = 4
        BY <2>1, <2>2, <3>2
      <4>3. QED
        BY <4>1, <4>2
    <3>3. QED
      BY <3>1, <3>2
  <2>4. ASSUME Daily, pendingRetry' PROVE LateBy(clock + RetryDelay, Tries)'
    <3>1. LateBy(backupAt, Tries) /\ clock <= backupAt + CopyTime
      BY <2>1, <2>4 DEF LateInv
    <3>2. LateBy(clock + RetryDelay, Tries + 1)
      BY <1>2, <2>3, <2>4, <3>1, LateByOneMore
    <3>3. QED
      BY <2>1, <2>3, <2>4, <3>2 DEF LateBy, FourOf
  <2>5. QED
    BY <1>1, <2>1, <2>3, <2>4 DEF LateInv, Daily
<1>6. CASE AdvanceClock
  <2>1. /\ clock' = clock + 1 /\ UNCHANGED <<interval, memory, pc, disturbed>>
        /\ \/ pc = "down"
           \/ pc = "sleep" /\ clock < wakeAt
           \/ pc = "write" /\ clock < backupAt + CopyTime
    BY <1>6 DEF AdvanceClock, aux
  <2>2. /\ pc' = "sleep" => clock' <= wakeAt'
        /\ pc' = "write" => clock' <= backupAt' + CopyTime
    BY <1>2, <2>1, ConfigAssumption DEF memory
  <2>3. /\ Tries' = Tries
        /\ LateBy(wakeAt, Tries) => LateBy(wakeAt, Tries)'
        /\ LateBy(backupAt, Tries) => LateBy(backupAt, Tries)'
    BY <2>1 DEF Tries, LateBy, FourOf, memory
  <2>4. pc' = pc /\ UNCHANGED <<interval, pendingRetry, retryAttempts, disturbed>> /\ ~(pc \in {"clean", "plan"})
    BY <2>1 DEF memory
  <2>5. QED
    BY <1>1, <2>2, <2>3, <2>4 DEF LateInv, Daily
<1>7. CASE WriteDatabase
  BY <1>1, <1>7 DEF WriteDatabase, LateInv
<1>8. CASE Stop
  BY <1>1, <1>8 DEF Stop, LateInv
<1>9. CASE Start
  BY <1>1, <1>9 DEF Start, LateInv, memory, aux
<1>10. CASE Cleanup
  <2>1. /\ UNCHANGED <<interval, clock, retryAttempts, pendingRetry, disturbed>>
        /\ pc = "clean" /\ pc' = "plan"
    BY <1>10 DEF Cleanup, memory, aux
  <2>2. LateBy(clock + RetryDelay, Tries) => LateBy(clock + RetryDelay, Tries)'
    BY <2>1 DEF LateBy, FourOf, Tries
  <2>3. QED
    BY <1>1, <2>1, <2>2 DEF LateInv, Daily
<1>11. CASE UNCHANGED backupVars
  <2>1. UNCHANGED <<interval, clock, retryAttempts, pendingRetry, disturbed, pc, wakeAt, backupAt>>
    BY <1>11 DEF backupVars, memory, aux
  <2>2. /\ LateBy(clock + RetryDelay, Tries) => LateBy(clock + RetryDelay, Tries)'
        /\ LateBy(wakeAt, Tries) => LateBy(wakeAt, Tries)'
        /\ LateBy(backupAt, Tries) => LateBy(backupAt, Tries)'
    BY <2>1 DEF LateBy, FourOf, Tries
  <2>3. QED
    BY <1>1, <2>1, <2>2 DEF LateInv, Daily
<1>12. QED
  BY <1>3, <1>4, <1>5, <1>6, <1>7, <1>8, <1>9, <1>10, <1>11 DEF BackupNext

LEMMA NewestStep ==
  ASSUME NewestInv, RetriesEndThatDay, [BackupNext]_backupVars
  PROVE  NewestInv'
<1>1. LateInv /\ LateInv' /\ TimesInv /\ TimesInv'
  BY LateStep DEF NewestInv, LateInv
<1>2. clock \in Nat \ {0} /\ backupAt \in Nat /\ backupAt <= clock /\ wakeAt \in Nat
  BY <1>1 DEF TimesInv
<1> SUFFICES ASSUME files' # {}, ~disturbed'
             PROVE  (\E f \in files : Newest(f))'
  BY <1>1 DEF NewestInv
<1>3. CASE Plan
  <2>1. /\ UNCHANGED <<interval, files, lastBackupAt, backupAt, clock, disturbed, pendingRetry>>
        /\ pc = "plan" /\ pc' = "sleep"
    BY <1>3 DEF Plan
  <2>2. PICK readable \in BOOLEAN :
          /\ wakeAt' = IF pendingRetry THEN clock + RetryDelay
                       ELSE IF Daily THEN DailyBackupAt(LastBackup(readable))
                            ELSE IntervalBackupAt(LastBackup(readable))
          /\ blind' = (blind \/ ~(readable \/ pendingRetry))
    BY <1>3 DEF Plan
  <2>3. PICK f \in files : Newest(f)
    BY <2>1 DEF NewestInv
  <2>4. /\ f.mod = clock /\ (Daily => FourOf(LocalDay(clock)) <= clock)
        /\ lastBackupAt <= f.mod /\ \A g \in files : g.mod <= f.mod
    BY <2>1, <2>3 DEF Newest
  <2>5. ASSUME ~blind' PROVE wakeAt' <= clock + interval
    <3>1. ~pendingRetry /\ readable = TRUE
      BY <1>1, <2>1, <2>2, <2>5 DEF LateInv
    <3> DEFINE last == LastBackup(TRUE)
    <3>2. wakeAt' = IF Daily THEN DailyBackupAt(last) ELSE IntervalBackupAt(last)
      BY <2>2, <3>1
    <3>3. /\ last \in 0..clock /\ \A g \in files : g.mod <= last
      BY <1>1, LastBackupIsLatest
    <3> HIDE DEF last
    <3>4. last = clock
      <4>1. clock <= last
        BY <2>4, <3>3
      <4>2. QED
        BY <1>2, <3>3, <4>1
    <3>5. wakeAt' <= clock + interval
      BY <1>1, <1>2, <2>4, <3>2, <3>4, PlannedInTime
    <3>6. QED
      BY <3>5
  <2>6. Newest(f)'
    BY <2>1, <2>4, <2>5 DEF Newest
  <2>7. QED
    BY <2>1, <2>6
<1>4. CASE Wake
  <2>1. /\ UNCHANGED <<interval, files, lastBackupAt, clock, blind, disturbed>>
        /\ pc = "sleep" /\ pc' = "write" /\ backupAt' = clock /\ clock >= wakeAt
    BY <1>4 DEF Wake, aux
  <2>2. clock = wakeAt
    BY <1>1, <1>2, <2>1 DEF LateInv
  <2>3. PICK f \in files : Newest(f)
    BY <2>1 DEF NewestInv
  <2>4. Newest(f)'
    BY <2>1, <2>2, <2>3 DEF Newest
  <2>5. QED
    BY <2>1, <2>4
<1>5. CASE WriteDatabase
  <2> DEFINE new == [at |-> backupAt, mod |-> clock]
  <2>1. /\ UNCHANGED <<interval, backupAt, clock>> /\ pc = "write" /\ pc' = "clean"
        /\ lastBackupAt' = backupAt /\ files' = files \cup {new}
    BY <1>5 DEF WriteDatabase
  <2>2. \A g \in files' : g.mod <= new.mod
    BY <1>1, <1>2, <2>1 DEF TimesInv
  <2>3. ASSUME Daily PROVE FourOf(LocalDay(clock)) <= clock
    <3>1. LateBy(backupAt, Tries) /\ clock <= backupAt + CopyTime /\ interval \in Interval
      BY <1>1, <2>1, <2>3 DEF LateInv
    <3>2. Tries \in 0..3
      BY <1>1 DEF LateInv, Tries
    <3>3. QED
      BY <1>2, <2>3, <3>1, <3>2, EndsThatDay
  <2>4. Daily' => FourOf(LocalDay(clock))' <= clock'
    BY <2>1, <2>3 DEF FourOf, LocalDay, Daily
  <2>5. Newest(new)'
    BY <1>2, <2>1, <2>2, <2>4 DEF Newest
  <2>6. QED
    BY <2>1, <2>5
<1>6. CASE Cleanup
  <2>1. /\ files' \subseteq files
        /\ UNCHANGED <<interval, lastBackupAt, backupAt, wakeAt, blind, disturbed, clock>>
        /\ pc = "clean" /\ pc' = "plan"
    BY <1>6 DEF Cleanup, memory, aux
  <2>2. PICK f \in files : Newest(f)
    BY <2>1 DEF NewestInv
  <2>3. f.at = backupAt
    BY <2>1, <2>2 DEF Newest
  <2>4. f \in files'
    <3>1. CASE RetentionDays = 0
      BY <1>6, <3>1 DEF Cleanup
    <3>2. CASE RetentionDays # 0
      <4>1. PICK days \in SUBSET {LocalDay(g.at) : g \in {h \in files : Expired(h)}} :
              files' = {g \in files : LocalDay(g.at) \notin days}
        BY <1>6, <3>2 DEF Cleanup
      <4>2. ASSUME LocalDay(f.at) \in days PROVE FALSE
        <5>1. PICK h \in files : Expired(h) /\ LocalDay(h.at) = LocalDay(f.at)
          BY <4>1, <4>2
        <5>2. ClockInv
          BY <1>1 DEF TimesInv, ClockInv
        <5>3. LocalDay(h.at) < LocalDay(backupAt) - RetentionDays
          BY <5>1, <5>2, ExpiredIsOld
        <5>4. LocalDay(backupAt) \in Nat /\ RetentionDays \in Nat /\ LocalDay(h.at) = LocalDay(backupAt)
          BY <1>2, <2>3, <5>1, DivideByDay, ConfigAssumption
        <5>5. QED
          BY <5>3, <5>4
      <4>3. QED
        BY <4>1, <4>2
    <3>3. QED
      BY <3>1, <3>2
  <2>5. Newest(f)'
    BY <2>1, <2>2 DEF Newest, Daily, FourOf, LocalDay
  <2>6. QED
    BY <2>4, <2>5
<1>7. CASE AdvanceClock
  <2>1. /\ UNCHANGED <<interval, files, lastBackupAt, backupAt, wakeAt, blind, disturbed, pc>>
        /\ pc \notin {"clean", "plan"}
    BY <1>7 DEF AdvanceClock, memory, aux
  <2>2. PICK f \in files : Newest(f)
    BY <2>1 DEF NewestInv
  <2>3. Newest(f)'
    BY <2>1, <2>2 DEF Newest
  <2>4. QED
    BY <2>1, <2>3
<1>8. CASE UNCHANGED backupVars
  <2>1. UNCHANGED <<interval, files, lastBackupAt, backupAt, wakeAt, blind, disturbed, pc, clock>>
    BY <1>8 DEF backupVars, memory, aux
  <2>2. PICK f \in files : Newest(f)
    BY <2>1 DEF NewestInv
  <2>3. Newest(f)'
    BY <2>1, <2>2 DEF Newest, Daily, FourOf, LocalDay
  <2>4. QED
    BY <2>1, <2>3
<1>9. CASE Start
  <2>1. UNCHANGED <<files, disturbed>> /\ pc = "down"
    BY <1>9 DEF Start, aux
  <2>2. QED
    BY <2>1 DEF NewestInv, Newest
<1>10. CASE WriteFails \/ Stop
  BY <1>10 DEF WriteFails, Stop
<1>11. QED
  BY <1>3, <1>4, <1>5, <1>6, <1>7, <1>8, <1>9, <1>10 DEF BackupNext

LEMMA NewestInit == BackupInit => NewestInv
<1> SUFFICES ASSUME BackupInit PROVE NewestInv
  OBVIOUS
<1>1. TimesInv
  BY SpaceInit DEF SpaceInv
<1>2. QED
  BY <1>1 DEF BackupInit, NewestInv, LateInv

LEMMA NewestIsRecent == NewestInv => NotOverdue
<1> SUFFICES ASSUME NewestInv, files # {}, ~disturbed, ~blind
             PROVE  clock - Max({f.mod : f \in files}) <= interval + CopyTime
  BY DEF NotOverdue
<1> DEFINE T == {f.mod : f \in files}
<1>1. /\ T \in SUBSET Nat /\ T # {} /\ \A t \in T : t <= clock
      /\ clock \in Nat /\ backupAt \in Nat /\ wakeAt \in Nat /\ interval \in Nat /\ CopyTime \in Nat
  BY ConfigAssumption DEF NewestInv, LateInv, TimesInv
<1>2. PICK f \in files : Newest(f)
  BY DEF NewestInv
<1>3. f.mod \in T /\ f.mod \in Nat
  BY <1>1
<1> DEFINE last == Max(T)
<1> HIDE DEF T
<1>4. last \in T /\ \A t \in T : t <= last
  BY <1>1, LatestTime
<1>5. last \in Nat /\ f.mod <= last
  BY <1>1, <1>3, <1>4
<1> HIDE DEF last
<1>6. clock <= f.mod + (interval + CopyTime)
  <2>1. CASE pc = "sleep"
    <3>1. clock <= wakeAt /\ wakeAt <= f.mod + interval
      BY <1>2, <2>1 DEF NewestInv, LateInv, Newest
    <3>2. QED
      BY <1>1, <1>3, <3>1
  <2>2. CASE pc = "write"
    <3>1. clock <= backupAt + CopyTime /\ backupAt <= f.mod + interval
      BY <1>2, <2>2 DEF NewestInv, LateInv, Newest
    <3>2. QED
      BY <1>1, <1>3, <3>1
  <2>3. CASE pc \in {"clean", "plan"}
    <3>1. clock = f.mod
      BY <1>2, <2>3 DEF Newest
    <3>2. QED
      BY <1>1, <1>3, <3>1
  <2>4. QED
    BY <1>2, <2>1, <2>2, <2>3 DEF NewestInv, LateInv, Newest
<1>7. clock - last <= interval + CopyTime
  BY <1>1, <1>3, <1>5, <1>6
<1>8. QED
  BY <1>7 DEF last, T

(***************************************************************************)
(* Backups come neither too early nor too late, if a daily attempt and its *)
(* three retries end on the day they began: a copy that ends after         *)
(* midnight counts as the next day's, and that day gets no backup.         *)
(***************************************************************************)
THEOREM BackupsAreOnSchedule ==
  ASSUME RetriesEndThatDay
  PROVE  BackupSpec => []OnSchedule
<1>1. BackupInit => SpaceInv /\ NewestInv
  BY SpaceInit, NewestInit
<1>2. SpaceInv /\ NewestInv /\ [BackupNext]_backupVars => (SpaceInv /\ NewestInv)'
  BY SpaceStep, NewestStep
<1>3. SpaceInv /\ NewestInv => OnSchedule
  BY NewestIsRecent DEF SpaceInv, Spaced, OnSchedule
<1>4. QED
  BY <1>1, <1>2, <1>3, PTL DEF BackupSpec

-----------------------------------------------------------------------------
(* The types. *)

LEMMA BackupTypeStep ==
  ASSUME BackupTypeOK, TimesInv, TimesInv', [BackupNext]_backupVars
  PROVE  BackupTypeOK'
<1> USE DEF BackupTypeOK
<1>1. clock' \in Ticks /\ clock <= clock'
  <2>1. CASE AdvanceClock
    BY <2>1, ConfigAssumption DEF AdvanceClock, Ticks
  <2>2. CASE ~AdvanceClock
    <3>1. clock' = clock
      BY <2>2 DEF BackupNext, Plan, Wake, WriteDatabase, WriteFails, Cleanup, Stop, Start, backupVars
    <3>2. QED
      BY <3>1 DEF TimesInv
  <2>3. QED
    BY <2>1, <2>2
<1>2. backupAt' \in Ticks /\ lastBackupAt' \in Ticks /\ wakeAt' \in Nat
  BY <1>1, ConfigAssumption DEF TimesInv, Ticks
<1>3. files' \subseteq [at : Ticks, mod : Ticks]
  <2>1. CASE WriteDatabase
    BY <2>1 DEF WriteDatabase
  <2>2. CASE ~WriteDatabase
    BY <2>2 DEF BackupNext, Plan, Wake, WriteFails, Cleanup, Stop, Start, AdvanceClock, backupVars
  <2>3. QED
    BY <2>1, <2>2
<1>4. /\ interval' \in Interval /\ pc' \in {"down", "plan", "sleep", "write", "clean"}
      /\ retryAttempts' \in 0..4 /\ stops' \in 0..MaxStops
  <2>1. CASE WriteFails
    BY <2>1 DEF WriteFails
  <2>2. CASE Stop
    BY <2>2, ConfigAssumption DEF Stop
  <2>3. CASE ~(WriteFails \/ Stop)
    BY <2>3 DEF BackupNext, Plan, Wake, WriteDatabase, Cleanup, Start, AdvanceClock, memory, backupVars
  <2>4. QED
    BY <2>1, <2>2, <2>3
<1>5. pendingRetry' \in BOOLEAN
  <2>1. CASE WriteFails
    <3>1. pendingRetry' = (retryAttempts < 3)
      BY <2>1 DEF WriteFails
    <3>2. CASE retryAttempts < 3
      BY <3>1, <3>2
    <3>3. CASE ~(retryAttempts < 3)
      BY <3>1, <3>3
    <3>4. QED
      BY <3>2, <3>3
  <2>2. CASE ~WriteFails
    BY <2>2 DEF BackupNext, Plan, Wake, WriteDatabase, Cleanup, Stop, Start, AdvanceClock, memory, backupVars
  <2>3. QED
    BY <2>1, <2>2
<1>6. blind' \in BOOLEAN /\ disturbed' \in BOOLEAN
  <2>1. CASE Plan
    <3>1. \E readable \in BOOLEAN : blind' = (blind \/ ~(readable \/ pendingRetry))
      BY <2>1 DEF Plan
    <3>2. blind' \in BOOLEAN
      BY <3>1, Zenon
    <3>3. disturbed' = disturbed
      BY <2>1 DEF Plan
    <3>4. QED
      BY <3>2, <3>3
  <2>2. CASE ~Plan
    BY <2>2 DEF BackupNext, Wake, WriteDatabase, WriteFails, Cleanup, Stop, Start, AdvanceClock, aux, backupVars
  <2>3. QED
    BY <2>1, <2>2
<1>7. QED
  BY <1>1, <1>2, <1>3, <1>4, <1>5, <1>6

(* The runner keeps its types: a backup begins and ends on ticks of its clock, however the
   process was stopped and the clock went on. *)
THEOREM BackupTypeCorrect == BackupSpec => []BackupTypeOK
<1>1. BackupInit => BackupTypeOK /\ TimesInv
  <2> SUFFICES ASSUME BackupInit PROVE BackupTypeOK /\ TimesInv
    OBVIOUS
  <2>1. TimesInv
    BY SpaceInit DEF SpaceInv
  <2>2. 0 \in Ticks /\ 1 \in Ticks /\ 0 \in 0..MaxStops
    BY ConfigAssumption DEF Ticks
  <2>3. BackupTypeOK
    <3>1. interval \in Interval /\ files = {} /\ wakeAt = 0 /\ retryAttempts = 0 /\ pc = "plan"
      BY DEF BackupInit
    <3>2. pendingRetry \in BOOLEAN /\ blind \in BOOLEAN /\ disturbed \in BOOLEAN
      BY Zenon DEF BackupInit
    <3>3. lastBackupAt \in Ticks /\ backupAt \in Ticks /\ clock \in Ticks /\ stops \in 0..MaxStops
      BY <2>2 DEF BackupInit
    <3>4. QED
      BY <3>1, <3>2, <3>3 DEF BackupTypeOK
  <2>4. QED
    BY <2>1, <2>3
<1>2. BackupTypeOK /\ TimesInv /\ [BackupNext]_backupVars => BackupTypeOK' /\ TimesInv'
  BY TimesStep, BackupTypeStep
<1>3. QED
  BY <1>1, <1>2, PTL DEF BackupSpec
=============================================================================
