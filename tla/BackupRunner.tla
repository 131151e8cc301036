---------------------------- MODULE BackupRunner ----------------------------
(***************************************************************************)
(* The backups of the SQLite file: when the runner takes one, how it goes  *)
(* on after a failure or a restart, and which ones it deletes.             *)
(*                                                                         *)
(* Time is counted in ticks of the local clock from some midnight on.  An  *)
(* interval of whole days means "at four o'clock every so many days"; any  *)
(* other one is counted from the last backup.                              *)
(***************************************************************************)
EXTENDS Integers, FiniteSets, FiniteSetsExt

CONSTANTS
  Day,           \* ticks in a day
  FourOClock,    \* ticks from midnight to four o'clock
  Shift,         \* ticks from UTC's midnight to the local one
  Interval,      \* the intervals that may be configured
  RetryDelay,    \* retryDelay
  RetentionDays, \* BACKUP_RETENTION_DAYS
  CopyTime,      \* bound: ticks a copy takes
  LastTick,       \* bound: the last tick
  MaxStops       \* bound: stops of the process

ASSUME DayAssumption == Day \in Nat \ {0} /\ FourOClock \in 0..Day-1 /\ Shift \in 0..Day-1
ASSUME ConfigAssumption ==
  /\ Interval \subseteq Nat \ {0} /\ RetryDelay \in Nat \ {0} /\ RetentionDays \in Nat
  /\ CopyTime \in Nat /\ LastTick \in Nat \ {0} /\ MaxStops \in Nat

VARIABLES
  interval,      \* the configured one
  files,         \* finished backups: when they began (their name) and ended (mtime)
  lastBackupAt,  \* or 0, the zero time
  retryAttempts, \* up to 4: above 3 no value is told from another
  pendingRetry,
  pc,            \* where Run is, or "down"
  wakeAt,        \* the end of its sleep
  backupAt,      \* when the current attempt began
  clock,         \* in ticks
  stops,         \* bound: stops so far
  blind,         \* auxiliary: the history could not be read once
  disturbed      \* auxiliary: a failure or a stop since the last backup

memory == <<lastBackupAt, retryAttempts, pendingRetry, wakeAt, backupAt>>
aux == <<blind, disturbed>>
backupVars == <<interval, files, memory, pc, clock, stops, aux>>

Ticks == 0..LastTick

BackupTypeOK ==
  /\ interval \in Interval
  /\ files \subseteq [at : Ticks, mod : Ticks]
  /\ lastBackupAt \in Ticks /\ backupAt \in Ticks
  /\ retryAttempts \in 0..4 /\ pendingRetry \in BOOLEAN
  /\ pc \in {"down", "plan", "sleep", "write", "clean"}
  /\ wakeAt \in Nat
  /\ clock \in Ticks /\ stops \in 0..MaxStops
  /\ blind \in BOOLEAN /\ disturbed \in BOOLEAN

BackupInit ==
  /\ interval \in Interval
  /\ files = {}
  /\ lastBackupAt = 0 /\ retryAttempts = 0 /\ pendingRetry = FALSE
  /\ wakeAt = 0 /\ backupAt = 0
  /\ pc = "plan" /\ clock = 1 /\ stops = 0
  /\ blind = FALSE /\ disturbed = FALSE

-----------------------------------------------------------------------------
(* The schedule. *)

LocalDay(t) == t \div Day

Daily == interval % Day = 0

NextDailyBackupAt ==
  LET today == LocalDay(clock) * Day + FourOClock
  IN IF clock < today THEN today ELSE today + Day

(* Mutant: the stored backups are looked at only by a process that has taken none. *)
LastBackupOfMemory(readable) ==
  IF lastBackupAt = 0 /\ readable THEN Max({f.mod : f \in files} \cup {0}) ELSE lastBackupAt

(* The last backup: in memory, or the newest stored one if the history can be read. *)
LastBackup(readable) ==
  Max({lastBackupAt} \cup IF readable THEN {f.mod : f \in files} ELSE {})

DailyBackupAt(last) ==
  LET candidate == LocalDay(last) * Day + FourOClock + interval
  IN IF last # 0 /\ clock < candidate THEN candidate ELSE NextDailyBackupAt

IntervalBackupAt(last) == IF last = 0 THEN clock ELSE Max({clock, last + interval})

(* nextDelay: a pending retry does not look at the schedule. *)
Plan ==
  /\ pc = "plan"
  /\ \E readable \in BOOLEAN :
       LET last == LastBackup(readable) IN
       /\ wakeAt' = IF pendingRetry THEN clock + RetryDelay
                    ELSE IF Daily THEN DailyBackupAt(last) ELSE IntervalBackupAt(last)
       /\ blind' = (blind \/ ~(readable \/ pendingRetry))
  /\ pc' = "sleep"
  /\ UNCHANGED <<interval, files, lastBackupAt, retryAttempts, pendingRetry, backupAt, clock, stops, disturbed>>

Wake ==
  /\ pc = "sleep" /\ clock >= wakeAt
  /\ pc' = "write"
  /\ backupAt' = clock
  /\ UNCHANGED <<interval, files, lastBackupAt, retryAttempts, pendingRetry, wakeAt, clock, stops, aux>>

-----------------------------------------------------------------------------
(* An attempt. *)

(* WriteDatabase renames a finished copy to its final name. *)
WriteDatabase ==
  /\ pc = "write"
  /\ files' = files \cup {[at |-> backupAt, mod |-> clock]}
  /\ lastBackupAt' = backupAt
  /\ retryAttempts' = 0 /\ pendingRetry' = FALSE
  /\ disturbed' = FALSE
  /\ pc' = "clean"
  /\ UNCHANGED <<interval, wakeAt, backupAt, clock, stops, blind>>

WriteFails ==
  /\ pc = "write"
  /\ retryAttempts' = IF retryAttempts = 4 THEN 4 ELSE retryAttempts + 1
  /\ pendingRetry' = (retryAttempts < 3)
  /\ disturbed' = TRUE
  /\ pc' = "clean"
  /\ UNCHANGED <<interval, files, lastBackupAt, wakeAt, backupAt, clock, stops, blind>>

(* Mutant: RetentionDays days with today. *)
CutoffOneEarly ==
  LET midnight == (LocalDay(backupAt) - RetentionDays + 1) * Day
  IN midnight - ((midnight + Shift) % Day)

(* The instant a directory of backups must be older than: midnight, truncated to a UTC day. *)
Cutoff ==
  LET midnight == (LocalDay(backupAt) - RetentionDays) * Day
  IN midnight - ((midnight + Shift) % Day)

Expired(f) == LocalDay(f.at) * Day < Cutoff

(* Cleanup deletes the expired days, or some of them when one cannot be deleted. *)
Cleanup ==
  /\ pc = "clean"
  /\ IF RetentionDays = 0 THEN UNCHANGED files
     ELSE \E days \in SUBSET {LocalDay(f.at) : f \in {g \in files : Expired(g)}} :
            files' = {f \in files : LocalDay(f.at) \notin days}
  /\ pc' = "plan"
  /\ UNCHANGED <<interval, memory, clock, stops, aux>>

-----------------------------------------------------------------------------

(* The process ends at any point; an unfinished copy has another name. *)
Stop ==
  /\ pc # "down" /\ stops < MaxStops
  /\ pc' = "down" /\ stops' = stops + 1
  /\ lastBackupAt' = 0 /\ retryAttempts' = 0 /\ pendingRetry' = FALSE
  /\ wakeAt' = 0 /\ backupAt' = 0
  /\ disturbed' = TRUE
  /\ UNCHANGED <<interval, files, clock, blind>>

Start ==
  /\ pc = "down"
  /\ pc' = "plan"
  /\ UNCHANGED <<interval, files, memory, clock, stops, aux>>

(* Timers fire in time; a copy takes at most CopyTime. *)
AdvanceClock ==
  /\ clock < LastTick
  /\ \/ pc = "down"
     \/ pc = "sleep" /\ clock < wakeAt
     \/ pc = "write" /\ clock < backupAt + CopyTime
  /\ clock' = clock + 1
  /\ UNCHANGED <<interval, files, memory, pc, stops, aux>>

BackupNext ==
  \/ Plan \/ Wake \/ WriteDatabase \/ WriteFails \/ Cleanup
  \/ Stop \/ Start \/ AdvanceClock

BackupSpec == BackupInit /\ [][BackupNext]_backupVars

-----------------------------------------------------------------------------
(* Properties. *)

(***************************************************************************)
(* A backup is kept on its day and for RetentionDays days after it, in     *)
(* whatever zone: that the cutoff is truncated to a UTC day costs none.    *)
(***************************************************************************)
KeptForRetention ==
  [][\A f \in files \ files' : LocalDay(clock) - LocalDay(f.at) > RetentionDays]_backupVars

(***************************************************************************)
(* The schedule holds across failures, retries and restarts: a backup      *)
(* follows an older one by the interval, or by so many days.  A process    *)
(* that could not read the history may take one too early.                 *)
(***************************************************************************)
Spaced ==
  ~blind =>
    \A f, g \in files :
      f.at < g.at => IF Daily THEN LocalDay(g.at) - LocalDay(f.mod) >= interval \div Day
                     ELSE g.at - f.mod >= interval

(***************************************************************************)
(* Without failures and stops the newest backup is never older than the    *)
(* interval and the time a copy takes.                                     *)
(***************************************************************************)
NotOverdue ==
  files # {} /\ ~disturbed /\ ~blind =>
    clock - Max({f.mod : f \in files}) <= interval + CopyTime

(* Backups come neither too early nor too late. *)
OnSchedule == Spaced /\ NotOverdue
=============================================================================
