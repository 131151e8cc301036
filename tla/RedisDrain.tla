----------------------------- MODULE RedisDrain -----------------------------
(***************************************************************************)
(* The poller: a loop that pulls messages from CPA's queue into the inbox, *)
(* a loop that processes the inbox, and manual syncs that pull once, then  *)
(* process once, then sync the metadata.  At most one pull and one process *)
(* run at a time: a second one is refused with ErrSyncAlreadyRunning.      *)
(*                                                                         *)
(* One action is one critical section of d.mu or one step outside it.  The *)
(* state is all in memory, so a restart is Init again.                     *)
(***************************************************************************)
EXTENDS UsageQueue, FiniteSets

CONSTANTS
  PullLoop, ProcessLoop, \* the goroutines of runPullLoop and runProcessLoop
  Manual                 \* POST /sync requests: each asks again and again

Loop == {PullLoop, ProcessLoop}
Caller == Loop \cup Manual
Stage == {"pull", "process"}

ASSUME CallerAssumption == PullLoop # ProcessLoop /\ Loop \cap Manual = {}

VARIABLES
  flag,      \* pullRunning and processRunning
  pc,        \* where each caller is
  stage,     \* the stage a caller tries or runs next, or is in
  result,    \* the Status its syncer returned
  status,    \* lastStatus, lastError # "" and lastWarning # ""
  running,   \* d.running
  cancelled  \* the context of Run is done

drainVars == <<flag, pc, stage, result, status, running, cancelled>>
vars == <<drainVars, queueVars>>

Result == {"empty", "completed", "completed_with_warnings", "failed"}
PC == {"new", "idle", "try", "work", "record", "release", "metadata", "done"}

TypeOK ==
  /\ flag \in [Stage -> BOOLEAN]
  /\ pc \in [Caller -> PC]
  /\ stage \in [Caller -> Stage]
  /\ result \in [Caller -> Result \cup {""}]
  /\ status \in [is : Result \cup {""}, error : BOOLEAN, warning : BOOLEAN]
  /\ running \in BOOLEAN /\ cancelled \in BOOLEAN
  /\ QueueTypeOK

Init ==
  /\ flag = [st \in Stage |-> FALSE]
  /\ pc = [c \in Caller |-> IF c \in Loop THEN "new" ELSE "idle"]
  /\ stage = [c \in Caller |-> IF c = ProcessLoop THEN "process" ELSE "pull"]
  /\ result = [c \in Caller |-> ""]
  /\ status = [is |-> "", error |-> FALSE, warning |-> FALSE]
  /\ running = FALSE /\ cancelled = FALSE
  /\ QueueInit

Goto(c, place) == pc' = [pc EXCEPT ![c] = place]

-----------------------------------------------------------------------------
(* Run, its end, and the sleeps of its loops.  An idle loop is one asleep. *)

(* Run starts both loops: the process loop sleeps first. *)
Start ==
  /\ \A l \in Loop : pc[l] = "new"
  /\ running' = TRUE
  /\ pc' = [pc EXCEPT ![PullLoop] = IF cancelled THEN "done" ELSE "try",
                      ![ProcessLoop] = IF cancelled THEN "done" ELSE "idle"]
  /\ UNCHANGED <<flag, stage, result, status, cancelled, queueVars>>

(* The server has returned: stopBackgroundTasks cancels the context. *)
Cancel ==
  /\ ~cancelled
  /\ cancelled' = TRUE
  /\ UNCHANGED <<flag, pc, stage, result, status, running, queueVars>>

(* The timer of a sleep fires, perhaps just when the context is cancelled; the pull loop
   looks at the context again before it pulls. *)
Wake(l) ==
  /\ pc[l] = "idle"
  /\ Goto(l, IF l = PullLoop /\ cancelled THEN "done" ELSE "try")
  /\ UNCHANGED <<flag, stage, result, status, running, cancelled, queueVars>>

Leave(l) ==
  /\ pc[l] = "idle" /\ cancelled
  /\ Goto(l, "done")
  /\ UNCHANGED <<flag, stage, result, status, running, cancelled, queueVars>>

(* Mutant: Run does not wait for its loops. *)
StopAtOnce ==
  /\ running /\ cancelled
  /\ running' = FALSE
  /\ UNCHANGED <<flag, pc, stage, result, status, cancelled, queueVars>>

(* Run returns when both loops have; then the database is closed. *)
Stop ==
  /\ running /\ \A l \in Loop : pc[l] = "done"
  /\ running' = FALSE
  /\ UNCHANGED <<flag, pc, stage, result, status, cancelled, queueVars>>

(* Mutant: the loops ignore that a sleep was cut short. *)
AsleepForEver(l) == "idle"

(* Where a loop goes that begins to sleep: under a cancelled context it returns at once. *)
Asleep(l) == IF cancelled THEN "done" ELSE "idle"

-----------------------------------------------------------------------------
(* runRedisPull and runRedisProcess. *)

(* A request the rate limiter lets through; one it does not changes nothing here. *)
Ask(m) ==
  /\ pc[m] = "idle" /\ ~cancelled
  /\ Goto(m, "try")
  /\ UNCHANGED <<flag, stage, result, status, running, cancelled, queueVars>>

(* Mutant: the flag is set without a look at it. *)
BeginAnyway(c) ==
  /\ pc[c] = "try"
  /\ flag' = [flag EXCEPT ![stage[c]] = TRUE]
  /\ Goto(c, "work")
  /\ UNCHANGED <<stage, result, status, running, cancelled, queueVars>>

Begin(c) ==
  /\ pc[c] = "try" /\ ~flag[stage[c]]
  /\ flag' = [flag EXCEPT ![stage[c]] = TRUE]
  /\ Goto(c, "work")
  /\ UNCHANGED <<stage, result, status, running, cancelled, queueVars>>

(* ErrSyncAlreadyRunning: a loop sleeps, a request is answered 409. *)
Refuse(c) ==
  /\ pc[c] = "try" /\ flag[stage[c]]
  /\ Goto(c, IF c \in Loop THEN Asleep(c) ELSE "idle")
  /\ stage' = [stage EXCEPT ![c] = IF c \in Loop THEN @ ELSE "pull"]
  /\ UNCHANGED <<flag, result, status, running, cancelled, queueVars>>

(* PullRedisUsageInbox asks CPA. *)
PopUsage(c) ==
  /\ pc[c] = "work" /\ stage[c] = "pull"
  /\ PopStep
  /\ UNCHANGED drainVars

PullResults ==
  CASE pop.at = "messages" -> {"completed", "failed"}
    [] pop.at = "empty" -> {"empty"}
    [] OTHER -> {"failed"}

(* It stores what CPA has answered, or fails to. *)
StorePulled(c) ==
  /\ pc[c] = "work" /\ stage[c] = "pull"
  /\ Return
  /\ \E r \in PullResults : result' = [result EXCEPT ![c] = r]
  /\ Goto(c, "record")
  /\ UNCHANGED <<flag, stage, status, running, cancelled>>

(* ProcessRedisUsageInbox: what it does to the inbox is UsageInbox's matter. *)
Process(c) ==
  /\ pc[c] = "work" /\ stage[c] = "process"
  /\ \E r \in Result : result' = [result EXCEPT ![c] = r]
  /\ Goto(c, "record")
  /\ UNCHANGED <<flag, stage, status, running, cancelled, queueVars>>

(* recordPullResult and recordResult. *)
Record(c) ==
  /\ pc[c] = "record"
  /\ status' = [is |-> result[c], error |-> result[c] = "failed",
                warning |-> result[c] = "completed_with_warnings"]
  /\ Goto(c, "release")
  /\ UNCHANGED <<flag, stage, result, running, cancelled, queueVars>>

(* Where a caller goes after a run: a loop sleeps unless it has pulled messages; a request
   goes on to the next stage unless there was an error. *)
Continue(c) ==
  CASE c = PullLoop /\ result[c] = "completed" -> IF cancelled THEN "done" ELSE "try"
    [] c \in Manual /\ result[c] \in {"completed", "empty"} ->
         IF stage[c] = "pull" THEN "try" ELSE "metadata"
    [] OTHER -> IF c \in Loop THEN Asleep(c) ELSE "idle"

(* The deferred reset of the flag. *)
Release(c) ==
  /\ pc[c] = "release"
  /\ flag' = [flag EXCEPT ![stage[c]] = FALSE]
  /\ Goto(c, Continue(c))
  /\ stage' = [stage EXCEPT ![c] = IF c \in Loop THEN @
                                   ELSE IF Continue(c) = "try" THEN "process" ELSE "pull"]
  /\ result' = [result EXCEPT ![c] = ""]
  /\ UNCHANGED <<status, running, cancelled, queueVars>>

(* The stack of a panic unwinds through PopUsage. *)
AbandonPop(m) ==
  IF stage[m] = "pull" /\ pop.at # "idle" THEN Abandon ELSE UNCHANGED queueVars

(* Mutant: the flag is reset after the run, not by a defer. *)
PanicKeepingFlag(m) ==
  /\ pc[m] = "work"
  /\ Goto(m, "idle")
  /\ stage' = [stage EXCEPT ![m] = "pull"]
  /\ AbandonPop(m)
  /\ UNCHANGED <<flag, result, status, running, cancelled>>

(* A panic in a request: the deferred reset runs and the server recovers.  In a loop it
   ends the process. *)
Panic(m) ==
  /\ pc[m] = "work"
  /\ flag' = [flag EXCEPT ![stage[m]] = FALSE]
  /\ Goto(m, "idle")
  /\ stage' = [stage EXCEPT ![m] = "pull"]
  /\ AbandonPop(m)
  /\ UNCHANGED <<result, status, running, cancelled>>

(* SyncMetadata, then the answer. *)
Metadata(m) ==
  /\ pc[m] = "metadata"
  /\ Goto(m, "idle")
  /\ UNCHANGED <<flag, stage, result, status, running, cancelled, queueVars>>

(* A request CPA has handled leaves its message in a shard. *)
Arrive(s) == Publish(s) /\ UNCHANGED drainVars

Run(c) ==
  Begin(c) \/ Refuse(c) \/ PopUsage(c) \/ StorePulled(c) \/ Process(c) \/ Record(c) \/ Release(c)

Next ==
  \/ Start \/ Cancel \/ Stop
  \/ \E l \in Loop : Wake(l) \/ Leave(l)
  \/ \E c \in Caller : Run(c)
  \/ \E m \in Manual : Ask(m) \/ Panic(m) \/ Metadata(m)
  \/ \E s \in Shard : Arrive(s)

Spec == Init /\ [][Next]_vars

(***************************************************************************)
(* Every goroutine that can run does, timers fire, and CPA answers or a    *)
(* timeout ends the wait (every request has one).  A shard that is asked   *)
(* again and again does not fail for ever.                                 *)
(***************************************************************************)
Fairness ==
  /\ WF_vars(Start) /\ WF_vars(Stop)
  /\ \A l \in Loop : WF_vars(Wake(l) \/ Leave(l))
  /\ \A c \in Caller : WF_vars(Run(c))
  /\ \A m \in Manual : WF_vars(Metadata(m))
  /\ \A s \in Shard : SF_vars(pop.next = s /\ ShardAnswers /\ UNCHANGED drainVars)

FairSpec == Spec /\ Fairness

-----------------------------------------------------------------------------
(* Properties. *)

Running(st) == {c \in Caller : stage[c] = st /\ pc[c] \in {"work", "record", "release"}}

(***************************************************************************)
(* Never two pulls or two process runs at a time, from whatever loops and  *)
(* requests; and a flag is set exactly while its stage runs, so none stays *)
(* behind after an error or a panic.  UsageInbox rests on this.            *)
(***************************************************************************)
OneOfEach ==
  \A st \in Stage :
    /\ \A c, d \in Running(st) : c = d
    /\ flag[st] <=> Running(st) # {}

(***************************************************************************)
(* When Run has returned, and the database is about to be closed, neither  *)
(* loop is in a run or will begin one.                                     *)
(***************************************************************************)
StoppedMeansQuiet ==
  running \/ (\A l \in Loop : pc[l] = "new") \/ (\A l \in Loop : pc[l] = "done")

(* Run returns after the context is cancelled, whatever its loops were doing. *)
StopCompletes == cancelled ~> [](pc[PullLoop] = "done" /\ pc[ProcessLoop] = "done" /\ ~running)

(***************************************************************************)
(* Unless requests panic for ever, pull and process each come to an end    *)
(* again and again, although requests may hold their flags whenever a loop *)
(* tries, fail, or panic in the middle.                                    *)
(***************************************************************************)
FewPanics == <>[][\A m \in Manual : ~Panic(m)]_vars
EveryStageGoesOn ==
  FewPanics =>
    \A st \in Stage : []<>(cancelled \/ \E c \in Running(st) : pc[c] = "release")

(***************************************************************************)
(* Where CPA is reached over HTTP only, no shard is passed over for ever:  *)
(* one that has messages is popped, however busy the others are, although  *)
(* any of them may fail and whoever runs the pulls.                        *)
(***************************************************************************)
OverHttpOnly == <>[][~RedisAnswers]_vars
NoShardStarves ==
  FewPanics /\ OverHttpOnly =>
    \A s \in Shard :
      <>[](queue[s] > 0 /\ ~cancelled) => []<><<queue'[s] < queue[s]>>_vars
=============================================================================
