-------------------------- MODULE RedisDrainProofs --------------------------
(***************************************************************************)
(* What holds of the usage queue client for any number of shards, and of   *)
(* the poller that drains it for any number of manual requests.            *)
(***************************************************************************)
EXTENDS RedisDrain, Integers, TLAPS

-----------------------------------------------------------------------------
(* The client. *)

(* Following without the remainder. *)
LEMMA FollowingShard ==
  ASSUME NEW s \in Shard
  PROVE  Following(s) = IF s + 1 = Shards THEN 0 ELSE s + 1
<1>1. Shards \in Nat /\ Shards > 0 /\ s \in Int /\ 0 <= s /\ s < Shards
  BY ShardsAssumption DEF Shard
<1>2. CASE s + 1 = Shards
  <2>1. (s + 1) % Shards = 0
    BY <1>1, <1>2
  <2>2. QED
    BY <1>2, <2>1 DEF Following
<1>3. CASE s + 1 # Shards
  <2>1. s + 1 \in 0..(Shards - 1)
    BY <1>1, <1>3
  <2>2. (s + 1) % Shards = s + 1
    BY <1>1, <2>1
  <2>3. QED
    BY <1>3, <2>2 DEF Following
<1>4. QED
  BY <1>2, <1>3

LEMMA FollowingType ==
  ASSUME NEW s \in Shard
  PROVE  Following(s) \in Shard
BY FollowingShard, ShardsAssumption DEF Shard

LEMMA PoppedType ==
  ASSUME QueueTypeOK, NEW s \in Shard
  PROVE  /\ Popped(s) \in [Shard -> Nat]
         /\ \A t \in Shard : t # s => Popped(s)[t] = queue[t]
BY BatchAssumption DEF Popped, QueueTypeOK

LEMMA FirstShard == 0 \in Shard /\ Shards \in 0..Shards /\ NoPop \in Pop
BY ShardsAssumption DEF Shard, NoPop, Pop

(* How many shards are asked before s, counted from the one to ask next. *)
Distance(s) == IF s >= pop.next THEN s - pop.next ELSE s - pop.next + Shards

(***************************************************************************)
(* A pop over HTTP has a shard to ask; those that had messages when it     *)
(* began have them still and are yet to be asked.                          *)
(***************************************************************************)
AskInv ==
  /\ pop.at = "http" => pop.left > 0
  /\ pop.at = "http" => \A s \in pop.waiting : queue[s] > 0 /\ Distance(s) < pop.left
  /\ EmptyMeansEmpty

QueueInv == QueueTypeOK /\ AskInv

LEMMA QueueInductive ==
  ASSUME QueueInv, [QueueNext]_queueVars
  PROVE  QueueInv'
<1> USE DEF QueueInv
<1>1. pop \in Pop /\ pop.next \in Shard /\ pop.left \in 0..Shards /\ pop.waiting \subseteq Shard
  BY DEF QueueTypeOK, Pop
<1>2. Shards \in Nat /\ Shards > 0 /\ Shard = 0..(Shards - 1)
  BY ShardsAssumption DEF Shard
<1>3. ASSUME NEW s \in Shard, Publish(s)
      PROVE  QueueInv'
  <2>1. QueueTypeOK'
    BY <1>3 DEF Publish, QueueTypeOK
  <2>2. \A t \in Shard : queue[t] > 0 => queue'[t] > 0
    BY <1>3 DEF Publish, QueueTypeOK
  <2>3. pop' = pop
    BY <1>3 DEF Publish
  <2>4. AskInv'
    BY <1>1, <2>2, <2>3 DEF AskInv, EmptyMeansEmpty, Distance
  <2>5. QED
    BY <2>1, <2>4
<1>4. CASE StartPop \/ Return \/ Abandon
  <2>1. QueueTypeOK'
    BY <1>4, FirstShard DEF StartPop, Return, Abandon, QueueTypeOK, NoPop, Pop
  <2>2. pop'.at \in {"idle", "redis"}
    BY <1>4 DEF StartPop, Return, Abandon, NoPop
  <2>3. QED
    BY <2>1, <2>2 DEF AskInv, EmptyMeansEmpty
<1>5. CASE RedisAnswers
  <2>1. queue' \in [Shard -> Nat]
    BY <1>5, PoppedType DEF RedisAnswers, HasMessages, QueueTypeOK
  <2>2. pop' \in Pop /\ pop'.at \in {"messages", "empty"} /\ pop'.waiting = {}
    BY <1>5, FirstShard DEF RedisAnswers, NoPop, Pop
  <2>3. QueueTypeOK'
    BY <1>5, <2>1, <2>2 DEF RedisAnswers, QueueTypeOK
  <2>4. QED
    BY <2>2, <2>3 DEF AskInv, EmptyMeansEmpty
<1>6. CASE RedisFails
  <2>1. queue' \in [Shard -> Nat]
    BY <1>6, PoppedType DEF RedisFails, HasMessages, QueueTypeOK
  <2>2. cursor' \in Shard /\ cursor \in Shard
    BY <1>6, FollowingType DEF RedisFails, QueueTypeOK
  <2>3. /\ pop' \in Pop /\ pop'.at = "http" /\ pop'.next = cursor /\ pop'.left = Shards
        /\ pop'.waiting = {s \in Shard : queue'[s] > 0}
    BY <1>6, <2>2, FirstShard DEF RedisFails, StartShard, Pop
  <2>4. \A s \in Shard : Distance(s)' < Shards
    BY <1>2, <2>2, <2>3 DEF Distance
  <2>5. QED
    BY <1>2, <2>1, <2>2, <2>3, <2>4 DEF QueueTypeOK, AskInv, EmptyMeansEmpty
<1>7. CASE ShardAnswers
  <2>1. CASE queue[pop.next] > 0
    <3>1. queue' = Popped(pop.next) /\ cursor' = Following(pop.next) /\ pop' = [pop EXCEPT !.at = "messages"]
      BY <1>7, <2>1 DEF ShardAnswers
    <3>2. QueueTypeOK'
      BY <1>1, <3>1, PoppedType, FollowingType DEF QueueTypeOK, Pop
    <3>3. pop'.at = "messages"
      BY <1>1, <3>1 DEF Pop
    <3>4. QED
      BY <3>2, <3>3 DEF AskInv, EmptyMeansEmpty
  <2>2. CASE queue[pop.next] = 0 /\ LastAsked
    <3>1. UNCHANGED <<queue, cursor>> /\ pop' = [pop EXCEPT !.at = "empty"]
      BY <1>7, <2>2 DEF ShardAnswers
    <3>2. \A s \in pop.waiting : s = pop.next
      BY <1>1, <1>2, <1>7, <2>2 DEF ShardAnswers, LastAsked, AskInv, Distance
    <3>3. pop.waiting = {}
      BY <1>7, <2>2, <3>2 DEF ShardAnswers, AskInv
    <3>4. QED
      BY <1>1, <3>1, <3>3 DEF QueueTypeOK, Pop, AskInv, EmptyMeansEmpty
  <2>3. CASE queue[pop.next] = 0 /\ ~LastAsked
    <3>1. /\ UNCHANGED <<queue, cursor>>
          /\ pop' = [pop EXCEPT !.next = Following(pop.next), !.left = pop.left - 1]
      BY <1>7, <2>3 DEF ShardAnswers
    <3>2. pop.at = "http" /\ pop.left > 1
      BY <1>1, <1>2, <1>7, <2>3 DEF ShardAnswers, LastAsked, AskInv
    <3>3. /\ pop'.at = "http" /\ pop'.left = pop.left - 1 /\ pop'.waiting = pop.waiting
          /\ pop'.next = Following(pop.next) /\ pop' \in Pop
      <4>1. Following(pop.next) \in Shard
        BY <1>1, FollowingType
      <4>2. pop.left - 1 \in 0..Shards
        BY <1>1, <1>2, <3>2
      <4>3. QED
        BY <1>1, <3>1, <3>2, <4>1, <4>2 DEF Pop
    <3>4. \A s \in pop.waiting : Distance(s)' < pop'.left
      <4>1. SUFFICES ASSUME NEW s \in pop.waiting
                     PROVE  Distance(s)' < pop'.left
        OBVIOUS
      <4>2. s # pop.next /\ Distance(s) < pop.left
        BY <2>3, <3>2 DEF AskInv
      <4>3. pop'.next = IF pop.next + 1 = Shards THEN 0 ELSE pop.next + 1
        BY <1>1, <3>3, FollowingShard
      <4>4. /\ s \in Int /\ pop.next \in Int /\ Shards \in Int /\ pop.left \in Int
            /\ 0 <= s /\ s < Shards /\ 0 <= pop.next /\ pop.next < Shards
        BY <1>1, <1>2, <3>2, <4>1
      <4>5. Distance(s)' = IF s >= pop'.next THEN s - pop'.next ELSE s - pop'.next + Shards
        BY DEF Distance
      <4>6. QED
        BY <3>3, <4>2, <4>3, <4>4, <4>5 DEF Distance
    <3>5. \A s \in pop'.waiting : queue'[s] > 0
      BY <3>1, <3>2, <3>3 DEF AskInv
    <3>6. pop'.left > 0
      BY <1>1, <1>2, <3>2, <3>3
    <3>7. QED
      BY <3>1, <3>3, <3>4, <3>5, <3>6 DEF QueueTypeOK, AskInv, EmptyMeansEmpty
  <2>4. QED
    BY <1>7, <2>1, <2>2, <2>3 DEF ShardAnswers
<1>8. CASE ShardFails
  <2>1. Popped(pop.next) \in [Shard -> Nat]
    BY <1>1, PoppedType
  <2>2. queue' \in [Shard -> Nat] /\ cursor' = cursor /\ pop' = [pop EXCEPT !.at = "failed"]
    BY <1>8, <2>1 DEF ShardFails, QueueTypeOK
  <2>3. pop' \in Pop /\ pop'.at = "failed"
    BY <1>1, <2>2 DEF Pop
  <2>4. QED
    BY <2>2, <2>3 DEF QueueTypeOK, AskInv, EmptyMeansEmpty
<1>9. CASE UNCHANGED queueVars
  BY <1>9 DEF queueVars, QueueTypeOK, AskInv, EmptyMeansEmpty, Distance
<1>10. QED
  BY <1>3, <1>4, <1>5, <1>6, <1>7, <1>8, <1>9 DEF QueueNext, PopStep

THEOREM QueueInvariant == QueueSpec => []QueueInv
<1>1. QueueInit => QueueInv
  BY FirstShard DEF QueueInit, QueueInv, QueueTypeOK, AskInv, EmptyMeansEmpty, NoPop
<1>2. QueueInv /\ [QueueNext]_queueVars => QueueInv'
  BY QueueInductive
<1>3. QED
  BY <1>1, <1>2, PTL DEF QueueSpec

(* Cursor and queues have their types: the index asked next is always that of a shard. *)
THEOREM QueueTypeCorrect == QueueSpec => []QueueTypeOK
BY QueueInvariant, PTL DEF QueueInv

(***************************************************************************)
(* With any number of shards, a pop that reports an empty queue has missed *)
(* no shard that had a message when it began to ask them.                  *)
(***************************************************************************)
THEOREM EmptyPopMissesNothing == QueueSpec => []EmptyMeansEmpty
<1>1. QueueInv => EmptyMeansEmpty
  BY DEF QueueInv, AskInv
<1>2. QED
  BY <1>1, QueueInvariant, PTL

-----------------------------------------------------------------------------
(* The poller. *)

(* The part of TypeOK the proofs need. *)
DrainType ==
  /\ flag \in [Stage -> BOOLEAN]
  /\ pc \in [Caller -> PC]
  /\ stage \in [Caller -> Stage]

LEMMA ContinueType ==
  ASSUME NEW c \in Caller
  PROVE  Continue(c) \in {"idle", "try", "metadata", "done"}
BY DEF Continue, Asleep

LEMMA TypeInductive ==
  ASSUME DrainType, [Next]_vars
  PROVE  DrainType'
<1> USE DEF DrainType, PC, Stage, Caller, Loop, Goto
<1>1. CASE Start
  BY <1>1 DEF Start
<1>2. CASE Cancel \/ Stop
  BY <1>2 DEF Cancel, Stop
<1>3. ASSUME NEW l \in Loop, Wake(l) \/ Leave(l)
      PROVE  DrainType'
  BY <1>3 DEF Wake, Leave
<1>4. ASSUME NEW c \in Caller, Run(c)
      PROVE  DrainType'
  <2>1. CASE Begin(c)
    BY <2>1 DEF Begin
  <2>2. CASE Refuse(c)
    BY <2>2 DEF Refuse, Asleep
  <2>3. CASE PopUsage(c)
    BY <2>3 DEF PopUsage, drainVars
  <2>4. CASE StorePulled(c) \/ Process(c) \/ Record(c)
    BY <2>4 DEF StorePulled, Process, Record
  <2>5. CASE Release(c)
    BY <2>5, ContinueType DEF Release
  <2>6. QED
    BY <1>4, <2>1, <2>2, <2>3, <2>4, <2>5 DEF Run
<1>5. ASSUME NEW m \in Manual, Ask(m) \/ Panic(m) \/ Metadata(m)
      PROVE  DrainType'
  <2>1. CASE Ask(m)
    BY <2>1 DEF Ask
  <2>2. CASE Panic(m)
    BY <2>2 DEF Panic
  <2>3. CASE Metadata(m)
    BY <2>3 DEF Metadata
  <2>4. QED
    BY <1>5, <2>1, <2>2, <2>3
<1>6. ASSUME NEW s, Arrive(s)
      PROVE  DrainType'
  BY <1>6 DEF Arrive, drainVars
<1>7. CASE UNCHANGED vars
  BY <1>7 DEF vars, drainVars
<1>8. QED
  BY <1>1, <1>2, <1>3, <1>4, <1>5, <1>6, <1>7 DEF Next

THEOREM DrainTypeCorrect == Spec => []DrainType
<1>1. Init => DrainType
  BY DEF Init, DrainType, PC, Stage, Caller
<1>2. DrainType /\ [Next]_vars => DrainType'
  BY TypeInductive
<1>3. QED
  BY <1>1, <1>2, PTL DEF Spec

-----------------------------------------------------------------------------
(* The flags. *)

Busy == {"work", "record", "release"}

(* A step that leaves flags, stages and who is busy alone cannot disturb the flags. *)
LEMMA FlagsUndisturbed ==
  ASSUME OneOfEach, flag' = flag,
         \A c \in Caller : pc'[c] \in Busy <=> pc[c] \in Busy,
         \A c \in Caller : pc[c] \in Busy => stage'[c] = stage[c]
  PROVE  OneOfEach'
<1>1. \A st \in Stage : Running(st)' = Running(st)
  BY DEF Running, Busy
<1>2. QED
  BY <1>1 DEF OneOfEach

(***************************************************************************)
(* Any number of requests against the two loops: never two runs of a       *)
(* stage, and a flag is set exactly while its stage runs.                  *)
(***************************************************************************)
THEOREM StagesExclusive == Spec => []OneOfEach
<1>1. Init => OneOfEach
  BY DEF Init, OneOfEach, Running, Stage, Caller
<1>2. ASSUME DrainType, OneOfEach, [Next]_vars
      PROVE  OneOfEach'
  <2> USE <1>2 DEF DrainType, Goto, Busy
  <2>1. CASE Start
    <3>1. \A c \in Caller : pc'[c] \in Busy <=> pc[c] \in Busy
      BY <2>1 DEF Start, Loop, Caller
    <3>2. QED
      BY <2>1, <3>1, FlagsUndisturbed DEF Start
  <2>2. CASE Cancel \/ Stop
    BY <2>2, FlagsUndisturbed DEF Cancel, Stop
  <2>3. ASSUME NEW l \in Loop, Wake(l) \/ Leave(l)
        PROVE  OneOfEach'
    BY <2>3, FlagsUndisturbed DEF Wake, Leave, Caller
  <2>4. ASSUME NEW c \in Caller, Begin(c)
        PROVE  OneOfEach'
    <3>1. Running(stage[c]) = {} /\ stage[c] \in Stage
      BY <2>4 DEF Begin, OneOfEach
    <3>2. \A st \in Stage : Running(st)' = IF st = stage[c] THEN {c} ELSE Running(st)
      BY <2>4, <3>1 DEF Begin, Running
    <3>3. \A st \in Stage : flag'[st] <=> (flag[st] \/ st = stage[c])
      BY <2>4 DEF Begin
    <3>4. QED
      BY <3>1, <3>2, <3>3 DEF OneOfEach
  <2>5. ASSUME NEW c \in Caller, Refuse(c)
        PROVE  OneOfEach'
    BY <2>5, FlagsUndisturbed DEF Refuse, Asleep
  <2>6. ASSUME NEW c \in Caller, PopUsage(c) \/ StorePulled(c) \/ Process(c) \/ Record(c)
        PROVE  OneOfEach'
    BY <2>6, FlagsUndisturbed DEF PopUsage, StorePulled, Process, Record, drainVars
  <2>7. ASSUME NEW c \in Caller, pc[c] \in Busy, pc'[c] \notin Busy,
               pc' = [pc EXCEPT ![c] = pc'[c]], flag' = [flag EXCEPT ![stage[c]] = FALSE],
               \A d \in Caller \ {c} : stage'[d] = stage[d]
        PROVE  OneOfEach'
    <3>1. stage[c] \in Stage /\ Running(stage[c]) = {c}
      BY <2>7 DEF OneOfEach, Running
    <3>2. \A st \in Stage : Running(st)' = IF st = stage[c] THEN {} ELSE Running(st)
      BY <2>7, <3>1 DEF Running
    <3>3. \A st \in Stage : flag'[st] <=> (flag[st] /\ st # stage[c])
      BY <2>7
    <3>4. QED
      BY <3>1, <3>2, <3>3 DEF OneOfEach
  <2>8. ASSUME NEW c \in Caller, Release(c)
        PROVE  OneOfEach'
    BY <2>8, <2>7, ContinueType DEF Release
  <2>9. ASSUME NEW m \in Manual, Panic(m)
        PROVE  OneOfEach'
    BY <2>9, <2>7 DEF Panic, Caller
  <2>10. ASSUME NEW m \in Manual, Ask(m) \/ Metadata(m)
         PROVE  OneOfEach'
    BY <2>10, FlagsUndisturbed DEF Ask, Metadata, Caller
  <2>11. ASSUME NEW s, Arrive(s)
         PROVE  OneOfEach'
    BY <2>11, FlagsUndisturbed DEF Arrive, drainVars
  <2>12. CASE UNCHANGED vars
    BY <2>12, FlagsUndisturbed DEF vars, drainVars
  <2>13. QED
    BY <2>1, <2>2, <2>3, <2>4, <2>5, <2>6, <2>8, <2>9, <2>10, <2>11, <2>12 DEF Next, Run
<1>3. QED
  BY <1>1, <1>2, DrainTypeCorrect, PTL DEF Spec

-----------------------------------------------------------------------------
(* The end of Run. *)

(* The loops start together, and not before Run has. *)
StartInv ==
  /\ pc[PullLoop] = "new" <=> pc[ProcessLoop] = "new"
  /\ running => pc[PullLoop] # "new"
  /\ StoppedMeansQuiet

(* When Run has returned neither loop is in a run or will begin one. *)
THEOREM QuietAfterStop == Spec => []StoppedMeansQuiet
<1>1. Init => StartInv
  BY DEF Init, StartInv, StoppedMeansQuiet, Loop, Caller
<1>2. ASSUME DrainType, StartInv, [Next]_vars
      PROVE  StartInv'
  <2> USE <1>2, CallerAssumption DEF DrainType, Goto, Loop, Caller
  <2> USE DEF StartInv, StoppedMeansQuiet
  <2>1. CASE Start
    BY <2>1 DEF Start
  <2>2. CASE Cancel
    BY <2>2 DEF Cancel
  <2>3. CASE Stop
    BY <2>3 DEF Stop
  <2>4. ASSUME NEW l \in Loop, Wake(l) \/ Leave(l)
        PROVE  StartInv'
    BY <2>4 DEF Wake, Leave
  <2>5. ASSUME NEW c \in Caller, running' = running, pc[c] \notin {"new", "done"}, pc'[c] # "new",
               pc' = [pc EXCEPT ![c] = pc'[c]]
        PROVE  StartInv'
    BY <2>5
  <2>6. ASSUME NEW c \in Caller, Run(c)
        PROVE  StartInv'
    <3>1. CASE Begin(c) \/ Process(c) \/ Record(c) \/ StorePulled(c)
      BY <3>1, <2>5 DEF Begin, Process, Record, StorePulled
    <3>2. CASE Refuse(c)
      BY <3>2, <2>5 DEF Refuse, Asleep
    <3>3. CASE PopUsage(c)
      BY <3>3 DEF PopUsage, drainVars
    <3>4. CASE Release(c)
      BY <3>4, <2>5, ContinueType DEF Release
    <3>5. QED
      BY <2>6, <3>1, <3>2, <3>3, <3>4 DEF Run
  <2>7. ASSUME NEW m \in Manual, Ask(m) \/ Panic(m) \/ Metadata(m)
        PROVE  StartInv'
    BY <2>7, <2>5 DEF Ask, Panic, Metadata
  <2>8. ASSUME NEW s, Arrive(s)
        PROVE  StartInv'
    BY <2>8 DEF Arrive, drainVars
  <2>9. CASE UNCHANGED vars
    BY <2>9 DEF vars, drainVars
  <2>10. QED
    BY <2>1, <2>2, <2>3, <2>4, <2>6, <2>7, <2>8, <2>9 DEF Next
<1>3. StartInv => StoppedMeansQuiet
  BY DEF StartInv
<1>4. QED
  BY <1>1, <1>2, <1>3, DrainTypeCorrect, PTL DEF Spec

-----------------------------------------------------------------------------
(* The queue client under the poller. *)

(***************************************************************************)
(* Whatever loops and requests do, what they do to the usage queue is what *)
(* UsageQueue allows: a panic leaves a pop only as Abandon does.           *)
(***************************************************************************)
THEOREM DrainUsesQueue == Spec => QueueSpec
<1>1. Init => QueueInit
  BY DEF Init
<1>2. ASSUME [Next]_vars
      PROVE  [QueueNext]_queueVars
  <2>1. ASSUME Start \/ Cancel \/ Stop
        PROVE  UNCHANGED queueVars
    BY <2>1 DEF Start, Cancel, Stop
  <2>2. ASSUME NEW l \in Loop, Wake(l) \/ Leave(l)
        PROVE  UNCHANGED queueVars
    BY <2>2 DEF Wake, Leave
  <2>3. ASSUME NEW c \in Caller, Run(c)
        PROVE  [QueueNext]_queueVars
    <3>1. CASE PopUsage(c) \/ StorePulled(c)
      BY <3>1 DEF PopUsage, StorePulled, QueueNext
    <3>2. CASE Begin(c) \/ Refuse(c) \/ Process(c) \/ Record(c) \/ Release(c)
      BY <3>2 DEF Begin, Refuse, Process, Record, Release
    <3>3. QED
      BY <2>3, <3>1, <3>2 DEF Run
  <2>4. ASSUME NEW m \in Manual, Panic(m)
        PROVE  [QueueNext]_queueVars
    BY <2>4 DEF Panic, AbandonPop, QueueNext
  <2>5. ASSUME NEW m \in Manual, Ask(m) \/ Metadata(m)
        PROVE  UNCHANGED queueVars
    BY <2>5 DEF Ask, Metadata
  <2>6. ASSUME NEW s \in Shard, Arrive(s)
        PROVE  QueueNext
    BY <2>6 DEF Arrive, QueueNext
  <2>7. CASE UNCHANGED vars
    BY <2>7 DEF vars
  <2>8. QED
    BY <1>2, <2>1, <2>2, <2>3, <2>4, <2>5, <2>6, <2>7 DEF Next
<1>3. QED
  BY <1>1, <1>2, PTL DEF Spec, QueueSpec

-----------------------------------------------------------------------------
(* The rest of the types. *)

(* The rest of the poller's types. *)
ReportType ==
  /\ result \in [Caller -> Result \cup {""}]
  /\ status \in [is : Result \cup {""}, error : BOOLEAN, warning : BOOLEAN]
  /\ running \in BOOLEAN /\ cancelled \in BOOLEAN

LEMMA ReportStep ==
  ASSUME ReportType, [Next]_vars
  PROVE  ReportType'
<1> USE DEF ReportType
<1>1. CASE Start \/ Cancel \/ Stop
  BY <1>1 DEF Start, Cancel, Stop
<1>2. ASSUME NEW l \in Loop, Wake(l) \/ Leave(l) PROVE ReportType'
  BY <1>2 DEF Wake, Leave
<1>3. ASSUME NEW c \in Caller, Run(c) PROVE ReportType'
  <2>1. CASE Begin(c) \/ Refuse(c)
    BY <2>1 DEF Begin, Refuse
  <2>2. CASE PopUsage(c)
    BY <2>2 DEF PopUsage, drainVars
  <2>3. CASE StorePulled(c) \/ Process(c)
    <3>1. PICK r \in Result : result' = [result EXCEPT ![c] = r]
      BY <2>3 DEF StorePulled, Process, PullResults, Result
    <3>2. UNCHANGED <<status, running, cancelled>>
      BY <2>3 DEF StorePulled, Process
    <3>3. QED
      BY <3>1, <3>2
  <2>4. CASE Record(c)
    <3>1. PICK e \in BOOLEAN : e = (result[c] = "failed")
      OBVIOUS
    <3>2. PICK w \in BOOLEAN : w = (result[c] = "completed_with_warnings")
      OBVIOUS
    <3>3. status' = [is |-> result[c], error |-> e, warning |-> w]
      BY <2>4, <3>1, <3>2, Zenon DEF Record
    <3>4. UNCHANGED <<result, running, cancelled>>
      BY <2>4 DEF Record
    <3>5. QED
      BY <3>3, <3>4
  <2>5. CASE Release(c)
    BY <2>5 DEF Release
  <2>6. QED
    BY <1>3, <2>1, <2>2, <2>3, <2>4, <2>5 DEF Run
<1>4. ASSUME NEW m \in Manual, Ask(m) \/ Panic(m) \/ Metadata(m) PROVE ReportType'
  BY <1>4 DEF Ask, Panic, Metadata
<1>5. ASSUME NEW s, Arrive(s) PROVE ReportType'
  BY <1>5 DEF Arrive, drainVars
<1>6. CASE UNCHANGED vars
  BY <1>6 DEF vars, drainVars
<1>7. QED
  BY <1>1, <1>2, <1>3, <1>4, <1>5, <1>6 DEF Next

(* The poller and the queue client under it keep their types, whatever loops and requests do. *)
THEOREM PollerTypeCorrect == Spec => []TypeOK
<1>1. Init => ReportType
  <2> SUFFICES ASSUME Init PROVE ReportType
    OBVIOUS
  <2>1. result \in [Caller -> Result \cup {""}]
    BY DEF Init
  <2>2. [is |-> "", error |-> FALSE, warning |-> FALSE]
          \in [is : Result \cup {""}, error : BOOLEAN, warning : BOOLEAN]
    OBVIOUS
  <2>3. QED
    BY <2>1, <2>2 DEF Init, ReportType
<1>2. ReportType /\ [Next]_vars => ReportType'
  BY ReportStep
<1>3. DrainType /\ ReportType /\ QueueTypeOK => TypeOK
  BY DEF DrainType, ReportType, TypeOK
<1>4. Spec => []QueueTypeOK
  BY DrainUsesQueue, QueueTypeCorrect
<1>5. QED
  BY <1>1, <1>2, <1>3, <1>4, DrainTypeCorrect, PTL DEF Spec
=============================================================================
