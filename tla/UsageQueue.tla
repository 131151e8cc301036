----------------------------- MODULE UsageQueue -----------------------------
(***************************************************************************)
(* The client of CPA's usage queue.  A pop first asks over Redis; when     *)
(* that fails it asks the shards over HTTP one after the other, from a     *)
(* moving start, until one has messages or fails.  One action is one       *)
(* request to CPA.  RedisDrain sees to it that one pop runs at a time.     *)
(***************************************************************************)
EXTENDS Naturals

CONSTANTS
  Shards,    \* REDIS_QUEUE_SHARDS
  BatchSize, \* REDIS_QUEUE_BATCH_SIZE
  Capacity   \* bound: messages waiting in a shard

ASSUME ShardsAssumption == Shards \in Nat \ {0}
ASSUME BatchAssumption == BatchSize \in Nat \ {0} /\ Capacity \in Nat

Shard == 0..(Shards - 1)

VARIABLES
  queue,  \* messages waiting in CPA, by shard
  cursor, \* currentShard, modulo Shards
  pop     \* how far PopUsage has come

queueVars == <<queue, cursor, pop>>

(***************************************************************************)
(* next and left: the shard to ask next and how many are still to ask.     *)
(* waiting is auxiliary: the shards with messages when the HTTP pop began. *)
(***************************************************************************)
Pop == [at : {"idle", "redis", "http", "messages", "empty", "failed"},
        next : Shard, left : 0..Shards, waiting : SUBSET Shard]
NoPop == [at |-> "idle", next |-> 0, left |-> 0, waiting |-> {}]

QueueTypeOK ==
  /\ queue \in [Shard -> Nat]
  /\ cursor \in Shard
  /\ pop \in Pop

QueueInit ==
  /\ queue = [s \in Shard |-> 0]
  /\ cursor = 0
  /\ pop = NoPop

Publish(s) ==
  /\ queue[s] < Capacity
  /\ queue' = [queue EXCEPT ![s] = @ + 1]
  /\ UNCHANGED <<cursor, pop>>

HasMessages == {s \in Shard : queue[s] > 0}

(* LPOP of a batch from shard s. *)
Popped(s) == [queue EXCEPT ![s] = IF @ > BatchSize THEN @ - BatchSize ELSE 0]

Following(s) == (s + 1) % Shards

StartPop ==
  /\ pop.at = "idle"
  /\ pop' = [NoPop EXCEPT !.at = "redis"]
  /\ UNCHANGED <<queue, cursor>>

(* Over Redis CPA serves one queue: the answer is empty when nothing waits at all. *)
RedisAnswers ==
  /\ pop.at = "redis"
  /\ \/ \E s \in HasMessages : /\ queue' = Popped(s)
                               /\ pop' = [NoPop EXCEPT !.at = "messages"]
     \/ /\ HasMessages = {}
        /\ pop' = [NoPop EXCEPT !.at = "empty"] /\ UNCHANGED queue
  /\ UNCHANGED cursor

(* Mutant: every pop over HTTP begins with the first shard. *)
StartAtFirst == 0

(* The shard a pop over HTTP begins with. *)
StartShard == cursor

(* The Redis pop fails, perhaps after CPA has taken a batch out; the shards follow. *)
RedisFails ==
  /\ pop.at = "redis"
  /\ queue' \in {queue} \cup {Popped(s) : s \in HasMessages}
  /\ cursor' = Following(cursor)
  /\ pop' = [at |-> "http", next |-> StartShard, left |-> Shards,
             waiting |-> {s \in Shard : queue'[s] > 0}]

(* Mutant: the loop ends one shard early. *)
LastButOneAsked == pop.left <= 2

(* The shard being asked is the last one. *)
LastAsked == pop.left = 1

ShardAnswers ==
  /\ pop.at = "http"
  /\ \/ /\ queue[pop.next] > 0
        /\ queue' = Popped(pop.next)
        /\ cursor' = Following(pop.next)
        /\ pop' = [pop EXCEPT !.at = "messages"]
     \/ /\ queue[pop.next] = 0 /\ LastAsked
        /\ pop' = [pop EXCEPT !.at = "empty"]
        /\ UNCHANGED <<queue, cursor>>
     \/ /\ queue[pop.next] = 0 /\ ~LastAsked
        /\ pop' = [pop EXCEPT !.next = Following(@), !.left = @ - 1]
        /\ UNCHANGED <<queue, cursor>>

(* A request to a shard fails and ends the pop, perhaps after CPA has taken a batch out. *)
ShardFails ==
  /\ pop.at = "http"
  /\ queue' \in {queue, Popped(pop.next)}
  /\ pop' = [pop EXCEPT !.at = "failed"]
  /\ UNCHANGED cursor

PopStep == StartPop \/ RedisAnswers \/ RedisFails \/ ShardAnswers \/ ShardFails

(* PopUsage returns what it has. *)
Return ==
  /\ pop.at \in {"messages", "empty", "failed"}
  /\ pop' = NoPop
  /\ UNCHANGED <<queue, cursor>>

(* The caller panics: what the pop has come to is gone, the cursor stays. *)
Abandon ==
  /\ pop.at # "idle"
  /\ pop' = NoPop
  /\ UNCHANGED <<queue, cursor>>

QueueNext ==
  \/ \E s \in Shard : Publish(s)
  \/ PopStep \/ Return \/ Abandon

QueueSpec == QueueInit /\ [][QueueNext]_queueVars

-----------------------------------------------------------------------------
(* Properties. *)

(***************************************************************************)
(* A pop that tells the pull loop to sleep has missed nothing: no shard    *)
(* had a message when it began to ask the shards.                          *)
(***************************************************************************)
EmptyMeansEmpty == pop.at = "empty" => pop.waiting = {}
=============================================================================
