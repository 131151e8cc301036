----------------------------- MODULE UsageInbox -----------------------------
(***************************************************************************)
(* The durable inbox between the CPA usage queue and the usage_events      *)
(* table: pull (LPOP, then insert the raw messages), process (list, decode,*)
(* align the event keys, insert the events in batches, mark the rows) and  *)
(* the daily cleanup.  One action is one SQL statement or transaction, the *)
(* unit the single SQLite connection makes atomic; between two of them the *)
(* other loops run, a statement may fail and the process may die.          *)
(*                                                                         *)
(* The pull and process guards of the poller allow one pull and one        *)
(* process at a time, so each has one set of working variables.            *)
(***************************************************************************)
EXTENDS Naturals, Sequences, FiniteSets

CONSTANTS
  Message,        \* messages CPA ever publishes, each at most once
  Body,           \* Body[m]: the canonical fields of m but for the timestamp
  RequestId,      \* RequestId[m]: its request_id, or NoId
  NoId,           \* "this message has no request_id"
  Malformed,      \* messages the decoder rejects
  Unstamped,      \* messages without a timestamp of their own
  PopCount,       \* LPOP count (REDIS_QUEUE_BATCH_SIZE)
  ListLimit,      \* redisInboxProcessLimit
  InsertBatch,    \* batchSize of InsertUsageEvents
  MaxAttempts,    \* redisUsageInboxMaxProcessAttempts
  TicksPerDay,    \* clock ticks in a local day
  CleanupTick,    \* the tick of the day at which cleanup runs (03:00)
  FailedRetention,\* ticks a failed row is kept (7 days)
  MaxTime,        \* bound: last tick of the clock
  MaxCrashes      \* bound: number of times the process dies

Ids == {RequestId[m] : m \in Message} \ {NoId}
Bodies == {Body[m] : m \in Message}
Time == 0..MaxTime

(***************************************************************************)
(* The timestamp of an event: its message's own, or the instant of the     *)
(* processing attempt when the message has none.  OwnTime stands for the   *)
(* former, an instant no attempt starts at.                                *)
(***************************************************************************)
OwnTime == MaxTime + 1
Stamp == Time \cup {OwnTime}
Content == [body : Bodies, at : Stamp]

ASSUME MessagesAssumption ==
  /\ Body \in [Message -> Bodies]
  /\ RequestId \in [Message -> Ids \cup {NoId}]
  /\ Malformed \subseteq Message
  /\ Unstamped \subseteq Message
  /\ Ids \cap Content = {}

ASSUME BoundsAssumption ==
  /\ PopCount \in Nat \ {0}
  /\ ListLimit \in Nat \ {0}
  /\ InsertBatch \in Nat \ {0}
  /\ MaxAttempts \in Nat \ {0}
  /\ TicksPerDay \in Nat \ {0}
  /\ CleanupTick \in Nat
  /\ FailedRetention \in Nat
  /\ MaxTime \in Nat
  /\ MaxCrashes \in Nat

Status == {"pending", "processed", "decode_failed", "process_failed", "discarded"}
Key == Ids \cup Content

VARIABLES
  sent,       \* messages CPA has published so far
  queue,      \* the upstream list, oldest first
  popped,     \* messages a pull holds between LPOP and the insert
  inbox,      \* redis_usage_inboxes: row id -> row
  nextRow,    \* the next row id (AUTOINCREMENT)
  phase,      \* where ProcessRedisUsageInbox is
  todo,       \* listed rows still to decode
  valid,      \* decoded rows, in list order
  keys,       \* the event keys of the rows aligned so far
  pos,        \* rows inserted or marked so far
  fetchedAt,  \* the instant this processing attempt started
  ledger,     \* usage_events
  cleaning,   \* a cleanup is between its two DELETE statements
  now,        \* the clock
  crashes,    \* number of deaths so far
  lost,       \* auxiliary: messages popped and never stored
  credited,   \* auxiliary: messages whose event insert has committed
  givenUp     \* auxiliary: messages marked undecodable or discarded, or expired

queueVars == <<sent, queue, popped, lost>>
eventVars == <<ledger, credited>>
workVars == <<phase, todo, valid, keys, pos, fetchedAt>>
clockVars == <<now, crashes>>
vars == <<sent, queue, popped, lost, inbox, nextRow, phase, todo, valid, keys, pos,
          fetchedAt, ledger, credited, givenUp, cleaning, now, crashes>>

Entry == [id : Nat, msg : Message]
(* at is processed_at of a processed row and updated_at of a failed one. *)
Row == [msg : Message, status : Status, attempts : Nat,
        key : Key \cup {NoId}, at : Time]
Event == [id : Nat, key : Key, content : Content, origin : Message]

TypeOK ==
  /\ sent \subseteq Message
  /\ queue \in Seq(Message)
  /\ popped \in Seq(Message)
  /\ lost \subseteq Message
  /\ nextRow \in Nat \ {0}
  /\ DOMAIN inbox \subseteq 1..(nextRow - 1)
  /\ inbox \in [DOMAIN inbox -> Row]
  /\ phase \in {"idle", "decode", "align", "insert", "mark", "fail"}
  /\ todo \in Seq(Entry)
  /\ valid \in Seq(Entry)
  /\ keys \in Seq(Key)
  /\ pos \in Nat
  /\ fetchedAt \in Time
  /\ ledger \subseteq Event
  /\ credited \subseteq Message
  /\ givenUp \subseteq Message
  /\ cleaning \in BOOLEAN
  /\ now \in Time
  /\ crashes \in 0..MaxCrashes

Init ==
  /\ sent = {} /\ queue = <<>> /\ popped = <<>> /\ lost = {}
  /\ inbox = [i \in {} |-> 0] /\ nextRow = 1
  /\ phase = "idle" /\ todo = <<>> /\ valid = <<>> /\ keys = <<>>
  /\ pos = 0 /\ fetchedAt = 0
  /\ ledger = {} /\ credited = {} /\ givenUp = {}
  /\ cleaning = FALSE /\ now = 0 /\ crashes = 0

-----------------------------------------------------------------------------
(* Pull. *)

Elements(s) == {s[i] : i \in DOMAIN s}

(* CPA appends a usage message to its queue. *)
Publish(m) ==
  /\ m \notin sent
  /\ sent' = sent \cup {m}
  /\ queue' = Append(queue, m)
  /\ UNCHANGED <<popped, lost, inbox, nextRow, workVars, eventVars, givenUp, cleaning, clockVars>>

PopSize == IF Len(queue) < PopCount THEN Len(queue) ELSE PopCount

Pop ==
  /\ popped = <<>>
  /\ queue # <<>>
  /\ popped' = SubSeq(queue, 1, PopSize)
  /\ queue' = SubSeq(queue, PopSize + 1, Len(queue))
  /\ UNCHANGED <<sent, lost, inbox, nextRow, workVars, eventVars, givenUp, cleaning, clockVars>>

(* LPOP took the messages and PopUsage returned an error: the reply is gone. *)
PopFails ==
  /\ popped = <<>>
  /\ queue # <<>>
  /\ lost' = lost \cup Elements(SubSeq(queue, 1, PopSize))
  /\ queue' = SubSeq(queue, PopSize + 1, Len(queue))
  /\ UNCHANGED <<sent, popped, inbox, nextRow, workVars, eventVars, givenUp, cleaning, clockVars>>

NewRow(m) == [msg |-> m, status |-> "pending", attempts |-> 0, key |-> NoId, at |-> 0]

(* One transaction inserts every popped message as a pending row. *)
InsertPulled ==
  /\ popped # <<>>
  /\ inbox' = [i \in DOMAIN inbox \cup (nextRow..(nextRow + Len(popped) - 1)) |->
                 IF i < nextRow THEN inbox[i] ELSE NewRow(popped[i - nextRow + 1])]
  /\ nextRow' = nextRow + Len(popped)
  /\ popped' = <<>>
  /\ UNCHANGED <<sent, queue, lost, workVars, eventVars, givenUp, cleaning, clockVars>>

InsertPulledFails ==
  /\ popped # <<>>
  /\ lost' = lost \cup Elements(popped)
  /\ popped' = <<>>
  /\ UNCHANGED <<sent, queue, inbox, nextRow, workVars, eventVars, givenUp, cleaning, clockVars>>

-----------------------------------------------------------------------------
(* Process. *)

Processable == {i \in DOMAIN inbox : inbox[i].status \in {"pending", "process_failed"}}

Return ==
  /\ phase' = "idle" /\ todo' = <<>> /\ valid' = <<>> /\ keys' = <<>>
  /\ pos' = 0 /\ fetchedAt' = 0

(* The ListLimit processable rows of smallest id, in id order. *)
Listed(ids, n) ==
  /\ \A i, j \in 1..n : i < j => ids[i] < ids[j]
  /\ \A r \in Processable : (\E i \in 1..n : ids[i] = r) \/ (n = ListLimit /\ ids[n] < r)

ListRows ==
  /\ phase = "idle"
  /\ \E n \in 1..ListLimit : \E ids \in [1..n -> Processable] :
       /\ Listed(ids, n)
       /\ todo' = [i \in 1..n |-> [id |-> ids[i], msg |-> inbox[ids[i]].msg]]
  /\ phase' = "decode"
  /\ fetchedAt' = now
  /\ UNCHANGED <<queueVars, inbox, nextRow, valid, keys, pos, eventVars, givenUp, cleaning, clockVars>>

(* The loop over the listed rows is over: insert what was decoded, if anything. *)
AfterRow(rest, decoded) ==
  \/ /\ rest # <<>> \/ decoded # <<>>
     /\ phase' = IF rest # <<>> THEN "decode" ELSE "align"
     /\ todo' = rest /\ valid' = decoded
     /\ UNCHANGED <<keys, pos, fetchedAt>>
  \/ rest = <<>> /\ decoded = <<>> /\ Return

DecodeRow ==
  /\ phase = "decode"
  /\ Head(todo).msg \notin Malformed
  /\ AfterRow(Tail(todo), Append(valid, Head(todo)))
  /\ UNCHANGED <<queueVars, inbox, nextRow, eventVars, givenUp, cleaning, clockVars>>

(* UPDATE ... WHERE id = ?: a row the cleanup has deleted is not there to update. *)
Updated(id, row) == [i \in DOMAIN inbox |-> IF i = id THEN row ELSE inbox[i]]

MarkDecodeFailed ==
  /\ phase = "decode"
  /\ Head(todo).msg \in Malformed
  /\ LET id == Head(todo).id IN
     inbox' = Updated(id, [inbox[id] EXCEPT !.status = "decode_failed",
                                            !.attempts = @ + 1, !.at = now])
  /\ givenUp' = givenUp \cup {Head(todo).msg}
  /\ AfterRow(Tail(todo), valid)
  /\ UNCHANGED <<queueVars, nextRow, eventVars, cleaning, clockVars>>

MarkDecodeFails ==
  /\ phase = "decode"
  /\ Head(todo).msg \in Malformed
  /\ Return
  /\ UNCHANGED <<queueVars, inbox, nextRow, eventVars, givenUp, cleaning, clockVars>>

(* toUsageEvent: the fields the event of message m gets in this attempt. *)
ContentOf(m) == [body |-> Body[m], at |-> IF m \in Unstamped THEN fetchedAt ELSE OwnTime]
IncomingKey(m) == IF RequestId[m] # NoId THEN RequestId[m] ELSE ContentOf(m)

Keyed(m) == RequestId[m] # NoId
Same(i, j) == ContentOf(valid[i].msg) = ContentOf(valid[j].msg)

(* Events with the canonical content c, oldest (smallest id) first. *)
Oldest(c, e) == /\ e \in ledger /\ e.content = c
                /\ \A f \in ledger : f.content = c => e.id <= f.id

(***************************************************************************)
(* The key of the row after the aligned ones.  canonicalEventKeys maps a   *)
(* content to the key of the last aligned row of the batch with it, so the *)
(* map is read off keys.  A row with a request id keeps it; another takes  *)
(* the key of the batch, else of the oldest event with its content, else   *)
(* its own canonical key.                                                  *)
(***************************************************************************)
AlignKey ==
  LET i == Len(keys) + 1
      m == valid[i].msg
      twins == {j \in 1..Len(keys) : Same(j, i)}
      KeyIs(k) == keys' = Append(keys, k)
  IN IF Keyed(m) THEN KeyIs(IncomingKey(m))
     ELSE \/ \E j \in twins : (\A l \in twins : l <= j) /\ KeyIs(keys[j])
          \/ twins = {} /\ \E e \in ledger : Oldest(ContentOf(m), e) /\ KeyIs(e.key)
          \/ /\ twins = {} /\ \A e \in ledger : e.content # ContentOf(m)
             /\ KeyIs(IncomingKey(m))

AlignRow ==
  /\ phase = "align"
  /\ AlignKey
  /\ phase' = IF Len(keys) + 1 = Len(valid) THEN "insert" ELSE "align"
  /\ UNCHANGED <<queueVars, inbox, nextRow, todo, valid, pos, fetchedAt, eventVars, givenUp,
                 cleaning, clockVars>>

Min2(a, b) == IF a < b THEN a ELSE b

(* The next batch of InsertUsageEvents, and its rows whose key is new. *)
Slice == (pos + 1)..Min2(pos + InsertBatch, Len(valid))
(* Mutant: event_key has no unique index. *)
FreshWithoutConflict == {i \in Slice : \A j \in Slice : j < i => keys[j] # keys[i]}

Fresh == {i \in Slice : /\ \A e \in ledger : e.key # keys[i]
                        /\ \A j \in Slice : j < i => keys[j] # keys[i]}
NewEvent(i) ==
  [id |-> Cardinality(ledger) + Cardinality({j \in Fresh : j <= i}),
   key |-> keys[i], content |-> ContentOf(valid[i].msg), origin |-> valid[i].msg]
NewEvents == {NewEvent(i) : i \in Fresh}

(* INSERT ... ON CONFLICT (event_key) DO NOTHING of one batch. *)
InsertEvents ==
  /\ phase = "insert"
  /\ ledger' = ledger \cup NewEvents
  /\ credited' = credited \cup {valid[i].msg : i \in Slice}
  /\ IF pos + InsertBatch < Len(valid)
     THEN pos' = pos + InsertBatch /\ phase' = "insert"
     ELSE pos' = 0 /\ phase' = "mark"
  /\ UNCHANGED <<queueVars, inbox, nextRow, todo, valid, keys, fetchedAt, givenUp, cleaning,
                 clockVars>>

(* A lookup of the alignment or a batch insert fails: every valid row is a failure,
   those of the batches already committed too. *)
PersistFails ==
  /\ phase \in {"align", "insert"}
  /\ phase' = "fail" /\ pos' = 0
  /\ UNCHANGED <<queueVars, inbox, nextRow, todo, valid, keys, fetchedAt, eventVars, givenUp,
                 cleaning, clockVars>>

Advance ==
  IF pos + 1 < Len(valid)
  THEN pos' = pos + 1 /\ UNCHANGED <<phase, todo, valid, keys, fetchedAt>>
  ELSE Return

(* Mutant: the row refers to the key the message came with, not the aligned one. *)
MarkProcessedUnaligned ==
  /\ phase = "mark"
  /\ LET id == valid[pos + 1].id IN
     inbox' = Updated(id, [inbox[id] EXCEPT !.status = "processed",
                                            !.key = IncomingKey(valid[pos + 1].msg),
                                            !.at = fetchedAt])
  /\ Advance
  /\ UNCHANGED <<queueVars, nextRow, eventVars, givenUp, cleaning, clockVars>>

MarkProcessed ==
  /\ phase = "mark"
  /\ LET id == valid[pos + 1].id IN
     inbox' = Updated(id, [inbox[id] EXCEPT !.status = "processed", !.key = keys[pos + 1],
                                            !.at = fetchedAt])
  /\ Advance
  /\ UNCHANGED <<queueVars, nextRow, eventVars, givenUp, cleaning, clockVars>>

MarkProcessedFails ==
  /\ phase = "mark"
  /\ Return
  /\ UNCHANGED <<queueVars, inbox, nextRow, eventVars, givenUp, cleaning, clockVars>>

(* Mutant: one attempt too many. *)
FailedLate(row) ==
  [row EXCEPT !.status = IF row.attempts + 1 > MaxAttempts THEN "discarded" ELSE "process_failed",
              !.attempts = @ + 1, !.at = now]

(* Mutant: a failing row is never given up. *)
FailedForEver(row) ==
  [row EXCEPT !.status = "process_failed",
              !.attempts = IF @ + 1 < MaxAttempts THEN @ + 1 ELSE @, !.at = now]

Failed(row) ==
  [row EXCEPT !.status = IF row.attempts + 1 >= MaxAttempts THEN "discarded" ELSE "process_failed",
              !.attempts = @ + 1, !.at = now]

MarkProcessFailed ==
  /\ phase = "fail"
  /\ LET id == valid[pos + 1].id IN
     /\ inbox' = Updated(id, Failed(inbox[id]))
     /\ givenUp' = givenUp \cup {inbox[i].msg : i \in {j \in DOMAIN inbox :
                                  j = id /\ Failed(inbox[j]).status = "discarded"}}
  /\ Advance
  /\ UNCHANGED <<queueVars, nextRow, eventVars, cleaning, clockVars>>

(* markRedisInboxRowsProcessFailed logs the error and goes on with the next row. *)
MarkProcessFailedFails ==
  /\ phase = "fail"
  /\ Advance
  /\ UNCHANGED <<queueVars, inbox, nextRow, eventVars, givenUp, cleaning, clockVars>>

-----------------------------------------------------------------------------
(* Cleanup, the clock and the process's life. *)

DayStart == (now \div TicksPerDay) * TicksPerDay
Without(gone) == [i \in DOMAIN inbox \ gone |-> inbox[i]]

(* Mutant: the cleanup of processed rows does not look at the status. *)
CleanEarlierDays ==
  /\ ~cleaning
  /\ now % TicksPerDay = CleanupTick
  /\ inbox' = Without({i \in DOMAIN inbox : inbox[i].at < DayStart})
  /\ cleaning' = TRUE
  /\ UNCHANGED <<queueVars, nextRow, workVars, eventVars, givenUp, clockVars>>

(* Processed rows of earlier local days. *)
CleanProcessed ==
  /\ ~cleaning
  /\ now % TicksPerDay = CleanupTick
  /\ inbox' = Without({i \in DOMAIN inbox : inbox[i].status = "processed" /\ inbox[i].at < DayStart})
  /\ cleaning' = TRUE
  /\ UNCHANGED <<queueVars, nextRow, workVars, eventVars, givenUp, clockVars>>

(* Mutant: the cleanup takes old pending rows as well. *)
StaleOrPending(row) ==
  /\ row.status # "processed"
  /\ row.at + FailedRetention < now

Stale(row) == /\ row.status \in {"decode_failed", "process_failed", "discarded"}
              /\ row.at + FailedRetention < now

CleanFailed ==
  /\ cleaning
  /\ LET stale == {i \in DOMAIN inbox : Stale(inbox[i])} IN
     /\ inbox' = Without(stale)
     /\ givenUp' = givenUp \cup {inbox[i].msg : i \in stale}
  /\ cleaning' = FALSE
  /\ UNCHANGED <<queueVars, nextRow, workVars, eventVars, clockVars>>

(* A failed DELETE ends this day's cleanup. *)
CleanFails ==
  /\ cleaning
  /\ cleaning' = FALSE
  /\ UNCHANGED <<queueVars, inbox, nextRow, workVars, eventVars, givenUp, clockVars>>

(* No step of a cleanup outlasts a tick: it holds the cutoffs of one instant. *)
Tick ==
  /\ now < MaxTime
  /\ ~cleaning
  /\ now' = now + 1
  /\ UNCHANGED <<queueVars, inbox, nextRow, workVars, eventVars, givenUp, cleaning, crashes>>

(* The process dies and starts again: what it held in memory is gone. *)
Crash ==
  /\ crashes < MaxCrashes
  /\ crashes' = crashes + 1
  /\ lost' = lost \cup Elements(popped)
  /\ popped' = <<>>
  /\ Return
  /\ cleaning' = FALSE
  /\ UNCHANGED <<sent, queue, inbox, nextRow, eventVars, givenUp, now>>

PullStep == Pop \/ PopFails \/ InsertPulled \/ InsertPulledFails
WorkStep ==
  \/ ListRows \/ DecodeRow \/ MarkDecodeFailed \/ MarkDecodeFails \/ AlignRow
  \/ InsertEvents \/ PersistFails \/ MarkProcessed \/ MarkProcessedFails
  \/ MarkProcessFailed \/ MarkProcessFailedFails
CleanStep == CleanProcessed \/ CleanFailed \/ CleanFails

Next == (\E m \in Message : Publish(m)) \/ PullStep \/ WorkStep \/ CleanStep \/ Tick \/ Crash

Spec == Init /\ [][Next]_vars

(***************************************************************************)
(* The process loop runs every five seconds and the pull loop without end. *)
(* That no statement fails for ever is assumed, not guaranteed: strong     *)
(* fairness of the marks.  The event inserts may fail every time.          *)
(***************************************************************************)
Fairness ==
  /\ WF_vars(PullStep) /\ WF_vars(WorkStep)
  /\ SF_vars(InsertPulled) /\ SF_vars(MarkDecodeFailed)
  /\ SF_vars(MarkProcessed) /\ SF_vars(MarkProcessFailed)

FairSpec == Spec /\ Fairness

-----------------------------------------------------------------------------
(* Properties. *)

Stable(m) == Keyed(m) \/ m \notin Unstamped

(***************************************************************************)
(* A message is counted once: however often its row is retried after a     *)
(* crash, a lost mark or an insert that committed some batches, and        *)
(* whatever other rows it is listed with, it has inserted at most one      *)
(* event.  A message with neither a request id nor a timestamp is          *)
(* excepted: its canonical key holds the instant of the attempt.           *)
(***************************************************************************)
CountedOnce ==
  \A e, f \in ledger : e.origin = f.origin /\ Stable(e.origin) => e = f

(***************************************************************************)
(* What a processed row refers to is there and is its request: the event   *)
(* has the row's request id or, for a row without one, its content.        *)
(***************************************************************************)
ProcessedIsCounted ==
  \A i \in DOMAIN inbox : inbox[i].status = "processed" =>
    \E e \in ledger :
      /\ e.key = inbox[i].key
      /\ e.content.body = Body[inbox[i].msg]
      /\ Keyed(inbox[i].msg) => e.key = RequestId[inbox[i].msg]

(***************************************************************************)
(* The attempt counter and the status agree: a row is given up exactly at  *)
(* its MaxAttempts-th failure, never earlier and never retried later, also *)
(* when the cleanup or a crash comes between the marks of one attempt.     *)
(***************************************************************************)
AttemptBudget ==
  \A i \in DOMAIN inbox :
    LET row == inbox[i] IN
    /\ row.status = "pending" => row.attempts = 0
    /\ row.status = "process_failed" => row.attempts \in 1..(MaxAttempts - 1)
    /\ row.status = "discarded" => row.attempts = MaxAttempts

(***************************************************************************)
(* A settled row is never reopened, and a pending one is never deleted     *)
(* (redis_usage_inbox.go: "pending data is never deleted here"), whichever *)
(* of the loops steps.                                                     *)
(***************************************************************************)
RowLifecycle ==
  [][\A i \in DOMAIN inbox :
       /\ inbox[i].status = "pending" => i \in DOMAIN inbox'
       /\ (inbox[i].status \in {"processed", "decode_failed", "discarded"} /\ i \in DOMAIN inbox')
            => inbox'[i] = inbox[i]]_vars

(***************************************************************************)
(* Every stored message settles: its row becomes processed, undecodable or *)
(* discarded (or expires), even if the event insert fails every time and   *)
(* more than ListLimit rows wait in front of it.                           *)
(***************************************************************************)
Open(m) == \E i \in Processable : inbox[i].msg = m
EveryRowSettles == \A m \in Message : Open(m) ~> ~Open(m)

(***************************************************************************)
(* The fate of a message, read off the tables.  A listed row whose inbox   *)
(* row has expired meanwhile is still held by the processing attempt; one  *)
(* that was stored and is neither open, counted nor given up has been lost.*)
(***************************************************************************)
InFlight(m) == /\ phase \in {"decode", "align", "insert"}
               /\ \E x \in Elements(todo) \cup Elements(valid) : x.msg = m

FateOf(m) ==
  CASE m \notin sent -> "unsent"
    [] m \in Elements(queue) -> "upstream"
    [] m \in Elements(popped) -> "taken"
    [] m \in lost -> "lost"
    [] m \in credited -> "counted"
    [] m \notin credited /\ (Open(m) \/ InFlight(m)) -> "stored"
    [] m \in givenUp \ credited /\ ~Open(m) /\ ~InFlight(m) -> "dropped"
    [] OTHER -> "lost"

Ledger == INSTANCE UsageLedger WITH fate <- [m \in Message |-> FateOf(m)]

(* From the insert into the inbox on no message is lost and none is counted
   and then forgotten: the inbox implements the abstract ledger. *)
ImplementsLedger == Ledger!LedgerSpec
=============================================================================
