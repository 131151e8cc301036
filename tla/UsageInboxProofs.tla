-------------------------- MODULE UsageInboxProofs --------------------------
(***************************************************************************)
(* What holds of the inbox for every set of messages, every batch, list    *)
(* and pop size and any number of crashes.                                 *)
(***************************************************************************)
EXTENDS UsageInbox, TLAPS, WellFoundedInduction, FunctionTheorems, FiniteSetTheorems

(* Which working variables are in use in which phase of a processing attempt. *)
WorkInv ==
  /\ phase = "idle" => todo = <<>> /\ valid = <<>> /\ keys = <<>> /\ pos = 0
  /\ phase = "decode" => todo # <<>> /\ keys = <<>> /\ pos = 0
  /\ phase = "align" => todo = <<>> /\ pos = 0 /\ Len(keys) < Len(valid)
  /\ phase \in {"insert", "mark"} => todo = <<>> /\ Len(keys) = Len(valid) /\ pos < Len(valid)
  /\ phase = "fail" => todo = <<>> /\ pos < Len(valid)

TypeInv == TypeOK /\ WorkInv /\ IsFiniteSet(ledger)

(* Every nonempty set of naturals has a least element. *)
LEMMA Least ==
  ASSUME NEW T \in SUBSET Nat, T # {}
  PROVE  \E x \in T : \A y \in T : x <= y
<1>1. PICK x \in T : \A y \in T : <<y, x>> \notin OpToRel(<, Nat)
  BY NatLessThanWellFounded, WFMin
<1>2. ASSUME NEW y \in T PROVE x <= y
  <2>1. <<y, x>> \notin {ss \in Nat \X Nat : ss[1] < ss[2]}
    BY <1>1 DEF OpToRel
  <2>2. ~(y < x)
    BY <2>1
  <2>3. QED
    BY <2>2
<1>3. QED
  BY <1>2

LEMMA PopSizeType ==
  ASSUME TypeOK, queue # <<>>
  PROVE  /\ PopSize \in 1..Len(queue)
         /\ SubSeq(queue, 1, PopSize) \in Seq(Message)
         /\ SubSeq(queue, PopSize + 1, Len(queue)) \in Seq(Message)
<1>1. Len(queue) \in Nat \ {0}
  BY DEF TypeOK
<1>2. PopSize \in 1..Len(queue)
  BY <1>1, BoundsAssumption DEF PopSize
<1>3. QED
  BY <1>1, <1>2 DEF TypeOK

LEMMA ElementsType ==
  ASSUME NEW S, NEW s \in Seq(S)
  PROVE  Elements(s) \subseteq S
BY DEF Elements

LEMMA ContentType ==
  ASSUME TypeOK, NEW m \in Message
  PROVE  ContentOf(m) \in Content /\ IncomingKey(m) \in Key
<1>1. ContentOf(m) \in Content
  BY MessagesAssumption DEF ContentOf, Content, Stamp, Time, OwnTime, TypeOK
<1>2. RequestId[m] # NoId => RequestId[m] \in Ids
  BY MessagesAssumption
<1>3. QED
  BY <1>1, <1>2 DEF IncomingKey, Key

LEMMA AlignKeyType ==
  ASSUME TypeOK, WorkInv, phase = "align", AlignKey
  PROVE  \E k \in Key : keys' = Append(keys, k)
<1> DEFINE i == Len(keys) + 1
           m == valid[i].msg
           twins == {j \in 1..Len(keys) : Same(j, i)}
<1>1. m \in Message
  <2>1. i \in 1..Len(valid)
    BY DEF TypeOK, WorkInv
  <2>2. valid[i] \in Entry
    BY <2>1 DEF TypeOK
  <2>3. QED
    BY <2>2 DEF Entry
<1>2. CASE Keyed(m)
  BY <1>1, <1>2, ContentType DEF AlignKey
<1>3. CASE ~Keyed(m)
  <2>1. \/ \E j \in twins : keys' = Append(keys, keys[j])
        \/ \E e \in ledger : keys' = Append(keys, e.key)
        \/ keys' = Append(keys, IncomingKey(m))
    BY <1>3 DEF AlignKey, Oldest
  <2>2. \A j \in twins : keys[j] \in Key
    BY DEF TypeOK
  <2>3. \A e \in ledger : e.key \in Key
    BY DEF TypeOK, Event
  <2>4. QED
    BY <2>1, <2>2, <2>3, <1>1, ContentType
<1>4. QED
  BY <1>2, <1>3

LEMMA ReturnType ==
  ASSUME TypeOK, Return
  PROVE  /\ phase' \in {"idle", "decode", "align", "insert", "mark", "fail"}
         /\ todo' \in Seq(Entry) /\ valid' \in Seq(Entry) /\ keys' \in Seq(Key)
         /\ pos' \in Nat /\ fetchedAt' \in Time /\ WorkInv'
BY BoundsAssumption DEF Return, WorkInv, Time

LEMMA AdvanceType ==
  ASSUME TypeInv, phase \in {"mark", "fail"}, Advance
  PROVE  /\ phase' \in {"idle", "decode", "align", "insert", "mark", "fail"}
         /\ todo' \in Seq(Entry) /\ valid' \in Seq(Entry) /\ keys' \in Seq(Key)
         /\ pos' \in Nat /\ fetchedAt' \in Time /\ WorkInv'
<1>1. CASE pos + 1 < Len(valid)
  BY <1>1 DEF Advance, TypeInv, TypeOK, WorkInv
<1>2. CASE ~(pos + 1 < Len(valid))
  BY <1>2, ReturnType DEF Advance, TypeInv
<1>3. QED
  BY <1>1, <1>2

LEMMA AfterRowType ==
  ASSUME TypeInv, phase = "decode",
         NEW decoded \in Seq(Entry), AfterRow(Tail(todo), decoded)
  PROVE  /\ phase' \in {"idle", "decode", "align", "insert", "mark", "fail"}
         /\ todo' \in Seq(Entry) /\ valid' \in Seq(Entry) /\ keys' \in Seq(Key)
         /\ pos' \in Nat /\ fetchedAt' \in Time /\ WorkInv'
<1>1. Tail(todo) \in Seq(Entry)
  BY DEF TypeInv, TypeOK, WorkInv
<1>2. CASE Return
  BY <1>2, ReturnType DEF TypeInv
<1>3. CASE /\ Tail(todo) # <<>> \/ decoded # <<>>
           /\ phase' = IF Tail(todo) # <<>> THEN "decode" ELSE "align"
           /\ todo' = Tail(todo) /\ valid' = decoded
           /\ UNCHANGED <<keys, pos, fetchedAt>>
  <2>1. keys = <<>> /\ pos = 0 /\ fetchedAt \in Time
    BY DEF TypeInv, TypeOK, WorkInv
  <2>2. keys' = <<>> /\ pos' = 0 /\ fetchedAt' \in Time
    BY <1>3, <2>1
  <2>3. CASE Tail(todo) # <<>>
    BY <1>1, <1>3, <2>2, <2>3 DEF WorkInv
  <2>4. CASE Tail(todo) = <<>>
    <3>1. todo' = <<>> /\ valid' = decoded /\ phase' = "align" /\ Len(decoded) > 0
      BY <1>3, <2>4
    <3>2. QED
      BY <2>2, <3>1 DEF WorkInv
  <2>5. QED
    BY <2>3, <2>4
<1>4. QED
  BY <1>2, <1>3 DEF AfterRow

(* What the marks of a failure leave is a row. *)
LEMMA RowUpdate ==
  ASSUME NEW r \in Row, NEW n \in Nat, NEW s \in Status, NEW t \in Time
  PROVE  [r EXCEPT !.status = s, !.attempts = n, !.at = t] \in Row
BY DEF Row

LEMMA FailedRows ==
  ASSUME NEW r \in Row, now \in Time
  PROVE  /\ [r EXCEPT !.status = "decode_failed", !.attempts = @ + 1, !.at = now] \in Row
         /\ Failed(r) \in Row
<1>1. PICK n \in Nat : n = r.attempts + 1
  BY DEF Row
<1>2. "decode_failed" \in Status
  BY DEF Status
<1>3. PICK s \in Status :
        s = IF r.attempts + 1 >= MaxAttempts THEN "discarded" ELSE "process_failed"
  BY DEF Status
<1>4. [r EXCEPT !.status = "decode_failed", !.attempts = n, !.at = now] \in Row
  BY <1>2, RowUpdate
<1>5. [r EXCEPT !.status = "decode_failed", !.attempts = @ + 1, !.at = now]
        = [r EXCEPT !.status = "decode_failed", !.attempts = n, !.at = now]
  BY <1>1 DEF Row
<1>6. [r EXCEPT !.status = s, !.attempts = n, !.at = now] \in Row
  BY RowUpdate
<1>7. Failed(r) = [r EXCEPT !.status = s, !.attempts = n, !.at = now]
  BY <1>1, <1>3 DEF Failed, Row
<1>8. QED
  BY <1>4, <1>5, <1>6, <1>7

(* An UPDATE of one row keeps the rows well typed. *)
LEMMA UpdatedType ==
  ASSUME TypeOK, NEW id, NEW row, id \in DOMAIN inbox => row \in Row,
         inbox' = Updated(id, row)
  PROVE  DOMAIN inbox' = DOMAIN inbox /\ inbox' \in [DOMAIN inbox -> Row]
BY DEF TypeOK, Updated

LEMMA FewerRowsType ==
  ASSUME TypeOK, NEW gone, inbox' = Without(gone), UNCHANGED nextRow
  PROVE  DOMAIN inbox' \subseteq 1..(nextRow' - 1) /\ inbox' \in [DOMAIN inbox' -> Row]
BY DEF TypeOK, Without

LEMMA RowMessages ==
  ASSUME TypeOK, NEW S \in SUBSET (DOMAIN inbox)
  PROVE  {inbox[i].msg : i \in S} \subseteq Message
BY DEF TypeOK, Row

(* The batch being inserted is a part of the decoded rows. *)
LEMMA SliceType ==
  ASSUME TypeInv, phase = "insert"
  PROVE  /\ Slice \subseteq 1..Len(valid) /\ Slice \subseteq Nat /\ IsFiniteSet(Slice)
         /\ \A i \in Slice : valid[i].msg \in Message /\ keys[i] \in Key
<1>1. /\ pos \in Nat /\ Len(valid) \in Nat /\ pos < Len(valid) /\ Len(keys) = Len(valid)
      /\ InsertBatch \in Nat \ {0}
  BY BoundsAssumption DEF TypeInv, TypeOK, WorkInv
<1>2. Slice \subseteq 1..Len(valid) /\ Slice \subseteq Nat
  BY <1>1 DEF Slice, Min2
<1>3. IsFiniteSet(Slice)
  <2>1. IsFiniteSet(1..Len(valid))
    BY <1>1, FS_Interval
  <2>2. QED
    BY <1>2, <2>1, FS_Subset
<1>4. \A i \in Slice : valid[i] \in Entry /\ keys[i] \in Key
  BY <1>1, <1>2 DEF TypeInv, TypeOK
<1>5. QED
  BY <1>2, <1>3, <1>4 DEF Entry

(* A batch inserts finitely many well-typed events. *)
LEMMA NewEventsType ==
  ASSUME TypeInv, phase = "insert"
  PROVE  NewEvents \subseteq Event /\ IsFiniteSet(NewEvents)
<1> DEFINE Id(i) == Cardinality(ledger) + Cardinality({j \in Fresh : j <= i})
           f == [i \in Fresh |-> NewEvent(i)]
<1>1. Fresh \subseteq Slice /\ IsFiniteSet(Fresh)
  BY SliceType, FS_Subset DEF Fresh
<1>2. \A i \in Fresh : Id(i) \in Nat
  <2>1. \A i : IsFiniteSet({j \in Fresh : j <= i})
    BY <1>1, FS_Subset
  <2>2. QED
    BY <2>1, FS_CardinalityType DEF TypeInv
<1>3. \A i \in Fresh : NewEvent(i) \in Event
  BY <1>1, <1>2, SliceType, ContentType DEF Event, TypeInv, NewEvent
<1>4. NewEvents = {NewEvent(i) : i \in Fresh}
  BY DEF NewEvents
<1>5. f \in Surjection(Fresh, NewEvents)
  BY <1>4 DEF Surjection
<1>6. QED
  BY <1>1, <1>3, <1>4, <1>5, FS_Surjection

(***************************************************************************)
(* Every step of the inbox keeps it well typed and in a phase whose        *)
(* working variables fit together.                                         *)
(***************************************************************************)
LEMMA TypeStep == TypeInv /\ [Next]_vars => TypeInv'
<1> SUFFICES ASSUME TypeInv, [Next]_vars PROVE TypeInv'
  OBVIOUS
<1>0. TypeOK /\ WorkInv /\ IsFiniteSet(ledger)
  BY DEF TypeInv
<1> USE DEF queueVars, eventVars, workVars, clockVars
<1>1. ASSUME NEW m \in Message, Publish(m)
      PROVE  TypeInv'
  <2>1. sent' \subseteq Message /\ queue' \in Seq(Message)
    BY <1>0, <1>1 DEF Publish, TypeOK
  <2>2. UNCHANGED <<popped, lost, inbox, nextRow, workVars, eventVars, givenUp, cleaning, clockVars>>
    BY <1>1 DEF Publish
  <2>3. TypeOK'
    BY <1>0, <2>1, <2>2 DEF TypeOK
  <2>4. WorkInv' /\ IsFiniteSet(ledger)'
    BY <1>0, <2>2 DEF WorkInv
  <2>5. QED
    BY <2>3, <2>4 DEF TypeInv
<1>2. CASE Pop
  BY <1>0, <1>2, PopSizeType DEF Pop, TypeInv, TypeOK, WorkInv
<1>3. CASE PopFails
  BY <1>0, <1>3, PopSizeType, ElementsType DEF PopFails, TypeInv, TypeOK, WorkInv
<1>4. CASE InsertPulled
  <2> DEFINE n == Len(popped)
             fresh == nextRow..(nextRow + n - 1)
  <2>1. n \in Nat \ {0} /\ nextRow \in Nat \ {0}
    BY <1>0, <1>4 DEF InsertPulled, TypeOK
  <2>2. DOMAIN inbox' = DOMAIN inbox \cup fresh
    BY <1>4 DEF InsertPulled
  <2>3. DOMAIN inbox' \subseteq 1..(nextRow' - 1)
    BY <1>0, <1>4, <2>1, <2>2 DEF InsertPulled, TypeOK
  <2>4. \A i \in DOMAIN inbox' : inbox'[i] \in Row
    <3> SUFFICES ASSUME NEW i \in DOMAIN inbox' PROVE inbox'[i] \in Row
      OBVIOUS
    <3>1. CASE i < nextRow
      <4>1. i \in DOMAIN inbox
        BY <2>1, <2>2, <3>1
      <4>2. inbox'[i] = inbox[i]
        BY <1>4, <3>1, <2>2 DEF InsertPulled
      <4>3. QED
        BY <1>0, <4>1, <4>2 DEF TypeOK
    <3>2. CASE ~(i < nextRow)
      <4>1. i \in fresh
        BY <1>0, <2>1, <2>2, <3>2 DEF TypeOK
      <4>2. i - nextRow + 1 \in 1..n
        BY <2>1, <4>1
      <4>3. popped[i - nextRow + 1] \in Message
        BY <1>0, <4>2 DEF TypeOK
      <4>4. inbox'[i] = NewRow(popped[i - nextRow + 1])
        BY <1>4, <2>2, <3>2 DEF InsertPulled
      <4>5. QED
        BY <4>3, <4>4, BoundsAssumption DEF NewRow, Row, Status, Time
    <3>3. QED
      BY <3>1, <3>2
  <2>5. inbox' \in [DOMAIN inbox' -> Row]
    BY <1>4, <2>4 DEF InsertPulled
  <2>6. nextRow' \in Nat \ {0} /\ popped' \in Seq(Message)
    BY <1>4, <2>1 DEF InsertPulled
  <2>7. WorkInv' /\ IsFiniteSet(ledger')
    BY <1>0, <1>4 DEF InsertPulled, WorkInv
  <2>8. QED
    BY <1>0, <1>4, <2>3, <2>5, <2>6, <2>7 DEF InsertPulled, TypeInv, TypeOK
<1>5. CASE InsertPulledFails
  <2>1. lost' \subseteq Message /\ popped' \in Seq(Message)
    BY <1>0, <1>5, ElementsType DEF InsertPulledFails, TypeOK
  <2>2. WorkInv' /\ IsFiniteSet(ledger')
    BY <1>0, <1>5 DEF InsertPulledFails, WorkInv
  <2>3. QED
    BY <1>0, <1>5, <2>1, <2>2 DEF InsertPulledFails, TypeInv, TypeOK
<1>6. CASE ListRows
  <2>0. PICK n \in 1..ListLimit : \E ids \in [1..n -> Processable] :
          todo' = [i \in 1..n |-> [id |-> ids[i], msg |-> inbox[ids[i]].msg]]
    BY <1>6 DEF ListRows
  <2>1. PICK ids \in [1..n -> Processable] :
          todo' = [i \in 1..n |-> [id |-> ids[i], msg |-> inbox[ids[i]].msg]]
    BY <2>0
  <2>2. n \in Nat \ {0}
    BY BoundsAssumption
  <2>3. \A i \in 1..n : [id |-> ids[i], msg |-> inbox[ids[i]].msg] \in Entry
    BY <1>0 DEF TypeOK, Processable, Entry, Row
  <2>4. todo' \in Seq(Entry) /\ todo' # <<>>
    <3>1. todo' \in [1..n -> Entry]
      BY <2>1, <2>3
    <3>2. todo' \in Seq(Entry) /\ Len(todo') = n
      BY <2>2, <3>1
    <3>3. QED
      BY <2>2, <3>2
  <2>5. QED
    BY <1>0, <1>6, <2>4 DEF ListRows, TypeInv, TypeOK, WorkInv
<1>7. CASE DecodeRow
  <2>1. Head(todo) \in Entry
    BY <1>0, <1>7 DEF DecodeRow, TypeOK, WorkInv
  <2>2. Append(valid, Head(todo)) \in Seq(Entry)
    BY <1>0, <2>1 DEF TypeOK
  <2>3. QED
    BY <1>0, <1>7, <2>2, AfterRowType DEF DecodeRow, TypeInv, TypeOK
<1>8. CASE MarkDecodeFailed
  <2>1. Head(todo) \in Entry
    BY <1>0, <1>8 DEF MarkDecodeFailed, TypeOK, WorkInv
  <2> DEFINE id == Head(todo).id
             row == [inbox[id] EXCEPT !.status = "decode_failed", !.attempts = @ + 1, !.at = now]
  <2>2. id \in DOMAIN inbox => row \in Row
    <3>1. now \in Time /\ (id \in DOMAIN inbox => inbox[id] \in Row)
      BY <1>0 DEF TypeOK
    <3>2. QED
      BY <3>1, FailedRows
  <2>3. DOMAIN inbox' = DOMAIN inbox /\ inbox' \in [DOMAIN inbox -> Row]
    BY <1>0, <1>8, <2>2, UpdatedType DEF MarkDecodeFailed
  <2>4. Head(todo).msg \in Message
    BY <2>1 DEF Entry
  <2>5. QED
    BY <1>0, <1>8, <2>3, <2>4, AfterRowType DEF MarkDecodeFailed, TypeInv, TypeOK
<1>9. CASE MarkDecodeFails
  BY <1>0, <1>9, ReturnType DEF MarkDecodeFails, TypeInv, TypeOK
<1>10. CASE AlignRow
  <2>1. PICK k \in Key : keys' = Append(keys, k)
    BY <1>0, <1>10, AlignKeyType DEF AlignRow
  <2>2. keys' \in Seq(Key) /\ Len(keys') = Len(keys) + 1
    BY <1>0, <2>1 DEF TypeOK
  <2>3. QED
    BY <1>0, <1>10, <2>2 DEF AlignRow, TypeInv, TypeOK, WorkInv
<1>11. CASE InsertEvents
  <2>1. ledger' \subseteq Event /\ IsFiniteSet(ledger')
    BY <1>0, <1>11, NewEventsType, FS_Union DEF InsertEvents, TypeOK, TypeInv
  <2>2. credited' \subseteq Message
    BY <1>0, <1>11, SliceType DEF InsertEvents, TypeOK
  <2>3. pos' \in Nat /\ phase' \in {"insert", "mark"} /\ pos' < Len(valid)
    <3>1. pos \in Nat /\ pos < Len(valid) /\ Len(valid) \in Nat /\ InsertBatch \in Nat
      BY <1>0, <1>11, BoundsAssumption DEF InsertEvents, TypeOK, WorkInv
    <3>2. IF pos + InsertBatch < Len(valid)
          THEN pos' = pos + InsertBatch /\ phase' = "insert"
          ELSE pos' = 0 /\ phase' = "mark"
      BY <1>11 DEF InsertEvents
    <3>3. valid' = valid
      BY <1>11 DEF InsertEvents
    <3>4. QED
      BY <3>1, <3>2, <3>3
  <2>4. WorkInv'
    BY <1>0, <1>11, <2>3 DEF InsertEvents, WorkInv
  <2>5. QED
    BY <1>0, <1>11, <2>1, <2>2, <2>3, <2>4 DEF InsertEvents, TypeInv, TypeOK
<1>12. CASE PersistFails
  <2>1. TypeOK'
    BY <1>0, <1>12 DEF PersistFails, TypeOK
  <2>2. WorkInv' /\ IsFiniteSet(ledger')
    <3>1. phase \in {"align", "insert"} /\ phase' = "fail" /\ pos' = 0
          /\ UNCHANGED <<todo, valid, keys, ledger>>
      BY <1>12 DEF PersistFails
    <3>2. todo = <<>> /\ 0 < Len(valid)
      BY <1>0, <3>1 DEF WorkInv, TypeOK
    <3>3. QED
      BY <1>0, <3>1, <3>2 DEF WorkInv
  <2>3. QED
    BY <2>1, <2>2 DEF TypeInv
<1>13. CASE MarkProcessed
  <2> DEFINE id == valid[pos + 1].id
             row == [inbox[id] EXCEPT !.status = "processed", !.key = keys[pos + 1],
                                      !.at = fetchedAt]
  <2>1. keys[pos + 1] \in Key
    BY <1>0, <1>13 DEF MarkProcessed, TypeOK, WorkInv
  <2>2. id \in DOMAIN inbox => row \in Row
    BY <1>0, <2>1 DEF TypeOK, Row, Status
  <2>3. DOMAIN inbox' = DOMAIN inbox /\ inbox' \in [DOMAIN inbox -> Row]
    BY <1>0, <1>13, <2>2, UpdatedType DEF MarkProcessed
  <2>4. QED
    BY <1>0, <1>13, <2>3, AdvanceType DEF MarkProcessed, TypeInv, TypeOK
<1>14. CASE MarkProcessedFails
  BY <1>0, <1>14, ReturnType DEF MarkProcessedFails, TypeInv, TypeOK
<1>15. CASE MarkProcessFailed
  <2> DEFINE id == valid[pos + 1].id
  <2>1. id \in DOMAIN inbox => Failed(inbox[id]) \in Row
    <3>1. now \in Time /\ (id \in DOMAIN inbox => inbox[id] \in Row)
      BY <1>0 DEF TypeOK
    <3>2. QED
      BY <3>1, FailedRows
  <2>2. DOMAIN inbox' = DOMAIN inbox /\ inbox' \in [DOMAIN inbox -> Row]
    BY <1>0, <1>15, <2>1, UpdatedType DEF MarkProcessFailed
  <2>3. givenUp' \subseteq Message
    BY <1>0, <1>15, RowMessages DEF MarkProcessFailed, TypeOK
  <2>4. QED
    BY <1>0, <1>15, <2>2, <2>3, AdvanceType DEF MarkProcessFailed, TypeInv, TypeOK
<1>16. CASE MarkProcessFailedFails
  BY <1>0, <1>16, AdvanceType DEF MarkProcessFailedFails, TypeInv, TypeOK
<1>17. CASE CleanProcessed
  BY <1>0, <1>17, FewerRowsType DEF CleanProcessed, TypeInv, TypeOK, WorkInv
<1>18. CASE CleanFailed
  <2>1. DOMAIN inbox' \subseteq 1..(nextRow' - 1) /\ inbox' \in [DOMAIN inbox' -> Row]
    BY <1>0, <1>18, FewerRowsType DEF CleanFailed
  <2>2. givenUp' \subseteq Message
    BY <1>0, <1>18, RowMessages DEF CleanFailed, TypeOK
  <2>3. QED
    BY <1>0, <1>18, <2>1, <2>2 DEF CleanFailed, TypeInv, TypeOK, WorkInv
<1>19. CASE CleanFails
  BY <1>0, <1>19 DEF CleanFails, TypeInv, TypeOK, WorkInv
<1>20. CASE Tick
  <2>1. now' \in Time
    <3>1. now \in 0..MaxTime /\ now < MaxTime /\ now' = now + 1
      BY <1>0, <1>20 DEF Tick, TypeOK, Time
    <3>2. QED
      BY <3>1, BoundsAssumption DEF Time
  <2>2. UNCHANGED <<queueVars, inbox, nextRow, workVars, eventVars, givenUp, cleaning, crashes>>
    BY <1>20 DEF Tick
  <2>3. TypeOK'
    BY <1>0, <2>1, <2>2 DEF TypeOK
  <2>4. WorkInv' /\ IsFiniteSet(ledger)'
    BY <1>0, <2>2 DEF WorkInv
  <2>5. QED
    BY <2>3, <2>4 DEF TypeInv
<1>21. CASE Crash
  <2>1. Return
    BY <1>21 DEF Crash
  <2>2. crashes' \in 0..MaxCrashes
    <3>1. crashes \in 0..MaxCrashes /\ crashes < MaxCrashes /\ crashes' = crashes + 1
      BY <1>0, <1>21 DEF Crash, TypeOK
    <3>2. QED
      BY <3>1, BoundsAssumption
  <2>3. lost' \subseteq Message /\ popped' \in Seq(Message)
    BY <1>0, <1>21, ElementsType DEF Crash, TypeOK
  <2>4. QED
    BY <1>0, <1>21, <2>1, <2>2, <2>3, ReturnType DEF Crash, TypeInv, TypeOK
<1>22. CASE UNCHANGED vars
  BY <1>0, <1>22 DEF vars, TypeInv, TypeOK, WorkInv
<1>23. QED
  BY <1>1, <1>2, <1>3, <1>4, <1>5, <1>6, <1>7, <1>8, <1>9, <1>10, <1>11, <1>12, <1>13, <1>14,
     <1>15, <1>16, <1>17, <1>18, <1>19, <1>20, <1>21, <1>22
  DEF Next, PullStep, WorkStep, CleanStep

LEMMA InitTyped == Init => TypeInv
<1> SUFFICES ASSUME Init PROVE TypeInv
  OBVIOUS
<1>1. inbox \in [DOMAIN inbox -> Row] /\ DOMAIN inbox = {}
  BY DEF Init
<1>2. 0 \in Time /\ 0 \in 0..MaxCrashes
  BY BoundsAssumption DEF Time
<1>3. IsFiniteSet(ledger)
  BY FS_EmptySet DEF Init
<1>4. TypeOK
  <2>1. nextRow \in Nat \ {0} /\ DOMAIN inbox \subseteq 1..(nextRow - 1)
    BY <1>1 DEF Init
  <2>2. /\ sent \subseteq Message /\ lost \subseteq Message /\ credited \subseteq Message
        /\ givenUp \subseteq Message /\ ledger \subseteq Event /\ cleaning \in BOOLEAN
    BY DEF Init
  <2>3. /\ queue \in Seq(Message) /\ popped \in Seq(Message)
        /\ todo \in Seq(Entry) /\ valid \in Seq(Entry) /\ keys \in Seq(Key)
    BY DEF Init
  <2>4. /\ phase \in {"idle", "decode", "align", "insert", "mark", "fail"}
        /\ pos \in Nat /\ fetchedAt \in Time /\ now \in Time /\ crashes \in 0..MaxCrashes
    BY <1>2 DEF Init
  <2>5. QED
    BY <1>1, <2>1, <2>2, <2>3, <2>4 DEF TypeOK
<1>5. QED
  BY <1>3, <1>4 DEF Init, TypeInv, WorkInv

(***************************************************************************)
(* The inbox is always well typed: the working variables of an attempt,    *)
(* the rows and the events, whichever loops interleave and whatever fails. *)
(***************************************************************************)
THEOREM TypeCorrect == Spec => []TypeOK
<1>1. TypeInv => TypeOK
  BY DEF TypeInv
<1>2. QED
  BY <1>1, InitTyped, TypeStep, PTL DEF Spec

-----------------------------------------------------------------------------
(* Counted once. *)

InLedger(k) == \E e \in ledger : e.key = k

(***************************************************************************)
(* The key an aligned row has.  A row without a request id has the key of  *)
(* an earlier row or of an event, or there is no event and no earlier row  *)
(* with its content: a key that is new brings content that is new.         *)
(***************************************************************************)
Aligned(i) ==
  IF Keyed(valid[i].msg) THEN keys[i] = RequestId[valid[i].msg]
  ELSE \/ \E k \in 1..(i - 1) : keys[k] = keys[i]
       \/ InLedger(keys[i])
       \/ /\ \A e \in ledger : e.content # ContentOf(valid[i].msg)
          /\ \A k \in 1..(i - 1) : ~Same(k, i)

BatchInv ==
  /\ phase \in {"align", "insert"} => \A i \in 1..Len(keys) : Aligned(i)
  /\ phase = "insert" => \A i \in 1..pos : InLedger(keys[i])
  /\ phase = "mark" => \A i \in 1..Len(keys) : InLedger(keys[i])

(* One event per key; two events inserted by rows without request ids differ in content. *)
LedgerInv ==
  /\ \A e, f \in ledger : e.key = f.key => e = f
  /\ \A e \in ledger : Keyed(e.origin) => e.key = RequestId[e.origin]
  /\ \A e \in ledger : e.origin \notin Unstamped =>
       e.content = [body |-> Body[e.origin], at |-> OwnTime]
  /\ \A e, f \in ledger :
       ~Keyed(e.origin) /\ ~Keyed(f.origin) /\ e.content = f.content => e = f

CountInv == TypeInv /\ BatchInv /\ LedgerInv

LEMMA CountInvImplies == CountInv => CountedOnce
<1> SUFFICES ASSUME CountInv, NEW e \in ledger, NEW f \in ledger,
                    e.origin = f.origin, Stable(e.origin)
             PROVE  e = f
  BY DEF CountedOnce
<1>1. CASE Keyed(e.origin)
  BY <1>1 DEF CountInv, LedgerInv
<1>2. CASE ~Keyed(e.origin)
  BY <1>2 DEF CountInv, LedgerInv, Stable
<1>3. QED
  BY <1>1, <1>2

(* Every key of a batch is in the ledger once the batch is inserted. *)
LEMMA BatchKeysInserted ==
  ASSUME TypeInv, phase = "insert", InsertEvents, NEW i \in Slice
  PROVE  \E e \in ledger' : e.key = keys[i]
<1>1. CASE InLedger(keys[i])
  BY <1>1 DEF InLedger, InsertEvents
<1>2. CASE ~InLedger(keys[i])
  <2> DEFINE T == {j \in Slice : keys[j] = keys[i]}
  <2>1. T \in SUBSET Nat /\ T # {}
    BY SliceType
  <2>2. PICK j \in T : \A l \in T : j <= l
    BY <2>1, Least
  <2>3. \A l \in Slice : l < j => keys[l] # keys[j]
    BY <2>1, <2>2, SliceType
  <2>4. j \in Fresh
    BY <1>2, <2>2, <2>3 DEF Fresh, InLedger
  <2>5. \E e \in NewEvents : e.key = keys[j]
    <3>1. NewEvent(j) \in NewEvents
      BY <2>4 DEF NewEvents
    <3>2. NewEvent(j).key = keys[j]
      BY DEF NewEvent
    <3>3. QED
      BY <3>1, <3>2
  <2>6. QED
    BY <2>2, <2>5 DEF InsertEvents
<1>3. QED
  BY <1>1, <1>2

(* What a new event is: the first row of its batch with a key no event has. *)
LEMMA NewEventIs ==
  ASSUME NEW e \in NewEvents
  PROVE  \E i \in Fresh : /\ e.key = keys[i] /\ e.origin = valid[i].msg
                          /\ e.content = ContentOf(valid[i].msg)
<1>1. PICK i \in Fresh : e = NewEvent(i)
  BY DEF NewEvents
<1>2. QED
  BY <1>1 DEF NewEvent

(***************************************************************************)
(* A row without a request id inserts an event only when neither the       *)
(* ledger nor an earlier row of the attempt has its content.               *)
(***************************************************************************)
LEMMA FreshContent ==
  ASSUME CountInv, phase = "insert", NEW i \in Fresh, ~Keyed(valid[i].msg)
  PROVE  /\ \A e \in ledger : e.content # ContentOf(valid[i].msg)
         /\ \A k \in 1..(i - 1) : ~Same(k, i)
<1>1. i \in Slice /\ i \in 1..Len(keys) /\ ~InLedger(keys[i])
  BY SliceType DEF Fresh, InLedger, CountInv, TypeInv, WorkInv
<1>2. \A k \in 1..(i - 1) : keys[k] # keys[i]
  <2> SUFFICES ASSUME NEW k \in 1..(i - 1) PROVE keys[k] # keys[i]
    OBVIOUS
  <2>1. CASE k \in 1..pos
    BY <1>1, <2>1 DEF CountInv, BatchInv, InLedger
  <2>2. CASE k \notin 1..pos
    <3>1. pos \in Nat /\ Len(valid) \in Nat /\ InsertBatch \in Nat
      BY BoundsAssumption DEF CountInv, TypeInv, TypeOK
    <3>2. k \in Slice /\ k < i
      BY <1>1, <2>2, <3>1 DEF Slice, Min2
    <3>3. QED
      BY <3>2 DEF Fresh
  <2>3. QED
    BY <2>1, <2>2
<1>3. Aligned(i)
  BY <1>1 DEF CountInv, BatchInv
<1>4. QED
  BY <1>1, <1>2, <1>3 DEF Aligned

LEMMA InsertKeepsLedger == CountInv /\ InsertEvents => LedgerInv'
<1> SUFFICES ASSUME CountInv, InsertEvents PROVE LedgerInv'
  OBVIOUS
<1>0. phase = "insert" /\ TypeInv /\ LedgerInv /\ ledger' = ledger \cup NewEvents
  BY DEF InsertEvents, CountInv
<1>1. \A i \in Fresh : /\ i \in Slice /\ i \in Nat /\ i \in 1..Len(keys)
                       /\ valid[i].msg \in Message
  BY <1>0, SliceType DEF Fresh, TypeInv, WorkInv
<1>2. ASSUME NEW e \in ledger', NEW f \in ledger', e.key = f.key PROVE e = f
  <2>1. CASE e \in ledger /\ f \in ledger
    BY <1>0, <1>2, <2>1 DEF LedgerInv
  <2>2. CASE e \in NewEvents /\ f \in ledger
    BY <1>2, <2>2, NewEventIs DEF Fresh
  <2>3. CASE e \in ledger /\ f \in NewEvents
    BY <1>2, <2>3, NewEventIs DEF Fresh
  <2>4. CASE e \in NewEvents /\ f \in NewEvents
    <3>1. PICK i \in Fresh : e = NewEvent(i)
      BY <2>4 DEF NewEvents
    <3>2. PICK j \in Fresh : f = NewEvent(j)
      BY <2>4 DEF NewEvents
    <3>3. keys[i] = keys[j]
      BY <1>2, <3>1, <3>2 DEF NewEvent
    <3>4. ~(i < j) /\ ~(j < i)
      BY <1>1, <3>3 DEF Fresh
    <3>5. i = j
      BY <1>1, <3>4
    <3>6. QED
      BY <3>1, <3>2, <3>5
  <2>5. QED
    BY <1>0, <2>1, <2>2, <2>3, <2>4
<1>3. ASSUME NEW e \in ledger', Keyed(e.origin) PROVE e.key = RequestId[e.origin]
  <2>1. CASE e \in ledger
    BY <1>0, <1>3, <2>1 DEF LedgerInv
  <2>2. CASE e \in NewEvents
    <3>1. PICK i \in Fresh : e.key = keys[i] /\ e.origin = valid[i].msg
      BY <2>2, NewEventIs
    <3>2. Aligned(i)
      BY <1>0, <1>1 DEF CountInv, BatchInv
    <3>3. QED
      BY <1>3, <3>1, <3>2 DEF Aligned
  <2>3. QED
    BY <1>0, <2>1, <2>2
<1>4. ASSUME NEW e \in ledger', e.origin \notin Unstamped
      PROVE  e.content = [body |-> Body[e.origin], at |-> OwnTime]
  <2>1. CASE e \in ledger
    BY <1>0, <1>4, <2>1 DEF LedgerInv
  <2>2. CASE e \in NewEvents
    BY <1>4, <2>2, NewEventIs DEF ContentOf
  <2>3. QED
    BY <1>0, <2>1, <2>2
<1>5. ASSUME NEW e \in ledger', NEW f \in ledger',
             ~Keyed(e.origin), ~Keyed(f.origin), e.content = f.content
      PROVE  e = f
  <2>1. CASE e \in ledger /\ f \in ledger
    BY <1>0, <1>5, <2>1 DEF LedgerInv
  <2>2. CASE e \in NewEvents /\ f \in ledger
    BY <1>0, <1>5, <2>2, NewEventIs, FreshContent
  <2>3. CASE e \in ledger /\ f \in NewEvents
    BY <1>0, <1>5, <2>3, NewEventIs, FreshContent
  <2>4. CASE e \in NewEvents /\ f \in NewEvents
    <3>1. PICK i \in Fresh : e = NewEvent(i)
      BY <2>4 DEF NewEvents
    <3>2. PICK j \in Fresh : f = NewEvent(j)
      BY <2>4 DEF NewEvents
    <3>3. Same(i, j) /\ Same(j, i)
      BY <1>5, <3>1, <3>2 DEF Same, NewEvent
    <3>4. ~Keyed(valid[i].msg) /\ ~Keyed(valid[j].msg)
      BY <1>5, <3>1, <3>2 DEF NewEvent
    <3>5. i \notin 1..(j - 1) /\ j \notin 1..(i - 1)
      BY <1>0, <3>3, <3>4, FreshContent
    <3>6. i = j
      BY <1>1, <3>5
    <3>7. QED
      BY <3>1, <3>2, <3>6
  <2>5. QED
    BY <1>0, <2>1, <2>2, <2>3, <2>4
<1>6. QED
  BY <1>2, <1>3, <1>4, <1>5 DEF LedgerInv, Keyed

(* The key of the next row is aligned, and the earlier rows stay so. *)
LEMMA AlignKeepsBatch == CountInv /\ AlignRow => BatchInv'
<1> SUFFICES ASSUME CountInv, AlignRow PROVE BatchInv'
  OBVIOUS
<1>1. /\ phase = "align" /\ pos = 0 /\ keys \in Seq(Key) /\ Len(keys) \in Nat
      /\ UNCHANGED <<valid, fetchedAt, ledger, pos>>
  BY DEF CountInv, TypeInv, TypeOK, WorkInv, AlignRow, eventVars
<1>0. PICK n \in Nat \ {0} : n = Len(keys) + 1
  BY <1>1
<1> DEFINE m == valid[n].msg
           twins == {j \in 1..Len(keys) : Same(j, n)}
<1>2. PICK k \in Key : keys' = Append(keys, k)
  BY AlignKeyType DEF AlignRow, CountInv, TypeInv
<1>3. /\ Len(keys') = n /\ keys'[n] = k
      /\ \A i \in 1..Len(keys) : keys'[i] = keys[i]
  BY <1>1, <1>0, <1>2
<1>4. ASSUME NEW i \in 1..Len(keys) PROVE Aligned(i)'
  <2>1. Aligned(i)
    BY <1>1, <1>0 DEF CountInv, BatchInv
  <2>2. keys'[i] = keys[i] /\ \A j \in 1..(i - 1) : keys'[j] = keys[j]
    BY <1>1, <1>0, <1>3
  <2>3. QED
    BY <1>1, <1>0, <2>1, <2>2 DEF Aligned, Keyed, InLedger, Same, ContentOf
<1>5. Aligned(n)'
  <2>1. CASE Keyed(m)
    <3>1. keys' = Append(keys, RequestId[m])
      BY <1>0, <2>1 DEF AlignRow, AlignKey, IncomingKey, Keyed
    <3>2. keys'[n] = RequestId[m]
      BY <1>1, <1>0, <3>1
    <3>3. QED
      BY <1>1, <1>0, <2>1, <3>2 DEF Aligned, Keyed
  <2>2. CASE ~Keyed(m)
    <3>1. \/ \E j \in twins : keys' = Append(keys, keys[j])
          \/ \E e \in ledger : keys' = Append(keys, e.key)
          \/ twins = {} /\ \A e \in ledger : e.content # ContentOf(m)
      BY <1>0, <2>2 DEF AlignRow, AlignKey, Oldest
    <3>2. CASE \E j \in twins : keys' = Append(keys, keys[j])
      <4>1. PICK j \in 1..(n - 1) : keys' = Append(keys, keys[j])
        BY <1>1, <1>0, <3>2
      <4>2. keys'[n] = keys'[j]
        BY <1>1, <1>0, <1>3, <4>1
      <4>3. QED
        BY <1>1, <1>0, <2>2, <4>2 DEF Aligned, Keyed
    <3>3. CASE \E e \in ledger : keys' = Append(keys, e.key)
      <4>1. PICK e \in ledger : keys' = Append(keys, e.key)
        BY <3>3
      <4>2. keys'[n] = e.key
        BY <1>1, <1>0, <4>1
      <4>3. QED
        BY <1>1, <1>0, <2>2, <4>2 DEF Aligned, Keyed, InLedger
    <3>4. CASE twins = {} /\ \A e \in ledger : e.content # ContentOf(m)
      <4>1. \A j \in 1..(n - 1) : ~Same(j, n)
        BY <1>1, <1>0, <3>4
      <4>2. QED
        BY <1>1, <1>0, <2>2, <3>4, <4>1 DEF Aligned, Keyed, Same, ContentOf
    <3>5. QED
      BY <3>1, <3>2, <3>3, <3>4
  <2>3. QED
    BY <2>1, <2>2
<1>6. \A i \in 1..Len(keys') : Aligned(i)'
  BY <1>1, <1>0, <1>3, <1>4, <1>5
<1>7. phase' \in {"align", "insert"}
  BY DEF AlignRow
<1>8. QED
  BY <1>1, <1>0, <1>6, <1>7 DEF BatchInv

(***************************************************************************)
(* The inserted part of the batch is in the ledger.  A row still to insert *)
(* stays aligned: an event the batch inserts has the content of an earlier *)
(* row, so it does not disturb a row whose content no earlier row has.     *)
(***************************************************************************)
LEMMA InsertKeepsBatch == CountInv /\ InsertEvents => BatchInv'
<1> SUFFICES ASSUME CountInv, InsertEvents PROVE BatchInv'
  OBVIOUS
<1>0. /\ phase = "insert" /\ TypeInv /\ ledger' = ledger \cup NewEvents
      /\ UNCHANGED <<valid, keys, fetchedAt>>
  BY DEF InsertEvents, CountInv
<1>1. /\ pos \in Nat /\ Len(valid) \in Nat /\ pos < Len(valid) /\ Len(keys) = Len(valid)
      /\ InsertBatch \in Nat \ {0}
  BY <1>0, BoundsAssumption DEF TypeInv, TypeOK, WorkInv
<1>2. \A i \in 1..pos : InLedger(keys[i])'
  BY <1>0 DEF CountInv, BatchInv, InLedger
<1>3. \A i \in Slice : InLedger(keys[i])'
  BY <1>0, BatchKeysInserted DEF InLedger
<1>4. CASE pos + InsertBatch < Len(valid)
  <2>1. pos' = pos + InsertBatch /\ phase' = "insert"
    BY <1>4 DEF InsertEvents
  <2>2. \A i \in 1..pos' : i \in 1..pos \/ i \in Slice
    BY <1>1, <1>4, <2>1 DEF Slice, Min2
  <2>3. \A i \in 1..pos' : InLedger(keys[i])'
    BY <1>2, <1>3, <2>2
  <2>4. ASSUME NEW i \in 1..Len(keys) PROVE Aligned(i)'
    <3>1. Aligned(i)
      BY <1>0 DEF CountInv, BatchInv
    <3>2. CASE i \in 1..pos'
      <4>1. InLedger(keys[i])'
        BY <2>3, <3>2
      <4>2. QED
        BY <1>0, <3>1, <4>1 DEF Aligned, Keyed, InLedger
    <3>3. CASE i \notin 1..pos'
      <4>1. \A j \in Fresh : j \in 1..(i - 1)
        BY <1>1, <2>1, <3>3 DEF Fresh, Slice, Min2
      <4>2. \A e \in NewEvents : \E j \in 1..(i - 1) : e.content = ContentOf(valid[j].msg)
        BY <4>1, NewEventIs
      <4>3. (\A j \in 1..(i - 1) : ~Same(j, i))
              => \A e \in NewEvents : e.content # ContentOf(valid[i].msg)
        BY <4>2 DEF Same
      <4>4. QED
        BY <1>0, <3>1, <4>3 DEF Aligned, Keyed, InLedger, Same, ContentOf
    <3>4. QED
      BY <3>2, <3>3
  <2>5. QED
    BY <1>0, <2>1, <2>3, <2>4 DEF BatchInv
<1>5. CASE ~(pos + InsertBatch < Len(valid))
  <2>1. phase' = "mark"
    BY <1>5 DEF InsertEvents
  <2>2. \A i \in 1..Len(keys) : i \in 1..pos \/ i \in Slice
    BY <1>1, <1>5 DEF Slice, Min2
  <2>3. \A i \in 1..Len(keys) : InLedger(keys[i])'
    BY <1>2, <1>3, <2>2
  <2>4. QED
    BY <1>0, <2>1, <2>3 DEF BatchInv
<1>6. QED
  BY <1>4, <1>5

LEMMA CountStep == CountInv /\ [Next]_vars => CountInv'
<1> SUFFICES ASSUME CountInv, [Next]_vars PROVE CountInv'
  OBVIOUS
<1> USE DEF queueVars, eventVars, workVars, clockVars
<1>0. TypeInv /\ TypeInv' /\ BatchInv /\ LedgerInv
  BY TypeStep DEF CountInv
<1>1. ASSUME UNCHANGED ledger PROVE LedgerInv'
  BY <1>0, <1>1 DEF LedgerInv, Keyed
<1>2. CASE UNCHANGED <<phase, valid, keys, pos, fetchedAt, ledger>>
  <2>1. BatchInv'
    BY <1>0, <1>2 DEF BatchInv, Aligned, Keyed, InLedger, Same, ContentOf
  <2>2. QED
    BY <1>0, <1>1, <1>2, <2>1 DEF CountInv
<1>3. CASE UNCHANGED ledger /\ phase' \notin {"align", "insert", "mark"}
  <2>1. BatchInv'
    BY <1>3 DEF BatchInv
  <2>2. QED
    BY <1>0, <1>1, <1>3, <2>1 DEF CountInv
<1>4. CASE DecodeRow \/ MarkDecodeFailed
  <2>1. /\ UNCHANGED ledger /\ keys = <<>>
        /\ phase' \in {"decode", "align", "idle"} /\ (phase' = "align" => UNCHANGED keys)
    BY <1>0, <1>4 DEF DecodeRow, MarkDecodeFailed, AfterRow, Return, TypeInv, WorkInv
  <2>2. BatchInv'
    BY <2>1 DEF BatchInv
  <2>3. QED
    BY <1>0, <1>1, <2>1, <2>2 DEF CountInv
<1>5. CASE AlignRow
  <2>1. UNCHANGED ledger
    BY <1>5 DEF AlignRow
  <2>2. QED
    BY <1>0, <1>1, <1>5, <2>1, AlignKeepsBatch DEF CountInv
<1>6. CASE InsertEvents
  BY <1>0, <1>6, InsertKeepsBatch, InsertKeepsLedger DEF CountInv
<1>7. CASE MarkProcessed \/ MarkProcessFailed \/ MarkProcessFailedFails
  <2>1. CASE Return
    BY <1>3, <1>7, <2>1 DEF Return, MarkProcessed, MarkProcessFailed, MarkProcessFailedFails
  <2>2. CASE UNCHANGED <<phase, valid, keys, fetchedAt>>
    <3>1. UNCHANGED ledger /\ phase \in {"mark", "fail"}
      BY <1>7 DEF MarkProcessed, MarkProcessFailed, MarkProcessFailedFails
    <3>2. BatchInv'
      BY <1>0, <2>2, <3>1 DEF BatchInv, InLedger
    <3>3. QED
      BY <1>0, <1>1, <3>1, <3>2 DEF CountInv
  <2>3. QED
    BY <1>7, <2>1, <2>2 DEF Advance, MarkProcessed, MarkProcessFailed, MarkProcessFailedFails
<1>8. CASE ListRows \/ MarkDecodeFails \/ PersistFails \/ MarkProcessedFails \/ Crash
  BY <1>3, <1>8 DEF ListRows, MarkDecodeFails, PersistFails, MarkProcessedFails, Crash, Return
<1>9. CASE (\E m \in Message : Publish(m)) \/ PullStep \/ CleanStep \/ Tick
  BY <1>2, <1>9 DEF Publish, PullStep, Pop, PopFails, InsertPulled, InsertPulledFails,
     CleanStep, CleanProcessed, CleanFailed, CleanFails, Tick
<1>10. CASE UNCHANGED vars
  BY <1>2, <1>10 DEF vars
<1>11. QED
  BY <1>4, <1>5, <1>6, <1>7, <1>8, <1>9, <1>10 DEF Next, WorkStep

(***************************************************************************)
(* A usage message is counted at most once: for every batch, list and pop  *)
(* size, every interleaving of the loops, every failing statement and any  *)
(* number of crashes, provided it has a request id or a timestamp.         *)
(***************************************************************************)
THEOREM MessagesCountedOnce == Spec => []CountedOnce
<1>1. Init => CountInv
  <2>1. Init => TypeInv
    BY InitTyped
  <2>2. QED
    BY <2>1 DEF Init, CountInv, BatchInv, LedgerInv
<1>2. CountInv => CountedOnce
  BY CountInvImplies
<1>3. QED
  BY <1>1, <1>2, CountStep, PTL DEF Spec

-----------------------------------------------------------------------------
(* The life of a row. *)

(* A held row is still open, unless the cleanup has deleted and given it up. *)
Waits(entry) ==
  /\ entry.id < nextRow
  /\ entry.id \in DOMAIN inbox =>
       /\ inbox[entry.id].status \in {"pending", "process_failed"}
       /\ inbox[entry.id].msg = entry.msg
  /\ entry.id \notin DOMAIN inbox => entry.msg \in givenUp

(* The decoded rows this attempt has yet to mark. *)
Unmarked == (IF phase \in {"mark", "fail"} THEN pos + 1 ELSE 1)..Len(valid)

(***************************************************************************)
(* An attempt holds each row once.                                         *)
(***************************************************************************)
HeldOnce ==
  /\ \A i, j \in 1..Len(todo) : todo[i].id = todo[j].id => i = j
  /\ \A i, j \in 1..Len(valid) : valid[i].id = valid[j].id => i = j
  /\ \A i \in 1..Len(valid), j \in 1..Len(todo) : valid[i].id # todo[j].id

HeldOpen ==
  /\ \A i \in 1..Len(todo) : Waits(todo[i])
  /\ \A i \in Unmarked : Waits(valid[i])

RowInv == TypeInv /\ AttemptBudget /\ HeldOnce /\ HeldOpen

WithinBudget(row) ==
  /\ row.status = "pending" => row.attempts = 0
  /\ row.status = "process_failed" => row.attempts \in 1..(MaxAttempts - 1)
  /\ row.status = "discarded" => row.attempts = MaxAttempts

Onward ==
  \A i \in DOMAIN inbox :
    /\ inbox[i].status = "pending" => i \in DOMAIN inbox'
    /\ (inbox[i].status \in {"processed", "decode_failed", "discarded"} /\ i \in DOMAIN inbox')
         => inbox'[i] = inbox[i]

LEMMA BudgetOfRows == AttemptBudget <=> \A i \in DOMAIN inbox : WithinBudget(inbox[i])
BY DEF AttemptBudget, WithinBudget

(* What each kind of step does to the rows, and to those an attempt holds. *)

LEMMA RowsRest ==
  ASSUME AttemptBudget, UNCHANGED <<inbox, nextRow>>, givenUp \subseteq givenUp'
  PROVE  AttemptBudget' /\ Onward /\ \A y \in Entry : Waits(y) => Waits(y)'
BY DEF AttemptBudget, Onward, Waits

LEMMA RowMarked ==
  ASSUME RowInv, NEW x \in Entry, Waits(x), NEW row, inbox' = Updated(x.id, row),
         x.id \in DOMAIN inbox => WithinBudget(row), UNCHANGED nextRow,
         givenUp \subseteq givenUp'
  PROVE  /\ AttemptBudget' /\ Onward
         /\ \A y \in Entry : Waits(y) /\ y.id # x.id => Waits(y)'
<1>1. /\ DOMAIN inbox' = DOMAIN inbox
      /\ \A i \in DOMAIN inbox : inbox'[i] = IF i = x.id THEN row ELSE inbox[i]
  BY DEF Updated
<1>2. (\A i \in DOMAIN inbox : WithinBudget(inbox[i]))
        => \A i \in DOMAIN inbox' : WithinBudget(inbox'[i])
  BY <1>1
<1>3. AttemptBudget'
  BY <1>2, BudgetOfRows DEF RowInv, AttemptBudget, WithinBudget
<1>4. Onward
  BY <1>1 DEF Onward, Waits
<1>5. \A y \in Entry : Waits(y) /\ y.id # x.id => Waits(y)'
  BY <1>1 DEF Waits
<1>6. QED
  BY <1>3, <1>4, <1>5

GivesUp(row) == row.status = "process_failed" => row.msg \in givenUp'

LEMMA RowsDeleted ==
  ASSUME RowInv, NEW gone, inbox' = Without(gone), UNCHANGED nextRow,
         givenUp \subseteq givenUp',
         \A i \in gone : inbox[i].status # "pending" /\ GivesUp(inbox[i])
  PROVE  AttemptBudget' /\ Onward /\ \A y \in Entry : Waits(y) => Waits(y)'
<1>1. /\ DOMAIN inbox' = DOMAIN inbox \ gone
      /\ \A i \in DOMAIN inbox' : i \in DOMAIN inbox /\ inbox'[i] = inbox[i]
  BY DEF Without
<1>2. AttemptBudget'
  <2>1. \A i \in DOMAIN inbox' : WithinBudget(inbox'[i])
    BY <1>1, BudgetOfRows DEF RowInv
  <2>2. QED
    BY <2>1 DEF AttemptBudget, WithinBudget
<1>3. Onward
  <2>1. \A i \in DOMAIN inbox : inbox[i].status = "pending" => i \in DOMAIN inbox'
    BY <1>1
  <2>2. QED
    BY <1>1, <2>1 DEF Onward
<1>4. \A y \in Entry : Waits(y) => Waits(y)'
  BY <1>1 DEF Waits, GivesUp
<1>5. QED
  BY <1>2, <1>3, <1>4

LEMMA RowsAdded ==
  ASSUME RowInv, InsertPulled
  PROVE  AttemptBudget' /\ Onward /\ \A y \in Entry : Waits(y) => Waits(y)'
<1> DEFINE n == Len(popped)
           fresh == nextRow..(nextRow + n - 1)
<1>1. n \in Nat /\ nextRow \in Nat /\ nextRow' = nextRow + n /\ givenUp' = givenUp
  BY DEF InsertPulled, RowInv, TypeInv, TypeOK
<1>2. \A i \in DOMAIN inbox : i \in Nat /\ i < nextRow
  BY <1>1 DEF RowInv, TypeInv, TypeOK
<1>3. /\ DOMAIN inbox' = DOMAIN inbox \cup fresh
      /\ \A i \in DOMAIN inbox' : inbox'[i] = IF i < nextRow THEN inbox[i]
                                              ELSE NewRow(popped[i - nextRow + 1])
  BY DEF InsertPulled
<1>4. \A i \in DOMAIN inbox : i \in DOMAIN inbox' /\ inbox'[i] = inbox[i]
  BY <1>2, <1>3
<1>5. \A i \in DOMAIN inbox' : i \in DOMAIN inbox \/ ~(i < nextRow)
  BY <1>1, <1>3
<1>6. \A m : WithinBudget(NewRow(m))
  BY DEF WithinBudget, NewRow
<1>7. \A i \in DOMAIN inbox' : WithinBudget(inbox'[i])
  BY <1>3, <1>4, <1>5, <1>6, BudgetOfRows DEF RowInv
<1>8. AttemptBudget'
  BY <1>7 DEF AttemptBudget, WithinBudget
<1>9. Onward
  BY <1>4 DEF Onward
<1>10. ASSUME NEW y \in Entry, Waits(y) PROVE Waits(y)'
  <2>1. y.id \in Nat /\ y.id < nextRow
    BY <1>10 DEF Entry, Waits
  <2>2. y.id \in DOMAIN inbox' <=> y.id \in DOMAIN inbox
    BY <1>4, <1>5, <2>1
  <2>3. QED
    BY <1>1, <1>4, <1>10, <2>1, <2>2 DEF Waits
<1>11. QED
  BY <1>8, <1>9, <1>10

-----------------------------------------------------------------------------
(* An attempt that holds the same rows, or fewer, holds them open. *)

LEMMA HeldEntries ==
  ASSUME TypeInv
  PROVE  /\ Len(todo) \in Nat /\ Len(valid) \in Nat /\ pos \in Nat
         /\ \A i \in 1..Len(todo) : todo[i] \in Entry
         /\ \A i \in 1..Len(valid) : valid[i] \in Entry
         /\ \A i \in Unmarked : i \in 1..Len(valid) /\ valid[i] \in Entry
<1>1. /\ todo \in Seq(Entry) /\ valid \in Seq(Entry) /\ pos \in Nat
  BY DEF TypeInv, TypeOK
<1>2. QED
  BY <1>1 DEF Unmarked

LEMMA HeldReturned ==
  ASSUME Return
  PROVE  HeldOnce' /\ HeldOpen'
<1>1. todo' = <<>> /\ valid' = <<>> /\ phase' = "idle"
  BY DEF Return
<1>2. QED
  BY <1>1 DEF HeldOnce, HeldOpen, Unmarked

LEMMA HeldStill ==
  ASSUME RowInv, UNCHANGED <<todo, valid>>, Unmarked' \subseteq Unmarked,
         \A y \in Entry : Waits(y) => Waits(y)'
  PROVE  HeldOnce' /\ HeldOpen'
<1>1. HeldOnce'
  BY DEF RowInv, HeldOnce
<1>2. HeldOpen'
  BY HeldEntries DEF RowInv, HeldOpen
<1>3. QED
  BY <1>1, <1>2

(* The first listed row is taken off the list, decoded or not. *)
LEMMA HeldAfterRow ==
  ASSUME RowInv, phase = "decode", NEW decoded,
         decoded = valid \/ decoded = Append(valid, Head(todo)), AfterRow(Tail(todo), decoded),
         \A y \in Entry : Waits(y) /\ y.id # Head(todo).id => Waits(y)',
         decoded # valid => \A y \in Entry : Waits(y) => Waits(y)'
  PROVE  HeldOnce' /\ HeldOpen'
<1>1. CASE Return
  BY <1>1, HeldReturned
<1>2. CASE todo' = Tail(todo) /\ valid' = decoded /\ phase' \in {"decode", "align"}
  <2> DEFINE x == todo[1]
             k == Len(todo)
             n == Len(valid)
  <2>1. /\ todo \in Seq(Entry) /\ valid \in Seq(Entry) /\ todo # <<>>
    BY DEF RowInv, TypeInv, TypeOK, WorkInv
  <2>2. /\ k \in Nat \ {0} /\ n \in Nat /\ Head(todo) = x /\ x \in Entry
        /\ Len(Tail(todo)) = k - 1 /\ \A i \in 1..(k - 1) : Tail(todo)[i] = todo[i + 1]
    BY <2>1
  <2>3. Unmarked = 1..n /\ Unmarked' = 1..Len(decoded)
    BY <1>2 DEF Unmarked
  <2>4. /\ Len(Append(valid, x)) = n + 1 /\ Append(valid, x)[n + 1] = x
        /\ \A i \in 1..n : Append(valid, x)[i] = valid[i]
    BY <2>1, <2>2
  <2>5. Waits(x) /\ \A i \in 1..n : Waits(valid[i]) /\ valid[i].id # x.id
    BY <2>2, <2>3 DEF RowInv, HeldOpen, HeldOnce
  <2>6. \A i \in 1..(k - 1) : Waits(todo[i + 1]) /\ todo[i + 1].id # x.id /\ todo[i + 1] \in Entry
    <3> SUFFICES ASSUME NEW i \in 1..(k - 1)
                 PROVE  Waits(todo[i + 1]) /\ todo[i + 1].id # x.id /\ todo[i + 1] \in Entry
      OBVIOUS
    <3>1. i + 1 \in 1..k /\ i + 1 # 1 /\ 1 \in 1..k
      BY <2>2
    <3>2. QED
      BY <2>1, <3>1 DEF RowInv, HeldOpen, HeldOnce
  <2>7. \A i \in 1..(k - 1) : Waits(todo[i])'
    BY <1>2, <2>2, <2>6
  <2>8. /\ \A i, j \in 1..(k - 1) : todo'[i].id = todo'[j].id => i = j
        /\ \A i \in 1..n, j \in 1..(k - 1) : valid[i].id # todo'[j].id
    <3>1. \A i \in 1..(k - 1) : i + 1 \in 1..k
      BY <2>2
    <3>2. \A i, j \in 1..(k - 1) : i + 1 = j + 1 => i = j
      BY <2>2
    <3>3. QED
      BY <1>2, <2>2, <3>1, <3>2 DEF RowInv, HeldOnce
  <2>9. CASE decoded = valid
    <3>1. \A i \in 1..n : Waits(valid[i])'
      BY <1>2, <2>1, <2>2, <2>5, <2>9
    <3>2. QED
      BY <1>2, <2>2, <2>3, <2>7, <2>8, <2>9, <3>1 DEF RowInv, HeldOnce, HeldOpen
  <2>10. CASE decoded = Append(valid, x)
    <3>1. decoded # valid
      BY <2>2, <2>4, <2>10
    <3>2. \A i \in 1..(n + 1) : Waits(valid[i])'
      <4> SUFFICES ASSUME NEW i \in 1..(n + 1) PROVE Waits(valid[i])'
        OBVIOUS
      <4>1. CASE i \in 1..n
        BY <1>2, <2>1, <2>4, <2>5, <2>10, <3>1, <4>1
      <4>2. CASE i = n + 1
        BY <1>2, <2>2, <2>4, <2>5, <2>10, <3>1, <4>2
      <4>3. QED
        BY <2>2, <4>1, <4>2
    <3>3. \A i, j \in 1..(n + 1) : valid'[i].id = valid'[j].id => i = j
      <4> SUFFICES ASSUME NEW i \in 1..(n + 1), NEW j \in 1..(n + 1), valid'[i].id = valid'[j].id
                   PROVE  i = j
        OBVIOUS
      <4>1. \A l \in 1..(n + 1) : l \in 1..n \/ l = n + 1
        BY <2>2
      <4>2. CASE i \in 1..n /\ j \in 1..n
        BY <1>2, <2>4, <2>10, <4>2 DEF RowInv, HeldOnce
      <4>3. CASE i = n + 1 /\ j \in 1..n
        BY <1>2, <2>4, <2>5, <2>10, <4>3
      <4>4. CASE i \in 1..n /\ j = n + 1
        BY <1>2, <2>4, <2>5, <2>10, <4>4
      <4>5. QED
        BY <4>1, <4>2, <4>3, <4>4
    <3>4. \A i \in 1..(n + 1), j \in 1..(k - 1) : valid'[i].id # todo'[j].id
      <4> SUFFICES ASSUME NEW i \in 1..(n + 1), NEW j \in 1..(k - 1)
                   PROVE  valid'[i].id # todo'[j].id
        OBVIOUS
      <4>1. CASE i \in 1..n
        BY <1>2, <2>4, <2>8, <2>10, <4>1
      <4>2. CASE i = n + 1
        BY <1>2, <2>2, <2>4, <2>6, <2>10, <4>2
      <4>3. QED
        BY <2>2, <4>1, <4>2
    <3>5. Len(valid') = n + 1 /\ Len(todo') = k - 1
      BY <1>2, <2>2, <2>4, <2>10
    <3>6. HeldOnce'
      BY <2>8, <3>3, <3>4, <3>5 DEF HeldOnce
    <3>7. HeldOpen'
      BY <1>2, <2>3, <2>7, <3>2, <3>5 DEF HeldOpen
    <3>8. QED
      BY <3>6, <3>7
  <2>11. QED
    BY <2>2, <2>9, <2>10
<1>3. QED
  BY <1>1, <1>2 DEF AfterRow

(* The row after the marked ones is marked, or its mark has failed. *)
LEMMA HeldAfterMark ==
  ASSUME RowInv, phase \in {"mark", "fail"}, Advance,
         \A y \in Entry : Waits(y) /\ y.id # valid[pos + 1].id => Waits(y)'
  PROVE  HeldOnce' /\ HeldOpen'
<1>1. CASE Return
  BY <1>1, HeldReturned
<1>2. CASE pos' = pos + 1 /\ UNCHANGED <<phase, todo, valid>>
  <2>1. /\ pos \in Nat /\ Len(valid) \in Nat /\ todo = <<>> /\ pos < Len(valid)
    BY DEF RowInv, TypeInv, TypeOK, WorkInv
  <2>2. Unmarked = (pos + 1)..Len(valid) /\ Unmarked' = (pos + 2)..Len(valid)
    BY <1>2, <2>1 DEF Unmarked
  <2>3. \A i \in Unmarked' : i \in Unmarked /\ i \in 1..Len(valid) /\ i # pos + 1
    BY <2>1, <2>2
  <2>4. pos + 1 \in 1..Len(valid)
    BY <2>1
  <2>5. \A i \in Unmarked' : Waits(valid[i]) /\ valid[i].id # valid[pos + 1].id /\ valid[i] \in Entry
    BY <2>3, <2>4, HeldEntries DEF RowInv, HeldOpen, HeldOnce
  <2>6. HeldOpen'
    BY <1>2, <2>1, <2>5 DEF HeldOpen
  <2>7. HeldOnce'
    BY <1>2 DEF RowInv, HeldOnce
  <2>8. QED
    BY <2>6, <2>7
<1>3. QED
  BY <1>1, <1>2 DEF Advance

(* The listed rows are distinct open rows. *)
LEMMA HeldListed ==
  ASSUME RowInv, ListRows
  PROVE  HeldOnce' /\ HeldOpen'
<1>1. PICK n \in 1..ListLimit : \E ids \in [1..n -> Processable] :
        /\ Listed(ids, n)
        /\ todo' = [i \in 1..n |-> [id |-> ids[i], msg |-> inbox[ids[i]].msg]]
  BY DEF ListRows
<1>2. PICK ids \in [1..n -> Processable] :
        /\ Listed(ids, n)
        /\ todo' = [i \in 1..n |-> [id |-> ids[i], msg |-> inbox[ids[i]].msg]]
  BY <1>1
<1>3. n \in Nat /\ valid = <<>> /\ valid' = <<>> /\ UNCHANGED <<inbox, nextRow>> /\ phase' = "decode"
  BY BoundsAssumption DEF ListRows, RowInv, TypeInv, WorkInv
<1>4. Len(todo') = n /\ \A i \in 1..n : todo'[i] = [id |-> ids[i], msg |-> inbox[ids[i]].msg]
  BY <1>2, <1>3
<1>5. \A i \in 1..n : ids[i] \in DOMAIN inbox /\ inbox[ids[i]].status \in {"pending", "process_failed"}
  BY <1>2 DEF Processable
<1>6. \A i \in DOMAIN inbox : i \in Nat /\ i < nextRow
  BY DEF RowInv, TypeInv, TypeOK
<1>7. \A i, j \in 1..n : ids[i] = ids[j] => i = j
  <2> SUFFICES ASSUME NEW i \in 1..n, NEW j \in 1..n, ids[i] = ids[j] PROVE i = j
    OBVIOUS
  <2>1. ids[i] \in Nat /\ ids[j] \in Nat
    BY <1>5, <1>6
  <2>2. ~(i < j) /\ ~(j < i)
    BY <1>2, <2>1 DEF Listed
  <2>3. QED
    BY <1>3, <2>2
<1>8. HeldOnce'
  BY <1>3, <1>4, <1>7 DEF HeldOnce
<1>9. \A i \in 1..n : Waits(todo[i])'
  BY <1>3, <1>4, <1>5, <1>6 DEF Waits
<1>10. HeldOpen'
  BY <1>3, <1>4, <1>9 DEF HeldOpen, Unmarked
<1>11. QED
  BY <1>8, <1>10

-----------------------------------------------------------------------------
(***************************************************************************)
(* Every step keeps the budget of the rows and what an attempt holds, and  *)
(* moves the rows only onward.                                             *)
(***************************************************************************)
LEMMA RowStep ==
  ASSUME RowInv, [Next]_vars
  PROVE  RowInv' /\ Onward
<1> USE DEF queueVars, eventVars, workVars, clockVars
<1>0. TypeInv /\ TypeInv' /\ AttemptBudget /\ HeldOnce /\ HeldOpen
  BY TypeStep DEF RowInv
<1> SUFFICES AttemptBudget' /\ Onward /\ HeldOnce' /\ HeldOpen'
  BY <1>0 DEF RowInv
<1>1. CASE UNCHANGED <<inbox, nextRow, phase, todo, valid, pos, givenUp>>
  BY <1>0, <1>1, RowsRest, HeldStill DEF Unmarked
<1>2. CASE UNCHANGED <<inbox, nextRow, givenUp>> /\ Return
  BY <1>0, <1>2, RowsRest, HeldReturned
<1>3. CASE InsertPulled
  BY <1>0, <1>3, RowsAdded, HeldStill DEF InsertPulled, Unmarked
<1>4. CASE ListRows
  BY <1>0, <1>4, RowsRest, HeldListed DEF ListRows
<1>5. CASE DecodeRow
  BY <1>0, <1>5, RowsRest, HeldAfterRow DEF DecodeRow
<1>6. CASE MarkDecodeFailed
  <2> DEFINE x == Head(todo)
             row == [inbox[x.id] EXCEPT !.status = "decode_failed", !.attempts = @ + 1, !.at = now]
  <2>1. phase = "decode" /\ inbox' = Updated(x.id, row) /\ UNCHANGED nextRow /\ AfterRow(Tail(todo), valid)
        /\ givenUp \subseteq givenUp'
    BY <1>6 DEF MarkDecodeFailed
  <2>2. x \in Entry /\ Waits(x)
    <3>1. todo \in Seq(Entry) /\ todo # <<>>
      BY <1>0, <2>1 DEF TypeInv, TypeOK, WorkInv
    <3>2. Head(todo) = todo[1] /\ 1 \in 1..Len(todo)
      BY <3>1
    <3>3. QED
      BY <1>0, <3>1, <3>2 DEF HeldOpen
  <2>3. x.id \in DOMAIN inbox => WithinBudget(row)
    <3>1. x.id \in DOMAIN inbox => inbox[x.id] \in Row
      BY <1>0 DEF TypeInv, TypeOK
    <3>2. x.id \in DOMAIN inbox => row.status = "decode_failed"
      BY <3>1 DEF Row
    <3>3. QED
      BY <3>2 DEF WithinBudget
  <2> HIDE DEF row
  <2>4. AttemptBudget' /\ Onward /\ \A y \in Entry : Waits(y) /\ y.id # x.id => Waits(y)'
    BY <2>1, <2>2, <2>3, RowMarked
  <2>5. QED
    BY <2>1, <2>4, HeldAfterRow
<1>7. CASE AlignRow
  <2>1. phase = "align" /\ phase' \in {"align", "insert"} /\ UNCHANGED <<inbox, nextRow, todo, valid, pos, givenUp>>
    BY <1>7 DEF AlignRow
  <2>2. QED
    BY <1>0, <2>1, RowsRest, HeldStill DEF Unmarked
<1>8. CASE InsertEvents
  <2>1. /\ phase = "insert" /\ UNCHANGED <<inbox, nextRow, todo, valid, givenUp>>
        /\ phase' = "insert" \/ (phase' = "mark" /\ pos' = 0)
    BY <1>8 DEF InsertEvents
  <2>2. QED
    BY <1>0, <2>1, RowsRest, HeldStill DEF Unmarked
<1>9. CASE PersistFails
  <2>1. /\ phase \in {"align", "insert"} /\ UNCHANGED <<inbox, nextRow, todo, valid, givenUp>>
        /\ phase' = "fail" /\ pos' = 0
    BY <1>9 DEF PersistFails
  <2>2. QED
    BY <1>0, <2>1, RowsRest, HeldStill DEF Unmarked
<1>10. ASSUME phase \in {"mark", "fail"}
       PROVE  valid[pos + 1] \in Entry /\ Waits(valid[pos + 1])
  <2>1. pos \in Nat /\ Len(valid) \in Nat /\ pos < Len(valid)
    <3>1. WorkInv
      BY <1>0 DEF TypeInv
    <3>2. pos < Len(valid)
      BY <1>10, <3>1 DEF WorkInv
    <3>3. QED
      BY <1>0, <3>2, HeldEntries
  <2>2. pos + 1 \in Unmarked
    BY <1>10, <2>1 DEF Unmarked
  <2>3. QED
    BY <1>0, <2>2, HeldEntries DEF HeldOpen
<1>11. CASE MarkProcessed
  <2> DEFINE x == valid[pos + 1]
             row == [inbox[x.id] EXCEPT !.status = "processed", !.key = keys[pos + 1], !.at = fetchedAt]
  <2>1. phase = "mark" /\ inbox' = Updated(x.id, row) /\ UNCHANGED <<nextRow, givenUp>> /\ Advance
    BY <1>11 DEF MarkProcessed
  <2>2. x.id \in DOMAIN inbox => WithinBudget(row)
    <3>1. x.id \in DOMAIN inbox => inbox[x.id] \in Row
      BY <1>0 DEF TypeInv, TypeOK
    <3>2. x.id \in DOMAIN inbox => row.status = "processed"
      BY <3>1 DEF Row
    <3>3. QED
      BY <3>2 DEF WithinBudget
  <2>3. x \in Entry /\ Waits(x)
    BY <1>10, <2>1
  <2> HIDE DEF row
  <2>4. AttemptBudget' /\ Onward /\ \A y \in Entry : Waits(y) /\ y.id # x.id => Waits(y)'
    BY <2>1, <2>2, <2>3, RowMarked
  <2>5. QED
    BY <2>1, <2>4, HeldAfterMark
<1>12. CASE MarkProcessFailed
  <2> DEFINE x == valid[pos + 1]
  <2>1. phase = "fail" /\ inbox' = Updated(x.id, Failed(inbox[x.id])) /\ UNCHANGED nextRow /\ Advance
        /\ givenUp \subseteq givenUp'
    BY <1>12 DEF MarkProcessFailed
  <2>2. x \in Entry /\ Waits(x)
    BY <1>10, <2>1
  <2>3. x.id \in DOMAIN inbox => WithinBudget(Failed(inbox[x.id]))
    <3> SUFFICES ASSUME x.id \in DOMAIN inbox PROVE WithinBudget(Failed(inbox[x.id]))
      OBVIOUS
    <3> DEFINE r == inbox[x.id]
               n == r.attempts + 1
    <3>1. r \in Row /\ r.status \in {"pending", "process_failed"} /\ WithinBudget(r)
      BY <1>0, <2>2, BudgetOfRows DEF Waits, TypeInv, TypeOK
    <3>2. r.attempts \in Nat /\ MaxAttempts \in Nat \ {0} /\ n \in Nat /\ n > 0 /\ n <= MaxAttempts
      BY <3>1, BoundsAssumption DEF Row, WithinBudget
    <3>3. /\ Failed(r).attempts = n
          /\ Failed(r).status = IF n >= MaxAttempts THEN "discarded" ELSE "process_failed"
      BY <3>1 DEF Failed, Row
    <3>4. QED
      BY <3>2, <3>3 DEF WithinBudget
  <2>4. AttemptBudget' /\ Onward /\ \A y \in Entry : Waits(y) /\ y.id # x.id => Waits(y)'
    BY <2>1, <2>2, <2>3, RowMarked
  <2>5. QED
    BY <2>1, <2>4, HeldAfterMark
<1>13. CASE MarkProcessFailedFails
  BY <1>0, <1>13, RowsRest, HeldAfterMark DEF MarkProcessFailedFails
<1>14. CASE CleanProcessed
  <2> DEFINE gone == {i \in DOMAIN inbox : inbox[i].status = "processed" /\ inbox[i].at < DayStart}
  <2>1. inbox' = Without(gone) /\ UNCHANGED <<nextRow, phase, todo, valid, pos, givenUp>>
    BY <1>14 DEF CleanProcessed
  <2>2. \A i \in gone : inbox[i].status # "pending" /\ GivesUp(inbox[i])
    BY DEF GivesUp
  <2> HIDE DEF gone
  <2>3. QED
    BY <2>1, <2>2, RowsDeleted, HeldStill DEF Unmarked
<1>15. CASE CleanFailed
  <2> DEFINE gone == {i \in DOMAIN inbox : Stale(inbox[i])}
  <2>1. inbox' = Without(gone) /\ UNCHANGED <<nextRow, phase, todo, valid, pos>>
        /\ givenUp' = givenUp \cup {inbox[i].msg : i \in gone}
    BY <1>15 DEF CleanFailed
  <2>2. \A i \in gone : inbox[i].status # "pending" /\ GivesUp(inbox[i])
    BY <2>1 DEF Stale, GivesUp
  <2> HIDE DEF gone
  <2>3. QED
    BY <2>1, <2>2, RowsDeleted, HeldStill DEF Unmarked
<1>16. CASE MarkDecodeFails \/ MarkProcessedFails \/ Crash
  BY <1>2, <1>16 DEF MarkDecodeFails, MarkProcessedFails, Crash
<1>17. CASE \/ \E m \in Message : Publish(m)
            \/ Pop \/ PopFails \/ InsertPulledFails \/ CleanFails \/ Tick
  BY <1>1, <1>17 DEF Publish, Pop, PopFails, InsertPulledFails, CleanFails, Tick
<1>18. CASE UNCHANGED vars
  BY <1>1, <1>18 DEF vars
<1>19. QED
  BY <1>3, <1>4, <1>5, <1>6, <1>7, <1>8, <1>9, <1>11, <1>12, <1>13, <1>14, <1>15, <1>16,
     <1>17, <1>18
  DEF Next, PullStep, WorkStep, CleanStep

LEMMA RowInvHolds == Spec => []RowInv
<1>1. Init => RowInv
  <2>1. Init => TypeInv
    BY InitTyped
  <2>2. QED
    BY <2>1 DEF Init, RowInv, AttemptBudget, HeldOnce, HeldOpen, Unmarked
<1>2. RowInv /\ [Next]_vars => RowInv'
  BY RowStep
<1>3. QED
  BY <1>1, <1>2, PTL DEF Spec

(***************************************************************************)
(* A row is given up exactly at its MaxAttempts-th failure: an attempt     *)
(* holds each row once and only open ones, so no failure is counted twice  *)
(* and none on a row that is settled, whatever runs between two marks.     *)
(***************************************************************************)
THEOREM BudgetIsKept == Spec => []AttemptBudget
<1>1. RowInv => AttemptBudget
  BY DEF RowInv
<1>2. QED
  BY RowInvHolds, <1>1, PTL

(***************************************************************************)
(* A settled row is never reopened by an attempt that listed it when it    *)
(* was open, and the cleanup never deletes a pending row.                  *)
(***************************************************************************)
THEOREM RowsMoveOnward == Spec => RowLifecycle
<1>1. RowInv /\ [Next]_vars
        => [\A i \in DOMAIN inbox :
              /\ inbox[i].status = "pending" => i \in DOMAIN inbox'
              /\ (inbox[i].status \in {"processed", "decode_failed", "discarded"}
                    /\ i \in DOMAIN inbox') => inbox'[i] = inbox[i]]_vars
  BY RowStep DEF Onward
<1>2. QED
  BY RowInvHolds, <1>1, PTL DEF Spec, RowLifecycle

-----------------------------------------------------------------------------
(* What a processed row refers to. *)

(***************************************************************************)
(* CPA does not give one request id to different requests.  Without it the *)
(* second request would be taken for a repetition of the first.            *)
(***************************************************************************)
OneBodyPerId ==
  \A m, n \in Message : Keyed(m) /\ RequestId[m] = RequestId[n] => Body[m] = Body[n]

(* An event key tells the body: a request id by its request, a canonical key by itself. *)
KeyMeans(key, body) ==
  \/ \E m \in Message : Keyed(m) /\ RequestId[m] = key /\ Body[m] = body
  \/ key \in Content /\ key.body = body

KeysMean ==
  \A i \in 1..Len(keys) :
    /\ KeyMeans(keys[i], Body[valid[i].msg])
    /\ Keyed(valid[i].msg) => keys[i] = RequestId[valid[i].msg]

EventsMean == \A e \in ledger : KeyMeans(e.key, e.content.body)

ReferInv == CountInv /\ RowInv /\ KeysMean /\ EventsMean /\ ProcessedIsCounted

LEMMA OneMeaning ==
  ASSUME OneBodyPerId, NEW key, NEW b, NEW c, KeyMeans(key, b), KeyMeans(key, c)
  PROVE  b = c
<1>1. CASE key \in Content
  <2>1. \A m \in Message : Keyed(m) => RequestId[m] # key
    BY <1>1, MessagesAssumption DEF Ids, Keyed
  <2>2. QED
    BY <2>1 DEF KeyMeans
<1>2. CASE key \notin Content
  BY <1>2 DEF KeyMeans, OneBodyPerId
<1>3. QED
  BY <1>1, <1>2

LEMMA ContentBody ==
  ASSUME TypeInv, NEW m \in Message
  PROVE  ContentOf(m) \in Content /\ ContentOf(m).body = Body[m]
BY ContentType DEF TypeInv, ContentOf

(* A key of the alignment is that of the row's own request. *)
LEMMA AlignKeepsMeaning == ReferInv /\ AlignRow => KeysMean'
<1> SUFFICES ASSUME ReferInv, AlignRow PROVE KeysMean'
  OBVIOUS
<1>0. PICK n \in Nat \ {0} : n = Len(keys) + 1
  BY DEF ReferInv, RowInv, TypeInv, TypeOK
<1> DEFINE m == valid[n].msg
           twins == {j \in 1..Len(keys) : Same(j, n)}
<1>1. /\ phase = "align" /\ keys \in Seq(Key) /\ Len(keys) \in Nat /\ n \in 1..Len(valid)
      /\ valid' = valid
  <2>1. /\ phase = "align" /\ valid' = valid
    BY DEF AlignRow
  <2>2. keys \in Seq(Key) /\ valid \in Seq(Entry) /\ Len(keys) < Len(valid)
    BY <2>1 DEF ReferInv, RowInv, TypeInv, TypeOK, WorkInv
  <2>3. QED
    BY <1>0, <2>1, <2>2
<1>2. m \in Message
  <2>1. valid[n] \in Entry
    BY <1>1, HeldEntries DEF ReferInv, RowInv
  <2>2. QED
    BY <2>1 DEF Entry
<1>3. ContentOf(m) \in Content /\ ContentOf(m).body = Body[m]
  BY <1>2, ContentBody DEF ReferInv, RowInv
<1>4. \E k : keys' = Append(keys, k) /\ KeyMeans(k, Body[m]) /\ (Keyed(m) => k = RequestId[m])
  <2>1. CASE Keyed(m)
    <3>1. keys' = Append(keys, RequestId[m])
      BY <1>0, <2>1 DEF AlignRow, AlignKey, IncomingKey, Keyed
    <3>2. QED
      BY <1>2, <2>1, <3>1 DEF KeyMeans
  <2>2. CASE ~Keyed(m)
    <3>1. \/ \E j \in twins : keys' = Append(keys, keys[j])
          \/ \E e \in ledger : e.content = ContentOf(m) /\ keys' = Append(keys, e.key)
          \/ keys' = Append(keys, ContentOf(m))
      BY <1>0, <2>2 DEF AlignRow, AlignKey, Oldest, IncomingKey, Keyed
    <3>2. ASSUME NEW j \in twins, keys' = Append(keys, keys[j])
          PROVE  KeyMeans(keys[j], Body[m])
      <4>1. j \in 1..Len(keys) /\ Body[valid[j].msg] = Body[m]
        BY DEF Same, ContentOf
      <4>2. QED
        BY <4>1 DEF ReferInv, KeysMean
    <3>3. ASSUME NEW e \in ledger, e.content = ContentOf(m) PROVE KeyMeans(e.key, Body[m])
      BY <1>3, <3>3 DEF ReferInv, EventsMean
    <3>4. KeyMeans(ContentOf(m), Body[m])
      BY <1>3 DEF KeyMeans
    <3>5. QED
      BY <2>2, <3>1, <3>2, <3>3, <3>4
  <2>3. QED
    BY <2>1, <2>2
<1>5. PICK k : keys' = Append(keys, k) /\ KeyMeans(k, Body[m]) /\ (Keyed(m) => k = RequestId[m])
  BY <1>4
<1>6. Len(keys') = n /\ keys'[n] = k /\ \A i \in 1..Len(keys) : keys'[i] = keys[i]
  BY <1>0, <1>1, <1>5
<1>7. ASSUME NEW i \in 1..Len(keys')
      PROVE  /\ KeyMeans(keys'[i], Body[valid[i].msg])
             /\ Keyed(valid[i].msg) => keys'[i] = RequestId[valid[i].msg]
  <2>1. CASE i \in 1..Len(keys)
    BY <1>6, <2>1 DEF ReferInv, KeysMean
  <2>2. CASE i = n
    BY <1>5, <1>6, <2>2
  <2>3. QED
    BY <1>0, <1>1, <1>6, <2>1, <2>2
<1>8. QED
  BY <1>1, <1>7 DEF KeysMean, KeyMeans, Keyed

LEMMA InsertKeepsMeaning == ReferInv /\ InsertEvents => EventsMean'
<1> SUFFICES ASSUME ReferInv, InsertEvents PROVE EventsMean'
  OBVIOUS
<1>1. phase = "insert" /\ ledger' = ledger \cup NewEvents /\ TypeInv
  BY DEF InsertEvents, ReferInv, RowInv
<1>2. ASSUME NEW e \in NewEvents PROVE KeyMeans(e.key, e.content.body)
  <2>1. PICK i \in Fresh : e.key = keys[i] /\ e.content = ContentOf(valid[i].msg)
    BY NewEventIs
  <2>2. i \in 1..Len(keys) /\ valid[i].msg \in Message
    BY <1>1, SliceType DEF Fresh, TypeInv, WorkInv
  <2>3. e.content.body = Body[valid[i].msg]
    BY <1>1, <2>1, <2>2, ContentBody
  <2>4. QED
    BY <2>1, <2>2, <2>3 DEF ReferInv, KeysMean
<1>3. \A e \in ledger' : KeyMeans(e.key, e.content.body)
  BY <1>1, <1>2 DEF ReferInv, EventsMean
<1>4. QED
  BY <1>3 DEF EventsMean, KeyMeans, Keyed

(* Rows that were processed before refer to what they referred to. *)
LEMMA ReferencesKept ==
  ASSUME ProcessedIsCounted, ledger \subseteq ledger',
         \A i \in DOMAIN inbox' : inbox'[i].status = "processed" =>
           i \in DOMAIN inbox /\ inbox'[i] = inbox[i]
  PROVE  ProcessedIsCounted'
<1> SUFFICES ASSUME NEW i \in DOMAIN inbox', inbox'[i].status = "processed"
             PROVE  \E e \in ledger' :
                      /\ e.key = inbox'[i].key
                      /\ e.content.body = Body[inbox'[i].msg]
                      /\ Keyed(inbox'[i].msg) => e.key = RequestId[inbox'[i].msg]
  BY DEF ProcessedIsCounted, Keyed
<1>1. i \in DOMAIN inbox /\ inbox'[i] = inbox[i] /\ inbox[i].status = "processed"
  OBVIOUS
<1>2. PICK e \in ledger : /\ e.key = inbox[i].key
                          /\ e.content.body = Body[inbox[i].msg]
                          /\ Keyed(inbox[i].msg) => e.key = RequestId[inbox[i].msg]
  BY <1>1 DEF ProcessedIsCounted
<1>3. QED
  BY <1>1, <1>2

(* The row that is marked refers to its key's event, which is its request's. *)
LEMMA MarkRefers ==
  ASSUME OneBodyPerId, ReferInv, MarkProcessed
  PROVE  ProcessedIsCounted'
<1> DEFINE n == pos + 1
           x == valid[n]
           row == [inbox[x.id] EXCEPT !.status = "processed", !.key = keys[n], !.at = fetchedAt]
<1>1. /\ phase = "mark" /\ inbox' = Updated(x.id, row) /\ ledger' = ledger
  BY DEF MarkProcessed, eventVars
<1>2. /\ DOMAIN inbox' = DOMAIN inbox
      /\ \A i \in DOMAIN inbox : inbox'[i] = IF i = x.id THEN row ELSE inbox[i]
  BY <1>1 DEF Updated
<1>3. n \in 1..Len(keys) /\ n \in Unmarked
  <2>1. WorkInv /\ pos \in Nat /\ Len(valid) \in Nat
    BY HeldEntries DEF ReferInv, RowInv, TypeInv
  <2>2. pos < Len(valid) /\ Len(keys) = Len(valid)
    BY <1>1, <2>1 DEF WorkInv
  <2>3. QED
    BY <1>1, <2>1, <2>2 DEF Unmarked
<1>4. PICK e \in ledger : e.key = keys[n]
  BY <1>1, <1>3 DEF ReferInv, CountInv, BatchInv, InLedger
<1>5. /\ KeyMeans(e.key, e.content.body) /\ KeyMeans(keys[n], Body[x.msg])
      /\ Keyed(x.msg) => keys[n] = RequestId[x.msg]
  BY <1>3 DEF ReferInv, EventsMean, KeysMean
<1>6. e.content.body = Body[x.msg]
  BY <1>4, <1>5, OneMeaning
<1>7. x.id \in DOMAIN inbox => inbox[x.id] \in Row /\ inbox[x.id].msg = x.msg
  BY <1>3 DEF ReferInv, RowInv, HeldOpen, Waits, TypeInv, TypeOK
<1>8. x.id \in DOMAIN inbox => row.key = keys[n] /\ row.msg = x.msg
  BY <1>7 DEF Row
<1> SUFFICES ASSUME NEW i \in DOMAIN inbox', inbox'[i].status = "processed"
             PROVE  \E f \in ledger' :
                      /\ f.key = inbox'[i].key
                      /\ f.content.body = Body[inbox'[i].msg]
                      /\ Keyed(inbox'[i].msg) => f.key = RequestId[inbox'[i].msg]
  BY DEF ProcessedIsCounted, Keyed
<1> HIDE DEF row
<1>9. CASE i = x.id
  <2>1. inbox'[i].key = keys[n] /\ inbox'[i].msg = x.msg
    BY <1>2, <1>8, <1>9
  <2>2. QED
    BY <1>1, <1>4, <1>5, <1>6, <2>1
<1>10. CASE i # x.id
  <2>1. i \in DOMAIN inbox /\ inbox'[i] = inbox[i]
    BY <1>2, <1>10
  <2>2. \E f \in ledger : /\ f.key = inbox[i].key
                          /\ f.content.body = Body[inbox[i].msg]
                          /\ Keyed(inbox[i].msg) => f.key = RequestId[inbox[i].msg]
    BY <2>1 DEF ReferInv, ProcessedIsCounted
  <2>3. QED
    BY <1>1, <2>1, <2>2
<1>11. QED
  BY <1>9, <1>10

LEMMA ReferStep == OneBodyPerId /\ ReferInv /\ [Next]_vars => ReferInv'
<1> SUFFICES ASSUME OneBodyPerId, ReferInv, [Next]_vars PROVE ReferInv'
  OBVIOUS
<1> USE DEF queueVars, eventVars, workVars, clockVars
<1>0. /\ TypeInv /\ KeysMean /\ EventsMean /\ ProcessedIsCounted /\ CountInv' /\ RowInv'
  BY CountStep, RowStep DEF ReferInv, RowInv
<1>1. ASSUME UNCHANGED <<valid, keys>> PROVE KeysMean'
  BY <1>0, <1>1 DEF KeysMean, KeyMeans, Keyed
<1>2. ASSUME UNCHANGED ledger PROVE EventsMean'
  BY <1>0, <1>2 DEF EventsMean, KeyMeans, Keyed
<1>3. ASSUME keys' = <<>> PROVE KeysMean'
  BY <1>3 DEF KeysMean
<1>4. ASSUME UNCHANGED inbox, ledger \subseteq ledger' PROVE ProcessedIsCounted'
  BY <1>0, <1>4, ReferencesKept
<1>5. ASSUME NEW id, NEW row, inbox' = Updated(id, row), UNCHANGED ledger,
             id \in DOMAIN inbox => row.status # "processed"
      PROVE  ProcessedIsCounted'
  <2>1. \A i \in DOMAIN inbox' : inbox'[i].status = "processed" =>
          i \in DOMAIN inbox /\ inbox'[i] = inbox[i]
    BY <1>5 DEF Updated
  <2>2. QED
    BY <1>0, <1>5, <2>1, ReferencesKept
<1>6. ASSUME NEW gone, inbox' = Without(gone), UNCHANGED ledger PROVE ProcessedIsCounted'
  <2>1. \A i \in DOMAIN inbox' : i \in DOMAIN inbox /\ inbox'[i] = inbox[i]
    BY <1>6 DEF Without
  <2>2. QED
    BY <1>0, <1>6, <2>1, ReferencesKept
<1>7. \A i \in DOMAIN inbox : inbox[i] \in Row
  BY <1>0 DEF TypeInv, TypeOK
<1>8. CASE UNCHANGED <<valid, keys, ledger, inbox>>
  BY <1>0, <1>1, <1>2, <1>4, <1>8 DEF ReferInv
<1>9. CASE Return /\ UNCHANGED <<ledger, inbox>>
  BY <1>0, <1>2, <1>3, <1>4, <1>9 DEF ReferInv, Return
<1>10. CASE InsertPulled
  <2>1. UNCHANGED <<valid, keys, ledger>>
    BY <1>10 DEF InsertPulled
  <2>2. \A i \in DOMAIN inbox' : inbox'[i].status = "processed" =>
          i \in DOMAIN inbox /\ inbox'[i] = inbox[i]
    <3>1. nextRow \in Nat /\ Len(popped) \in Nat
      BY <1>0 DEF TypeInv, TypeOK
    <3>2. \A i \in DOMAIN inbox' :
            \/ i \in DOMAIN inbox /\ inbox'[i] = inbox[i]
            \/ inbox'[i] = NewRow(popped[i - nextRow + 1])
      BY <1>10, <3>1 DEF InsertPulled
    <3>3. QED
      BY <3>2 DEF NewRow
  <2>3. ProcessedIsCounted'
    BY <1>0, <2>1, <2>2, ReferencesKept
  <2>4. QED
    BY <1>0, <1>1, <1>2, <2>1, <2>3 DEF ReferInv
<1>11. CASE DecodeRow \/ MarkDecodeFailed
  <2>1. keys = <<>> /\ keys' = <<>> /\ UNCHANGED ledger
    BY <1>0, <1>11 DEF DecodeRow, MarkDecodeFailed, AfterRow, Return, TypeInv, WorkInv
  <2>2. ProcessedIsCounted'
    <3>1. CASE DecodeRow
      BY <1>4, <3>1 DEF DecodeRow
    <3>2. CASE MarkDecodeFailed
      <4> DEFINE id == Head(todo).id
                 row == [inbox[id] EXCEPT !.status = "decode_failed", !.attempts = @ + 1, !.at = now]
      <4>1. inbox' = Updated(id, row)
        BY <3>2 DEF MarkDecodeFailed
      <4>2. id \in DOMAIN inbox => row.status # "processed"
        BY <1>7 DEF Row
      <4> HIDE DEF row
      <4>3. QED
        BY <1>5, <2>1, <4>1, <4>2
    <3>3. QED
      BY <1>11, <3>1, <3>2
  <2>3. QED
    BY <1>0, <1>2, <1>3, <2>1, <2>2 DEF ReferInv
<1>12. CASE AlignRow
  BY <1>0, <1>2, <1>4, <1>12, AlignKeepsMeaning DEF AlignRow, ReferInv
<1>13. CASE InsertEvents
  <2>1. UNCHANGED <<valid, keys, inbox>> /\ ledger \subseteq ledger'
    BY <1>13 DEF InsertEvents
  <2>2. QED
    BY <1>0, <1>1, <1>4, <1>13, <2>1, InsertKeepsMeaning DEF ReferInv
<1>14. CASE MarkProcessed \/ MarkProcessFailed \/ MarkProcessFailedFails
  <2>1. UNCHANGED ledger /\ Advance
    BY <1>14 DEF MarkProcessed, MarkProcessFailed, MarkProcessFailedFails
  <2>2. KeysMean'
    BY <1>1, <1>3, <2>1 DEF Advance, Return
  <2>3. ProcessedIsCounted'
    <3>1. CASE MarkProcessed
      BY <3>1, MarkRefers
    <3>2. CASE MarkProcessFailed
      <4> DEFINE id == valid[pos + 1].id
      <4>1. inbox' = Updated(id, Failed(inbox[id]))
        BY <3>2 DEF MarkProcessFailed
      <4>2. id \in DOMAIN inbox => Failed(inbox[id]).status # "processed"
        BY <1>7 DEF Row, Failed
      <4>3. QED
        BY <1>5, <2>1, <4>1, <4>2
    <3>3. CASE MarkProcessFailedFails
      BY <1>4, <2>1, <3>3 DEF MarkProcessFailedFails
    <3>4. QED
      BY <1>14, <3>1, <3>2, <3>3
  <2>4. QED
    BY <1>0, <1>2, <2>1, <2>2, <2>3 DEF ReferInv
<1>15. CASE MarkDecodeFails \/ MarkProcessedFails \/ Crash
  BY <1>9, <1>15 DEF MarkDecodeFails, MarkProcessedFails, Crash
<1>16. CASE CleanProcessed
  <2>1. UNCHANGED <<valid, keys, ledger>>
    BY <1>16 DEF CleanProcessed
  <2>2. ProcessedIsCounted'
    BY <1>6, <1>16, <2>1 DEF CleanProcessed
  <2>3. QED
    BY <1>0, <1>1, <1>2, <2>1, <2>2 DEF ReferInv
<1>17. CASE CleanFailed
  <2>1. UNCHANGED <<valid, keys, ledger>>
    BY <1>17 DEF CleanFailed
  <2>2. ProcessedIsCounted'
    BY <1>6, <1>17, <2>1 DEF CleanFailed
  <2>3. QED
    BY <1>0, <1>1, <1>2, <2>1, <2>2 DEF ReferInv
<1>18. CASE \/ \E m \in Message : Publish(m)
            \/ Pop \/ PopFails \/ InsertPulledFails \/ CleanFails \/ Tick \/ ListRows \/ PersistFails
  BY <1>8, <1>18
  DEF Publish, Pop, PopFails, InsertPulledFails, CleanFails, Tick, ListRows, PersistFails
<1>19. CASE UNCHANGED vars
  BY <1>8, <1>19 DEF vars
<1>20. QED
  BY <1>10, <1>11, <1>12, <1>13, <1>14, <1>15, <1>16, <1>17, <1>18, <1>19
  DEF Next, PullStep, WorkStep, CleanStep

(***************************************************************************)
(* The event a processed row refers to exists and is that of its request,  *)
(* whether the row's own attempt inserted it, an earlier one, or another   *)
(* row of the same content; provided CPA gives one request id to one       *)
(* request.                                                                *)
(***************************************************************************)
THEOREM ProcessedRowsAreCounted ==
  ASSUME OneBodyPerId
  PROVE  Spec => []ProcessedIsCounted
<1>1. Init => ReferInv
  <2>1. Init => CountInv /\ RowInv
    BY InitTyped DEF Init, CountInv, BatchInv, LedgerInv, RowInv, AttemptBudget, HeldOnce, HeldOpen,
       Unmarked
  <2>2. QED
    BY <2>1 DEF Init, ReferInv, KeysMean, EventsMean, ProcessedIsCounted
<1>2. ReferInv /\ [Next]_vars => ReferInv'
  BY ReferStep
<1>3. ReferInv => ProcessedIsCounted
  BY DEF ReferInv
<1>4. QED
  BY <1>1, <1>2, <1>3, PTL DEF Spec

-----------------------------------------------------------------------------
(* The fate of a message: the inbox implements UsageLedger. *)

Live(m) == Open(m) \/ InFlight(m)
Held(m) == \E x \in Elements(todo) \cup Elements(valid) : x.msg = m
Kept(m) == \E i \in DOMAIN inbox : inbox[i].msg = m
Stored(m) == Kept(m) \/ Held(m) \/ m \in credited \/ m \in givenUp
Distinct(s) == \A i, j \in 1..Len(s) : s[i] = s[j] => i = j

(* A message is in one place: unsent, queued, popped, lost or stored. *)
UpstreamInv ==
  /\ Distinct(queue)
  /\ Elements(queue) \subseteq sent /\ Elements(popped) \subseteq sent /\ lost \subseteq sent
  /\ \A m \in Elements(queue) : m \notin Elements(popped) /\ m \notin lost
  /\ \A m \in Elements(popped) : m \notin lost

StoredInv ==
  \A m \in Message : Stored(m) =>
    m \in sent /\ m \notin Elements(queue) /\ m \notin Elements(popped) /\ m \notin lost

(* No message is forgotten. *)
Complete ==
  \A m \in sent :
    \/ m \in Elements(queue) \/ m \in Elements(popped) \/ m \in lost
    \/ m \in credited \/ m \in givenUp \/ Open(m)

(* Before a row is marked processed its message is counted. *)
CreditInv ==
  /\ phase = "insert" => \A i \in 1..pos : valid[i].msg \in credited
  /\ phase = "mark" => \A i \in 1..Len(valid) : valid[i].msg \in credited

FateInv == RowInv /\ UpstreamInv /\ StoredInv /\ Complete /\ CreditInv

-----------------------------------------------------------------------------
(* The elements of a sequence. *)

LEMMA ElementsAre ==
  ASSUME NEW S, NEW s \in Seq(S)
  PROVE  Elements(s) = {s[i] : i \in 1..Len(s)}
BY DEF Elements

LEMMA ElementsAppend ==
  ASSUME NEW S, NEW s \in Seq(S), NEW x \in S
  PROVE  Elements(Append(s, x)) = Elements(s) \cup {x}
<1>1. /\ Append(s, x) \in Seq(S) /\ Len(Append(s, x)) = Len(s) + 1 /\ Len(s) \in Nat
      /\ Append(s, x)[Len(s) + 1] = x /\ \A i \in 1..Len(s) : Append(s, x)[i] = s[i]
  OBVIOUS
<1> DEFINE t == Append(s, x)
           n == Len(s)
<1>2. Elements(t) = {t[i] : i \in 1..(n + 1)} /\ Elements(s) = {s[i] : i \in 1..n}
  BY <1>1, ElementsAre
<1>3. \A i \in 1..(n + 1) : i \in 1..n \/ i = n + 1
  BY <1>1
<1>4. n + 1 \in 1..(n + 1) /\ \A i \in 1..n : i \in 1..(n + 1)
  BY <1>1
<1> HIDE DEF t, n
<1>5. ASSUME NEW y \in Elements(t) PROVE y \in Elements(s) \cup {x}
  <2>1. PICK i \in 1..(n + 1) : y = t[i]
    BY <1>2
  <2>2. QED
    BY <1>1, <1>2, <1>3, <2>1 DEF t, n
<1>6. ASSUME NEW y \in Elements(s) \cup {x} PROVE y \in Elements(t)
  BY <1>1, <1>2, <1>4 DEF t, n
<1>7. QED
  BY <1>5, <1>6 DEF t

LEMMA PopSplits ==
  ASSUME queue \in Seq(Message), PopSize \in 0..Len(queue), Distinct(queue)
  PROVE  /\ Elements(queue) = Elements(SubSeq(queue, 1, PopSize))
                               \cup Elements(SubSeq(queue, PopSize + 1, Len(queue)))
         /\ Distinct(SubSeq(queue, PopSize + 1, Len(queue)))
         /\ Elements(SubSeq(queue, 1, PopSize))
              \cap Elements(SubSeq(queue, PopSize + 1, Len(queue))) = {}
<1> DEFINE front == SubSeq(queue, 1, PopSize)
           rest == SubSeq(queue, PopSize + 1, Len(queue))
           s == queue
           k == PopSize
           n == Len(s)
<1>1. /\ n \in Nat /\ k \in Nat /\ k <= n /\ front \in Seq(Message) /\ rest \in Seq(Message)
      /\ Len(front) = k /\ Len(rest) = n - k
      /\ \A i \in 1..k : front[i] = s[i]
      /\ \A i \in 1..(n - k) : rest[i] = s[k + i]
  OBVIOUS
<1> HIDE DEF front, rest
<1>2. /\ Elements(s) = {s[i] : i \in 1..n} /\ Elements(front) = {front[i] : i \in 1..k}
      /\ Elements(rest) = {rest[i] : i \in 1..(n - k)}
  <2>1. Elements(s) = {s[i] : i \in 1..n}
    BY ElementsAre
  <2>2. Elements(front) = {front[i] : i \in 1..Len(front)}
    <3>1. DOMAIN front = 1..Len(front)
      BY <1>1
    <3>2. QED
      BY <3>1 DEF Elements
  <2>3. Elements(rest) = {rest[i] : i \in 1..Len(rest)}
    <3>1. DOMAIN rest = 1..Len(rest)
      BY <1>1
    <3>2. QED
      BY <3>1 DEF Elements
  <2>4. Len(front) = k /\ Len(rest) = n - k
    BY <1>1
  <2>5. QED
    BY <2>1, <2>2, <2>3, <2>4
<1>3. ASSUME NEW y \in Elements(s) PROVE y \in Elements(front) \cup Elements(rest)
  <2>1. PICK i \in 1..n : y = s[i]
    BY <1>2
  <2>2. CASE i \in 1..k
    BY <1>1, <1>2, <2>1, <2>2
  <2>3. CASE i \notin 1..k
    <3>1. i - k \in 1..(n - k) /\ k + (i - k) = i
      BY <1>1, <2>3
    <3>2. rest[i - k] = y
      BY <1>1, <2>1, <3>1
    <3>3. QED
      BY <1>2, <3>1, <3>2
  <2>4. QED
    BY <2>2, <2>3
<1>4. ASSUME NEW y \in Elements(front) PROVE \E i \in 1..n : i \in 1..k /\ s[i] = y
  <2>1. PICK i \in 1..k : y = front[i]
    BY <1>2
  <2>2. i \in 1..n /\ s[i] = y
    BY <1>1, <2>1
  <2>3. QED
    BY <2>2
<1>5. ASSUME NEW y \in Elements(rest) PROVE \E i \in 1..n : i \notin 1..k /\ s[i] = y
  <2>1. PICK i \in 1..(n - k) : y = rest[i]
    BY <1>2
  <2>2. k + i \in 1..n /\ k + i \notin 1..k /\ s[k + i] = y
    BY <1>1, <2>1
  <2>3. QED
    BY <2>2
<1>6. Elements(s) = Elements(front) \cup Elements(rest)
  BY <1>2, <1>3, <1>4, <1>5
<1>7. Distinct(rest)
  <2> SUFFICES ASSUME NEW i \in 1..(n - k), NEW j \in 1..(n - k), rest[i] = rest[j] PROVE i = j
    BY <1>1 DEF Distinct
  <2>1. k + i \in 1..n /\ k + j \in 1..n /\ s[k + i] = s[k + j]
    BY <1>1
  <2>2. k + i = k + j
    BY <2>1 DEF Distinct
  <2>3. QED
    BY <1>1, <2>2
<1>8. Elements(front) \cap Elements(rest) = {}
  BY <1>4, <1>5 DEF Distinct
<1>9. QED
  BY <1>6, <1>7, <1>8 DEF front, rest

LEMMA ElementsTail ==
  ASSUME NEW S, NEW s \in Seq(S), s # <<>>
  PROVE  Head(s) \in Elements(s) /\ Elements(Tail(s)) \subseteq Elements(s)
<1>1. /\ Len(s) \in Nat \ {0} /\ Tail(s) \in Seq(S) /\ Len(Tail(s)) = Len(s) - 1 /\ Head(s) = s[1]
      /\ \A i \in 1..(Len(s) - 1) : Tail(s)[i] = s[i + 1]
  OBVIOUS
<1>2. /\ Elements(s) = {s[i] : i \in 1..Len(s)}
      /\ Elements(Tail(s)) = {Tail(s)[i] : i \in 1..(Len(s) - 1)}
  <2>1. DOMAIN s = 1..Len(s) /\ DOMAIN Tail(s) = 1..Len(Tail(s))
    BY <1>1
  <2>2. DOMAIN Tail(s) = 1..(Len(s) - 1)
    BY <1>1, <2>1
  <2>3. Elements(s) = {s[i] : i \in 1..Len(s)}
    BY <2>1 DEF Elements
  <2>4. Elements(Tail(s)) = {Tail(s)[i] : i \in 1..(Len(s) - 1)}
    BY <2>2 DEF Elements
  <2>5. QED
    BY <2>3, <2>4
<1>3. 1 \in 1..Len(s) /\ \A i \in 1..(Len(s) - 1) : i + 1 \in 1..Len(s)
  BY <1>1
<1>4. QED
  BY <1>1, <1>2, <1>3

LEMMA ElementsEmpty == Elements(<<>>) = {}
<1>1. DOMAIN <<>> = {}
  OBVIOUS
<1>2. \A y : y \notin Elements(<<>>)
  BY <1>1 DEF Elements
<1>3. QED
  BY <1>2

-----------------------------------------------------------------------------
(* How the fates follow from where a message is. *)

Places ==
  \A m \in Message :
    /\ m \notin sent => FateOf(m) = "unsent"
    /\ m \in Elements(queue) => FateOf(m) = "upstream"
    /\ m \in Elements(popped) => FateOf(m) = "taken"
    /\ m \in lost => FateOf(m) = "lost"
    /\ m \in credited => FateOf(m) = "counted"
    /\ m \notin credited /\ Live(m) => FateOf(m) = "stored"
    /\ m \in givenUp /\ m \notin credited /\ ~Live(m) => FateOf(m) = "dropped"

LEMMA LiveIsStored == \A m : Live(m) => Stored(m)
BY DEF Live, Open, Processable, InFlight, Stored, Kept, Held

LEMMA FatePlaces == UpstreamInv /\ StoredInv => Places
<1> SUFFICES ASSUME UpstreamInv, StoredInv, NEW m \in Message
             PROVE  /\ m \notin sent => FateOf(m) = "unsent"
                    /\ m \in Elements(queue) => FateOf(m) = "upstream"
                    /\ m \in Elements(popped) => FateOf(m) = "taken"
                    /\ m \in lost => FateOf(m) = "lost"
                    /\ m \in credited => FateOf(m) = "counted"
                    /\ m \notin credited /\ Live(m) => FateOf(m) = "stored"
                    /\ m \in givenUp /\ m \notin credited /\ ~Live(m) => FateOf(m) = "dropped"
  BY DEF Places
<1>1. /\ m \in Elements(queue) => m \in sent /\ m \notin Elements(popped) /\ m \notin lost
      /\ m \in Elements(popped) => m \in sent /\ m \notin lost
      /\ m \in lost => m \in sent
  BY DEF UpstreamInv
<1>2. Live(m) \/ m \in credited \/ m \in givenUp =>
        m \in sent /\ m \notin Elements(queue) /\ m \notin Elements(popped) /\ m \notin lost
  BY LiveIsStored DEF StoredInv, Stored
<1>3. Live(m) <=> Open(m) \/ InFlight(m)
  BY DEF Live
<1> HIDE DEF Live
<1>4. QED
  BY <1>1, <1>2, <1>3 DEF FateOf

(***************************************************************************)
(* What a step does with the messages: they go from unsent to the queue,   *)
(* from the queue to a pull, from either to the lost ones, from a pull to  *)
(* the inbox; and only one that is live there becomes counted.             *)
(***************************************************************************)
Flow ==
  /\ sent \subseteq sent' /\ lost \subseteq lost' /\ credited \subseteq credited'
  /\ sent' \ sent \subseteq Elements(queue')
  /\ Elements(queue') \subseteq Elements(queue) \cup (sent' \ sent)
  /\ Elements(popped') \subseteq Elements(popped) \cup Elements(queue)
  /\ lost' \subseteq lost \cup Elements(popped) \cup Elements(queue)
  /\ Elements(queue) \subseteq Elements(queue') \cup Elements(popped') \cup lost'
  /\ \A m \in Elements(popped) : m \in Elements(popped') \/ m \in lost' \/ Live(m)'
  /\ \A m \in Message : Live(m)' => Live(m) \/ m \in Elements(popped)
  /\ \A m \in credited' \ credited : Live(m)

LEMMA FateMoves ==
  ASSUME UpstreamInv, StoredInv, Complete, UpstreamInv', StoredInv', Complete', Flow,
         NEW m \in Message
  PROVE  /\ FateOf(m)' \in Ledger!Fate
         /\ FateOf(m)' = FateOf(m) \/ <<FateOf(m), FateOf(m)'>> \in Ledger!Moves
<1>1. Places
  BY FatePlaces
<1>2. Places'
  <2>1. (UpstreamInv /\ StoredInv => Places)'
    BY FatePlaces, PTL
  <2>2. QED
    BY <2>1
<1>3. Live(m) => Stored(m)
  BY LiveIsStored
<1>4. Live(m) => m \in sent /\ m \notin Elements(queue) /\ m \notin Elements(popped) /\ m \notin lost
  BY <1>3 DEF StoredInv
<1>5. m \in credited \/ m \in givenUp =>
        m \in sent /\ m \notin Elements(queue) /\ m \notin Elements(popped) /\ m \notin lost
  BY DEF StoredInv, Stored
<1>6. Elements(popped) \subseteq sent /\ lost \subseteq sent /\ Elements(queue) \subseteq sent
  BY DEF UpstreamInv
<1> DEFINE f == FateOf(m)
           g == FateOf(m)'
<1>7. CASE m \notin sent
  <2>1. f = "unsent"
    BY <1>1, <1>7 DEF Places
  <2>2. g = "unsent" \/ g = "upstream"
    BY <1>2, <1>7 DEF Places, Flow
  <2>3. QED
    BY <2>1, <2>2 DEF Ledger!Moves, Ledger!Fate
<1>8. CASE m \in Elements(queue)
  <2>1. f = "upstream"
    BY <1>1, <1>8 DEF Places
  <2>2. g \in {"upstream", "taken", "lost"}
    BY <1>2, <1>8 DEF Places, Flow
  <2>3. QED
    BY <2>1, <2>2 DEF Ledger!Moves, Ledger!Fate
<1>9. CASE m \in Elements(popped)
  <2>1. f = "taken"
    BY <1>1, <1>9 DEF Places
  <2>2. m \notin credited'
    BY <1>4, <1>5, <1>9 DEF Flow
  <2>3. g \in {"taken", "lost", "stored"}
    BY <1>2, <1>9, <2>2 DEF Places, Flow
  <2>4. QED
    BY <2>1, <2>3 DEF Ledger!Moves, Ledger!Fate
<1>10. CASE m \in lost
  <2>1. f = "lost" /\ g = "lost"
    BY <1>1, <1>2, <1>10 DEF Places, Flow
  <2>2. QED
    BY <2>1 DEF Ledger!Fate
<1>11. CASE /\ m \in sent /\ m \notin Elements(queue) /\ m \notin Elements(popped) /\ m \notin lost
  <2>1. /\ m \in sent' /\ m \notin Elements(queue') /\ m \notin Elements(popped') /\ m \notin lost'
    BY <1>11 DEF Flow
  <2>2. CASE m \in credited
    <3>1. f = "counted" /\ g = "counted"
      BY <1>1, <1>2, <2>2 DEF Places, Flow
    <3>2. QED
      BY <3>1 DEF Ledger!Fate
  <2>3. m \in credited' \/ m \in givenUp' \/ Live(m)'
    BY <2>1 DEF Complete, Live
  <2>4. CASE m \notin credited /\ Live(m)
    <3>1. f = "stored"
      BY <1>1, <2>4 DEF Places
    <3>2. g \in {"counted", "stored", "dropped"}
      BY <1>2, <2>3 DEF Places
    <3>3. QED
      BY <3>1, <3>2 DEF Ledger!Moves, Ledger!Fate
  <2>5. CASE m \notin credited /\ ~Live(m)
    <3>1. m \in givenUp
      BY <1>11, <2>5 DEF Complete, Live
    <3>2. m \notin credited' /\ ~Live(m)'
      BY <1>11, <2>5 DEF Flow
    <3>3. f = "dropped" /\ g = "dropped"
      BY <1>1, <1>2, <2>3, <2>5, <3>1, <3>2 DEF Places
    <3>4. QED
      BY <3>3 DEF Ledger!Fate
  <2>6. QED
    BY <2>2, <2>4, <2>5
<1>12. QED
  BY <1>7, <1>8, <1>9, <1>10, <1>11

-----------------------------------------------------------------------------
(* The steps that leave the queue and the pull alone. *)

RowLife ==
  /\ \A m \in Message : Open(m)' => Open(m)
  /\ \A m \in Message : Open(m) => Open(m)' \/ m \in credited' \/ m \in givenUp'
  /\ \A m \in Message : Kept(m)' => Kept(m)

HeldLife ==
  /\ \A m \in Message : Held(m)' => Held(m) \/ Kept(m)
  /\ \A m \in Message : InFlight(m)' => InFlight(m) \/ Open(m)

LEMMA InboxMoves ==
  ASSUME FateInv, TypeInv', UNCHANGED <<sent, queue, popped, lost>>, RowLife, HeldLife,
         credited \subseteq credited', givenUp \subseteq givenUp',
         \A m \in credited' \ credited : Live(m),
         \A m \in givenUp' \ givenUp : Stored(m)
  PROVE  UpstreamInv' /\ StoredInv' /\ Complete' /\ Flow
<1>1. UpstreamInv /\ StoredInv /\ Complete
  BY DEF FateInv
<1>2. UpstreamInv'
  BY <1>1 DEF UpstreamInv, Distinct
<1>3. ASSUME NEW m \in Message, Stored(m)' PROVE Stored(m)
  <2>1. Kept(m) => Stored(m)
    BY DEF Stored
  <2>2. CASE Kept(m)' \/ Held(m)'
    BY <2>1, <2>2 DEF RowLife, HeldLife, Stored
  <2>3. CASE m \in credited'
    BY <2>3, LiveIsStored DEF Stored
  <2>4. CASE m \in givenUp'
    BY <2>4 DEF Stored
  <2>5. QED
    BY <1>3, <2>2, <2>3, <2>4 DEF Stored
<1>4. StoredInv'
  BY <1>1, <1>3 DEF StoredInv
<1>5. Complete'
  <2> SUFFICES ASSUME NEW m \in sent'
               PROVE  \/ m \in Elements(queue') \/ m \in Elements(popped') \/ m \in lost'
                      \/ m \in credited' \/ m \in givenUp' \/ Open(m)'
    BY DEF Complete
  <2>1. m \in Message /\ m \in sent
    BY DEF TypeInv, TypeOK
  <2>2. CASE Open(m)
    BY <2>1, <2>2 DEF RowLife
  <2>3. CASE ~Open(m)
    BY <1>1, <2>1, <2>3 DEF Complete
  <2>4. QED
    BY <2>2, <2>3
<1>6. Flow
  <2>1. \A m \in Message : Live(m)' => Live(m)
    BY DEF RowLife, HeldLife, Live
  <2>2. QED
    BY <2>1 DEF Flow
<1>7. QED
  BY <1>2, <1>4, <1>5, <1>6

LEMMA RowsRestLife ==
  ASSUME UNCHANGED inbox
  PROVE  RowLife
BY DEF RowLife, Open, Processable, Kept

LEMMA RowMarkedLife ==
  ASSUME NEW x \in Entry, Waits(x), NEW row, inbox' = Updated(x.id, row),
         x.id \in DOMAIN inbox =>
           /\ row.msg = x.msg
           /\ \/ row.status \in {"pending", "process_failed"}
              \/ x.msg \in credited' \/ x.msg \in givenUp'
  PROVE  RowLife
<1>1. /\ DOMAIN inbox' = DOMAIN inbox
      /\ \A i \in DOMAIN inbox : inbox'[i] = IF i = x.id THEN row ELSE inbox[i]
  BY DEF Updated
<1>2. x.id \in DOMAIN inbox => x.id \in Processable /\ inbox[x.id].msg = x.msg
  BY DEF Waits, Processable
<1>3. ASSUME NEW m \in Message, Open(m)' PROVE Open(m)
  <2>1. PICK i \in DOMAIN inbox : inbox'[i].status \in {"pending", "process_failed"} /\ inbox'[i].msg = m
    BY <1>1, <1>3 DEF Open, Processable
  <2>2. i \in Processable /\ inbox[i].msg = m
    BY <1>1, <1>2, <2>1 DEF Processable
  <2>3. QED
    BY <2>2 DEF Open
<1>4. ASSUME NEW m \in Message, Open(m) PROVE Open(m)' \/ m \in credited' \/ m \in givenUp'
  <2>1. PICK i \in Processable : inbox[i].msg = m
    BY <1>4 DEF Open
  <2>2. i \in DOMAIN inbox /\ inbox[i].status \in {"pending", "process_failed"}
    BY DEF Processable
  <2>3. CASE i # x.id
    <3>1. i \in Processable' /\ inbox'[i].msg = m
      BY <1>1, <2>1, <2>2, <2>3 DEF Processable
    <3>2. QED
      BY <3>1 DEF Open
  <2>4. CASE i = x.id
    <3>1. m = x.msg /\ inbox'[i] = row
      BY <1>1, <1>2, <2>1, <2>2, <2>4
    <3>2. CASE row.status \in {"pending", "process_failed"}
      <4>1. i \in Processable' /\ inbox'[i].msg = m
        BY <1>1, <2>2, <2>4, <3>1, <3>2 DEF Processable
      <4>2. QED
        BY <4>1 DEF Open
    <3>3. QED
      BY <2>2, <2>4, <3>1, <3>2
  <2>5. QED
    BY <2>3, <2>4
<1>5. ASSUME NEW m \in Message, Kept(m)' PROVE Kept(m)
  <2>1. PICK i \in DOMAIN inbox : inbox'[i].msg = m
    BY <1>1, <1>5 DEF Kept
  <2>2. inbox[i].msg = m
    BY <1>1, <1>2, <2>1
  <2>3. QED
    BY <2>2 DEF Kept
<1>6. QED
  BY <1>3, <1>4, <1>5 DEF RowLife

LEMMA RowsDeletedLife ==
  ASSUME NEW gone, inbox' = Without(gone),
         \A i \in gone : inbox[i].status # "pending" /\ GivesUp(inbox[i])
  PROVE  RowLife
<1>1. /\ DOMAIN inbox' = DOMAIN inbox \ gone
      /\ \A i \in DOMAIN inbox' : i \in DOMAIN inbox /\ inbox'[i] = inbox[i]
  BY DEF Without
<1>2. ASSUME NEW m \in Message, Open(m)' PROVE Open(m)
  BY <1>1, <1>2 DEF Open, Processable
<1>3. ASSUME NEW m \in Message, Open(m) PROVE Open(m)' \/ m \in credited' \/ m \in givenUp'
  <2>1. PICK i \in Processable : inbox[i].msg = m
    BY <1>3 DEF Open
  <2>2. i \in DOMAIN inbox /\ inbox[i].status \in {"pending", "process_failed"}
    BY DEF Processable
  <2>3. CASE i \in gone
    BY <2>1, <2>2, <2>3 DEF GivesUp
  <2>4. CASE i \notin gone
    <3>1. i \in Processable' /\ inbox'[i].msg = m
      BY <1>1, <2>1, <2>2, <2>4 DEF Processable
    <3>2. QED
      BY <3>1 DEF Open
  <2>5. QED
    BY <2>3, <2>4
<1>4. \A m \in Message : Kept(m)' => Kept(m)
  BY <1>1 DEF Kept
<1>5. QED
  BY <1>2, <1>3, <1>4 DEF RowLife

LEMMA HeldReturnedLife ==
  ASSUME Return
  PROVE  HeldLife
BY ElementsEmpty DEF Return, HeldLife, Held, InFlight

Holding == phase \in {"decode", "align", "insert"}

LEMMA HeldFewerLife ==
  ASSUME Elements(todo') \cup Elements(valid') \subseteq Elements(todo) \cup Elements(valid),
         Holding' => Holding
  PROVE  HeldLife
BY DEF HeldLife, Held, InFlight, Holding

LEMMA HeldAfterRowLife ==
  ASSUME TypeInv, phase = "decode", NEW decoded,
         decoded = valid \/ decoded = Append(valid, Head(todo)), AfterRow(Tail(todo), decoded)
  PROVE  HeldLife
<1>1. CASE Return
  BY <1>1, HeldReturnedLife
<1>2. CASE todo' = Tail(todo) /\ valid' = decoded
  <2>1. /\ todo \in Seq(Entry) /\ todo # <<>> /\ valid \in Seq(Entry)
    BY DEF TypeInv, TypeOK, WorkInv
  <2>2. Head(todo) \in Elements(todo) /\ Elements(todo') \subseteq Elements(todo)
    BY <1>2, <2>1, ElementsTail
  <2>3. Head(todo) \in Entry
    BY <2>1
  <2>4. Elements(valid') \subseteq Elements(valid) \cup {Head(todo)}
    <3>1. CASE decoded = valid
      BY <1>2, <3>1
    <3>2. CASE decoded = Append(valid, Head(todo))
      BY <1>2, <2>1, <2>3, <3>2, ElementsAppend
    <3>3. QED
      BY <3>1, <3>2
  <2>5. QED
    BY <2>2, <2>4, HeldFewerLife DEF Holding
<1>3. QED
  BY <1>1, <1>2 DEF AfterRow

LEMMA HeldListedLife ==
  ASSUME TypeInv, ListRows
  PROVE  HeldLife
<1>1. PICK n \in 1..ListLimit : \E ids \in [1..n -> Processable] :
        todo' = [i \in 1..n |-> [id |-> ids[i], msg |-> inbox[ids[i]].msg]]
  BY DEF ListRows
<1>2. PICK ids \in [1..n -> Processable] :
        todo' = [i \in 1..n |-> [id |-> ids[i], msg |-> inbox[ids[i]].msg]]
  BY <1>1
<1>3. Elements(todo') = {todo'[i] : i \in 1..n} /\ Elements(valid') = {}
  <2>1. valid = <<>> /\ valid' = <<>>
    BY DEF ListRows, TypeInv, WorkInv
  <2>2. DOMAIN todo' = 1..n
    BY <1>2
  <2>3. Elements(todo') = {todo'[i] : i \in 1..n}
    BY <2>2 DEF Elements
  <2>4. QED
    BY <2>1, <2>3, ElementsEmpty
<1>4. \A i \in 1..n : Open(todo'[i].msg)
  BY <1>2 DEF Open
<1>5. ASSUME NEW m \in Message, NEW x \in Elements(todo') \cup Elements(valid'), x.msg = m
      PROVE  Open(m)
  BY <1>3, <1>4, <1>5
<1>6. \A m : Open(m) => Kept(m)
  BY DEF Open, Processable, Kept
<1>7. QED
  BY <1>5, <1>6 DEF HeldLife, Held, InFlight

-----------------------------------------------------------------------------
(* The steps of the queue and the pull. *)

LEMMA UpstreamMoves ==
  ASSUME FateInv, UNCHANGED <<inbox, credited, givenUp>>, HeldLife,
         sent \subseteq sent', lost \subseteq lost', sent' \ sent \subseteq Elements(queue'),
         Elements(queue') \subseteq Elements(queue) \cup (sent' \ sent),
         Elements(popped') \subseteq Elements(popped) \cup Elements(queue),
         lost' \subseteq lost \cup Elements(popped) \cup Elements(queue),
         Elements(queue) \subseteq Elements(queue') \cup Elements(popped') \cup lost',
         Elements(popped) \subseteq Elements(popped') \cup lost',
         Distinct(queue'), Elements(queue') \cap Elements(popped') = {},
         Elements(queue') \cap lost' = {}, Elements(popped') \cap lost' = {}
  PROVE  UpstreamInv' /\ StoredInv' /\ Complete' /\ Flow
<1>1. UpstreamInv /\ StoredInv /\ Complete /\ TypeInv
  BY DEF FateInv, RowInv
<1>2. UpstreamInv'
  BY <1>1 DEF UpstreamInv, Distinct
<1>3. \A m \in Message : Open(m)' <=> Open(m)
  BY DEF Open, Processable
<1>4. \A m \in Message : Kept(m)' <=> Kept(m)
  BY DEF Kept
<1>5. \A m \in Message : Stored(m)' => Stored(m)
  BY <1>4 DEF Stored, HeldLife
<1>6. StoredInv'
  BY <1>1, <1>5 DEF StoredInv
<1>7. Complete'
  <2> SUFFICES ASSUME NEW m \in sent'
               PROVE  \/ m \in Elements(queue') \/ m \in Elements(popped') \/ m \in lost'
                      \/ m \in credited' \/ m \in givenUp' \/ Open(m)'
    BY DEF Complete
  <2>1. CASE m \notin sent
    BY <2>1
  <2>2. CASE m \in sent
    <3>1. m \in Message
      BY <1>1, <2>2 DEF TypeInv, TypeOK
    <3>2. QED
      BY <1>1, <1>3, <2>2, <3>1 DEF Complete
  <2>3. QED
    BY <2>1, <2>2
<1>8. Flow
  <2>1. \A m \in Message : Live(m)' => Live(m)
    BY <1>3 DEF HeldLife, Live
  <2>2. QED
    BY <2>1 DEF Flow
<1>9. QED
  BY <1>2, <1>6, <1>7, <1>8

LEMMA HeldStillLife ==
  ASSUME UNCHANGED <<phase, todo, valid>>
  PROVE  HeldLife
BY HeldFewerLife DEF Holding

LEMMA PublishMoves ==
  ASSUME FateInv, NEW m \in Message, Publish(m)
  PROVE  UpstreamInv' /\ StoredInv' /\ Complete' /\ Flow
<1>1. /\ m \notin sent /\ sent' = sent \cup {m} /\ queue' = Append(queue, m)
      /\ UNCHANGED <<popped, lost, inbox, credited, givenUp, phase, todo, valid>>
  BY DEF Publish, workVars, eventVars
<1>2. queue \in Seq(Message) /\ UpstreamInv
  BY DEF FateInv, RowInv, TypeInv, TypeOK
<1>3. Elements(queue') = Elements(queue) \cup {m}
  BY <1>1, <1>2, ElementsAppend
<1>4. m \notin Elements(queue) /\ m \notin Elements(popped) /\ m \notin lost
  BY <1>1, <1>2 DEF UpstreamInv
<1>5. Distinct(queue')
  <2>1. /\ Len(queue) \in Nat /\ Len(queue') = Len(queue) + 1 /\ queue'[Len(queue) + 1] = m
        /\ \A i \in 1..Len(queue) : queue'[i] = queue[i]
    BY <1>1, <1>2
  <2>2. \A i \in 1..Len(queue) : queue[i] # m
    BY <1>2, <1>4, ElementsAre
  <2>3. \A i \in 1..Len(queue') : i \in 1..Len(queue) \/ i = Len(queue) + 1
    BY <2>1
  <2>4. \A i, j \in 1..Len(queue) : queue[i] = queue[j] => i = j
    BY <1>2 DEF UpstreamInv, Distinct
  <2>5. QED
    BY <2>1, <2>2, <2>3, <2>4 DEF Distinct
<1>6. HeldLife
  BY <1>1, HeldStillLife
<1>7. QED
  BY <1>1, <1>2, <1>3, <1>4, <1>5, <1>6, UpstreamMoves DEF UpstreamInv

(* A pop takes the front of the queue, to the pull or to nowhere. *)
LEMMA PopMoves ==
  ASSUME FateInv, Pop \/ PopFails
  PROVE  UpstreamInv' /\ StoredInv' /\ Complete' /\ Flow
<1> DEFINE front == SubSeq(queue, 1, PopSize)
           rest == SubSeq(queue, PopSize + 1, Len(queue))
<1>1. /\ popped = <<>> /\ queue # <<>> /\ queue' = rest /\ sent' = sent
      /\ \/ popped' = front /\ lost' = lost
         \/ popped' = <<>> /\ lost' = lost \cup Elements(front)
      /\ UNCHANGED <<inbox, credited, givenUp, phase, todo, valid>>
  BY DEF Pop, PopFails, workVars, eventVars
<1>2. queue \in Seq(Message) /\ UpstreamInv /\ PopSize \in 0..Len(queue)
  BY <1>1, PopSizeType DEF FateInv, RowInv, TypeInv, TypeOK
<1>3. /\ Elements(queue) = Elements(front) \cup Elements(rest)
      /\ Distinct(rest) /\ Elements(front) \cap Elements(rest) = {}
  <2>1. Distinct(queue)
    BY <1>2 DEF UpstreamInv
  <2>2. QED
    BY <1>2, <2>1, PopSplits
<1>4. HeldLife
  BY <1>1, HeldStillLife
<1> HIDE DEF front, rest
<1>5. Elements(queue) \cap lost = {}
  BY <1>2 DEF UpstreamInv
<1>6. CASE popped' = front /\ lost' = lost
  BY <1>1, <1>3, <1>4, <1>5, <1>6, UpstreamMoves, ElementsEmpty
<1>7. CASE popped' = <<>> /\ lost' = lost \cup Elements(front)
  BY <1>1, <1>3, <1>4, <1>5, <1>7, UpstreamMoves, ElementsEmpty
<1>8. QED
  BY <1>1, <1>6, <1>7

(* A failed insert or a crash loses what the pull holds. *)
LEMMA DropMoves ==
  ASSUME FateInv, HeldLife, popped' = <<>>, lost' = lost \cup Elements(popped),
         UNCHANGED <<sent, queue, inbox, credited, givenUp>>
  PROVE  UpstreamInv' /\ StoredInv' /\ Complete' /\ Flow
<1>1. UpstreamInv
  BY DEF FateInv
<1>2. Distinct(queue')
  BY <1>1 DEF UpstreamInv, Distinct
<1>3. Elements(queue) \cap Elements(popped) = {} /\ Elements(queue) \cap lost = {}
  BY <1>1 DEF UpstreamInv
<1>4. QED
  BY <1>2, <1>3, UpstreamMoves, ElementsEmpty

(* The pulled messages become pending rows. *)
LEMMA InsertMoves ==
  ASSUME FateInv, InsertPulled
  PROVE  UpstreamInv' /\ StoredInv' /\ Complete' /\ Flow
<1> DEFINE n == Len(popped)
           fresh == nextRow..(nextRow + n - 1)
<1>1. /\ popped' = <<>> /\ UNCHANGED <<sent, queue, lost, credited, givenUp, phase, todo, valid>>
      /\ DOMAIN inbox' = DOMAIN inbox \cup fresh
      /\ \A i \in DOMAIN inbox' : inbox'[i] = IF i < nextRow THEN inbox[i]
                                              ELSE NewRow(popped[i - nextRow + 1])
  BY DEF InsertPulled, workVars, eventVars
<1>2. /\ popped \in Seq(Message) /\ nextRow \in Nat \ {0} /\ n \in Nat
      /\ \A i \in DOMAIN inbox : i \in Nat /\ i < nextRow
      /\ UpstreamInv /\ StoredInv /\ Complete /\ TypeInv
  BY DEF FateInv, RowInv, TypeInv, TypeOK
<1>3. Elements(popped) = {popped[j] : j \in 1..n} /\ Elements(popped') = {}
  BY <1>1, <1>2, ElementsAre, ElementsEmpty
<1>4. \A i \in DOMAIN inbox : i \in DOMAIN inbox' /\ inbox'[i] = inbox[i]
  BY <1>1, <1>2
<1>5. \A i \in DOMAIN inbox' \ DOMAIN inbox :
        /\ inbox'[i].status = "pending" /\ inbox'[i].msg \in Elements(popped)
  <2> SUFFICES ASSUME NEW i \in DOMAIN inbox' \ DOMAIN inbox
               PROVE  inbox'[i].status = "pending" /\ inbox'[i].msg \in Elements(popped)
    OBVIOUS
  <2>1. i \in fresh
    BY <1>1
  <2>2. i - nextRow + 1 \in 1..n /\ ~(i < nextRow)
    BY <1>2, <2>1
  <2>3. inbox'[i] = NewRow(popped[i - nextRow + 1])
    BY <1>1, <2>2
  <2>4. popped[i - nextRow + 1] \in Elements(popped)
    BY <1>3, <2>2
  <2>5. QED
    BY <2>3, <2>4 DEF NewRow
<1>6. ASSUME NEW m \in Elements(popped) PROVE Open(m)'
  <2>1. PICK j \in 1..n : m = popped[j]
    BY <1>3
  <2>2. /\ nextRow + j - 1 \in fresh /\ ~(nextRow + j - 1 < nextRow)
        /\ (nextRow + j - 1) - nextRow + 1 = j
    BY <1>2
  <2>3. /\ nextRow + j - 1 \in DOMAIN inbox'
        /\ inbox'[nextRow + j - 1] = NewRow(popped[(nextRow + j - 1) - nextRow + 1])
    BY <1>1, <2>2
  <2>4. inbox'[nextRow + j - 1] = NewRow(m)
    BY <2>1, <2>2, <2>3
  <2>5. inbox'[nextRow + j - 1].status = "pending" /\ inbox'[nextRow + j - 1].msg = m
    BY <2>4 DEF NewRow
  <2>6. nextRow + j - 1 \in Processable'
    BY <2>3, <2>5 DEF Processable
  <2>7. QED
    BY <2>5, <2>6 DEF Open
<1> HIDE DEF fresh
<1>7. ASSUME NEW m \in Message, Open(m) PROVE Open(m)'
  <2>1. PICK i \in Processable : inbox[i].msg = m
    BY <1>7 DEF Open
  <2>2. i \in Processable' /\ inbox'[i].msg = m
    BY <1>4, <2>1 DEF Processable
  <2>3. QED
    BY <2>2 DEF Open
<1>8. ASSUME NEW m \in Message, Open(m)' PROVE Open(m) \/ m \in Elements(popped)
  <2>1. PICK i \in DOMAIN inbox' : inbox'[i].status \in {"pending", "process_failed"} /\ inbox'[i].msg = m
    BY <1>8 DEF Open, Processable
  <2>2. CASE i \in DOMAIN inbox
    <3>1. i \in Processable /\ inbox[i].msg = m
      BY <1>4, <2>1, <2>2 DEF Processable
    <3>2. QED
      BY <3>1 DEF Open
  <2>3. CASE i \notin DOMAIN inbox
    BY <1>5, <2>1, <2>3
  <2>4. QED
    BY <2>2, <2>3
<1>9. ASSUME NEW m \in Message, Kept(m)' PROVE Kept(m) \/ m \in Elements(popped)
  <2>1. PICK i \in DOMAIN inbox' : inbox'[i].msg = m
    BY <1>9 DEF Kept
  <2>2. QED
    BY <1>4, <1>5, <2>1 DEF Kept
<1>10. \A m \in Message : Held(m)' => Held(m)
  BY <1>1 DEF Held
<1>11. \A m \in Message : InFlight(m)' => InFlight(m)
  BY <1>1 DEF InFlight
<1>12. UpstreamInv'
  BY <1>1, <1>2, <1>3 DEF UpstreamInv, Distinct
<1>13. \A m \in Message : Stored(m)' => Stored(m) \/ m \in Elements(popped)
  BY <1>1, <1>9, <1>10 DEF Stored
<1>14. StoredInv'
  BY <1>1, <1>2, <1>3, <1>13 DEF StoredInv, UpstreamInv
<1>15. Complete'
  <2> SUFFICES ASSUME NEW m \in sent'
               PROVE  \/ m \in Elements(queue') \/ m \in Elements(popped') \/ m \in lost'
                      \/ m \in credited' \/ m \in givenUp' \/ Open(m)'
    BY DEF Complete
  <2>1. m \in Message /\ m \in sent
    BY <1>1, <1>2 DEF TypeInv, TypeOK
  <2>2. QED
    BY <1>1, <1>2, <1>6, <1>7, <2>1 DEF Complete
<1>16. Flow
  <2>1. \A m \in Message : Live(m)' => Live(m) \/ m \in Elements(popped)
    BY <1>8, <1>11 DEF Live
  <2>2. \A m \in Elements(popped) : Live(m)'
    BY <1>6 DEF Live
  <2>3. QED
    BY <1>1, <1>3, <2>1, <2>2 DEF Flow
<1>17. QED
  BY <1>12, <1>14, <1>15, <1>16

-----------------------------------------------------------------------------
(***************************************************************************)
(* Every step moves the messages the way the ledger allows.                *)
(***************************************************************************)
LEMMA HeldIsLive ==
  ASSUME TypeInv
  PROVE  /\ \A i \in 1..Len(valid) : /\ valid[i] \in Elements(valid) /\ valid[i].msg \in Message
                                     /\ phase \in {"align", "insert"} => InFlight(valid[i].msg)
         /\ \A i \in 1..Len(todo) : todo[i].msg \in Message
<1>1. valid \in Seq(Entry) /\ todo \in Seq(Entry)
  BY DEF TypeInv, TypeOK
<1>2. Elements(valid) = {valid[i] : i \in 1..Len(valid)}
  BY <1>1, ElementsAre
<1>3. /\ \A i \in 1..Len(valid) : valid[i] \in Elements(valid) /\ valid[i].msg \in Message
      /\ \A i \in 1..Len(todo) : todo[i].msg \in Message
  <2>1. \A i \in 1..Len(valid) : valid[i] \in Entry
    BY <1>1
  <2>2. \A i \in 1..Len(todo) : todo[i] \in Entry
    BY <1>1
  <2>3. QED
    BY <1>2, <2>1, <2>2 DEF Entry
<1>4. QED
  BY <1>3 DEF InFlight

LEMMA FateStep ==
  ASSUME FateInv, [Next]_vars
  PROVE  FateInv' /\ Flow
<1> USE DEF queueVars, eventVars, workVars, clockVars
<1>0. /\ RowInv /\ RowInv' /\ TypeInv /\ TypeInv' /\ HeldOpen /\ CreditInv
      /\ UpstreamInv /\ StoredInv /\ Complete
  BY RowStep DEF FateInv, RowInv
<1> SUFFICES UpstreamInv' /\ StoredInv' /\ Complete' /\ Flow /\ CreditInv'
  BY <1>0 DEF FateInv
<1>1. ASSUME phase' \notin {"insert", "mark"} PROVE CreditInv'
  BY <1>1 DEF CreditInv
<1>2. ASSUME UNCHANGED <<phase, pos, valid, credited>> PROVE CreditInv'
  BY <1>0, <1>2 DEF CreditInv
<1>3. ASSUME UNCHANGED <<sent, queue, popped, lost, inbox, credited, givenUp>>, HeldLife
      PROVE  UpstreamInv' /\ StoredInv' /\ Complete' /\ Flow
  BY <1>0, <1>3, RowsRestLife, InboxMoves
<1>4. ASSUME NEW m \in Message, Publish(m)
      PROVE  UpstreamInv' /\ StoredInv' /\ Complete' /\ Flow /\ CreditInv'
  BY <1>2, <1>4, PublishMoves DEF Publish
<1>5. CASE Pop \/ PopFails
  BY <1>2, <1>5, PopMoves DEF Pop, PopFails
<1>6. CASE InsertPulledFails
  BY <1>2, <1>6, HeldStillLife, DropMoves DEF InsertPulledFails
<1>7. CASE Crash
  BY <1>1, <1>7, HeldReturnedLife, DropMoves DEF Crash, Return
<1>8. CASE InsertPulled
  BY <1>2, <1>8, InsertMoves DEF InsertPulled
<1>9. CASE ListRows
  BY <1>0, <1>1, <1>3, <1>9, HeldListedLife DEF ListRows
<1>10. CASE DecodeRow
  <2>1. HeldLife
    BY <1>0, <1>10, HeldAfterRowLife DEF DecodeRow
  <2>2. phase' \notin {"insert", "mark"}
    BY <1>10 DEF DecodeRow, AfterRow, Return
  <2>3. QED
    BY <1>1, <1>3, <1>10, <2>1, <2>2 DEF DecodeRow
<1>11. CASE MarkDecodeFailed
  <2> DEFINE x == Head(todo)
             row == [inbox[x.id] EXCEPT !.status = "decode_failed", !.attempts = @ + 1, !.at = now]
  <2>1. /\ phase = "decode" /\ inbox' = Updated(x.id, row) /\ AfterRow(Tail(todo), valid)
        /\ givenUp' = givenUp \cup {x.msg}
        /\ UNCHANGED <<sent, queue, popped, lost, credited>>
    BY <1>11 DEF MarkDecodeFailed
  <2>2. todo \in Seq(Entry) /\ todo # <<>>
    BY <1>0, <2>1 DEF TypeInv, TypeOK, WorkInv
  <2>3. x \in Entry /\ x \in Elements(todo) /\ Waits(x)
    <3>1. Head(todo) = todo[1] /\ 1 \in 1..Len(todo)
      BY <2>2
    <3>2. QED
      BY <1>0, <2>2, <3>1, ElementsTail DEF HeldOpen
  <2>4. HeldLife
    BY <1>0, <2>1, HeldAfterRowLife
  <2>5. x.id \in DOMAIN inbox => row.msg = x.msg
    BY <1>0, <2>3 DEF Waits, TypeInv, TypeOK, Row
  <2> HIDE DEF row
  <2>6. RowLife
    BY <2>1, <2>3, <2>5, RowMarkedLife
  <2>7. Stored(x.msg)
    BY <2>3 DEF Stored, Held
  <2>8. UpstreamInv' /\ StoredInv' /\ Complete' /\ Flow
    BY <1>0, <2>1, <2>4, <2>6, <2>7, InboxMoves
  <2>9. phase' \notin {"insert", "mark"}
    BY <2>1 DEF AfterRow, Return
  <2>10. QED
    BY <1>1, <2>8, <2>9
<1>12. CASE MarkDecodeFails \/ MarkProcessedFails
  <2>1. HeldLife /\ phase' = "idle"
    BY <1>12, HeldReturnedLife DEF MarkDecodeFails, MarkProcessedFails, Return
  <2>2. QED
    BY <1>1, <1>3, <1>12, <2>1 DEF MarkDecodeFails, MarkProcessedFails
<1>13. CASE AlignRow
  <2>1. HeldLife
    BY <1>13, HeldFewerLife DEF AlignRow, Holding
  <2>2. CreditInv'
    BY <1>0, <1>13 DEF AlignRow, CreditInv, TypeInv, WorkInv
  <2>3. QED
    BY <1>3, <1>13, <2>1, <2>2 DEF AlignRow
<1>14. CASE InsertEvents
  <2>1. /\ phase = "insert" /\ phase' \in {"insert", "mark"}
        /\ UNCHANGED <<sent, queue, popped, lost, inbox, givenUp, todo, valid>>
        /\ credited' = credited \cup {valid[i].msg : i \in Slice}
    BY <1>14 DEF InsertEvents
  <2>2. \A i \in Slice : i \in 1..Len(valid)
    BY <1>0, <2>1, SliceType DEF TypeInv, WorkInv
  <2>3. \A m \in credited' \ credited : Live(m)
    BY <1>0, <2>1, <2>2, HeldIsLive DEF Live
  <2>4. HeldLife
    BY <2>1, HeldFewerLife DEF Holding
  <2>5. RowLife
    BY <2>1, RowsRestLife
  <2>6. UpstreamInv' /\ StoredInv' /\ Complete' /\ Flow
    BY <1>0, <2>1, <2>3, <2>4, <2>5, InboxMoves
  <2>7. CreditInv'
    <3>1. /\ pos \in Nat /\ Len(valid) \in Nat /\ InsertBatch \in Nat \ {0}
      BY <1>0, BoundsAssumption DEF TypeInv, TypeOK
    <3>2. \A i \in 1..pos : valid[i].msg \in credited'
      BY <1>0, <2>1 DEF CreditInv
    <3>3. \A i \in Slice : valid[i].msg \in credited'
      BY <2>1
    <3>4. CASE pos + InsertBatch < Len(valid)
      <4>1. phase' = "insert" /\ pos' = pos + InsertBatch
        BY <1>14, <3>4 DEF InsertEvents
      <4>2. \A i \in 1..pos' : i \in 1..pos \/ i \in Slice
        BY <3>1, <3>4, <4>1 DEF Slice, Min2
      <4>3. QED
        BY <2>1, <3>2, <3>3, <4>1, <4>2 DEF CreditInv
    <3>5. CASE ~(pos + InsertBatch < Len(valid))
      <4>1. phase' = "mark"
        BY <1>14, <3>5 DEF InsertEvents
      <4>2. \A i \in 1..Len(valid) : i \in 1..pos \/ i \in Slice
        BY <3>1, <3>5 DEF Slice, Min2
      <4>3. QED
        BY <2>1, <3>2, <3>3, <4>1, <4>2 DEF CreditInv
    <3>6. QED
      BY <3>4, <3>5
  <2>8. QED
    BY <2>6, <2>7
<1>15. CASE PersistFails
  <2>1. HeldLife
    BY <1>15, HeldFewerLife DEF PersistFails, Holding
  <2>2. QED
    BY <1>1, <1>3, <1>15, <2>1 DEF PersistFails
<1>16. ASSUME phase \in {"mark", "fail"}
       PROVE  /\ pos + 1 \in 1..Len(valid) /\ valid[pos + 1] \in Entry /\ Waits(valid[pos + 1])
              /\ Stored(valid[pos + 1].msg)
  <2>1. pos \in Nat /\ Len(valid) \in Nat /\ pos < Len(valid)
    <3>1. WorkInv
      BY <1>0 DEF TypeInv
    <3>2. pos < Len(valid)
      BY <1>16, <3>1 DEF WorkInv
    <3>3. QED
      BY <1>0, <3>2, HeldEntries
  <2>2. pos + 1 \in Unmarked /\ pos + 1 \in 1..Len(valid)
    BY <1>16, <2>1 DEF Unmarked
  <2>3. valid[pos + 1] \in Entry /\ Waits(valid[pos + 1]) /\ valid[pos + 1] \in Elements(valid)
    BY <1>0, <2>2, HeldEntries, HeldIsLive DEF HeldOpen
  <2>4. QED
    BY <2>2, <2>3 DEF Stored, Held
<1>17. ASSUME phase \in {"mark", "fail"}, Advance, UNCHANGED credited PROVE HeldLife /\ CreditInv'
  <2>1. CASE Return
    BY <1>1, <2>1, HeldReturnedLife DEF Return
  <2>2. CASE UNCHANGED <<phase, todo, valid>>
    BY <1>0, <1>17, <2>2, HeldStillLife DEF CreditInv
  <2>3. QED
    BY <1>17, <2>1, <2>2 DEF Advance
<1>18. CASE MarkProcessed
  <2> DEFINE x == valid[pos + 1]
             row == [inbox[x.id] EXCEPT !.status = "processed", !.key = keys[pos + 1], !.at = fetchedAt]
  <2>1. /\ phase = "mark" /\ inbox' = Updated(x.id, row) /\ Advance
        /\ UNCHANGED <<sent, queue, popped, lost, credited, givenUp>>
    BY <1>18 DEF MarkProcessed
  <2>2. x \in Entry /\ Waits(x) /\ x.msg \in credited
    BY <1>0, <1>16, <2>1 DEF CreditInv
  <2>3. x.id \in DOMAIN inbox => row.msg = x.msg
    BY <1>0, <2>2 DEF Waits, TypeInv, TypeOK, Row
  <2> HIDE DEF row
  <2>4. RowLife
    BY <2>1, <2>2, <2>3, RowMarkedLife
  <2>5. QED
    BY <1>0, <1>17, <2>1, <2>4, InboxMoves
<1>19. CASE MarkProcessFailed
  <2> DEFINE x == valid[pos + 1]
             row == Failed(inbox[x.id])
             dropped == {inbox[i].msg : i \in {j \in DOMAIN inbox :
                           j = x.id /\ Failed(inbox[j]).status = "discarded"}}
  <2>1. /\ phase = "fail" /\ inbox' = Updated(x.id, row) /\ Advance /\ givenUp' = givenUp \cup dropped
        /\ UNCHANGED <<sent, queue, popped, lost, credited>>
    BY <1>19 DEF MarkProcessFailed
  <2>2. x \in Entry /\ Waits(x) /\ Stored(x.msg)
    BY <1>16, <2>1
  <2>3. x.id \in DOMAIN inbox => /\ row.msg = x.msg
                                 /\ row.status = "process_failed" \/ x.msg \in dropped
    <3> SUFFICES ASSUME x.id \in DOMAIN inbox
                 PROVE  row.msg = x.msg /\ (row.status = "process_failed" \/ x.msg \in dropped)
      OBVIOUS
    <3>1. inbox[x.id] \in Row /\ inbox[x.id].msg = x.msg
      BY <1>0, <2>2 DEF Waits, TypeInv, TypeOK
    <3>2. row.msg = x.msg /\ row.status \in {"process_failed", "discarded"}
      BY <3>1 DEF Failed, Row
    <3>3. row.status = "discarded" => x.msg \in dropped
      BY <3>1
    <3>4. QED
      BY <3>2, <3>3
  <2>4. dropped \subseteq {x.msg}
    BY <2>2 DEF Waits
  <2> HIDE DEF row, dropped
  <2>5. RowLife
    BY <2>1, <2>2, <2>3, RowMarkedLife
  <2>6. \A m \in givenUp' \ givenUp : Stored(m)
    BY <2>1, <2>2, <2>4
  <2>7. HeldLife /\ CreditInv'
    BY <1>17, <2>1
  <2>8. QED
    BY <1>0, <2>1, <2>5, <2>6, <2>7, InboxMoves
<1>20. CASE MarkProcessFailedFails
  BY <1>3, <1>17, <1>20 DEF MarkProcessFailedFails
<1>21. CASE CleanProcessed
  <2> DEFINE gone == {i \in DOMAIN inbox : inbox[i].status = "processed" /\ inbox[i].at < DayStart}
  <2>1. /\ inbox' = Without(gone)
        /\ UNCHANGED <<sent, queue, popped, lost, credited, givenUp, phase, pos, todo, valid>>
    BY <1>21 DEF CleanProcessed
  <2>2. \A i \in gone : inbox[i].status # "pending" /\ GivesUp(inbox[i])
    BY DEF GivesUp
  <2> HIDE DEF gone
  <2>3. RowLife
    BY <2>1, <2>2, RowsDeletedLife
  <2>4. HeldLife
    BY <2>1, HeldStillLife
  <2>5. QED
    BY <1>0, <1>2, <2>1, <2>3, <2>4, InboxMoves
<1>22. CASE CleanFailed
  <2> DEFINE gone == {i \in DOMAIN inbox : Stale(inbox[i])}
  <2>1. /\ inbox' = Without(gone) /\ givenUp' = givenUp \cup {inbox[i].msg : i \in gone}
        /\ UNCHANGED <<sent, queue, popped, lost, credited, phase, pos, todo, valid>>
    BY <1>22 DEF CleanFailed
  <2>2. \A i \in gone : i \in DOMAIN inbox /\ inbox[i].status # "pending" /\ GivesUp(inbox[i])
    BY <2>1 DEF Stale, GivesUp
  <2> HIDE DEF gone
  <2>3. RowLife
    BY <2>1, <2>2, RowsDeletedLife
  <2>4. HeldLife
    BY <2>1, HeldStillLife
  <2>5. \A m \in givenUp' \ givenUp : Stored(m)
    BY <2>1, <2>2 DEF Stored, Kept
  <2>6. QED
    BY <1>0, <1>2, <2>1, <2>3, <2>4, <2>5, InboxMoves
<1>23. CASE CleanFails \/ Tick
  <2>1. UNCHANGED <<sent, queue, popped, lost, inbox, credited, givenUp, phase, pos, todo, valid>>
    BY <1>23 DEF CleanFails, Tick
  <2>2. QED
    BY <1>2, <1>3, <2>1, HeldStillLife
<1>24. CASE UNCHANGED vars
  <2>1. UNCHANGED <<sent, queue, popped, lost, inbox, credited, givenUp, phase, pos, todo, valid>>
    BY <1>24 DEF vars
  <2>2. QED
    BY <1>2, <1>3, <2>1, HeldStillLife
<1>25. QED
  BY <1>4, <1>5, <1>6, <1>7, <1>8, <1>9, <1>10, <1>11, <1>12, <1>13, <1>14, <1>15, <1>18,
     <1>19, <1>20, <1>21, <1>22, <1>23, <1>24
  DEF Next, PullStep, WorkStep, CleanStep

LEMMA FateInit == Init => FateInv /\ Ledger!LedgerInit
<1> SUFFICES ASSUME Init PROVE FateInv /\ Ledger!LedgerInit
  OBVIOUS
<1>1. TypeInv
  BY InitTyped
<1>2. RowInv
  BY <1>1 DEF Init, RowInv, AttemptBudget, HeldOnce, HeldOpen, Unmarked
<1>3. UpstreamInv /\ Complete /\ CreditInv
  BY ElementsEmpty DEF Init, UpstreamInv, Distinct, Complete, CreditInv
<1>4. \A m \in Message : ~Stored(m)
  BY ElementsEmpty DEF Init, Stored, Kept, Held
<1>5. StoredInv
  BY <1>4 DEF StoredInv
<1>6. \A m \in Message : FateOf(m) = "unsent"
  <2>1. Places
    BY <1>3, <1>5, FatePlaces
  <2>2. QED
    BY <2>1 DEF Init, Places
<1>7. Ledger!LedgerInit
  BY <1>6 DEF Ledger!LedgerInit
<1>8. QED
  BY <1>2, <1>3, <1>5, <1>7 DEF FateInv

LEMMA LedgerMoves ==
  ASSUME FateInv, [Next]_vars
  PROVE  Ledger!LedgerNext
<1>1. FateInv' /\ Flow
  BY FateStep
<1>2. \A m \in Message : /\ FateOf(m)' \in Ledger!Fate
                         /\ FateOf(m)' = FateOf(m) \/ <<FateOf(m), FateOf(m)'>> \in Ledger!Moves
  BY <1>1, FateMoves DEF FateInv
<1>3. QED
  BY <1>2 DEF Ledger!LedgerNext

(***************************************************************************)
(* The inbox implements the ledger: from the moment a message is stored it *)
(* is counted or deliberately dropped and never silently lost, and once    *)
(* counted it stays so, for any messages, batch and list sizes, failing    *)
(* statements, cleanups and crashes.                                       *)
(***************************************************************************)
THEOREM InboxImplementsLedger == Spec => ImplementsLedger
<1>1. FateInv /\ [Next]_vars => FateInv'
  BY FateStep
<1>2. FateInv /\ [Next]_vars => [Ledger!LedgerNext]_([m \in Message |-> FateOf(m)])
  BY LedgerMoves
<1>3. QED
  BY FateInit, <1>1, <1>2, PTL DEF Spec, ImplementsLedger, Ledger!LedgerSpec
=============================================================================
