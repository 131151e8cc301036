----------------------- MODULE SnapshotRotationProofs -----------------------
(***************************************************************************)
(* What a restore gets, for any number of events, files to keep and time.   *)
(***************************************************************************)
EXTENDS SnapshotRotation, Integers, TLAPS, WellFoundedInduction, FunctionTheorems, FiniteSetTheorems

(* The part of SnapshotTypeOK the proofs need. *)
FileTypes ==
  /\ clock \in Slot /\ written \in Nat
  /\ local \in Database \cup {Nothing} /\ plain \in Database \cup {Nothing}
  /\ upload \in [at : {"idle", "commit", "prune"}, copy : Database \cup {Nothing}, bucket : Slot]
  /\ upload.at = "commit" => upload.copy \in Database
  /\ history \in [Slot -> Database \cup {Nothing}]
  /\ manifest \in Manifest \cup {Nothing}

(* The manifest points to the database committed last, whose checksum the state file has. *)
PointerInv ==
  /\ checksum = uploaded
  /\ manifest # Nothing => history[manifest.latest] # Nothing
  /\ RestoresLastUpload

RepositoryInv == FileTypes /\ PointerInv

LEMMA RetainedHasCurrent ==
  ASSUME NEW current \in Slot, NEW previous \in SUBSET Slot, NEW existing \in SUBSET Slot
  PROVE  current \in Retained(current, previous, existing)
         /\ Retained(current, previous, existing) \in SUBSET Slot
BY DEF Retained, Newest

(* Only a commit changes the repository's files. *)
LEMMA CommitKeeps ==
  ASSUME RepositoryInv, Commit
  PROVE  RepositoryInv'
<1>1. PICK available \in BOOLEAN : CommitFiles(available)
  BY DEF Commit
<1> DEFINE current == IF NeedsUpload(available) \/ manifest = Nothing THEN upload.bucket ELSE manifest.latest
           previous == IF manifest = Nothing THEN {} ELSE manifest.retained
           existing == IF available THEN Listed(history) ELSE {}
           retained == Retained(current, previous, existing)
           deleted == Deleted(previous, existing, retained, available)
<1>2. /\ upload.copy \in Database /\ upload.copy # Nothing
      /\ upload.bucket \in Slot
  BY NothingAssumption DEF RepositoryInv, FileTypes, Commit
<1>3. current \in Slot /\ previous \in SUBSET Slot /\ existing \in SUBSET Slot
  BY <1>2 DEF NeedsUpload, RepositoryInv, FileTypes, Manifest, Listed
<1>4. current \in retained /\ retained \in SUBSET Slot
  BY <1>3, RetainedHasCurrent
<1>5. current \notin deleted
  BY <1>4 DEF Deleted
<1>6. history' = [b \in Slot |-> IF b \in deleted THEN Nothing
                                   ELSE IF NeedsUpload(available) /\ b = upload.bucket THEN upload.copy
                                   ELSE history[b]]
  BY <1>1 DEF CommitFiles
<1>7. \/ manifest' = [latest |-> current, retained |-> retained]
      \/ ~NeedsUpload(available) /\ manifest' = manifest
  BY <1>1 DEF CommitFiles
<1>8. checksum' = upload.copy /\ uploaded' = upload.copy
      /\ storage' = storage \cup {upload.copy} /\ plain' \in {plain, Nothing, upload.copy}
  BY <1>1 DEF CommitFiles, Commit
<1>9. manifest' \in Manifest /\ manifest'.latest = current
  <2>1. CASE manifest' = [latest |-> current, retained |-> retained]
    BY <2>1, <1>3, <1>4 DEF Manifest
  <2>2. CASE ~NeedsUpload(available) /\ manifest' = manifest
    BY <2>2 DEF NeedsUpload, RepositoryInv, FileTypes
  <2>3. QED
    BY <1>7, <2>1, <2>2
<1>10. history'[current] = upload.copy
  <2>1. CASE NeedsUpload(available)
    BY <2>1, <1>3, <1>5, <1>6
  <2>2. CASE ~NeedsUpload(available)
    <3>1. manifest # Nothing /\ checksum = upload.copy /\ current = manifest.latest
      BY <2>2 DEF NeedsUpload
    <3>2. history[current] = uploaded
      BY <3>1 DEF RepositoryInv, PointerInv, RestoresLastUpload, Latest
    <3>3. QED
      BY <2>2, <3>1, <3>2, <1>3, <1>5, <1>6 DEF RepositoryInv, PointerInv
  <2>3. QED
    BY <2>1, <2>2
<1>11. FileTypes'
  <2>1. history' \in [Slot -> Database \cup {Nothing}]
    BY <1>2, <1>6 DEF RepositoryInv, FileTypes
  <2>2. upload' \in [at : {"idle", "commit", "prune"}, copy : Database \cup {Nothing}, bucket : Slot]
        /\ upload'.at # "commit"
    <3>1. 0 \in Slot
      BY SnapshotAssumption DEF Slot
    <3>2. CASE upload' = NoUpload
      BY <3>1, <3>2 DEF NoUpload
    <3>3. CASE upload' = [upload EXCEPT !.at = "prune"]
      BY <3>3 DEF RepositoryInv, FileTypes
    <3>4. QED
      BY <3>2, <3>3 DEF Commit
  <2>3. QED
    BY <2>1, <2>2, <1>2, <1>8, <1>9 DEF FileTypes, RepositoryInv, Commit
<1>12. Latest' = upload.copy
  BY <1>2, <1>9, <1>10, NothingAssumption DEF Latest
<1>13. QED
  BY <1>2, <1>8, <1>9, <1>10, <1>11, <1>12 DEF RepositoryInv, PointerInv, RestoresLastUpload

LEMMA RepositoryInvariant == SnapshotSpec => []RepositoryInv
<1>1. SnapshotInit => RepositoryInv
  <2> SUFFICES ASSUME SnapshotInit PROVE RepositoryInv
    OBVIOUS
  <2>1. plain \in Database \cup {Nothing} /\ 0 \in Slot /\ written \in Nat
    BY SnapshotAssumption DEF SnapshotInit, Slot, Database, Written
  <2>2. history \in [Slot -> Database \cup {Nothing}]
    BY DEF SnapshotInit
  <2>3. FileTypes
    BY <2>1, <2>2 DEF SnapshotInit, FileTypes, NoUpload
  <2>4. uploaded # Nothing => uploaded \in storage
    BY DEF SnapshotInit
  <2>5. manifest = Nothing /\ Latest = uploaded /\ checksum = uploaded
    BY DEF SnapshotInit, Latest
  <2>6. QED
    BY <2>3, <2>4, <2>5 DEF RepositoryInv, PointerInv, RestoresLastUpload
<1>2. RepositoryInv /\ [SnapshotNext]_snapshotVars => RepositoryInv'
  <2> SUFFICES ASSUME RepositoryInv, [SnapshotNext]_snapshotVars PROVE RepositoryInv'
    OBVIOUS
  <2>1. CASE Commit
    BY <2>1, CommitKeeps
  <2>2. ASSUME UNCHANGED <<plain, history, manifest, checksum, uploaded>>, FileTypes',
               uploaded # Nothing => uploaded \in storage'
        PROVE  RepositoryInv'
    BY <2>2 DEF RepositoryInv, PointerInv, RestoresLastUpload, Latest
  <2>3. uploaded # Nothing => uploaded \in storage /\ uploaded \in InTree
    <3>1. Latest = uploaded
      BY DEF RepositoryInv, PointerInv, RestoresLastUpload
    <3>2. manifest # Nothing => manifest.latest \in Slot
      BY DEF RepositoryInv, FileTypes, Manifest
    <3>3. QED
      BY <3>1, <3>2 DEF InTree, Latest, RepositoryInv, PointerInv, RestoresLastUpload
  <2>4. CASE Restore \/ RestoreFails \/ OpenDatabase \/ StoreEvent \/ Restart \/ NextInterval \/ Copy
    <3>1. UNCHANGED repository
      BY <2>4 DEF Restore, RestoreFails, OpenDatabase, StoreEvent, Restart, NextInterval, Copy
    <3>2. clock' \in Slot /\ written' \in Nat
      BY <2>4, SnapshotAssumption DEF Restore, RestoreFails, OpenDatabase, StoreEvent, Restart, NextInterval, Copy,
                  RepositoryInv, FileTypes, Slot
    <3>3. local' \in Database \cup {Nothing}
      <4>1. Latest \in Database \cup {Nothing}
        BY DEF Latest, RepositoryInv, FileTypes, Manifest
      <4>2. ASSUME StoreEvent PROVE local' \in Database
        BY <4>2, SnapshotAssumption DEF StoreEvent, RepositoryInv, FileTypes, Database, Written
      <4>3. ASSUME OpenDatabase PROVE local' \in Database
        BY <4>3 DEF OpenDatabase, Database
      <4>4. CASE Restore \/ Restart
        BY <4>4, <4>1 DEF Restore, Restart
      <4>5. CASE RestoreFails \/ NextInterval \/ Copy
        BY <4>5 DEF RestoreFails, NextInterval, Copy, containerVars, RepositoryInv, FileTypes
      <4>6. QED
        BY <2>4, <4>2, <4>3, <4>4, <4>5
    <3>4. /\ upload' \in [at : {"idle", "commit", "prune"}, copy : Database \cup {Nothing}, bucket : Slot]
          /\ upload'.at = "commit" => upload'.copy \in Database
      <4>1. 0 \in Slot
        BY SnapshotAssumption DEF Slot
      <4>2. QED
        BY <2>4, <4>1 DEF Restore, RestoreFails, OpenDatabase, StoreEvent, Restart, NextInterval, Copy, NoUpload,
                    containerVars, BucketTime, RepositoryInv, FileTypes
    <3>5. QED
      BY <2>2, <2>3, <3>1, <3>2, <3>3, <3>4 DEF repository, RepositoryInv, FileTypes
  <2>5. CASE CommitFails \/ Prune
    <3>1. upload' = NoUpload /\ 0 \in Slot
      BY <2>5, SnapshotAssumption DEF CommitFails, Prune, Slot
    <3>2. FileTypes'
      BY <2>5, <3>1 DEF CommitFails, Prune, NoUpload, RepositoryInv, FileTypes
    <3>3. uploaded # Nothing => uploaded \in storage'
      BY <2>3, <2>5 DEF CommitFails, Prune
    <3>4. QED
      BY <2>2, <2>5, <3>2, <3>3 DEF CommitFails, Prune
  <2>6. CASE UNCHANGED snapshotVars
    BY <2>2, <2>3, <2>6 DEF snapshotVars, containerVars, repository, RepositoryInv, FileTypes
  <2>7. QED
    BY <2>1, <2>4, <2>5, <2>6 DEF SnapshotNext, Upload
<1>3. QED
  BY <1>1, <1>2, PTL DEF SnapshotSpec

(* The rest of the types. *)
StorageTypes ==
  /\ started \in BOOLEAN /\ intact \in BOOLEAN /\ written \in 0..MaxWritten
  /\ checksum \in Database \cup {Nothing} /\ uploaded \in Database \cup {Nothing}
  /\ storage \subseteq Database

LEMMA StorageTypesStep ==
  ASSUME RepositoryInv, StorageTypes, [SnapshotNext]_snapshotVars
  PROVE  StorageTypes'
<1>1. upload.at = "commit" => upload.copy \in Database
  BY DEF RepositoryInv, FileTypes
<1>2. CASE Commit
  <2>1. PICK available \in BOOLEAN : CommitFiles(available)
    BY <1>2 DEF Commit
  <2>2. checksum' = upload.copy /\ uploaded' = upload.copy /\ storage' = storage \cup {upload.copy}
    BY <1>2, <2>1 DEF Commit, CommitFiles
  <2>3. QED
    BY <1>1, <1>2, <2>2 DEF Commit, StorageTypes
<1>3. CASE CommitFails \/ Prune
  BY <1>1, <1>3 DEF CommitFails, Prune, StorageTypes
<1>4. CASE StoreEvent
  BY <1>4, SnapshotAssumption DEF StoreEvent, repository, StorageTypes
<1>5. CASE Restore \/ RestoreFails \/ OpenDatabase \/ Restart \/ NextInterval \/ Copy \/ UNCHANGED snapshotVars
  BY <1>5 DEF Restore, RestoreFails, OpenDatabase, Restart, NextInterval, Copy, snapshotVars, repository,
              containerVars, StorageTypes
<1>6. QED
  BY <1>2, <1>3, <1>4, <1>5 DEF SnapshotNext, Upload

(* The container, its upload and the repository are always well typed. *)
THEOREM SnapshotTypeCorrect == SnapshotSpec => []SnapshotTypeOK
<1>1. SnapshotInit => StorageTypes
  <2>1. ASSUME SnapshotInit PROVE StorageTypes
    <3>1. {1} \in Database
      BY SnapshotAssumption DEF Database, Written
    <3>2. started \in BOOLEAN /\ intact \in BOOLEAN
      BY <2>1 DEF SnapshotInit
    <3>3. plain \in Database \cup {Nothing}
      BY <2>1, <3>1 DEF SnapshotInit
    <3>4. storage \subseteq Database
      BY <2>1, <3>3 DEF SnapshotInit
    <3>5. written \in 0..MaxWritten
      BY <2>1, SnapshotAssumption DEF SnapshotInit
    <3>6. QED
      BY <2>1, <3>2, <3>3, <3>4, <3>5 DEF SnapshotInit, StorageTypes
  <2>2. QED
    BY <2>1
<1>2. RepositoryInv /\ StorageTypes => SnapshotTypeOK
  BY DEF RepositoryInv, FileTypes, StorageTypes, SnapshotTypeOK
<1>3. RepositoryInv /\ StorageTypes /\ [SnapshotNext]_snapshotVars => StorageTypes'
  BY StorageTypesStep
<1>4. QED
  BY <1>1, <1>2, <1>3, RepositoryInvariant, PTL DEF SnapshotSpec

(***************************************************************************)
(* For any number of files to keep and with or without the plain file, a   *)
(* restore gets the database committed last, and its content is stored.    *)
(***************************************************************************)
THEOREM RestoreGetsLastUpload == SnapshotSpec => []RestoresLastUpload
<1>1. RepositoryInv => RestoresLastUpload
  BY DEF RepositoryInv, PointerInv
<1>2. QED
  BY <1>1, RepositoryInvariant, PTL

-----------------------------------------------------------------------------

(* While every restore succeeds, the database and the copy contain what was committed. *)
ContainerInv ==
  /\ ~started => local = Nothing /\ upload.at # "commit"
  /\ upload.at = "commit" => local # Nothing /\ upload.copy # Nothing /\ upload.copy \subseteq local
  /\ intact /\ uploaded # Nothing =>
       /\ started => local # Nothing /\ uploaded \subseteq local
       /\ upload.at = "commit" => uploaded \subseteq upload.copy

LEMMA ContainerStep ==
  ASSUME RepositoryInv, ContainerInv, [SnapshotNext]_snapshotVars
  PROVE  ContainerInv'
<1>1. CASE Restore
  <2>1. Latest = uploaded
    BY DEF RepositoryInv, PointerInv, RestoresLastUpload
  <2>2. QED
    BY <1>1, <2>1 DEF Restore, repository, ContainerInv
<1>2. CASE RestoreFails
  BY <1>2 DEF RestoreFails, repository, ContainerInv
<1>3. CASE OpenDatabase
  BY <1>3, NothingAssumption DEF OpenDatabase, repository, ContainerInv, Database
<1>4. CASE StoreEvent
  <2>1. local \subseteq local' /\ local' # Nothing
    <3>1. local' \in Database
      BY <1>4, SnapshotAssumption DEF StoreEvent, RepositoryInv, FileTypes, Database, Written
    <3>2. QED
      BY <1>4, <3>1, NothingAssumption DEF StoreEvent
  <2>2. QED
    BY <1>4, <2>1 DEF StoreEvent, repository, ContainerInv
<1>5. CASE Restart
  BY <1>5 DEF Restart, NoUpload, repository, ContainerInv
<1>6. CASE NextInterval
  BY <1>6 DEF NextInterval, containerVars, repository, ContainerInv
<1>7. CASE Copy
  BY <1>7 DEF Copy, repository, ContainerInv
<1>8. CASE Commit
  <2>1. upload'.at # "commit"
    BY <1>8 DEF Commit, NoUpload, RepositoryInv, FileTypes
  <2>2. uploaded' = upload.copy /\ UNCHANGED <<local, started, intact>>
    BY <1>8 DEF Commit
  <2>3. QED
    BY <1>8, <2>1, <2>2 DEF Commit, ContainerInv
<1>9. CASE CommitFails \/ Prune
  BY <1>9 DEF CommitFails, Prune, NoUpload, ContainerInv
<1>10. CASE UNCHANGED snapshotVars
  BY <1>10 DEF snapshotVars, containerVars, repository, ContainerInv
<1>11. QED
  BY <1>1, <1>2, <1>3, <1>4, <1>5, <1>6, <1>7, <1>8, <1>9, <1>10 DEF SnapshotNext, Upload

(* Until a restore fails, what was committed stays in every later commit, across restarts. *)
THEOREM UploadedIsKept == SnapshotSpec => NothingUploadedLost
<1>1. SnapshotInit => ContainerInv
  BY DEF SnapshotInit, NoUpload, ContainerInv
<1>2. RepositoryInv /\ ContainerInv /\ [SnapshotNext]_snapshotVars => ContainerInv'
  BY ContainerStep
<1>3. ContainerInv /\ [SnapshotNext]_snapshotVars =>
        [intact' /\ uploaded # Nothing => uploaded' # Nothing /\ uploaded \subseteq uploaded']_snapshotVars
  <2> SUFFICES ASSUME ContainerInv, SnapshotNext, intact', uploaded # Nothing
               PROVE  uploaded' # Nothing /\ uploaded \subseteq uploaded'
    OBVIOUS
  <2>1. CASE Commit
    BY <2>1 DEF Commit, ContainerInv
  <2>2. CASE ~Commit
    BY <2>2 DEF SnapshotNext, Upload, Restore, RestoreFails, OpenDatabase, StoreEvent, Restart, NextInterval, Copy,
                Prune, CommitFails, repository
  <2>3. QED
    BY <2>1, <2>2
<1>4. QED
  BY <1>1, <1>2, <1>3, RepositoryInvariant, PTL DEF SnapshotSpec, NothingUploadedLost

-----------------------------------------------------------------------------
(* What the history keeps. *)

LEMMA SlotsFinite == \A S \in SUBSET Slot : IsFiniteSet(S) /\ Cardinality(S) \in Nat /\ S \in SUBSET Nat
<1>1. MaxInterval \in Nat
  BY SnapshotAssumption
<1>2. IsFiniteSet(Slot) /\ Slot \in SUBSET Nat
  BY <1>1, FS_Interval DEF Slot
<1>3. QED
  BY <1>2, FS_Subset, FS_CardinalityType

(* The newest n of some files are n at most: the oldest of them has fewer than n newer ones. *)
LEMMA NewestAreFew ==
  ASSUME NEW S \in SUBSET Slot, NEW n \in Nat
  PROVE  Newest(S, n) \in SUBSET S /\ Cardinality(Newest(S, n)) <= n
<1> DEFINE N == Newest(S, n)
<1>1. N \in SUBSET S /\ N \in SUBSET Slot
  BY DEF Newest
<1>2. CASE N = {}
  BY <1>1, <1>2, FS_EmptySet
<1>3. CASE N # {}
  <2>1. N \in SUBSET Nat
    BY <1>1, SlotsFinite
  <2>2. PICK m \in N : \A y \in N : <<y, m>> \notin OpToRel(<, Nat)
    BY <1>3, <2>1, NatLessThanWellFounded, WFMin
  <2>3. \A y \in N : m <= y
    <3> SUFFICES ASSUME NEW y \in N PROVE m <= y
      OBVIOUS
    <3>1. <<y, m>> \notin {ss \in Nat \X Nat : ss[1] < ss[2]}
      BY <2>2 DEF OpToRel
    <3>2. QED
      BY <2>1, <3>1
  <2> DEFINE newer == {c \in S : c > m}
  <2>4. newer \in SUBSET Slot /\ Cardinality(newer) < n
    BY <2>2 DEF Newest
  <2>5. N \in SUBSET (newer \cup {m})
    BY <1>1, <2>1, <2>3
  <2> HIDE DEF N, newer
  <2>6. IsFiniteSet(newer) /\ Cardinality(newer) \in Nat
    BY <2>4, SlotsFinite
  <2>7. IsFiniteSet(newer \cup {m}) /\ Cardinality(newer \cup {m}) <= Cardinality(newer) + 1
    <3>1. /\ IsFiniteSet(newer \cup {m})
          /\ Cardinality(newer \cup {m}) = IF m \in newer THEN Cardinality(newer) ELSE Cardinality(newer) + 1
      BY <2>6, FS_AddElement
    <3>2. QED
      BY <2>6, <3>1
  <2>8. Cardinality(N) <= Cardinality(newer \cup {m})
    BY <2>5, <2>7, FS_Subset
  <2>9. Cardinality(N) \in Nat /\ Cardinality(newer \cup {m}) \in Nat
    <3>1. N \in SUBSET Slot /\ newer \cup {m} \in SUBSET Slot
      BY <1>1, <2>4
    <3>2. QED
      BY <3>1, SlotsFinite
  <2>10. Cardinality(N) <= n
    BY <2>4, <2>6, <2>7, <2>8, <2>9
  <2>11. QED
    BY <1>1, <2>10 DEF N
<1>4. QED
  BY <1>2, <1>3

(* A union has no more elements than its parts. *)
LEMMA UnionIsFew ==
  ASSUME NEW S \in SUBSET Slot, NEW T \in SUBSET Slot
  PROVE  Cardinality(S \cup T) <= Cardinality(S) + Cardinality(T)
<1>1. S \cap T \in SUBSET Slot
  OBVIOUS
<1>2. Cardinality(S \cup T) = Cardinality(S) + Cardinality(T) - Cardinality(S \cap T)
  BY SlotsFinite, FS_Union
<1>3. Cardinality(S) \in Nat /\ Cardinality(T) \in Nat /\ Cardinality(S \cap T) \in Nat
  BY <1>1, SlotsFinite
<1>4. QED
  BY <1>2, <1>3

(* What a commit retains: the current file, files that were there, and RotateKeep at most. *)
LEMMA RetainedIsBounded ==
  ASSUME NEW current \in Slot, NEW previous \in SUBSET Slot, NEW existing \in SUBSET Slot
  PROVE  LET kept == Retained(current, previous, existing) IN
         /\ current \in kept /\ kept \subseteq {current} \cup previous \cup existing
         /\ Cardinality(kept) <= RotateKeep
<1> DEFINE listed == {current} \cup Newest(existing \ {current}, RotateKeep - 1)
           kept == listed \cup Newest(previous \ listed, RotateKeep - Cardinality(listed))
<1>1. RotateKeep \in Nat /\ RotateKeep - 1 \in Nat
  BY KeepAssumption
<1>2. /\ Newest(existing \ {current}, RotateKeep - 1) \in SUBSET (existing \ {current})
      /\ Cardinality(Newest(existing \ {current}, RotateKeep - 1)) <= RotateKeep - 1
  BY <1>1, NewestAreFew
<1>3. {current} \in SUBSET Slot /\ Newest(existing \ {current}, RotateKeep - 1) \in SUBSET Slot
  BY <1>2
<1>4. listed \in SUBSET Slot /\ listed \subseteq {current} \cup existing /\ current \in listed
  BY <1>2
<1>5. Cardinality(listed) <= RotateKeep
  <2>1. Cardinality({current}) = 1
    BY FS_Singleton
  <2>2. Cardinality(listed)
          <= Cardinality({current}) + Cardinality(Newest(existing \ {current}, RotateKeep - 1))
    BY <1>3, UnionIsFew
  <2>3. /\ Cardinality(listed) \in Nat
        /\ Cardinality(Newest(existing \ {current}, RotateKeep - 1)) \in Nat
    BY <1>3, <1>4, SlotsFinite
  <2>4. QED
    BY <1>1, <1>2, <2>1, <2>2, <2>3
<1> HIDE DEF listed
<1>6. Cardinality(listed) \in Nat /\ RotateKeep - Cardinality(listed) \in Nat
  BY <1>1, <1>4, <1>5, SlotsFinite
<1>7. previous \ listed \in SUBSET Slot
  OBVIOUS
<1>8. /\ Newest(previous \ listed, RotateKeep - Cardinality(listed)) \in SUBSET (previous \ listed)
      /\ Cardinality(Newest(previous \ listed, RotateKeep - Cardinality(listed)))
           <= RotateKeep - Cardinality(listed)
  BY <1>6, <1>7, NewestAreFew
<1>9. Newest(previous \ listed, RotateKeep - Cardinality(listed)) \in SUBSET Slot
  BY <1>8
<1>10. current \in kept /\ kept \subseteq {current} \cup previous \cup existing
  BY <1>4, <1>8
<1>11. Cardinality(kept) <= RotateKeep
  <2>1. Cardinality(kept)
          <= Cardinality(listed) + Cardinality(Newest(previous \ listed, RotateKeep - Cardinality(listed)))
    BY <1>4, <1>9, UnionIsFew
  <2>2. /\ Cardinality(kept) \in Nat
        /\ Cardinality(Newest(previous \ listed, RotateKeep - Cardinality(listed))) \in Nat
    BY <1>4, <1>9, SlotsFinite
  <2>3. QED
    BY <1>1, <1>6, <1>8, <2>1, <2>2
<1>12. kept = Retained(current, previous, existing)
  BY DEF Retained, listed
<1>13. QED
  BY <1>10, <1>11, <1>12

LEMMA CommitRetains ==
  ASSUME RepositoryInv, HistoryIsRetained, Commit
  PROVE  HistoryIsRetained'
<1>1. PICK available \in BOOLEAN : CommitFiles(available)
  BY DEF Commit
<1> DEFINE current == IF NeedsUpload(available) \/ manifest = Nothing THEN upload.bucket ELSE manifest.latest
           previous == IF manifest = Nothing THEN {} ELSE manifest.retained
           existing == IF available THEN Listed(history) ELSE {}
           retained == Retained(current, previous, existing)
           deleted == Deleted(previous, existing, retained, available)
<1>2. upload.copy # Nothing /\ upload.bucket \in Slot
  BY NothingAssumption DEF RepositoryInv, FileTypes, Commit
<1>3. previous = Listed(history) /\ previous \in SUBSET Slot
  BY DEF HistoryIsRetained, Listed
<1>4. existing \in {previous, {}} /\ (~available => existing = {}) /\ (available => existing = previous)
  BY <1>3
<1>5. current \in Slot /\ (~NeedsUpload(available) => manifest # Nothing /\ current \in previous)
  BY <1>2, <1>3 DEF NeedsUpload, HistoryIsRetained
<1>6. /\ history' = [b \in Slot |-> IF b \in deleted THEN Nothing
                                    ELSE IF NeedsUpload(available) /\ b = upload.bucket THEN upload.copy
                                    ELSE history[b]]
      /\ manifest' = IF NeedsUpload(available) \/ deleted # {} \/ previous # retained
                     THEN [latest |-> current, retained |-> retained] ELSE manifest
  BY <1>1 DEF CommitFiles
<1>7. NeedsUpload(available) => current = upload.bucket
  OBVIOUS
<1>8. deleted = previous \ retained
  BY <1>4 DEF Deleted
<1> HIDE DEF current, previous, existing, retained, deleted
<1>9. /\ current \in retained /\ retained \subseteq {current} \cup previous
      /\ Cardinality(retained) <= RotateKeep
  <2>1. existing \in SUBSET Slot
    BY <1>3, <1>4
  <2>2. /\ current \in retained /\ retained \subseteq {current} \cup previous \cup existing
        /\ Cardinality(retained) <= RotateKeep
    BY <1>3, <1>5, <2>1, RetainedIsBounded DEF retained
  <2>3. QED
    BY <1>4, <2>2
<1>10. Listed(history') = retained
  <2>1. \A b \in Slot : b \in previous <=> history[b] # Nothing
    BY <1>3 DEF Listed
  <2>2. \A b \in Slot : history'[b] # Nothing <=> b \in retained
    <3> SUFFICES ASSUME NEW b \in Slot PROVE history'[b] # Nothing <=> b \in retained
      OBVIOUS
    <3>1. history'[b] = IF b \in deleted THEN Nothing
                        ELSE IF NeedsUpload(available) /\ b = upload.bucket THEN upload.copy
                        ELSE history[b]
      BY <1>6
    <3>2. CASE NeedsUpload(available) /\ b = upload.bucket
      BY <1>2, <1>7, <1>8, <1>9, <3>1, <3>2
    <3>3. CASE ~(NeedsUpload(available) /\ b = upload.bucket)
      BY <1>5, <1>7, <1>8, <1>9, <2>1, <3>1, <3>3
    <3>4. QED
      BY <3>2, <3>3
  <2>3. retained \subseteq Slot
    BY <1>3, <1>5, <1>9
  <2>4. QED
    BY <2>2, <2>3 DEF Listed
<1>11. CASE manifest' = [latest |-> current, retained |-> retained]
  <2>1. manifest' # Nothing
    <3>1. manifest' \in Manifest
      BY <1>3, <1>5, <1>9, <1>11 DEF Manifest
    <3>2. QED
      BY <3>1, NothingAssumption
  <2>2. QED
    BY <1>9, <1>10, <1>11, <2>1 DEF HistoryIsRetained
<1>12. CASE ~NeedsUpload(available) /\ previous = retained /\ manifest' = manifest
  BY <1>5, <1>9, <1>10, <1>12 DEF HistoryIsRetained, previous
<1>13. QED
  BY <1>6, <1>11, <1>12

(***************************************************************************)
(* For any number of files to keep and of rotation intervals, whatever     *)
(* listing, commit or answer fails, the history directory holds exactly    *)
(* what the manifest retains: RotateKeep files at most, the latest one     *)
(* among them, and none that a later upload would not find.                *)
(***************************************************************************)
THEOREM HistoryIsBounded == SnapshotSpec => []HistoryIsRetained
<1>1. SnapshotInit => HistoryIsRetained
  BY DEF SnapshotInit, HistoryIsRetained, Listed
<1>2. RepositoryInv /\ HistoryIsRetained /\ [SnapshotNext]_snapshotVars => HistoryIsRetained'
  <2> SUFFICES ASSUME RepositoryInv, HistoryIsRetained, [SnapshotNext]_snapshotVars
               PROVE  HistoryIsRetained'
    OBVIOUS
  <2>1. CASE Commit
    BY <2>1, CommitRetains
  <2>2. CASE ~Commit
    <3>1. UNCHANGED <<history, manifest>>
      BY <2>2 DEF SnapshotNext, Upload, Restore, RestoreFails, OpenDatabase, StoreEvent, Restart, NextInterval,
                  Copy, Prune, CommitFails, repository, snapshotVars
    <3>2. QED
      BY <3>1 DEF HistoryIsRetained, Listed
  <2>3. QED
    BY <2>1, <2>2
<1>3. QED
  BY <1>1, <1>2, RepositoryInvariant, PTL DEF SnapshotSpec
=============================================================================
