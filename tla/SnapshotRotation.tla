-------------------------- MODULE SnapshotRotation --------------------------
(***************************************************************************)
(* The database of a container without a disk of its own.  When the        *)
(* container starts, the latest snapshot is downloaded from a Hugging Face *)
(* repository; while it runs, a loop uploads a copy now and then, as a     *)
(* file of a rotating history that a manifest in the repository describes. *)
(*                                                                         *)
(* A database is the set of the usage events in it.  One action is a copy,  *)
(* a commit to the repository or a request that deletes from its storage.  *)
(***************************************************************************)
EXTENDS Naturals, FiniteSets

CONSTANTS
  Nothing,     \* a file that does not exist
  RotateKeep,  \* KEEPER_HF_ROTATE_KEEP
  WriteLatest, \* KEEPER_HF_WRITE_LATEST
  MaxWritten,   \* bound: usage events
  MaxInterval      \* bound: rotation intervals that pass

ASSUME KeepAssumption == RotateKeep \in Nat \ {0} /\ WriteLatest \in BOOLEAN
ASSUME SnapshotAssumption == MaxWritten \in Nat \ {0} /\ MaxInterval \in Nat

VARIABLES
  local,    \* app.db, or Nothing before the server has created it
  started,  \* the restore is over
  written,   \* usage events so far, in whichever database
  clock,    \* the current rotation interval
  upload,   \* what the upload loop does, with its temporary copy
  plain,    \* the file KEEPER_HF_PATH of the repository
  history,  \* the files of its history directory, by rotation interval
  manifest, \* its manifest file
  checksum, \* the database whose sha256 its state file holds
  storage,  \* the databases in its large-file storage
  uploaded, \* auxiliary: the database last committed
  intact    \* auxiliary: every restore has succeeded

containerVars == <<local, started, upload>>
repository == <<plain, history, manifest, checksum, storage, uploaded>>
snapshotVars == <<containerVars, repository, written, clock, intact>>

Written == 1..MaxWritten
Database == SUBSET Written
Slot == 0..MaxInterval
Manifest == [latest : Slot, retained : SUBSET Slot]
ASSUME NothingAssumption ==
  (\A d \in Database : d # Nothing) /\ (\A m \in Manifest : m # Nothing)

NoUpload == [at |-> "idle", copy |-> Nothing, bucket |-> 0]

SnapshotTypeOK ==
  /\ local \in Database \cup {Nothing}
  /\ started \in BOOLEAN /\ intact \in BOOLEAN
  /\ written \in 0..MaxWritten /\ clock \in Slot
  /\ upload \in [at : {"idle", "commit", "prune"}, copy : Database \cup {Nothing}, bucket : Slot]
  /\ plain \in Database \cup {Nothing}
  /\ history \in [Slot -> Database \cup {Nothing}]
  /\ manifest \in Manifest \cup {Nothing}
  /\ checksum \in Database \cup {Nothing}
  /\ uploaded \in Database \cup {Nothing}
  /\ storage \subseteq Database

(* A new repository, or one that holds the plain file of a deployment without rotation. *)
SnapshotInit ==
  /\ local = Nothing /\ started = FALSE /\ intact = TRUE
  /\ upload = NoUpload /\ clock = 0
  /\ \/ written = 0 /\ plain = Nothing
     \/ written = 1 /\ plain = {1}
  /\ history = [b \in Slot |-> Nothing]
  /\ manifest = Nothing
  /\ checksum = plain /\ uploaded = plain
  /\ storage = {plain} \ {Nothing}

-----------------------------------------------------------------------------
(* The start of the container. *)

Listed(h) == {b \in Slot : h[b] # Nothing}

(* The file a download gets: what the manifest calls the latest, else the plain one. *)
Latest ==
  IF manifest # Nothing /\ history[manifest.latest] # Nothing
  THEN history[manifest.latest] ELSE plain

Restore ==
  /\ ~started
  /\ started' = TRUE
  /\ local' = Latest
  /\ UNCHANGED <<upload, repository, written, clock, intact>>

(* The download fails, which is printed; the server starts all the same. *)
RestoreFails ==
  /\ ~started
  /\ started' = TRUE /\ intact' = FALSE
  /\ UNCHANGED <<local, upload, repository, written, clock>>

OpenDatabase ==
  /\ started /\ local = Nothing
  /\ local' = {}
  /\ UNCHANGED <<started, upload, repository, written, clock, intact>>

StoreEvent ==
  /\ local # Nothing /\ started /\ written < MaxWritten
  /\ written' = written + 1
  /\ local' = local \cup {written + 1}
  /\ UNCHANGED <<started, upload, repository, clock, intact>>

(* The container stops, and what it has not uploaded is gone. *)
Restart ==
  /\ local' = Nothing /\ started' = FALSE /\ upload' = NoUpload
  /\ UNCHANGED <<repository, written, clock, intact>>

NextInterval ==
  /\ clock < MaxInterval
  /\ clock' = clock + 1
  /\ UNCHANGED <<containerVars, repository, written, intact>>

-----------------------------------------------------------------------------
(* upload_snapshot. *)

(* The rotation interval the copy falls in. *)
BucketTime == clock

Copy ==
  /\ started /\ local # Nothing /\ upload.at = "idle"
  /\ upload' = [at |-> "commit", copy |-> local, bucket |-> BucketTime]
  /\ UNCHANGED <<local, started, repository, written, clock, intact>>

Newest(S, n) == {b \in S : Cardinality({c \in S : c > b}) < n}

(* The current path, then the newest of those listed, then of those in the manifest. *)
Retained(current, previous, existing) ==
  LET listed == {current} \cup Newest(existing \ {current}, RotateKeep - 1)
  IN listed \cup Newest(previous \ listed, RotateKeep - Cardinality(listed))

(* Mutant: only files that were listed are deleted. *)
DeletedIfListed(previous, existing, retained, available) == existing \ retained

Deleted(previous, existing, retained, available) ==
  (IF available THEN existing ELSE previous) \ retained

(* Mutant: an unchanged database is not uploaded whatever the manifest says. *)
NeedsUploadIfChanged(available) == checksum # upload.copy

(* The copy is new, or there is no latest file that the history is known to have. *)
NeedsUpload(available) ==
  \/ checksum # upload.copy
  \/ manifest = Nothing
  \/ available /\ history[manifest.latest] = Nothing

(* The files after a commit; available: whether the listing of the repository succeeded. *)
CommitFiles(available) ==
  LET existing == IF available THEN Listed(history) ELSE {}
      previous == IF manifest = Nothing THEN {} ELSE manifest.retained
      current  == IF NeedsUpload(available) \/ manifest = Nothing THEN upload.bucket ELSE manifest.latest
      retained == Retained(current, previous, existing)
      deleted  == Deleted(previous, existing, retained, available)
  IN /\ history' = [b \in Slot |-> IF b \in deleted THEN Nothing
                                     ELSE IF NeedsUpload(available) /\ b = upload.bucket THEN upload.copy
                                     ELSE history[b]]
     /\ manifest' = IF NeedsUpload(available) \/ deleted # {} \/ previous # retained
                    THEN [latest |-> current, retained |-> retained] ELSE manifest
     /\ plain' = IF WriteLatest
                 THEN IF checksum # upload.copy THEN upload.copy ELSE plain
                 ELSE IF available THEN Nothing ELSE plain
     /\ checksum' = upload.copy

(* The operations of one upload become one commit, or there are none. *)
Commit ==
  /\ upload.at = "commit"
  /\ \E available \in BOOLEAN : CommitFiles(available)
  /\ uploaded' = upload.copy
  /\ storage' = storage \cup {upload.copy}
  /\ \/ upload' = [upload EXCEPT !.at = "prune"]
     \/ upload' = NoUpload  \* the answer of the commit is lost
  /\ UNCHANGED <<local, started, written, clock, intact>>

(* Mutant: the state file is committed before the rest. *)
CommitFailsRecorded ==
  /\ upload.at = "commit"
  /\ storage' \in {storage, storage \cup {upload.copy}}
  /\ checksum' = upload.copy
  /\ upload' = NoUpload
  /\ UNCHANGED <<local, started, plain, history, manifest, uploaded, written, clock, intact>>

(* A download, the pre-upload of the file or the commit fails. *)
CommitFails ==
  /\ upload.at = "commit"
  /\ storage' \in {storage, storage \cup {upload.copy}}
  /\ upload' = NoUpload
  /\ UNCHANGED <<local, started, plain, history, manifest, checksum, uploaded, written, clock, intact>>

(* The large files of the current tree. *)
InTree == ({history[b] : b \in Slot} \cup {plain}) \ {Nothing}

(* prune_lfs_storage_if_due: it is not due, or fails, or deletes what the tree has not. *)
Prune ==
  /\ upload.at = "prune"
  /\ storage' \in {storage, storage \cap InTree}
  /\ upload' = NoUpload
  /\ UNCHANGED <<local, started, plain, history, manifest, checksum, uploaded, written, clock, intact>>

Upload == Copy \/ Commit \/ Prune

SnapshotNext ==
  \/ Restore \/ RestoreFails \/ OpenDatabase \/ StoreEvent \/ Restart \/ NextInterval
  \/ Upload \/ CommitFails

SnapshotSpec == SnapshotInit /\ [][SnapshotNext]_snapshotVars

(***************************************************************************)
(* The container starts and its loop goes on.  That not every commit fails *)
(* is assumed.                                                             *)
(***************************************************************************)
SnapshotFairness ==
  /\ WF_snapshotVars(Restore \/ RestoreFails) /\ WF_snapshotVars(OpenDatabase)
  /\ WF_snapshotVars(Copy) /\ SF_snapshotVars(Commit) /\ WF_snapshotVars(Commit \/ CommitFails) /\ WF_snapshotVars(Prune)

FairSnapshotSpec == SnapshotSpec /\ SnapshotFairness

-----------------------------------------------------------------------------
(* Properties. *)

(***************************************************************************)
(* A container that starts now gets the database committed last, and the   *)
(* repository's storage has it: rotation, a failed listing, a commit whose *)
(* answer was lost, an unchanged database or the move from the plain file  *)
(* to the history never leave the manifest pointing anywhere else.         *)
(***************************************************************************)
RestoresLastUpload == Latest = uploaded /\ (uploaded # Nothing => uploaded \in storage)

(***************************************************************************)
(* Unless a restore has failed, no event that was ever committed is lost,  *)
(* whenever the container restarts.                                        *)
(***************************************************************************)
NothingUploadedLost ==
  [][intact' /\ uploaded # Nothing => uploaded' # Nothing /\ uploaded \subseteq uploaded']_snapshotVars

(***************************************************************************)
(* The history holds what the manifest retains, the latest database among  *)
(* it, and at most RotateKeep files: none is left behind by an upload      *)
(* without a listing, a lost answer or a restart.                          *)
(***************************************************************************)
HistoryIsRetained ==
  IF manifest = Nothing THEN Listed(history) = {}
  ELSE /\ Listed(history) = manifest.retained
       /\ manifest.latest \in manifest.retained
       /\ Cardinality(manifest.retained) <= RotateKeep

(***************************************************************************)
(* An event is in the database a restore gets, in the end, unless the      *)
(* container stops before: failed commits, lost answers and an unchanged   *)
(* database in between do not keep it out.                                 *)
(***************************************************************************)
Restorable(e) == Latest # Nothing /\ e \in Latest
EventsUploaded ==
  \A e \in Written : (local # Nothing /\ e \in local) ~> (~started \/ Restorable(e))
=============================================================================
