------------------------------ MODULE MCServed ------------------------------
(* The server's overview cache (two requests, room for a second, superfluous  *)
(* refresh) and the snapshots (two events, two files kept, four rotation      *)
(* intervals) share no state.  One run checks both: a behaviour is one of a   *)
(* single part, chosen at first, and the other rests.                         *)
EXTENDS OverviewCache, SnapshotRotation

VARIABLE part

servedVars == <<part, overviewVars, snapshotVars>>

ServedInit ==
  /\ part \in {"cache", "snapshot"}
  /\ CacheInit
  /\ SnapshotInit /\ (part # "snapshot" => written = 0)

OtherRests ==
  /\ UNCHANGED part
  /\ part # "cache" => UNCHANGED overviewVars
  /\ part # "snapshot" => UNCHANGED snapshotVars

ServedNext ==
  \/ part = "cache" /\ CacheNext /\ OtherRests
  \/ part = "snapshot" /\ SnapshotNext /\ OtherRests

(* CacheFairness of the cache's behaviours; no caller comes to a resting cache. *)
ActiveCacheFairness ==
  /\ \A c \in Caller : SF_overviewVars(Enter(c)) /\ WF_overviewVars(Wake(c))
  /\ \A b \in Builder : WF_overviewVars(BuildStep(b)) /\ SF_overviewVars(Build(b) /\ built'[b] # NoValue)
  /\ \E c \in Caller : WF_overviewVars(part = "cache" /\ Call(c))
  /\ WF_overviewVars(part = "cache" /\ CacheAges)

(* SnapshotFairness of the snapshots' behaviours; a resting container is not started. *)
ActiveSnapshotFairness ==
  /\ WF_snapshotVars(part = "snapshot" /\ (Restore \/ RestoreFails)) /\ WF_snapshotVars(OpenDatabase)
  /\ WF_snapshotVars(Copy) /\ SF_snapshotVars(Commit) /\ WF_snapshotVars(Commit \/ CommitFails) /\ WF_snapshotVars(Prune)

ServedSpec ==
  /\ ServedInit /\ [][ServedNext]_servedVars
  /\ ActiveCacheFairness /\ ActiveSnapshotFairness
=============================================================================
