------------------------------- MODULE MCKept -------------------------------
(* What is repeated, kept and filled in as time goes by: the rows of the    *)
(* inbox, the backups and the synthetic events.  The three share no state,  *)
(* so one run checks them: a behaviour is one of a single part, chosen at   *)
(* first, and the others rest.                                              *)
EXTENDS UsageInbox, BackupRunner, MetadataSync

CONSTANTS
  d1, d2, d3, x, r,       \* deliveries, their body, a request id
  manual, file, gemini     \* a manual sync, an auth file, a type

(* Three deliveries of one request: two without a request id, one with. *)
MCMessage == {d1, d2, d3}
MCBody == [m \in MCMessage |-> x]
MCRequestId == [m \in MCMessage |-> IF m = d2 THEN r ELSE NoId]

MCSyncer == {Loop, manual}
MCProviderType == [p \in Provider |-> gemini]

-----------------------------------------------------------------------------
VARIABLE part

KeptInit ==
  /\ part \in {"inbox", "backups", "backfill"}
  /\ Init /\ MetadataInit
  /\ BackupInit /\ (part # "backups" => interval = Day)

OthersRest ==
  /\ UNCHANGED part
  /\ part # "inbox" => UNCHANGED vars
  /\ part # "backups" => UNCHANGED backupVars
  /\ part # "backfill" => UNCHANGED metadataVars

KeptNext ==
  \/ part = "inbox" /\ Next /\ OthersRest
  \/ part = "backups" /\ BackupNext /\ OthersRest
  \/ part = "backfill" /\ MetadataNext /\ OthersRest

KeptSpec == KeptInit /\ [][KeptNext]_<<part, vars, backupVars, metadataVars>>
=============================================================================
