---------------------------- MODULE MCStoreRange ----------------------------
(* Two ranges that can be asked for. *)
EXTENDS OverviewStore
=============================================================================
