------------------------------ MODULE MCCache ------------------------------
(* Two requests and room for a second, superfluous refresh. *)
EXTENDS OverviewCache
=============================================================================
