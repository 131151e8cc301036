----------------------------- MODULE MCWebParts -----------------------------
(* What the web client does on its own, from the session down to the tooltip. *)
(* The parts share no state, so one run checks them all: a behaviour is one   *)
(* of a single part, chosen at first, and the others rest.                    *)
EXTENDS ClientSession, ClientModal, ClientSelect, ClientPreferences, UsageTables, HealthTooltip

CONSTANTS u, v, w  \* values of a select

(* A select without a choice, with one, and with several in any order; with room below, with
   more room above, in a window too narrow or too low for the list, and scrolled half out. *)
MCOptionLists == {<<>>, <<u>>, <<u, v, w>>, <<w, u>>}
MCLayouts ==
  {[wide |-> p[1], high |-> p[2], left |-> p[3], right |-> p[3] + p[4], top |-> p[5], bottom |-> p[5] + 1] :
     p \in {<<8, 10, 2, 3, 1>>, <<8, 10, 6, 3, 6>>, <<4, 6, 0, 4, 3>>,
            <<1, 3, 0, 2, 1>>, <<8, 12, -2, 3, 5>>, <<8, 10, 2, 3, 11>>}}

Row(api, model, counts, tokens, latency) ==
  [api |-> api, model |-> model, requests |-> counts[1], success |-> counts[2],
   tokens |-> tokens[1], input |-> tokens[2], output |-> tokens[3], cached |-> tokens[4],
   latency |-> latency[1], samples |-> latency[2]]
MCAnalysisRow ==
  {Row("x", "m", <<2, 1>>, <<5, 1, 1, 3>>, <<4, 1>>),
   Row("y", "m", <<1, 1>>, <<4, 3, 1, 1>>, <<2, 2>>),
   Row("y", "n", <<0, 0>>, <<0, 0, 0, 0>>, <<0, 0>>),
   Row("x", "o", <<3, 2>>, <<2, 1, 1, 0>>, <<3, 3>>)}
MCIdentities ==
  {[id |-> 1, success |-> 2, failure |-> 1, total |-> 0],
   [id |-> 2, success |-> Missing, failure |-> 1, total |-> 4],
   [id |-> 3, success |-> 0, failure |-> 0, total |-> Missing]}
MCNameOrder == <<"m", "n", "o", "x", "y">>

(* The health grid of the tooltip needs neither preset ranges nor prices. *)
MCNone == [r \in {} |-> 1]
MCScrolls == {[x |-> 0, y |-> 0], [x |-> 2, y |-> -3], [x |-> -3, y |-> 0]}

-----------------------------------------------------------------------------
VARIABLE part

Parts == {"session", "modal", "select", "prefs", "tables", "health"}

WebInit ==
  /\ part \in Parts
  /\ SessionInit /\ (part # "session" => valid = {} /\ cookie = 0 /\ token = 0)
  /\ ModalInit
  /\ SelectInit /\ (part # "select" => /\ choices = <<>>
                                       /\ chosen = CHOOSE o \in OptionValues : TRUE
                                       /\ layout = CHOOSE l \in Layouts : TRUE)
  /\ PrefInit /\ (part # "prefs" => /\ system = "light" /\ prefs.theme = "light" /\ prefs.tab = FirstTab
                                    /\ saved.language = "en" /\ prefs.range = "all" /\ prefs.end = 0)
  /\ TablesInit
  /\ HealthInit /\ (part # "health" => scroll = CHOOSE s \in Scrolls : TRUE)

OthersRest ==
  /\ UNCHANGED part
  /\ part # "session" => UNCHANGED sessionVars
  /\ part # "modal" => UNCHANGED modalVars
  /\ part # "select" => UNCHANGED selectVars
  /\ part # "prefs" => UNCHANGED prefVars
  /\ part # "tables" => UNCHANGED tableVars
  /\ part # "health" => UNCHANGED healthVars

WebNext ==
  \/ part = "session" /\ SessionNext /\ OthersRest
  \/ part = "modal" /\ ModalNext /\ OthersRest
  \/ part = "select" /\ SelectNext /\ OthersRest
  \/ part = "prefs" /\ PrefNext /\ OthersRest
  \/ part = "tables" /\ TablesNext /\ OthersRest
  \/ part = "health" /\ HealthNext /\ OthersRest

(* At rest, as at first, the session has no fair action enabled. *)
WebSpec ==
  /\ WebInit
  /\ [][WebNext]_<<part, sessionVars, modalVars, selectVars, prefVars, tableVars, healthVars>>
  /\ SessionFairness
=============================================================================
