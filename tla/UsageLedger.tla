---------------------------- MODULE UsageLedger ----------------------------
(***************************************************************************)
(* What the keeper promises about each usage message, whatever the tables  *)
(* and statements behind it: once stored it is counted or deliberately     *)
(* dropped and never silently lost; once counted it stays counted.         *)
(* Messages change fate independently, any number of them in one step      *)
(* (a crash or a cleanup settles several at once).                         *)
(***************************************************************************)
CONSTANT Message
VARIABLE fate

(***************************************************************************)
(* "stored" is the only fate that lies on both sides: before it a message  *)
(* can be lost, from it on it cannot.                                      *)
(***************************************************************************)
Fate == {"unsent", "upstream", "taken", "stored", "counted", "dropped", "lost"}

Moves == {<<"unsent", "upstream">>,
          <<"upstream", "taken">>, <<"upstream", "lost">>,
          <<"taken", "stored">>, <<"taken", "lost">>,
          <<"stored", "counted">>, <<"stored", "dropped">>}

LedgerInit == fate = [m \in Message |-> "unsent"]

LedgerNext ==
  /\ fate' \in [Message -> Fate]
  /\ \A m \in Message : fate'[m] = fate[m] \/ <<fate[m], fate'[m]>> \in Moves

LedgerSpec == LedgerInit /\ [][LedgerNext]_fate
=============================================================================
