----------------------------- MODULE MCMetadata -----------------------------
(* An auth file or a provider key; the latter is listed by one endpoint. *)
EXTENDS MetadataSync
CONSTANTS manual, file, key, gemini

MCSyncer == {Loop, manual}
MCProviderType == [p \in Provider |-> gemini]
=============================================================================
