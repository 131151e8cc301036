------------------------------- MODULE MCInbox -------------------------------
(* A good message, one the decoder rejects and one with neither a request id *)
(* nor a timestamp, under a clock that lets settled and failed rows expire.  *)
EXTENDS UsageInbox
CONSTANTS good, broken, undated, x, y, r

MCMessage == {good, broken, undated}
MCBody == [m \in MCMessage |-> IF m = undated THEN y ELSE x]
MCRequestId == [m \in MCMessage |-> IF m = good THEN r ELSE NoId]
MCMalformed == {broken}
MCUnstamped == {undated}
=============================================================================
