---------------------------- MODULE MCTagServices ----------------------------
(* Instances of TagServices for TLC. *)
EXTENDS TagServices

CONSTANTS bot, trial

\* It hangs, is rate-limited, or refuses the client.
Backoffs == [hung |-> 2, limited |-> 5, refusing |-> 30]
================================================================================
