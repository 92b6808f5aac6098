----------------------------- MODULE MCExecution -----------------------------
(* Execution for a handler whose peek does not look for an error again.       *)
EXTENDS Execution

CONSTANTS c1

MCSettings == {[stream |-> TRUE, strict |-> FALSE, creds |-> {c1}, most |-> 0]}
=============================================================================
