------------------------------ MODULE MCStores ------------------------------
(***************************************************************************)
(* The components whose properties are invariants: the model registry, the   *)
(* usage pipeline, the cooldown files, the watcher's picture of the           *)
(* credential files, the execution of a client's request, a session of the    *)
(* Codex websocket executor, and a translated stream. They share no state, so *)
(* a behaviour runs one of them, `part`, while the others rest.               *)
(***************************************************************************)
EXTENDS MCRegistry, UpstreamSession, Execution, UsagePipeline, CooldownStore,
  AuthSync, ClaudeStream

VARIABLE part

CONSTANTS s1, a1, a2, g1, f1, w1, e1, e2, q1, q2

ASSUME PartsAssumption ==
  UsageAssumption /\ ExecutionAssumption /\ SyncAssumption /\ CallsAssumption

\* A stream with one credential, and answers that are none, with two.
Asked(stream, creds, most) ==
  [stream |-> stream, strict |-> stream, creds |-> creds, most |-> most]
MCSettings == {Asked(TRUE, {e1}, 0), Asked(FALSE, {e1, e2}, 0), Asked(FALSE, {e1, e2}, 1)}

Budget(changes, reloads, connects) ==
  [changes |-> changes, reloads |-> reloads, connects |-> connects]

MCBudgets == {Budget(2, 0, 0), Budget(1, 1, 0), Budget(0, 1, 1)}

MCBlocks == [openai |-> 2, codex |-> 3, gemini |-> 3, antigravity |-> 2]

allVars      == <<part, vars, usageVars, cooldownVars, syncVars, execVars, sessionVars,
                  streamVars>>

StoresInit ==
  /\ part \in {"registry", "usage", "cooldown", "sync", "request", "session", "stream"}
  /\ Init
  /\ UsageInit
  /\ CooldownInit
  /\ SyncInit
  /\ part # "sync" => disk = [f \in Files |-> 0] /\ budget = Budget(2, 0, 0)
  /\ ExecutionInit
  /\ part # "request" => setting = Asked(TRUE, {e1}, 0)
  /\ SessionInit
  /\ StreamInit
  /\ part # "stream" => upstream.format = "codex"

StoresNext ==
  \/ part = "registry" /\ Next
     /\ UNCHANGED <<part, usageVars, cooldownVars, syncVars, execVars, sessionVars, streamVars>>
  \/ part = "usage" /\ UsageNext
     /\ UNCHANGED <<part, vars, cooldownVars, syncVars, execVars, sessionVars, streamVars>>
  \/ part = "cooldown" /\ CooldownNext
     /\ UNCHANGED <<part, vars, usageVars, syncVars, execVars, sessionVars, streamVars>>
  \/ part = "sync" /\ SyncNext
     /\ UNCHANGED <<part, vars, usageVars, cooldownVars, execVars, sessionVars, streamVars>>
  \/ part = "request" /\ ExecutionNext
     /\ UNCHANGED <<part, vars, usageVars, cooldownVars, syncVars, sessionVars, streamVars>>
  \/ part = "session" /\ SessionNext
     /\ UNCHANGED <<part, vars, usageVars, cooldownVars, syncVars, execVars, streamVars>>
  \/ part = "stream" /\ StreamNext
     /\ UNCHANGED <<part, vars, usageVars, cooldownVars, syncVars, execVars, sessionVars>>

StoresSpec == StoresInit /\ [][StoresNext]_allVars

\* What SavedStays excepts is not followed further (a bound).
Sharp == ~blurred

=============================================================================
