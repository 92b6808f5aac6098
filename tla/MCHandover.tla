----------------------------- MODULE MCHandover -----------------------------
(***************************************************************************)
(* The two components where somebody waits for an answer across channels:   *)
(* the auto-refresh loop and a relay session. They share no state, so a      *)
(* behaviour runs one of them, `part`, while the other rests.                *)
(***************************************************************************)
EXTENDS AutoRefresh, RelaySession

VARIABLE part

CONSTANTS c1, c2, w1, q1

MCMaxSaid == [r \in {q1} |-> 3]

allVars == <<part, vars, relayVars>>

HandoverInit ==
  /\ part \in {"refresh", "relay"}
  /\ Init
  /\ part # "refresh" => Known = {}
  /\ RelayInit

RefreshStep(A) == part = "refresh" /\ A /\ UNCHANGED <<part, relayVars>>
RelayStep(A)   == part = "relay" /\ ~crashed /\ A /\ UNCHANGED <<part, vars>>

HandoverNext == RefreshStep(Next) \/ RelayStep(RelayNext)

\* That of AutoRefresh; of the relay, that a caller that can go on does, the reader
\* works off what it has read, cleanup finishes and context watchers run. Only one
\* part ever moves, so a condition on steps of both is that part's condition; a
\* request's caller and its watcher share one, which assumes less than one for each.
HandoverFairness ==
  /\ SF_allVars(RefreshStep(Tick \/ TimerFires))
  /\ WF_allVars(RefreshStep(LoopWorks) \/ RelayStep(Cleanup))
  /\ WF_allVars(RefreshStep(\E call \in calls : Notify(call)) \/ RelayStep(Reader))
  /\ WF_allVars(\/ RefreshStep(\E w \in Workers : Worker(w))
                \/ RelayStep(Caller(q1) \/ Watch(q1)))

HandoverSpec == HandoverInit /\ [][HandoverNext]_allVars /\ HandoverFairness
=============================================================================
