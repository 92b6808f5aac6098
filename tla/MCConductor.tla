----------------------------- MODULE MCConductor -----------------------------
(***************************************************************************)
(* Conductor on small instances.                                           *)
(*                                                                         *)
(* MCChanges.cfg and MCClock.cfg run the whole next-state relation, every  *)
(* goroutine free to run every operation; goroutines are interchangeable.  *)
(*                                                                         *)
(* The counterexamples are looked for under Races, which takes part of the *)
(* steps away so that what is found is a schedule a reader of the code     *)
(* recognises: one goroutine, the service's, applies auth updates and      *)
(* registers models; the others serve requests, refresh tokens and answer  *)
(* the management API.                                                     *)
(***************************************************************************)
EXTENDS Conductor, TLC

CONSTANT Service  \* the goroutine of the service under Races

Symmetry == Permutations(Procs)

ServiceStart(p) ==
  \/ \E c \in Creds, d \in BOOLEAN : ServiceApply(p, c, d)
  \/ \E c \in Creds : ServiceRemove(p, c)

RequestStart(p) ==
  \/ \E c \in Creds, m \in Models : MarkSuccess(p, c, m)
  \/ \E c \in Creds, m \in Models, k \in Kinds, ra \in RetryAfters : MarkFailure(p, c, m, k, ra)
  \/ \E c \in Creds : BeginReset(p, c) \/ BeginRefresh(p, c) \/ RefreshCatalog(p, c)
  \/ \E c \in Creds, d \in BOOLEAN : ManagementSetDisabled(p, c, d)

RacesNext ==
  \/ Tick
  \/ \E m \in Models : Pick(m)
  \/ ServiceStart(Service)
  \/ \E p \in Procs \ {Service} : RequestStart(p)
  \/ \E p \in Procs : Continue(p)

Races == Init /\ [][RacesNext]_vars
=============================================================================
