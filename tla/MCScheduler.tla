----------------------------- MODULE MCScheduler -----------------------------
(* Scheduler on a small instance: two providers of three credentials.        *)
EXTENDS Scheduler

CONSTANTS pa, pb

MCOrder == <<pa, pb>>

Snapshot(pv, pri, ws, next, recover) ==
  [provider |-> pv, pri |-> pri, ws |-> ws, supports |-> TRUE, off |-> FALSE,
   exceeded |-> recover > 0, next |-> next, recover |-> recover]

Unlisted(a) == [a EXCEPT !.supports = FALSE]

\* One waits, for a recovery later than its retry time; one is a websocket
\* credential or has a higher priority; one changes its provider and its models.
MCSnapshots ==
  [c \in Ids |->
     CASE c = 1 -> {Snapshot(pa, 1, FALSE, 0, 0), Snapshot(pa, 1, FALSE, 2, 3)}
       [] c = 2 -> {Snapshot(pa, 1, FALSE, 0, 0), Snapshot(pa, 0, TRUE, 0, 0)}
       [] c = 3 -> {Snapshot(pb, 1, FALSE, 0, 0), Unlisted(Snapshot(pa, 1, FALSE, 0, 0))}
       [] OTHER -> {}]
=============================================================================
