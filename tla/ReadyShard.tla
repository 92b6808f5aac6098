------------------------------ MODULE ReadyShard ------------------------------
(***************************************************************************)
(* One shard of the scheduler (modelScheduler): the entries of the          *)
(* credentials of one provider that serve one model, and the indexes kept   *)
(* beside them: the ready ones by priority, each with a rotation cursor,    *)
(* and the waiting ones. Pure operators on a shard; the functions of        *)
(* scheduler.go that take s.mu are the actions of module Scheduler.         *)
(*                                                                          *)
(* Ids are numbers ordered like the id strings of the credentials. A view   *)
(* (readyView) is the set of its ids; the position of an id in the sorted   *)
(* slice of the code is its rank in that set.                               *)
(***************************************************************************)
EXTENDS Integers, FiniteSets

CONSTANTS Ids, Priorities

ASSUME ShardAssumption ==
  /\ Ids \subseteq Nat /\ IsFiniteSet(Ids)
  /\ Priorities \subseteq Int
  /\ \E top \in Priorities : \A p \in Priorities : p <= top

States  == {"ready", "cooldown", "blocked", "disabled"}
Waiting == {"cooldown", "blocked"}

\* What the scheduler keeps of a credential for the model of the shard
\* (scheduledAuthMeta and the fields isAuthBlockedForModel reads of its auth).
Meta(Providers) ==
  [provider: Providers, pri: Priorities, ws: BOOLEAN, supports: BOOLEAN,
   off: BOOLEAN, exceeded: BOOLEAN, next: Nat, recover: Nat]

Entry == [state: States, at: Nat, pri: Priorities, ws: BOOLEAN]
View  == [ids: SUBSET Ids, cursor: Nat]

IsShard(s) ==
  /\ s = [entries |-> s.entries, ready |-> s.ready, blocked |-> s.blocked]
  /\ DOMAIN s.entries \subseteq Ids /\ s.entries \in [DOMAIN s.entries -> Entry]
  /\ DOMAIN s.ready \subseteq Priorities
  /\ s.ready \in [DOMAIN s.ready -> [all: View, ws: View]]
  /\ s.blocked \subseteq Ids

NewShard(entries) == [entries |-> entries, ready |-> [p \in {} |-> 0], blocked |-> {}]

-----------------------------------------------------------------------------
(* Availability.                                                             *)

Blocked(a, now) == a.off \/ a.next > now

EntryOf(a, now) ==
  [state |-> IF a.off THEN "disabled"
             ELSE IF ~Blocked(a, now) THEN "ready"
             ELSE IF a.exceeded THEN "cooldown" ELSE "blocked",
   at    |-> IF a.off \/ ~Blocked(a, now) THEN 0
             ELSE IF a.recover > now THEN a.recover ELSE a.next,
   pri   |-> a.pri,
   ws    |-> a.ws]

-----------------------------------------------------------------------------
(* The indexes.                                                              *)

InState(s, S)     == {c \in DOMAIN s.entries : s.entries[c].state \in S}
ReadyAt(s, p)     == {c \in InState(s, {"ready"}) : s.entries[c].pri = p}
WebsocketAt(s, p) == {c \in ReadyAt(s, p) : s.entries[c].ws}

\* Mutant: an old cursor is brought into range by one subtraction.
ViewOfSubtracting(S, cursor) ==
  [ids |-> S, cursor |-> IF S = {} THEN 0 ELSE cursor - Cardinality(S)]

\* restoreReadyViewCursors: a rotation goes on where the old index left it.
ViewOf(S, cursor) ==
  [ids |-> S, cursor |-> IF S = {} THEN 0 ELSE cursor % Cardinality(S)]

OldCursors(s, p) ==
  IF p \in DOMAIN s.ready
  THEN [all |-> s.ready[p].all.cursor, ws |-> s.ready[p].ws.cursor]
  ELSE [all |-> 0, ws |-> 0]

RebuildIndexes(s) ==
  [entries |-> s.entries,
   ready   |-> [p \in {s.entries[c].pri : c \in InState(s, {"ready"})} |->
                  [all |-> ViewOf(ReadyAt(s, p), OldCursors(s, p).all),
                   ws  |-> ViewOf(WebsocketAt(s, p), OldCursors(s, p).ws)]],
   blocked |-> InState(s, Waiting)]

WithEntry(s, c, e) ==
  [s EXCEPT !.entries = [x \in DOMAIN s.entries \cup {c} |-> IF x = c THEN e ELSE s.entries[x]]]

\* Mutant: a changed priority alone does not rebuild the indexes.
UpsertIgnoresPriority(s, c, e) ==
  IF c \in DOMAIN s.entries /\ s.entries[c] = [e EXCEPT !.pri = s.entries[c].pri]
  THEN WithEntry(s, c, e) ELSE RebuildIndexes(WithEntry(s, c, e))

\* upsertEntryLocked: the indexes are left alone when nothing they read changed.
UpsertEntry(s, c, e) ==
  IF c \in DOMAIN s.entries /\ s.entries[c] = e
  THEN WithEntry(s, c, e) ELSE RebuildIndexes(WithEntry(s, c, e))

RemoveEntry(s, c) ==
  IF c \in DOMAIN s.entries
  THEN RebuildIndexes([s EXCEPT !.entries = [x \in DOMAIN s.entries \ {c} |-> s.entries[x]]])
  ELSE s

\* Mutant: an entry whose retry time is now is not yet looked at.
ExpiredStrictly(s, now) == {c \in s.blocked : s.entries[c].at # 0 /\ s.entries[c].at < now}

\* promoteExpiredLocked walks the index of the waiting entries.
Expired(s, now) == {c \in s.blocked : s.entries[c].at # 0 /\ s.entries[c].at <= now}

PromoteExpired(s, meta, now) ==
  IF Expired(s, now) = {} THEN s
  ELSE RebuildIndexes([s EXCEPT !.entries =
         [c \in DOMAIN s.entries |->
            IF c \in Expired(s, now) THEN EntryOf(meta[c], now) ELSE s.entries[c]]])

\* ensureModelLocked on first use: every credential that serves the model.
BuildShard(meta, C, now) ==
  RebuildIndexes(NewShard([c \in C |-> EntryOf(meta[c], now)]))

-----------------------------------------------------------------------------
(* The choice. allowed are the ids the request has not tried, or the one it is *)
(* pinned to.                                                                *)

Highest(S) == CHOOSE p \in S : \A q \in S : q <= p
First(S)   == CHOOSE c \in S : \A d \in S : c <= d

Offers(s, allowed)   == {p \in DOMAIN s.ready : s.ready[p].all.ids \cap allowed # {}}
OffersWs(s, allowed) == {p \in DOMAIN s.ready : s.ready[p].ws.ids \cap allowed # {}}

\* Mutant: the priority comes first for a websocket request too.
BestPriorityAnyTransport(s, preferWs, allowed) == Highest(Offers(s, allowed))

\* highestReadyPriorityLocked: a websocket request takes a websocket credential
\* of a lower priority before any other.
BestPriority(s, preferWs, allowed) ==
  Highest(IF preferWs /\ OffersWs(s, allowed) # {} THEN OffersWs(s, allowed)
                                                  ELSE Offers(s, allowed))

Rank(c, S) == Cardinality({d \in S : d < c})

\* pickRoundRobin: the first allowed id from the cursor on, around the view.
InTurn(v, allowed) ==
  LET size    == Cardinality(v.ids)
      dist(c) == (Rank(c, v.ids) + size - (v.cursor % size)) % size
  IN CHOOSE c \in v.ids \cap allowed : \A d \in v.ids \cap allowed : dist(c) <= dist(d)

\* pickReadyAtPriorityLocked: the id picked and the shard it leaves.
PickAt(s, p, preferWs, fillFirst, allowed) ==
  LET useWs  == preferWs /\ p \in OffersWs(s, allowed)
      bucket == s.ready[p]
      view   == IF useWs THEN bucket.ws ELSE bucket.all
      id     == IF fillFirst THEN First(view.ids \cap allowed) ELSE InTurn(view, allowed)
      moved  == [view EXCEPT !.cursor = IF fillFirst THEN @ ELSE Rank(id, view.ids) + 1]
  IN [id    |-> id,
      shard |-> [s EXCEPT !.ready[p] = IF useWs THEN [bucket EXCEPT !.ws = moved]
                                                ELSE [bucket EXCEPT !.all = moved]]]

-----------------------------------------------------------------------------
(* The indexes say what the entries say, whatever upserts skipped a rebuild.  *)

IndexExact(s) ==
  /\ DOMAIN s.ready = {s.entries[c].pri : c \in InState(s, {"ready"})}
  /\ \A p \in DOMAIN s.ready : /\ s.ready[p].all.ids = ReadyAt(s, p)
                               /\ s.ready[p].ws.ids = WebsocketAt(s, p)
  /\ s.blocked = InState(s, Waiting)
=============================================================================
