------------------------------ MODULE Scheduler ------------------------------
(***************************************************************************)
(* The scheduler (authScheduler) for one model and several providers: every *)
(* function that takes s.mu is one action. The Manager decides when they    *)
(* run and with which snapshots (module Conductor); here any snapshot may   *)
(* arrive at any time, and requests pick with every combination of tried,   *)
(* pinned and websocket options.                                            *)
(***************************************************************************)
EXTENDS ReadyShard, Sequences

CONSTANTS
  Order,      \* the providers of a mixed request, in its order
  WsProviders,\* the providers that prefer the websocket transport
  Snapshots,  \* Snapshots[c]: the snapshots of credential c that may arrive
  MaxTried,   \* bound of the credentials a request has tried
  MaxTime     \* bound of the clock

Providers == {Order[i] : i \in 1..Len(Order)}

ASSUME SchedulerAssumption ==
  /\ Len(Order) \in Nat \ {0, 1}
  /\ \A i, j \in 1..Len(Order) : Order[i] = Order[j] => i = j
  /\ WsProviders \subseteq Providers
  /\ \A c \in Ids : Snapshots[c] \subseteq Meta(Providers)
  /\ MaxTried \in Nat
  /\ MaxTime \in Nat

VARIABLES
  now,      \* the clock
  fillFirst,\* strategy: fill-first, else round-robin
  meta,     \* authProviders and providerScheduler.auths: the snapshot of each id
  shards,   \* providers: the shard of each provider that was picked from
  turn,     \* mixedCursors: the slot of the rotation of mixed requests
  out,      \* history: the last pick, until anything else happens
  passed    \* history: for each id, the mixed picks since a pick last took it

vars == <<now, fillFirst, meta, shards, turn, out, passed>>

-----------------------------------------------------------------------------
NoPick   == [provider |-> {}, allowed |-> {}, preferWs |-> FALSE, id |-> {}]
NoneLate == [c \in Ids |-> 0]

Put(f, k, v)   == [x \in DOMAIN f \cup {k} |-> IF x = k THEN v ELSE f[x]]
Drop(f, k)     == [x \in DOMAIN f \ {k} |-> f[x]]

Serving(f, pv) == {c \in DOMAIN f : f[c].provider = pv /\ f[c].supports}

\* ensureModelLocked.
EnsureModel(pv) ==
  IF pv \in DOMAIN shards THEN PromoteExpired(shards[pv], meta, now)
                          ELSE BuildShard(meta, Serving(meta, pv), now)

Ensured(P) == [pv \in DOMAIN shards \cup P |-> IF pv \in P THEN EnsureModel(pv) ELSE shards[pv]]

\* What a request may be given.
Allowed(pinned, tried) == (IF pinned = {} THEN Ids ELSE pinned) \ tried

-----------------------------------------------------------------------------
Tick ==
  /\ now < MaxTime
  /\ now' = now + 1
  /\ out' = NoPick
  /\ UNCHANGED <<fillFirst, meta, shards, turn, passed>>

\* setSelector.
SetSelector ==
  /\ fillFirst' = ~fillFirst
  /\ turn' = 0
  /\ out' = NoPick
  /\ passed' = NoneLate
  /\ UNCHANGED <<now, meta, shards>>

\* Mutant: a credential that changed its provider stays in the old one's shard.
EntriesLeftBehind(c, a) ==
  [pv \in DOMAIN shards |->
     IF pv = a.provider /\ a.supports THEN UpsertEntry(shards[pv], c, EntryOf(a, now))
     ELSE IF pv = a.provider THEN RemoveEntry(shards[pv], c) ELSE shards[pv]]

\* upsertAuthLocked: out of the shard of any other provider, into its own.
EntriesAfter(c, a) ==
  [pv \in DOMAIN shards |->
     IF pv = a.provider /\ a.supports THEN UpsertEntry(shards[pv], c, EntryOf(a, now))
                                      ELSE RemoveEntry(shards[pv], c)]

UpsertAuth(c, a) ==
  /\ meta'   = Put(meta, c, a)
  /\ shards' = EntriesAfter(c, a)
  /\ out'    = NoPick
  /\ passed' = NoneLate
  /\ UNCHANGED <<now, fillFirst, turn>>

\* removeAuthLocked, of a removed credential or a disabled snapshot.
RemoveAuth(c) ==
  /\ meta'   = Drop(meta, c)
  /\ shards' = [pv \in DOMAIN shards |-> RemoveEntry(shards[pv], c)]
  /\ out'    = NoPick
  /\ passed' = NoneLate
  /\ UNCHANGED <<now, fillFirst, turn>>

\* rebuild: every provider and cursor is dropped; here the snapshots it is given
\* are those the scheduler has.
Rebuild ==
  /\ shards' = [pv \in {} |-> 0]
  /\ turn'   = 0
  /\ out'    = NoPick
  /\ passed' = NoneLate
  /\ UNCHANGED <<now, fillFirst, meta>>

-----------------------------------------------------------------------------
(* Picking.                                                                  *)

\* The slots of a mixed rotation: each provider has as many as it has ready ids
\* at the best priority. SegmentStart(.., i) is the first slot of provider i.
ReadySlots(sh, p) ==
  {x \in (1..Len(Order)) \X Ids : /\ p \in DOMAIN sh[Order[x[1]]].ready
                                  /\ x[2] \in sh[Order[x[1]]].ready[p].all.ids}

SegmentStart(sh, p, i) == Cardinality({x \in ReadySlots(sh, p) : x[1] < i})
TotalWeight(sh, p)     == Cardinality(ReadySlots(sh, p))

\* The provider whose segment holds the slot.
Holder(sh, p, slot) ==
  CHOOSE i \in 1..Len(Order) :
    SegmentStart(sh, p, i) <= slot /\ slot < SegmentStart(sh, p, i + 1)

\* The providers in the order a rotation starting in provider s tries them.
Around(s, i) == (i + Len(Order) - s) % Len(Order)

\* Fairness of a rotation is counted while nothing but rotation happens: the
\* ready sets stay what they were and requests neither retry nor are pinned.
Waited(sh, p, id, all) ==
  LET base == IF sh = shards THEN passed ELSE NoneLate
  IN [c \in Ids |->
        IF c = id THEN 0
        ELSE IF all /\ \E pv \in Providers : p \in DOMAIN sh[pv].ready /\ c \in sh[pv].ready[p].all.ids
             THEN base[c] + 1 ELSE base[c]]

Picked(P, allowed, preferWs, id) ==
  out' = [provider |-> P, allowed |-> allowed, preferWs |-> preferWs, id |-> id]

PickFails(P, allowed, preferWs) ==
  /\ Picked(P, allowed, preferWs, {})
  /\ passed' = NoneLate
  /\ UNCHANGED turn

\* pickSingleWithStrategy, and pickMixedWithStrategy of one provider.
PickSingle(pv, pinned, tried, websocket) ==
  LET sh       == Ensured({pv})
      allowed  == Allowed(pinned, tried)
      preferWs == websocket /\ pv \in WsProviders /\ pinned = {}
  IN /\ IF Offers(sh[pv], allowed) = {}
        THEN PickFails({pv}, allowed, preferWs) /\ shards' = sh
        ELSE LET p    == BestPriority(sh[pv], preferWs, allowed)
                 pick == PickAt(sh[pv], p, preferWs, fillFirst, allowed)
             IN /\ Picked({pv}, allowed, preferWs, {pick.id})
                /\ shards' = [sh EXCEPT ![pv] = pick.shard]
                /\ passed' = IF pinned = {} /\ tried = {} /\ ~fillFirst
                             THEN Waited(sh, p, pick.id, FALSE) ELSE NoneLate
                /\ UNCHANGED turn
     /\ UNCHANGED <<now, fillFirst, meta>>

Able(sh, p, allowed) == {i \in 1..Len(Order) : p \in Offers(sh[Order[i]], allowed)}

NextAble(s, able) == CHOOSE j \in able : \A k \in able : Around(s, j) <= Around(s, k)

\* Mutant: the rotation goes on where the provider's segment ends.
MixedChoiceSkipsSegment(sh, p, allowed) ==
  LET slot == turn % TotalWeight(sh, p)
      i    == NextAble(Holder(sh, p, slot), Able(sh, p, allowed))
  IN [provider |-> Order[i], turn |-> SegmentStart(sh, p, i + 1)]

\* The rotation of mixed requests: the provider whose segment holds the slot, or
\* the next one that has an allowed id; the slot after the one used is next.
MixedChoice(sh, p, allowed) ==
  LET slot == turn % TotalWeight(sh, p)
      s    == Holder(sh, p, slot)
      i    == NextAble(s, Able(sh, p, allowed))
  IN [provider |-> Order[i],
      turn     |-> 1 + (IF i = s THEN slot ELSE SegmentStart(sh, p, i))]

FirstProvider(sh, p, allowed) == Order[First(Able(sh, p, allowed))]

\* pickMixedWithStrategy, not pinned.
PickMixed(tried) ==
  LET sh      == Ensured(Providers)
      allowed == Allowed({}, tried)
      offered == UNION {Offers(sh[pv], allowed) : pv \in Providers}
  IN /\ IF offered = {}
        THEN PickFails(Providers, allowed, FALSE) /\ shards' = sh
        ELSE LET p      == Highest(offered)
                 choice == MixedChoice(sh, p, allowed)
                 pv     == IF fillFirst THEN FirstProvider(sh, p, allowed) ELSE choice.provider
                 pick   == PickAt(sh[pv], p, FALSE, fillFirst, allowed)
             IN /\ Picked(Providers, allowed, FALSE, {pick.id})
                /\ shards' = [sh EXCEPT ![pv] = pick.shard]
                /\ turn' = IF fillFirst THEN turn ELSE choice.turn
                /\ passed' = IF tried = {} /\ ~fillFirst
                             THEN Waited(sh, p, pick.id, TRUE) ELSE NoneLate
     /\ UNCHANGED <<now, fillFirst, meta>>

\* pickMixedWithStrategy, pinned: the provider of the id decides.
PickMixedPinned(c, tried) ==
  IF c \notin DOMAIN meta
  THEN /\ PickFails(Providers, Allowed({c}, tried), FALSE)
       /\ UNCHANGED <<now, fillFirst, meta, shards>>
  ELSE PickSingle(meta[c].provider, {c}, tried, FALSE)

-----------------------------------------------------------------------------
Init ==
  /\ now = 1
  /\ fillFirst \in BOOLEAN
  /\ meta = [c \in {} |-> 0]
  /\ shards = [pv \in {} |-> 0]
  /\ turn = 0
  /\ out = NoPick
  /\ passed = NoneLate

Tries == {T \in SUBSET Ids : Cardinality(T) <= MaxTried}

Next ==
  \/ Tick
  \/ SetSelector
  \/ \E c \in Ids : \E a \in Snapshots[c] : UpsertAuth(c, a)
  \/ \E c \in Ids : RemoveAuth(c)
  \/ Rebuild
  \/ \E pv \in Providers, tried \in Tries : PickSingle(pv, {}, tried, FALSE)
  \/ \E pv \in WsProviders, tried \in Tries : PickSingle(pv, {}, tried, TRUE)
  \/ \E pv \in Providers, c \in Ids : \E tried \in SUBSET {c} : PickSingle(pv, {c}, tried, FALSE)
  \/ \E tried \in Tries : PickMixed(tried)
  \/ \E c \in Ids : \E tried \in SUBSET {c} : PickMixedPinned(c, tried)

Spec == Init /\ [][Next]_vars

-----------------------------------------------------------------------------
TypeOK ==
  /\ now \in Nat
  /\ fillFirst \in BOOLEAN
  /\ DOMAIN meta \subseteq Ids /\ meta \in [DOMAIN meta -> Meta(Providers)]
  /\ DOMAIN shards \subseteq Providers /\ \A pv \in DOMAIN shards : IsShard(shards[pv])
  /\ turn \in Nat
  /\ out \in [provider: SUBSET Providers, allowed: SUBSET Ids, preferWs: BOOLEAN, id: SUBSET Ids]
  /\ passed \in [Ids -> Nat]

\* Shards are maintained one entry at a time: at every moment each holds exactly
\* the credentials of its provider that serve the model, and its indexes say
\* what its entries say (scheduler.go:489, 642, 698, 870).
ShardsExact ==
  \A pv \in DOMAIN shards : /\ DOMAIN shards[pv].entries = Serving(meta, pv)
                            /\ IndexExact(shards[pv])

PickMade == out.provider # {} /\ out.id # {}

Candidates == {c \in out.allowed : \E pv \in out.provider : c \in Serving(meta, pv)}

\* A pick returns a credential its snapshot allows now, of the highest priority
\* among the allowed ones that are ready; a websocket request takes the best
\* websocket credential if there is one (pickReadyLocked, pickMixed).
PicksTheBest ==
  PickMade =>
    LET ready == {c \in Candidates : shards[meta[c].provider].entries[c].state = "ready"}
        ws    == {c \in ready : meta[c].ws}
        group == IF out.preferWs /\ ws # {} THEN ws ELSE ready
    IN \A id \in out.id : /\ id \in group
                          /\ ~Blocked(meta[id], now)
                          /\ \A c \in group : meta[c].pri <= meta[id].pri

\* A pick fails only when every credential it may use is out of service or
\* waiting for a time that is still ahead.
FailsOnlyWhenAllWait ==
  out.provider # {} /\ out.id = {} =>
    \A c \in Candidates : Blocked(meta[c], now) \/ meta[c].recover > now

\* Round-robin: while the ready credentials stay the same, a ready credential is
\* passed over by fewer mixed picks than there are slots, from one pick that takes
\* it to the next that does, be that a mixed one or one for its provider alone. A
\* pick for one provider that takes another credential cannot delay it (mixedCursors
\* and readyView.cursor together). It is no promise that a mixed request takes it:
\* single-provider requests share the view's cursor and may take each of its turns.
Slots(pri) ==
  Cardinality({c \in DOMAIN meta :
    /\ meta[c].pri = pri
    /\ meta[c].provider \in DOMAIN shards
    /\ c \in InState(shards[meta[c].provider], {"ready"})})

EveryoneInTurn == \A c \in DOMAIN meta : passed[c] > 0 => passed[c] < Slots(meta[c].pri)
=============================================================================
