--------------------------- MODULE Scheduler_proofs ---------------------------
(***************************************************************************)
(* Proofs about module Scheduler, for every set of credentials, providers,  *)
(* priorities and snapshots: types, the agreement of entries and indexes,   *)
(* what a pick returns, and that the two nested rotations leave nobody out.  *)
(***************************************************************************)
EXTENDS Scheduler, TLAPS, FiniteSetTheorems, WellFoundedInduction

-----------------------------------------------------------------------------
(* Shards.                                                                   *)

\* The ids of a shard are finitely many, so a view has a size and its members
\* have ranks.
LEMMA FiniteIds ==
  ASSUME NEW S \in SUBSET Ids
  PROVE  IsFiniteSet(S) /\ Cardinality(S) \in Nat /\ (S # {} => Cardinality(S) > 0)
<1>1. IsFiniteSet(S)  BY FS_Subset, ShardAssumption
<1>2. Cardinality(S) \in Nat  BY <1>1, FS_CardinalityType
<1>3. S # {} => Cardinality(S) # 0  BY <1>1, FS_EmptySet
<1>. QED  BY <1>1, <1>2, <1>3

LEMMA ViewType ==
  ASSUME NEW S \in SUBSET Ids, NEW n \in Nat
  PROVE  ViewOf(S, n) \in View /\ ViewOf(S, n).ids = S
<1>1. Cardinality(S) \in Nat /\ (S # {} => Cardinality(S) > 0)  BY FiniteIds
<1>2. CASE S = {}  BY <1>2 DEF ViewOf, View
<1>3. CASE S # {}
  <2>1. n % Cardinality(S) \in Nat  BY <1>1, <1>3
  <2>. QED  BY <2>1, <1>3 DEF ViewOf, View
<1>. QED  BY <1>2, <1>3

\* What RebuildIndexes needs of a shard and what it returns (scheduler.go:870).
Indexed(s) == IsShard(s) /\ IndexExact(s)

LEMMA RebuildCorrect ==
  ASSUME NEW s, IsShard(s)
  PROVE  Indexed(RebuildIndexes(s)) /\ RebuildIndexes(s).entries = s.entries
<1>. DEFINE r == RebuildIndexes(s)
            P == {s.entries[c].pri : c \in InState(s, {"ready"})}
<1>1. P \subseteq Priorities  BY DEF IsShard, InState, Entry
<1>2. ASSUME NEW p \in P
      PROVE  /\ OldCursors(s, p).all \in Nat /\ OldCursors(s, p).ws \in Nat
             /\ ReadyAt(s, p) \in SUBSET Ids /\ WebsocketAt(s, p) \in SUBSET Ids
  <2>1. ReadyAt(s, p) \in SUBSET Ids /\ WebsocketAt(s, p) \in SUBSET Ids
    BY DEF ReadyAt, WebsocketAt, InState, IsShard
  <2>2. CASE p \in DOMAIN s.ready
    <3>1. s.ready[p] \in [all: View, ws: View]  BY <2>2 DEF IsShard
    <3>. QED  BY <2>1, <2>2, <3>1 DEF OldCursors, View
  <2>3. CASE p \notin DOMAIN s.ready  BY <2>1, <2>3 DEF OldCursors
  <2>. QED  BY <2>2, <2>3
<1>3. /\ r.entries = s.entries /\ r.blocked = InState(s, Waiting)
      /\ DOMAIN r.ready = P
      /\ r = [entries |-> r.entries, ready |-> r.ready, blocked |-> r.blocked]
      /\ \A p \in P : r.ready[p] = [all |-> ViewOf(ReadyAt(s, p), OldCursors(s, p).all),
                                    ws  |-> ViewOf(WebsocketAt(s, p), OldCursors(s, p).ws)]
      /\ r.ready = [p \in P |-> r.ready[p]]
  BY DEF RebuildIndexes
<1>4. ASSUME NEW p \in P
      PROVE  /\ r.ready[p] \in [all: View, ws: View]
             /\ r.ready[p].all.ids = ReadyAt(s, p)
             /\ r.ready[p].ws.ids = WebsocketAt(s, p)
  <2>. DEFINE va == ViewOf(ReadyAt(s, p), OldCursors(s, p).all)
              vw == ViewOf(WebsocketAt(s, p), OldCursors(s, p).ws)
  <2>1. va \in View /\ va.ids = ReadyAt(s, p)  BY <1>2, ViewType
  <2>2. vw \in View /\ vw.ids = WebsocketAt(s, p)  BY <1>2, ViewType
  <2>3. r.ready[p] = [all |-> va, ws |-> vw]  BY <1>3
  <2>. HIDE DEF va, vw, r, P
  <2>. QED  BY <2>1, <2>2, <2>3
<1>5. /\ InState(r, {"ready"}) = InState(s, {"ready"}) /\ InState(r, Waiting) = InState(s, Waiting)
      /\ \A p \in P : ReadyAt(r, p) = ReadyAt(s, p) /\ WebsocketAt(r, p) = WebsocketAt(s, p)
  BY <1>3 DEF InState, ReadyAt, WebsocketAt
<1>6. IndexExact(r)  BY <1>3, <1>4, <1>5 DEF IndexExact
<1>7. IsShard(r)
  <2>1. r.ready \in [P -> [all: View, ws: View]]  BY <1>3, <1>4
  <2>2. r.blocked \subseteq Ids  BY <1>3 DEF InState, IsShard
  <2>. QED  BY <1>1, <1>3, <2>1, <2>2 DEF IsShard
<1>. QED  BY <1>3, <1>6, <1>7 DEF Indexed

\* A shard keeps its indexes through every operation on an entry; an upsert that
\* changes none of the fields the indexes read leaves them right (scheduler.go:642).
LEMMA UpsertCorrect ==
  ASSUME NEW s, Indexed(s), NEW c \in Ids, NEW e \in Entry
  PROVE  /\ Indexed(UpsertEntry(s, c, e))
         /\ DOMAIN UpsertEntry(s, c, e).entries = DOMAIN s.entries \cup {c}
         /\ \A x \in DOMAIN s.entries \cup {c} :
              UpsertEntry(s, c, e).entries[x] = IF x = c THEN e ELSE s.entries[x]
<1>. DEFINE w == WithEntry(s, c, e)
<1>1. IsShard(s) /\ IndexExact(s)  BY DEF Indexed
<1>2. /\ w = [entries |-> w.entries, ready |-> s.ready, blocked |-> s.blocked]
      /\ w.entries = [x \in DOMAIN s.entries \cup {c} |-> IF x = c THEN e ELSE s.entries[x]]
  BY <1>1 DEF WithEntry, IsShard
<1>3. w.entries \in [DOMAIN w.entries -> Entry] /\ DOMAIN w.entries \subseteq Ids
  BY <1>1, <1>2 DEF IsShard
<1>4. IsShard(w)  BY <1>1, <1>2, <1>3 DEF IsShard
<1>5. CASE c \in DOMAIN s.entries /\ s.entries[c] = e
  <2>1. w.entries = s.entries
    <3>1. s.entries = [x \in DOMAIN s.entries |-> s.entries[x]]  BY <1>1 DEF IsShard
    <3>. QED  BY <1>2, <1>5, <3>1
  <2>2. w = s  BY <1>1, <1>2, <2>1 DEF IsShard
  <2>3. UpsertEntry(s, c, e) = s  BY <1>5, <2>2 DEF UpsertEntry
  <2>. QED  BY <1>5, <2>3
<1>6. CASE ~(c \in DOMAIN s.entries /\ s.entries[c] = e)
  <2>1. UpsertEntry(s, c, e) = RebuildIndexes(w)  BY <1>6 DEF UpsertEntry
  <2>2. Indexed(RebuildIndexes(w)) /\ RebuildIndexes(w).entries = w.entries
    BY <1>4, RebuildCorrect
  <2>. QED  BY <1>2, <2>1, <2>2
<1>. QED  BY <1>5, <1>6

LEMMA RemoveCorrect ==
  ASSUME NEW s, Indexed(s), NEW c
  PROVE  /\ Indexed(RemoveEntry(s, c))
         /\ DOMAIN RemoveEntry(s, c).entries = DOMAIN s.entries \ {c}
         /\ \A x \in DOMAIN s.entries \ {c} : RemoveEntry(s, c).entries[x] = s.entries[x]
<1>. DEFINE w == [s EXCEPT !.entries = [x \in DOMAIN s.entries \ {c} |-> s.entries[x]]]
<1>1. IsShard(s)  BY DEF Indexed
<1>2. CASE c \in DOMAIN s.entries
  <2>1. /\ w = [entries |-> w.entries, ready |-> s.ready, blocked |-> s.blocked]
        /\ w.entries = [x \in DOMAIN s.entries \ {c} |-> s.entries[x]]
    BY <1>1 DEF IsShard
  <2>2. w.entries \in [DOMAIN w.entries -> Entry] /\ DOMAIN w.entries \subseteq Ids
    BY <1>1, <2>1 DEF IsShard
  <2>3. IsShard(w)  BY <1>1, <2>1, <2>2 DEF IsShard
  <2>4. Indexed(RebuildIndexes(w)) /\ RebuildIndexes(w).entries = w.entries
    BY <2>3, RebuildCorrect
  <2>5. RemoveEntry(s, c) = RebuildIndexes(w)  BY <1>2 DEF RemoveEntry
  <2>. QED  BY <2>1, <2>4, <2>5
<1>3. CASE c \notin DOMAIN s.entries  BY <1>3 DEF RemoveEntry
<1>. QED  BY <1>2, <1>3

\* Every snapshot gives an entry.
LEMMA EntryType ==
  ASSUME NEW a \in Meta(Providers), NEW t \in Nat
  PROVE  EntryOf(a, t) \in Entry
BY DEF EntryOf, Entry, Meta, States, Blocked

LEMMA PromoteCorrect ==
  ASSUME NEW s, Indexed(s), NEW f, NEW t \in Nat,
         \A c \in DOMAIN s.entries : f[c] \in Meta(Providers)
  PROVE  /\ Indexed(PromoteExpired(s, f, t))
         /\ DOMAIN PromoteExpired(s, f, t).entries = DOMAIN s.entries
         /\ \A c \in DOMAIN s.entries :
              PromoteExpired(s, f, t).entries[c] =
                IF c \in Expired(s, t) THEN EntryOf(f[c], t) ELSE s.entries[c]
<1>. DEFINE E == [c \in DOMAIN s.entries |->
                    IF c \in Expired(s, t) THEN EntryOf(f[c], t) ELSE s.entries[c]]
            w == [s EXCEPT !.entries = E]
<1>1. IsShard(s)  BY DEF Indexed
<1>2. CASE Expired(s, t) = {}  BY <1>2 DEF PromoteExpired
<1>3. CASE Expired(s, t) # {}
  <2>1. w = [entries |-> E, ready |-> s.ready, blocked |-> s.blocked]
    BY <1>1 DEF IsShard
  <2>2. E \in [DOMAIN E -> Entry] /\ DOMAIN E \subseteq Ids
    BY <1>1, EntryType DEF IsShard
  <2>3. IsShard(w)  BY <1>1, <2>1, <2>2 DEF IsShard
  <2>4. Indexed(RebuildIndexes(w)) /\ RebuildIndexes(w).entries = w.entries
    BY <2>3, RebuildCorrect
  <2>5. PromoteExpired(s, f, t) = RebuildIndexes(w)  BY <1>3 DEF PromoteExpired
  <2>. QED  BY <2>1, <2>4, <2>5
<1>. QED  BY <1>2, <1>3

LEMMA BuildCorrect ==
  ASSUME NEW f, NEW C \in SUBSET Ids, NEW t \in Nat, \A c \in C : f[c] \in Meta(Providers)
  PROVE  /\ Indexed(BuildShard(f, C, t))
         /\ DOMAIN BuildShard(f, C, t).entries = C
         /\ \A c \in C : BuildShard(f, C, t).entries[c] = EntryOf(f[c], t)
<1>. DEFINE E == [c \in C |-> EntryOf(f[c], t)]
            w == NewShard(E)
<1>1. w = [entries |-> E, ready |-> [p \in {} |-> 0], blocked |-> {}]  BY DEF NewShard
<1>2. \A c \in C : EntryOf(f[c], t) \in Entry  BY EntryType
<1>3. IsShard(w)
  <2>1. E \in [C -> Entry]  BY <1>2
  <2>2. DOMAIN w.ready = {} /\ w.ready = [p \in {} |-> 0]  BY <1>1
  <2>3. w.ready \in [DOMAIN w.ready -> [all: View, ws: View]]  BY <2>2
  <2>. HIDE DEF E
  <2>. QED  BY <1>1, <2>1, <2>2, <2>3 DEF IsShard
<1>4. Indexed(RebuildIndexes(w)) /\ RebuildIndexes(w).entries = w.entries
  BY <1>3, RebuildCorrect
<1>5. BuildShard(f, C, t) = RebuildIndexes(w)  BY DEF BuildShard
<1>. QED  BY <1>1, <1>4, <1>5

-----------------------------------------------------------------------------
(* Choices. Every CHOOSE of a pick has something to choose.                  *)

\* A non-empty set of naturals has a least member: the library's theorem takes
\* the property as an operator, so this one goes through well-founded relations.
LEMMA LeastNatural ==
  ASSUME NEW T \in SUBSET Nat, T # {}
  PROVE  \E x \in T : \A y \in T : x <= y
<1>. DEFINE R == {ss \in Nat \X Nat : ss[1] < ss[2]}
<1>1. IsWellFoundedOn(R, Nat)  BY NatLessThanWellFounded DEF OpToRel
<1>2. PICK x \in T : \A y \in T : ~ (<<y, x>> \in R)  BY <1>1, WFMin
<1>3. ASSUME NEW y \in T  PROVE x <= y
  <2>1. x \in Nat /\ y \in Nat /\ <<y, x>> \in Nat \X Nat  OBVIOUS
  <2>2. ~ (<<y, x>> \in R)  BY <1>2
  <2>3. ~ (y < x)  BY <2>1, <2>2
  <2>. QED  BY <2>1, <2>3
<1>. QED  BY <1>3

LEMMA LeastValue ==
  ASSUME NEW S, S # {}, NEW f \in [S -> Nat]
  PROVE  \E x \in S : \A y \in S : f[x] <= f[y]
<1>. DEFINE T == {f[x] : x \in S}
<1>1. T \in SUBSET Nat /\ T # {}  OBVIOUS
<1>2. PICK m \in T : \A y \in T : m <= y  BY <1>1, LeastNatural
<1>. QED  BY <1>2

LEMMA FirstIsLeast ==
  ASSUME NEW S \in SUBSET Nat, S # {}
  PROVE  First(S) \in S
<1>1. \E c \in S : \A d \in S : c <= d  BY LeastNatural
<1>. QED  BY <1>1 DEF First

LEMMA HighestIsGreatest ==
  ASSUME NEW S \in SUBSET Priorities, S # {}
  PROVE  Highest(S) \in S /\ \A q \in S : q <= Highest(S)
<1>1. PICK top \in Priorities : \A p \in Priorities : p <= top  BY ShardAssumption
<1>. DEFINE f == [p \in S |-> top - p]
<1>2. f \in [S -> Nat]  BY <1>1, ShardAssumption
<1>3. PICK p \in S : \A q \in S : f[p] <= f[q]  BY <1>2, LeastValue
<1>4. \A q \in S : q <= p
  <2>1. ASSUME NEW q \in S  PROVE q <= p
    <3>1. top - p <= top - q  BY <1>3
    <3>2. top \in Int /\ p \in Int /\ q \in Int  BY ShardAssumption
    <3>. QED  BY <3>1, <3>2
  <2>. QED  BY <2>1
<1>. QED  BY <1>4 DEF Highest

\* The rank of an id in a view is a position of the sorted slice of the code.
LEMMA RankType ==
  ASSUME NEW S \in SUBSET Ids, NEW c
  PROVE  Rank(c, S) \in Nat
BY FiniteIds DEF Rank

LEMMA InTurnIsAllowed ==
  ASSUME NEW v \in View, NEW allowed, v.ids \cap allowed # {}
  PROVE  InTurn(v, allowed) \in v.ids \cap allowed
<1>. DEFINE size == Cardinality(v.ids)
            S    == v.ids \cap allowed
            f    == [c \in S |-> (Rank(c, v.ids) + size - (v.cursor % size)) % size]
<1>1. v.ids \in SUBSET Ids /\ v.cursor \in Nat  BY DEF View
<1>2. size \in Nat /\ size > 0  BY <1>1, FiniteIds
<1>3. ASSUME NEW c \in S  PROVE f[c] \in Nat
  <2>1. Rank(c, v.ids) \in Nat  BY <1>1, RankType
  <2>2. v.cursor % size \in Int  BY <1>1, <1>2
  <2>3. Rank(c, v.ids) + size - (v.cursor % size) \in Int  BY <1>2, <2>1, <2>2
  <2>. HIDE DEF size
  <2>. QED  BY <1>2, <2>3
<1>4. f \in [S -> Nat]  BY <1>3
<1>5. PICK c \in S : \A d \in S : f[c] <= f[d]  BY <1>4, LeastValue
<1>6. \A c_1, d \in S : f[c_1] <= f[d] <=>
        (Rank(c_1, v.ids) + size - (v.cursor % size)) % size
          <= (Rank(d, v.ids) + size - (v.cursor % size)) % size
  OBVIOUS
<1>. QED  BY <1>5 DEF InTurn

\* A pick returns an allowed id of the view it chose and changes nothing of the
\* shard but the cursor of that view (scheduler.go:780).
LEMMA PickAtCorrect ==
  ASSUME NEW s, Indexed(s), NEW allowed, NEW p \in Offers(s, allowed),
         NEW preferWs \in BOOLEAN, NEW ff \in BOOLEAN
  PROVE  LET pick == PickAt(s, p, preferWs, ff, allowed)
         IN /\ Indexed(pick.shard)
            /\ pick.shard.entries = s.entries
            /\ pick.id \in ReadyAt(s, p) \cap allowed
            /\ preferWs /\ p \in OffersWs(s, allowed) => pick.id \in WebsocketAt(s, p)
<1>. DEFINE useWs  == preferWs /\ p \in OffersWs(s, allowed)
            bucket == s.ready[p]
            view   == IF useWs THEN bucket.ws ELSE bucket.all
            id     == IF ff THEN First(view.ids \cap allowed) ELSE InTurn(view, allowed)
            moved  == [view EXCEPT !.cursor = IF ff THEN @ ELSE Rank(id, view.ids) + 1]
            next   == IF useWs THEN [bucket EXCEPT !.ws = moved] ELSE [bucket EXCEPT !.all = moved]
            r      == [s EXCEPT !.ready[p] = next]
            pick   == PickAt(s, p, preferWs, ff, allowed)
<1>1. pick.id = id /\ pick.shard = r  BY DEF PickAt
<1>2. p \in DOMAIN s.ready /\ bucket.all.ids \cap allowed # {}  BY DEF Offers
<1>3. bucket \in [all: View, ws: View]  BY <1>2 DEF Indexed, IsShard
<1>4. /\ bucket.all.ids = ReadyAt(s, p) /\ bucket.ws.ids = WebsocketAt(s, p)
      /\ WebsocketAt(s, p) \subseteq ReadyAt(s, p)
  BY <1>2 DEF Indexed, IndexExact, WebsocketAt
<1>5. view \in View /\ view.ids \cap allowed # {}  BY <1>2, <1>3 DEF OffersWs
<1>6. id \in view.ids \cap allowed
  <2>1. view.ids \cap allowed \in SUBSET Nat  BY <1>5, ShardAssumption DEF View
  <2>2. First(view.ids \cap allowed) \in view.ids \cap allowed  BY <1>5, <2>1, FirstIsLeast
  <2>3. InTurn(view, allowed) \in view.ids \cap allowed  BY <1>5, InTurnIsAllowed
  <2>. QED  BY <2>2, <2>3
<1>7. moved \in View /\ moved.ids = view.ids
  <2>1. view.ids \in SUBSET Ids /\ view.cursor \in Nat  BY <1>5 DEF View
  <2>2. Rank(id, view.ids) \in Nat  BY <2>1, RankType
  <2>. HIDE DEF view, id
  <2>. QED  BY <1>5, <2>1, <2>2 DEF View
<1>8. /\ next \in [all: View, ws: View]
      /\ next.all.ids = ReadyAt(s, p) /\ next.ws.ids = WebsocketAt(s, p)
  <2>1. CASE useWs
    <3>1. moved.ids = bucket.ws.ids  BY <1>7, <2>1
    <3>. HIDE DEF moved, bucket, useWs
    <3>. QED  BY <1>3, <1>4, <1>7, <2>1, <3>1
  <2>2. CASE ~useWs
    <3>1. moved.ids = bucket.all.ids  BY <1>7, <2>2
    <3>. HIDE DEF moved, bucket, useWs
    <3>. QED  BY <1>3, <1>4, <1>7, <2>2, <3>1
  <2>. QED  BY <2>1, <2>2
<1>9. /\ r.entries = s.entries /\ r.blocked = s.blocked
      /\ r = [entries |-> r.entries, ready |-> r.ready, blocked |-> r.blocked]
      /\ r.ready = [s.ready EXCEPT ![p] = next]
  <2>. HIDE DEF next
  <2>. QED  BY DEF Indexed, IsShard
<1>10. Indexed(r)
  <2>. HIDE DEF r, next
  <2>1. \A c : /\ InState(r, c) = InState(s, c)
  BY <1>9 DEF InState
  <2>2. \A q : ReadyAt(r, q) = ReadyAt(s, q) /\ WebsocketAt(r, q) = WebsocketAt(s, q)
    BY <1>9, <2>1 DEF ReadyAt, WebsocketAt
  <2>3. IsShard(s) /\ IndexExact(s)  BY DEF Indexed
  <2>4. DOMAIN r.ready = DOMAIN s.ready /\ \A q \in DOMAIN s.ready :
           r.ready[q] = IF q = p THEN next ELSE s.ready[q]
    BY <1>9, <2>3 DEF IsShard
  <2>5. r.ready \in [DOMAIN r.ready -> [all: View, ws: View]]
    BY <1>8, <1>9, <2>3, <2>4 DEF IsShard
  <2>6. IsShard(r)  BY <1>9, <2>3, <2>4, <2>5 DEF IsShard
  <2>7. IndexExact(r)  BY <1>8, <1>9, <2>1, <2>2, <2>3, <2>4 DEF IndexExact
  <2>. QED  BY <2>6, <2>7 DEF Indexed
<1>. QED  BY <1>1, <1>4, <1>6, <1>9, <1>10

-----------------------------------------------------------------------------
(* The inductive invariant.                                                  *)

\* What a shard knows of a credential may be old, but only in one direction: a
\* ready entry was free and its snapshot has not changed, a waiting entry holds
\* one of the two times of its snapshot (scheduler.go:642, 698).
Sound(e, a, t) ==
  /\ e.pri = a.pri /\ e.ws = a.ws
  /\ e.state = "ready" => ~Blocked(a, t)
  /\ e.state = "disabled" => a.off
  /\ e.state \in Waiting => e.at \in {a.next, a.recover} /\ e.at > 0

ShardInv(s, f, pv, t) ==
  /\ Indexed(s)
  /\ DOMAIN s.entries = Serving(f, pv)
  /\ \A c \in DOMAIN s.entries : Sound(s.entries[c], f[c], t)

Inv == /\ TypeOK
       /\ \A pv \in DOMAIN shards : ShardInv(shards[pv], meta, pv, now)

LEMMA EntryIsSound ==
  ASSUME NEW a \in Meta(Providers), NEW t \in Nat
  PROVE  /\ Sound(EntryOf(a, t), a, t)
         /\ EntryOf(a, t).state \in Waiting => EntryOf(a, t).at > t
BY DEF EntryOf, Sound, Meta, Blocked, Waiting

LEMMA ServingTyped ==
  ASSUME NEW f, f \in [DOMAIN f -> Meta(Providers)], DOMAIN f \subseteq Ids, NEW pv
  PROVE  Serving(f, pv) \in SUBSET Ids /\ \A c \in Serving(f, pv) : f[c] \in Meta(Providers)
BY DEF Serving

LEMMA TickKeepsShard ==
  ASSUME NEW f, NEW pv, NEW s, NEW t \in Nat, ShardInv(s, f, pv, t),
         f \in [DOMAIN f -> Meta(Providers)]
  PROVE  ShardInv(s, f, pv, t + 1)
<1>1. \A c \in DOMAIN s.entries : f[c] \in Meta(Providers)  BY DEF ShardInv, Serving
<1>2. ASSUME NEW c \in DOMAIN s.entries  PROVE Sound(s.entries[c], f[c], t + 1)
  <2>1. Sound(s.entries[c], f[c], t) /\ f[c].next \in Nat  BY <1>1 DEF ShardInv, Meta
  <2>. QED  BY <2>1 DEF Sound, Blocked
<1>. QED  BY <1>2 DEF ShardInv

LEMMA UpsertKeepsShard ==
  ASSUME NEW f, NEW pv, NEW s, NEW t \in Nat, ShardInv(s, f, pv, t),
         NEW c \in Ids, NEW a \in Meta(Providers), a.provider = pv, a.supports
  PROVE  ShardInv(UpsertEntry(s, c, EntryOf(a, t)), Put(f, c, a), pv, t)
<1>. DEFINE e == EntryOf(a, t)
            r == UpsertEntry(s, c, e)
            g == Put(f, c, a)
<1>1. e \in Entry /\ Sound(e, a, t)  BY EntryType, EntryIsSound
<1>2. Indexed(s)  BY DEF ShardInv
<1>. HIDE DEF e
<1>3. /\ Indexed(r) /\ DOMAIN r.entries = DOMAIN s.entries \cup {c}
      /\ \A x \in DOMAIN s.entries \cup {c} : r.entries[x] = IF x = c THEN e ELSE s.entries[x]
  BY <1>1, <1>2, UpsertCorrect
<1>4. DOMAIN g = DOMAIN f \cup {c} /\ \A x \in DOMAIN g : g[x] = IF x = c THEN a ELSE f[x]
  BY DEF Put
<1>. HIDE DEF r, g
<1>5. Serving(g, pv) = Serving(f, pv) \cup {c}  BY <1>4 DEF Serving
<1>6. \A x \in Serving(f, pv) : x \in DOMAIN g  BY <1>4 DEF Serving
<1>7. \A x \in DOMAIN r.entries : Sound(r.entries[x], g[x], t)
  <2>1. ASSUME NEW x \in DOMAIN s.entries, x # c  PROVE Sound(r.entries[x], g[x], t)
    BY <1>3, <1>4, <1>6, <2>1 DEF ShardInv
  <2>2. Sound(r.entries[c], g[c], t)  BY <1>1, <1>3, <1>4
  <2>. QED  BY <1>3, <2>1, <2>2
<1>. QED  BY <1>3, <1>5, <1>7 DEF ShardInv, e, r, g

\* g differs from f at c alone, where it gives the shard nothing to hold.
LEMMA RemoveKeepsShard ==
  ASSUME NEW f, NEW g, NEW pv, NEW s, NEW t, ShardInv(s, f, pv, t), NEW c,
         Serving(g, pv) = Serving(f, pv) \ {c},
         \A x \in Serving(g, pv) : g[x] = f[x]
  PROVE  ShardInv(RemoveEntry(s, c), g, pv, t)
<1>. DEFINE r == RemoveEntry(s, c)
<1>1. /\ Indexed(r) /\ DOMAIN r.entries = DOMAIN s.entries \ {c}
      /\ \A x \in DOMAIN s.entries \ {c} : r.entries[x] = s.entries[x]
  BY RemoveCorrect DEF ShardInv
<1>2. DOMAIN r.entries = Serving(g, pv)  BY <1>1 DEF ShardInv
<1>. HIDE DEF r
<1>3. \A x \in DOMAIN r.entries : Sound(r.entries[x], g[x], t)  BY <1>1, <1>2 DEF ShardInv
<1>. QED  BY <1>1, <1>2, <1>3 DEF ShardInv, r

\* After ensureModelLocked every waiting entry waits for a time still ahead.
Current(s, t) == \A c \in DOMAIN s.entries : s.entries[c].state \in Waiting => s.entries[c].at > t

LEMMA EnsuredCorrect ==
  ASSUME Inv, NEW P \in SUBSET Providers
  PROVE  /\ DOMAIN Ensured(P) = DOMAIN shards \cup P
         /\ \A pv \in DOMAIN Ensured(P) : ShardInv(Ensured(P)[pv], meta, pv, now)
         /\ \A pv \in P : Current(Ensured(P)[pv], now)
<1>1. /\ now \in Nat /\ DOMAIN meta \subseteq Ids
      /\ meta \in [DOMAIN meta -> Meta(Providers)]
  BY DEF Inv, TypeOK
<1>2. ASSUME NEW pv \in P
      PROVE  ShardInv(EnsureModel(pv), meta, pv, now) /\ Current(EnsureModel(pv), now)
  <2>0. Serving(meta, pv) \in SUBSET Ids /\ \A c \in Serving(meta, pv) : meta[c] \in Meta(Providers)
    BY <1>1, ServingTyped
  <2>1. CASE pv \in DOMAIN shards
    <3>. DEFINE s == shards[pv]
                r == PromoteExpired(s, meta, now)
    <3>1. EnsureModel(pv) = r  BY <2>1 DEF EnsureModel
    <3>2. ShardInv(s, meta, pv, now)  BY <2>1 DEF Inv
    <3>3. \A c \in DOMAIN s.entries : meta[c] \in Meta(Providers)
      BY <2>0, <3>2 DEF ShardInv
    <3>4. /\ Indexed(r) /\ DOMAIN r.entries = DOMAIN s.entries
          /\ \A c \in DOMAIN s.entries :
               r.entries[c] = IF c \in Expired(s, now) THEN EntryOf(meta[c], now) ELSE s.entries[c]
      BY <1>1, <3>2, <3>3, PromoteCorrect DEF ShardInv
    <3>. HIDE DEF r, s
    <3>5. ASSUME NEW c \in DOMAIN r.entries
          PROVE  /\ Sound(r.entries[c], meta[c], now)
                 /\ r.entries[c].state \in Waiting => r.entries[c].at > now
      <4>1. meta[c] \in Meta(Providers) /\ c \in DOMAIN s.entries  BY <3>3, <3>4
      <4>2. CASE c \in Expired(s, now)
        <5>1. r.entries[c] = EntryOf(meta[c], now)  BY <3>4, <4>1, <4>2
        <5>. QED  BY <1>1, <4>1, <5>1, EntryIsSound
      <4>3. CASE c \notin Expired(s, now)
        <5>1. r.entries[c] = s.entries[c]  BY <3>4, <4>1, <4>3
        <5>2. Sound(s.entries[c], meta[c], now)  BY <3>2, <4>1 DEF ShardInv
        <5>3. ASSUME s.entries[c].state \in Waiting  PROVE s.entries[c].at > now
          <6>1. c \in s.blocked
            BY <3>2, <4>1, <5>3 DEF ShardInv, Indexed, IndexExact, InState
          <6>2. s.entries[c].at \in Nat /\ s.entries[c].at > 0
            BY <4>1, <5>2, <5>3 DEF Sound, Meta
          <6>. QED  BY <1>1, <4>3, <6>1, <6>2 DEF Expired
        <5>. QED  BY <5>1, <5>2, <5>3
      <4>. QED  BY <4>2, <4>3
    <3>. QED  BY <3>1, <3>2, <3>4, <3>5 DEF ShardInv, Current
  <2>2. CASE pv \notin DOMAIN shards
    <3>. DEFINE C == Serving(meta, pv)
                r == BuildShard(meta, C, now)
    <3>1. EnsureModel(pv) = r  BY <2>2 DEF EnsureModel
    <3>2. /\ Indexed(r) /\ DOMAIN r.entries = C
          /\ \A c \in C : r.entries[c] = EntryOf(meta[c], now)
      BY <1>1, <2>0, BuildCorrect
    <3>. HIDE DEF r
    <3>3. ASSUME NEW c \in C
          PROVE  /\ Sound(r.entries[c], meta[c], now)
                 /\ r.entries[c].state \in Waiting => r.entries[c].at > now
      BY <1>1, <2>0, <3>2, EntryIsSound
    <3>. QED  BY <3>1, <3>2, <3>3 DEF ShardInv, Current
  <2>. QED  BY <2>1, <2>2
<1>3. DOMAIN Ensured(P) = DOMAIN shards \cup P  BY DEF Ensured
<1>4. \A pv \in DOMAIN shards \cup P :
        Ensured(P)[pv] = IF pv \in P THEN EnsureModel(pv) ELSE shards[pv]
  BY DEF Ensured
<1>. QED  BY <1>2, <1>3, <1>4 DEF Inv

-----------------------------------------------------------------------------
(* Picking.                                                                  *)

LEMMA OffersCorrect ==
  ASSUME NEW s, Indexed(s), NEW allowed
  PROVE  /\ OffersWs(s, allowed) \subseteq Offers(s, allowed)
         /\ Offers(s, allowed) \in SUBSET Priorities
         /\ \A c \in DOMAIN s.entries \cap allowed :
              s.entries[c].state = "ready" =>
                /\ s.entries[c].pri \in Offers(s, allowed)
                /\ s.entries[c].ws => s.entries[c].pri \in OffersWs(s, allowed)
<1>1. IsShard(s) /\ IndexExact(s)  BY DEF Indexed
<1>2. OffersWs(s, allowed) \subseteq Offers(s, allowed)
  <2>1. \A p \in DOMAIN s.ready : s.ready[p].ws.ids \subseteq s.ready[p].all.ids
    BY <1>1 DEF IndexExact, WebsocketAt
  <2>. QED  BY <2>1 DEF Offers, OffersWs
<1>3. Offers(s, allowed) \in SUBSET Priorities  BY <1>1 DEF Offers, IsShard
<1>4. ASSUME NEW c \in DOMAIN s.entries \cap allowed, s.entries[c].state = "ready"
      PROVE  /\ s.entries[c].pri \in Offers(s, allowed)
             /\ s.entries[c].ws => s.entries[c].pri \in OffersWs(s, allowed)
  <2>1. c \in InState(s, {"ready"})  BY <1>4 DEF InState
  <2>2. s.entries[c].pri \in DOMAIN s.ready  BY <1>1, <2>1 DEF IndexExact
  <2>3. c \in s.ready[s.entries[c].pri].all.ids  BY <1>1, <2>1, <2>2 DEF IndexExact, ReadyAt
  <2>4. s.entries[c].ws => c \in s.ready[s.entries[c].pri].ws.ids
    BY <1>1, <2>1, <2>2 DEF IndexExact, ReadyAt, WebsocketAt
  <2>. QED  BY <2>2, <2>3, <2>4 DEF Offers, OffersWs
<1>. QED  BY <1>2, <1>3, <1>4

\* The members of a ready view are ready, of its priority.
LEMMA ReadyMembers ==
  ASSUME NEW s, NEW p, NEW id \in ReadyAt(s, p)
  PROVE  /\ id \in DOMAIN s.entries /\ s.entries[id].state = "ready" /\ s.entries[id].pri = p
         /\ id \in WebsocketAt(s, p) => s.entries[id].ws
BY DEF ReadyAt, WebsocketAt, InState

\* Nothing to offer from a shard that was just brought up to date: all wait.
LEMMA NoOfferAllWait ==
  ASSUME NEW s, NEW pv, NEW allowed, Inv, ShardInv(s, meta, pv, now), Current(s, now),
         Offers(s, allowed) = {}
  PROVE  \A c \in Serving(meta, pv) \cap allowed : Blocked(meta[c], now) \/ meta[c].recover > now
<1>1. SUFFICES ASSUME NEW c \in Serving(meta, pv) \cap allowed
               PROVE  Blocked(meta[c], now) \/ meta[c].recover > now
  OBVIOUS
<1>. DEFINE e == s.entries[c]
<1>2. Indexed(s) /\ c \in DOMAIN s.entries /\ Sound(e, meta[c], now)  BY DEF ShardInv
<1>3. e.state # "ready"  BY <1>2, OffersCorrect
<1>4. e.state \in States
  <2>1. e \in Entry  BY <1>2 DEF Indexed, IsShard
  <2>. QED  BY <2>1 DEF Entry
<1>5. CASE e.state = "disabled"  BY <1>2, <1>5 DEF Sound, Blocked
<1>6. CASE e.state \in Waiting
  <2>1. e.at > now /\ e.at \in {meta[c].next, meta[c].recover}
    BY <1>2, <1>6 DEF Current, Sound
  <2>. QED  BY <2>1 DEF Blocked
<1>. QED  BY <1>3, <1>4, <1>5, <1>6 DEF States, Waiting

LEMMA AllowedType ==
  ASSUME NEW pinned \in SUBSET Ids, NEW tried
  PROVE  Allowed(pinned, tried) \in SUBSET Ids
BY DEF Allowed

LEMMA WaitedType ==
  ASSUME Inv, NEW sh, NEW p, NEW id, NEW all
  PROVE  Waited(sh, p, id, all) \in [Ids -> Nat] /\ NoneLate \in [Ids -> Nat]
<1>. DEFINE base == IF sh = shards THEN passed ELSE NoneLate
<1>1. base \in [Ids -> Nat] /\ NoneLate \in [Ids -> Nat]  BY DEF Inv, TypeOK, NoneLate
<1>. HIDE DEF base
<1>2. \A c \in Ids : base[c] \in Nat /\ base[c] + 1 \in Nat  BY <1>1
<1>3. Waited(sh, p, id, all) =
        [c \in Ids |->
          IF c = id THEN 0
          ELSE IF all /\ \E pv \in Providers : p \in DOMAIN sh[pv].ready
                                              /\ c \in sh[pv].ready[p].all.ids
               THEN base[c] + 1 ELSE base[c]]
  BY DEF Waited, base
<1>. QED  BY <1>1, <1>2, <1>3

\* What a pick owes, of the state it leaves.
Answered == PicksTheBest /\ FailsOnlyWhenAllWait

\* A failed pick leaves the shards brought up to date.
LEMMA FailedPick ==
  ASSUME Inv, NEW P \in SUBSET Providers, NEW allowed \in SUBSET Ids, NEW preferWs \in BOOLEAN,
         PickFails(P, allowed, preferWs), shards' = Ensured(P), UNCHANGED <<now, fillFirst, meta>>,
         \A pv \in P : Offers(Ensured(P)[pv], allowed) = {}
  PROVE  Inv' /\ Answered'
<1>. DEFINE sh == Ensured(P)
<1>1. /\ DOMAIN sh = DOMAIN shards \cup P
      /\ \A pv \in DOMAIN sh : ShardInv(sh[pv], meta, pv, now)
      /\ \A pv \in P : Current(sh[pv], now)
  BY EnsuredCorrect
<1>. HIDE DEF sh
<1>2. out' = [provider |-> P, allowed |-> allowed, preferWs |-> preferWs, id |-> {}]
  BY DEF PickFails, Picked
<1>3. shards' = sh  BY DEF sh
<1>4. TypeOK'
  <2>1. \A pv \in DOMAIN shards' : IsShard(shards'[pv])  BY <1>1, <1>3 DEF ShardInv, Indexed
  <2>2. DOMAIN shards' \subseteq Providers  BY <1>1, <1>3 DEF Inv, TypeOK
  <2>3. passed' \in [Ids -> Nat]  BY DEF PickFails, NoneLate
  <2>. QED  BY <1>2, <2>1, <2>2, <2>3 DEF Inv, TypeOK, PickFails
<1>5. Inv'  BY <1>1, <1>3, <1>4 DEF Inv
<1>6. PicksTheBest'  BY <1>2 DEF PicksTheBest, PickMade
<1>7. FailsOnlyWhenAllWait'
  <2>1. ASSUME NEW c \in Candidates'  PROVE Blocked(meta[c], now) \/ meta[c].recover > now
    <3>1. PICK pv \in P : c \in Serving(meta, pv) \cap allowed  BY <1>2, <2>1 DEF Candidates
    <3>2. Offers(sh[pv], allowed) = {}  BY DEF sh
    <3>. QED  BY <1>1, <3>1, <3>2, NoOfferAllWait
  <2>. QED  BY <2>1 DEF FailsOnlyWhenAllWait
<1>. QED  BY <1>5, <1>6, <1>7 DEF Answered

\* A pick at a priority no candidate it should prefer exceeds.
LEMMA SuccessfulPick ==
  ASSUME Inv, NEW P \in SUBSET Providers, NEW allowed \in SUBSET Ids, NEW preferWs \in BOOLEAN,
         NEW pv \in P, NEW p \in Offers(Ensured(P)[pv], allowed),
         preferWs => P = {pv},
         IF preferWs /\ OffersWs(Ensured(P)[pv], allowed) # {}
         THEN /\ p \in OffersWs(Ensured(P)[pv], allowed)
              /\ \A q \in OffersWs(Ensured(P)[pv], allowed) : q <= p
         ELSE \A x \in P : \A q \in Offers(Ensured(P)[x], allowed) : q <= p,
         Picked(P, allowed, preferWs, {PickAt(Ensured(P)[pv], p, preferWs, fillFirst, allowed).id}),
         shards' = [Ensured(P) EXCEPT ![pv] =
                      PickAt(Ensured(P)[pv], p, preferWs, fillFirst, allowed).shard],
         turn' \in Nat, passed' \in [Ids -> Nat], UNCHANGED <<now, fillFirst, meta>>
  PROVE  Inv' /\ Answered'
<1>. DEFINE sh   == Ensured(P)
            s    == sh[pv]
            pick == PickAt(s, p, preferWs, fillFirst, allowed)
<1>1. /\ DOMAIN sh = DOMAIN shards \cup P
      /\ \A x \in DOMAIN sh : ShardInv(sh[x], meta, x, now)
      /\ \A x \in P : Current(sh[x], now)
  BY EnsuredCorrect
<1>2. fillFirst \in BOOLEAN /\ Indexed(s)  BY <1>1 DEF Inv, TypeOK, ShardInv
<1>3. /\ Indexed(pick.shard) /\ pick.shard.entries = s.entries
      /\ pick.id \in ReadyAt(s, p) \cap allowed
      /\ preferWs /\ p \in OffersWs(s, allowed) => pick.id \in WebsocketAt(s, p)
  <2>. HIDE DEF s
  <2>. QED  BY <1>2, PickAtCorrect DEF s
<1>4. out' = [provider |-> P, allowed |-> allowed, preferWs |-> preferWs, id |-> {pick.id}]
  BY DEF Picked
<1>5. shards' = [sh EXCEPT ![pv] = pick.shard]  OBVIOUS
<1>6. /\ p \in Offers(s, allowed)
      /\ IF preferWs /\ OffersWs(s, allowed) # {}
         THEN p \in OffersWs(s, allowed) /\ \A q \in OffersWs(s, allowed) : q <= p
         ELSE \A x \in P : \A q \in Offers(sh[x], allowed) : q <= p
  OBVIOUS
<1>. HIDE DEF pick, sh
<1>7. /\ DOMAIN shards' = DOMAIN shards \cup P
      /\ \A x \in DOMAIN shards' : shards'[x].entries = sh[x].entries
      /\ \A x \in DOMAIN shards' : ShardInv(shards'[x], meta, x, now)
  <2>1. DOMAIN shards' = DOMAIN sh
        /\ \A x \in DOMAIN sh : shards'[x] = IF x = pv THEN pick.shard ELSE sh[x]
    BY <1>5
  <2>2. ShardInv(pick.shard, meta, pv, now)  BY <1>1, <1>3 DEF ShardInv
  <2>. QED  BY <1>1, <1>3, <2>1, <2>2
<1>8. pick.id \in Ids  BY <1>3
<1>9. TypeOK'
  <2>1. \A x \in DOMAIN shards' : IsShard(shards'[x])  BY <1>7 DEF ShardInv, Indexed
  <2>2. DOMAIN shards' \subseteq Providers  BY <1>7 DEF Inv, TypeOK
  <2>. QED  BY <1>4, <1>8, <2>1, <2>2 DEF Inv, TypeOK
<1>10. Inv'  BY <1>7, <1>9 DEF Inv
<1>11. FailsOnlyWhenAllWait'  BY <1>4 DEF FailsOnlyWhenAllWait
<1>12. ASSUME NEW x \in P, NEW c \in Serving(meta, x)
       PROVE  /\ meta[c].provider = x /\ c \in DOMAIN sh[x].entries
              /\ shards'[x].entries = sh[x].entries /\ Sound(sh[x].entries[c], meta[c], now)
  BY <1>1, <1>7 DEF Serving, ShardInv
<1>13. /\ pick.id \in Serving(meta, pv) /\ s.entries[pick.id].state = "ready"
       /\ s.entries[pick.id].pri = p /\ pick.id \in allowed
       /\ pick.id \in WebsocketAt(s, p) => s.entries[pick.id].ws
  <2>1. pick.id \in ReadyAt(s, p)  BY <1>3
  <2>. QED  BY <1>1, <1>3, <2>1, ReadyMembers DEF ShardInv
<1>14. /\ meta[pick.id].pri = p /\ meta[pick.id].ws = s.entries[pick.id].ws
       /\ ~Blocked(meta[pick.id], now)
  BY <1>12, <1>13 DEF Sound
<1>15. PicksTheBest'
  <2>. DEFINE ready == {c \in Candidates' : shards'[meta[c].provider].entries[c].state = "ready"}
              ws    == {c \in ready : meta[c].ws}
              group == IF preferWs /\ ws # {} THEN ws ELSE ready
  <2>1. Candidates' = {c \in allowed : \E x \in P : c \in Serving(meta, x)}
    BY <1>4 DEF Candidates
  <2>2. ASSUME NEW c \in ready
        PROVE  \E x \in P : /\ c \in Serving(meta, x) /\ meta[c].pri \in Offers(sh[x], allowed)
                            /\ meta[c].ws => meta[c].pri \in OffersWs(sh[x], allowed)
    <3>1. PICK x \in P : c \in Serving(meta, x)  BY <2>1
    <3>2. /\ c \in DOMAIN sh[x].entries \cap allowed
          /\ sh[x].entries[c].state = "ready"
          /\ meta[c].pri = sh[x].entries[c].pri /\ meta[c].ws = sh[x].entries[c].ws
      BY <1>12, <2>1, <3>1 DEF Sound
    <3>3. Indexed(sh[x])  BY <1>1 DEF ShardInv
    <3>. QED  BY <3>1, <3>2, <3>3, OffersCorrect
  <2>3. pick.id \in ready  BY <1>12, <1>13, <2>1
  <2>4. pick.id \in group /\ \A c \in group : meta[c].pri <= p
    <3>1. CASE preferWs /\ OffersWs(s, allowed) # {}
      <4>1. pick.id \in ws  BY <1>3, <1>6, <1>13, <1>14, <2>3, <3>1
      <4>2. ASSUME NEW c \in ws  PROVE meta[c].pri <= p
        <5>1. meta[c].pri \in OffersWs(s, allowed)  BY <2>2, <3>1
        <5>. QED  BY <1>6, <3>1, <5>1
      <4>. QED  BY <3>1, <4>1, <4>2
    <3>2. CASE ~(preferWs /\ OffersWs(s, allowed) # {})
      <4>1. preferWs => ws = {}  BY <2>2, <3>2
      <4>2. group = ready  BY <4>1
      <4>3. ASSUME NEW c \in ready  PROVE meta[c].pri <= p  BY <1>6, <2>2, <3>2
      <4>. QED  BY <2>3, <4>2, <4>3
    <3>. QED  BY <3>1, <3>2
  <2>5. \A id \in out'.id : /\ id \in group /\ ~Blocked(meta[id], now)
                            /\ \A c \in group : meta[c].pri <= meta[id].pri
    BY <1>4, <1>14, <2>4
  <2>. QED  BY <1>4, <2>5 DEF PicksTheBest
<1>. QED  BY <1>10, <1>11, <1>15 DEF Answered

-----------------------------------------------------------------------------
(* The rotation of mixed requests.                                           *)

LEMMA OrderLength == Len(Order) \in Nat /\ Len(Order) > 1
<1>. DEFINE n == Len(Order)
<1>1. n \in Nat \ {0, 1}  BY SchedulerAssumption
<1>. HIDE DEF n
<1>2. n \in Nat /\ n > 1  BY <1>1
<1>. QED  BY <1>2 DEF n

LEMMA ProviderOfPosition ==
  ASSUME NEW i \in 1..Len(Order)
  PROVE  Order[i] \in Providers
BY DEF Providers

LEMMA SlotsFinite ==
  ASSUME NEW sh, NEW p, NEW i
  PROVE  /\ IsFiniteSet(ReadySlots(sh, p)) /\ TotalWeight(sh, p) \in Nat
         /\ SegmentStart(sh, p, i) \in Nat
<1>1. IsFiniteSet(1..Len(Order))  BY OrderLength, FS_Interval
<1>2. IsFiniteSet((1..Len(Order)) \X Ids)  BY <1>1, ShardAssumption, FS_Product
<1>3. IsFiniteSet(ReadySlots(sh, p))  BY <1>2, FS_Subset DEF ReadySlots
<1>4. IsFiniteSet({x \in ReadySlots(sh, p) : x[1] < i})  BY <1>3, FS_Subset
<1>. QED  BY <1>3, <1>4, FS_CardinalityType DEF TotalWeight, SegmentStart

\* Every slot of the rotation lies in the segment of one provider
\* (scheduler.go:337-390).
LEMMA HolderExists ==
  ASSUME NEW sh, NEW p, NEW slot \in Nat, slot < TotalWeight(sh, p)
  PROVE  LET h == Holder(sh, p, slot)
         IN /\ h \in 1..Len(Order)
            /\ SegmentStart(sh, p, h) <= slot /\ slot < SegmentStart(sh, p, h + 1)
<1>. DEFINE n == Len(Order)
            T == {i \in 1..n : slot < SegmentStart(sh, p, i + 1)}
<1>1. n \in Nat /\ n > 1  BY OrderLength
<1>2. SegmentStart(sh, p, n + 1) = TotalWeight(sh, p)
  <2>1. {x \in ReadySlots(sh, p) : x[1] < n + 1} = ReadySlots(sh, p)
    BY <1>1 DEF ReadySlots
  <2>. QED  BY <2>1 DEF SegmentStart, TotalWeight
<1>3. SegmentStart(sh, p, 1) = 0
  <2>1. {x \in ReadySlots(sh, p) : x[1] < 1} = {}  BY <1>1 DEF ReadySlots
  <2>. QED  BY <2>1, FS_EmptySet DEF SegmentStart
<1>4. n \in T /\ T \in SUBSET Nat  BY <1>1, <1>2
<1>5. PICK i \in T : \A j \in T : i <= j  BY <1>4, LeastNatural
<1>6. SegmentStart(sh, p, i) <= slot
  <2>1. CASE i = 1  BY <1>3, <2>1
  <2>2. CASE i # 1
    <3>1. i \in 1..n  OBVIOUS
    <3>2. i - 1 \in 1..n /\ (i - 1) + 1 = i /\ ~(i <= i - 1)
      <4>. HIDE DEF n, T
      <4>. QED  BY <1>1, <2>2, <3>1
    <3>3. ~(slot < SegmentStart(sh, p, (i - 1) + 1))
      <4>1. i - 1 \notin T  BY <1>5, <3>2
      <4>. QED  BY <3>2, <4>1
    <3>4. SegmentStart(sh, p, i) \in Nat  BY SlotsFinite
    <3>5. slot >= SegmentStart(sh, p, i)  BY <3>2, <3>3, <3>4
    <3>. QED  BY <3>4, <3>5
  <2>. QED  BY <2>1, <2>2
<1>. QED  BY <1>5, <1>6 DEF Holder

LEMMA NextAbleIsAble ==
  ASSUME NEW s \in 1..Len(Order), NEW able \in SUBSET (1..Len(Order)), able # {}
  PROVE  NextAble(s, able) \in able
<1>. DEFINE f == [j \in able |-> Around(s, j)]
<1>1. ASSUME NEW j \in able  PROVE Around(s, j) \in Nat  BY OrderLength DEF Around
<1>2. f \in [able -> Nat]  BY <1>1
<1>3. PICK j \in able : \A k \in able : f[j] <= f[k]  BY <1>2, LeastValue
<1>4. \A k \in able : Around(s, j) <= Around(s, k)  BY <1>3
<1>. QED  BY <1>4 DEF NextAble

LEMMA MixedChoiceCorrect ==
  ASSUME NEW sh, NEW p, NEW allowed \in SUBSET Ids, Able(sh, p, allowed) # {}, turn \in Nat
  PROVE  /\ \E i \in Able(sh, p, allowed) : MixedChoice(sh, p, allowed).provider = Order[i]
         /\ MixedChoice(sh, p, allowed).turn \in Nat
<1>. DEFINE slot == turn % TotalWeight(sh, p)
            s    == Holder(sh, p, slot)
            i    == NextAble(s, Able(sh, p, allowed))
<1>1. TotalWeight(sh, p) \in Nat /\ TotalWeight(sh, p) > 0
  <2>1. PICK j \in Able(sh, p, allowed) : TRUE  OBVIOUS
  <2>2. p \in Offers(sh[Order[j]], allowed) /\ j \in 1..Len(Order)  BY DEF Able
  <2>3. PICK c \in sh[Order[j]].ready[p].all.ids \cap allowed : TRUE  BY <2>2 DEF Offers
  <2>4. <<j, c>> \in ReadySlots(sh, p)  BY <2>2, <2>3 DEF ReadySlots, Offers
  <2>5. IsFiniteSet(ReadySlots(sh, p)) /\ TotalWeight(sh, p) \in Nat  BY SlotsFinite
  <2>6. TotalWeight(sh, p) # 0  BY <2>4, <2>5, FS_EmptySet DEF TotalWeight
  <2>. QED  BY <2>5, <2>6
<1>2. slot \in Nat /\ slot < TotalWeight(sh, p)
  <2>. DEFINE w == TotalWeight(sh, p)
  <2>1. w \in Nat /\ w > 0  BY <1>1
  <2>. HIDE DEF w
  <2>2. turn % w \in Nat /\ turn % w < w  BY <2>1
  <2>. QED  BY <2>2 DEF w
<1>. HIDE DEF slot
<1>3. s \in 1..Len(Order)  BY <1>2, HolderExists
<1>. HIDE DEF s
<1>4. i \in Able(sh, p, allowed)
  <2>1. Able(sh, p, allowed) \in SUBSET (1..Len(Order))  BY DEF Able
  <2>. QED  BY <1>3, <2>1, NextAbleIsAble
<1>. HIDE DEF i
<1>5. SegmentStart(sh, p, i) \in Nat  BY SlotsFinite
<1>6. MixedChoice(sh, p, allowed) =
        [provider |-> Order[i], turn |-> 1 + (IF i = s THEN slot ELSE SegmentStart(sh, p, i))]
  BY DEF MixedChoice, i, s, slot
<1>. QED  BY <1>2, <1>4, <1>5, <1>6

-----------------------------------------------------------------------------
(* The actions.                                                              *)

LEMMA PickSingleCorrect ==
  ASSUME Inv, NEW pv \in Providers, NEW pinned \in SUBSET Ids, NEW tried \in SUBSET Ids,
         NEW websocket \in BOOLEAN, PickSingle(pv, pinned, tried, websocket)
  PROVE  Inv' /\ Answered'
<1>. DEFINE sh       == Ensured({pv})
            allowed  == Allowed(pinned, tried)
            preferWs == websocket /\ pv \in WsProviders /\ pinned = {}
            p        == BestPriority(sh[pv], preferWs, allowed)
<1>1. allowed \in SUBSET Ids  BY AllowedType
<1>2. UNCHANGED <<now, fillFirst, meta>>  BY DEF PickSingle
<1>3. CASE Offers(sh[pv], allowed) = {}
  <2>1. PickFails({pv}, allowed, preferWs) /\ shards' = sh  BY <1>3 DEF PickSingle
  <2>. HIDE DEF allowed, preferWs
  <2>. QED  BY <1>1, <1>2, <1>3, <2>1, FailedPick DEF preferWs
<1>4. CASE Offers(sh[pv], allowed) # {}
  <2>1. /\ Picked({pv}, allowed, preferWs, {PickAt(sh[pv], p, preferWs, fillFirst, allowed).id})
        /\ shards' = [sh EXCEPT ![pv] = PickAt(sh[pv], p, preferWs, fillFirst, allowed).shard]
        /\ \/ passed' = Waited(sh, p, PickAt(sh[pv], p, preferWs, fillFirst, allowed).id, FALSE)
           \/ passed' = NoneLate
        /\ UNCHANGED turn
    BY <1>4 DEF PickSingle
  <2>2. passed' \in [Ids -> Nat]
    <3>. DEFINE id == PickAt(sh[pv], p, preferWs, fillFirst, allowed).id
    <3>1. passed' = Waited(sh, p, id, FALSE) \/ passed' = NoneLate  BY <2>1
    <3>. HIDE DEF sh, p, id
    <3>2. Waited(sh, p, id, FALSE) \in [Ids -> Nat] /\ NoneLate \in [Ids -> Nat]  BY WaitedType
    <3>. QED  BY <3>1, <3>2
  <2>3. Indexed(sh[pv])  BY EnsuredCorrect DEF ShardInv
  <2>4. /\ OffersWs(sh[pv], allowed) \subseteq Offers(sh[pv], allowed)
        /\ Offers(sh[pv], allowed) \in SUBSET Priorities
    BY <2>3, OffersCorrect
  <2>5. /\ p \in Offers(sh[pv], allowed)
        /\ IF preferWs /\ OffersWs(sh[pv], allowed) # {}
           THEN p \in OffersWs(sh[pv], allowed) /\ \A q \in OffersWs(sh[pv], allowed) : q <= p
           ELSE \A q \in Offers(sh[pv], allowed) : q <= p
    <3>. HIDE DEF sh, allowed, preferWs
    <3>1. CASE preferWs /\ OffersWs(sh[pv], allowed) # {}
      BY <2>4, <3>1, HighestIsGreatest DEF BestPriority
    <3>2. CASE ~(preferWs /\ OffersWs(sh[pv], allowed) # {})
      BY <1>4, <2>4, <3>2, HighestIsGreatest DEF BestPriority
    <3>. QED  BY <3>1, <3>2
  <2>6. preferWs \in BOOLEAN  OBVIOUS
  <2>7. turn' \in Nat  BY <2>1 DEF Inv, TypeOK
  <2>. HIDE DEF allowed, preferWs, p
  <2>8. IF preferWs /\ OffersWs(sh[pv], allowed) # {}
        THEN p \in OffersWs(sh[pv], allowed) /\ \A q \in OffersWs(sh[pv], allowed) : q <= p
        ELSE \A x \in {pv} : \A q \in Offers(sh[x], allowed) : q <= p
    BY <2>5
  <2>9. {pv} \in SUBSET Providers /\ pv \in {pv}  OBVIOUS
  <2>. QED  BY <1>1, <1>2, <2>1, <2>2, <2>5, <2>6, <2>7, <2>8, <2>9, SuccessfulPick
<1>. QED  BY <1>3, <1>4

LEMMA PickMixedCorrect ==
  ASSUME Inv, NEW tried \in SUBSET Ids, PickMixed(tried)
  PROVE  Inv' /\ Answered'
<1>. DEFINE sh      == Ensured(Providers)
            allowed == Allowed({}, tried)
            offered == UNION {Offers(sh[pv], allowed) : pv \in Providers}
            p       == Highest(offered)
            choice  == MixedChoice(sh, p, allowed)
            pv      == IF fillFirst THEN FirstProvider(sh, p, allowed) ELSE choice.provider
            pick    == PickAt(sh[pv], p, FALSE, fillFirst, allowed)
<1>1. allowed \in SUBSET Ids  BY AllowedType
<1>2. UNCHANGED <<now, fillFirst, meta>>  BY DEF PickMixed
<1>3. CASE offered = {}
  <2>1. PickFails(Providers, allowed, FALSE) /\ shards' = sh  BY <1>3 DEF PickMixed
  <2>2. \A x \in Providers : Offers(sh[x], allowed) = {}  BY <1>3
  <2>. HIDE DEF allowed
  <2>. QED  BY <1>1, <1>2, <2>1, <2>2, FailedPick
<1>4. CASE offered # {}
  <2>1. /\ Picked(Providers, allowed, FALSE, {pick.id})
        /\ shards' = [sh EXCEPT ![pv] = pick.shard]
        /\ turn' = IF fillFirst THEN turn ELSE choice.turn
        /\ passed' = Waited(sh, p, pick.id, TRUE) \/ passed' = NoneLate
    BY <1>4 DEF PickMixed
  <2>2. passed' \in [Ids -> Nat]
    <3>. DEFINE id == pick.id
    <3>1. passed' = Waited(sh, p, id, TRUE) \/ passed' = NoneLate  BY <2>1
    <3>. HIDE DEF sh, p, id
    <3>2. Waited(sh, p, id, TRUE) \in [Ids -> Nat] /\ NoneLate \in [Ids -> Nat]  BY WaitedType
    <3>. QED  BY <3>1, <3>2
  <2>3. \A x \in Providers : Offers(sh[x], allowed) \in SUBSET Priorities
    BY EnsuredCorrect, OffersCorrect DEF ShardInv
  <2>4. p \in offered /\ \A q \in offered : q <= p
    <3>1. offered \in SUBSET Priorities  BY <2>3
    <3>. HIDE DEF offered
    <3>. QED  BY <1>4, <3>1, HighestIsGreatest
  <2>5. Able(sh, p, allowed) # {} /\ Able(sh, p, allowed) \in SUBSET Nat
    <3>. HIDE DEF p, allowed, sh
    <3>1. PICK x \in Providers : p \in Offers(sh[x], allowed)  BY <2>4
    <3>2. PICK i \in 1..Len(Order) : x = Order[i]  BY DEF Providers
    <3>. QED  BY <3>1, <3>2 DEF Able
  <2>6. turn \in Nat  BY DEF Inv, TypeOK
  <2>7. /\ \E i \in Able(sh, p, allowed) : choice.provider = Order[i]
        /\ choice.turn \in Nat
    <3>. HIDE DEF p, allowed, sh
    <3>. QED  BY <1>1, <2>5, <2>6, MixedChoiceCorrect
  <2>8. \E i \in Able(sh, p, allowed) : FirstProvider(sh, p, allowed) = Order[i]
    BY <2>5, FirstIsLeast DEF FirstProvider
  <2>. HIDE DEF choice
  <2>9. pv \in Providers /\ p \in Offers(sh[pv], allowed)
    <3>1. PICK i \in Able(sh, p, allowed) : pv = Order[i]  BY <2>7, <2>8
    <3>. HIDE DEF pv, p, allowed, sh
    <3>. QED  BY <3>1, ProviderOfPosition DEF Able
  <2>10. turn' \in Nat  BY <2>1, <2>6, <2>7
  <2>11. \A x \in Providers : \A q \in Offers(sh[x], allowed) : q <= p  BY <2>4
  <2>. HIDE DEF allowed, p, pv
  <2>. QED  BY <1>1, <1>2, <2>1, <2>2, <2>9, <2>10, <2>11, SuccessfulPick
<1>. QED  BY <1>3, <1>4

LEMMA PickMixedPinnedCorrect ==
  ASSUME Inv, NEW c \in Ids, NEW tried \in SUBSET Ids, PickMixedPinned(c, tried)
  PROVE  Inv' /\ Answered'
<1>1. CASE c \notin DOMAIN meta
  <2>1. /\ out' = [provider |-> Providers, allowed |-> Allowed({c}, tried),
                    preferWs |-> FALSE, id |-> {}]
        /\ passed' = NoneLate /\ UNCHANGED <<now, fillFirst, meta, shards, turn>>
    BY <1>1 DEF PickMixedPinned, PickFails, Picked
  <2>2. Allowed({c}, tried) \in SUBSET {c}  BY DEF Allowed
  <2>3. TypeOK'  BY <2>1, <2>2 DEF Inv, TypeOK, NoneLate
  <2>4. Inv'  BY <2>1, <2>3 DEF Inv
  <2>5. Candidates' = {}  BY <1>1, <2>1, <2>2 DEF Candidates, Serving
  <2>6. Answered'
    BY <2>1, <2>5 DEF Answered, PicksTheBest, PickMade, FailsOnlyWhenAllWait
  <2>. QED  BY <2>4, <2>6
<1>2. CASE c \in DOMAIN meta
  <2>1. meta[c].provider \in Providers  BY <1>2 DEF Inv, TypeOK, Meta
  <2>2. PickSingle(meta[c].provider, {c}, tried, FALSE)  BY <1>2 DEF PickMixedPinned
  <2>. QED  BY <2>1, <2>2, PickSingleCorrect
<1>. QED  BY <1>1, <1>2

\* Between picks nothing is owed.
LEMMA NoPickAnswered ==
  ASSUME out' = NoPick
  PROVE  Answered' /\ out' \in [provider: SUBSET Providers, allowed: SUBSET Ids,
                                preferWs: BOOLEAN, id: SUBSET Ids]
BY DEF Answered, NoPick, PicksTheBest, PickMade, FailsOnlyWhenAllWait

LEMMA UpsertAuthCorrect ==
  ASSUME Inv, NEW c \in Ids, NEW a \in Snapshots[c], UpsertAuth(c, a)
  PROVE  Inv'
<1>. DEFINE g == Put(meta, c, a)
<1>1. a \in Meta(Providers)  BY SchedulerAssumption
<1>2. /\ meta' = g /\ out' = NoPick /\ passed' = NoneLate
      /\ UNCHANGED <<now, fillFirst, turn>>
      /\ shards' = EntriesAfter(c, a)
  BY DEF UpsertAuth
<1>3. DOMAIN g = DOMAIN meta \cup {c} /\ \A x \in DOMAIN g : g[x] = IF x = c THEN a ELSE meta[x]
  BY DEF Put
<1>4. g \in [DOMAIN g -> Meta(Providers)] /\ DOMAIN g \subseteq Ids
  <2>1. \A x \in DOMAIN g : g[x] \in Meta(Providers)  BY <1>1, <1>3 DEF Inv, TypeOK
  <2>2. DOMAIN g \subseteq Ids  BY <1>3 DEF Inv, TypeOK
  <2>. QED  BY <2>1, <2>2 DEF Put
<1>5. now \in Nat  BY DEF Inv, TypeOK
<1>. HIDE DEF g
<1>6. ASSUME NEW pv \in DOMAIN shards  PROVE ShardInv(shards'[pv], meta', pv, now')
  <2>1. ShardInv(shards[pv], meta, pv, now)  BY DEF Inv
  <2>2. CASE pv = a.provider /\ a.supports
    <3>1. shards'[pv] = UpsertEntry(shards[pv], c, EntryOf(a, now))
      BY <1>2, <2>2 DEF EntriesAfter
    <3>2. ShardInv(UpsertEntry(shards[pv], c, EntryOf(a, now)), Put(meta, c, a), pv, now)
      BY <1>1, <1>5, <2>1, <2>2, UpsertKeepsShard
    <3>. QED  BY <1>2, <3>1, <3>2 DEF g
  <2>3. CASE ~(pv = a.provider /\ a.supports)
    <3>1. shards'[pv] = RemoveEntry(shards[pv], c)  BY <1>2, <2>3 DEF EntriesAfter
    <3>2. Serving(g, pv) = Serving(meta, pv) \ {c}  BY <1>3, <2>3 DEF Serving
    <3>3. \A x \in Serving(g, pv) : g[x] = meta[x]  BY <1>3, <3>2 DEF Serving
    <3>. QED  BY <1>2, <2>1, <3>1, <3>2, <3>3, RemoveKeepsShard
  <2>. QED  BY <2>2, <2>3
<1>7. DOMAIN shards' = DOMAIN shards  BY <1>2 DEF EntriesAfter
<1>8. TypeOK'
  <2>1. \A pv \in DOMAIN shards' : IsShard(shards'[pv])  BY <1>6, <1>7 DEF ShardInv, Indexed
  <2>2. passed' \in [Ids -> Nat]  BY <1>2 DEF NoneLate
  <2>. QED  BY <1>2, <1>4, <1>7, <2>1, <2>2, NoPickAnswered DEF Inv, TypeOK
<1>. QED  BY <1>6, <1>7, <1>8 DEF Inv

LEMMA RemoveAuthCorrect ==
  ASSUME Inv, NEW c \in Ids, RemoveAuth(c)
  PROVE  Inv'
<1>. DEFINE g == Drop(meta, c)
<1>1. /\ meta' = g /\ out' = NoPick /\ passed' = NoneLate
      /\ UNCHANGED <<now, fillFirst, turn>>
      /\ DOMAIN shards' = DOMAIN shards
      /\ \A pv \in DOMAIN shards : shards'[pv] = RemoveEntry(shards[pv], c)
  BY DEF RemoveAuth
<1>2. DOMAIN g = DOMAIN meta \ {c} /\ \A x \in DOMAIN g : g[x] = meta[x]  BY DEF Drop
<1>3. g \in [DOMAIN g -> Meta(Providers)] /\ DOMAIN g \subseteq Ids
  <2>1. \A x \in DOMAIN g : g[x] \in Meta(Providers)  BY <1>2 DEF Inv, TypeOK
  <2>2. DOMAIN g \subseteq Ids  BY <1>2 DEF Inv, TypeOK
  <2>. QED  BY <2>1, <2>2 DEF Drop
<1>. HIDE DEF g
<1>4. ASSUME NEW pv \in DOMAIN shards  PROVE ShardInv(shards'[pv], meta', pv, now')
  <2>1. ShardInv(shards[pv], meta, pv, now)  BY DEF Inv
  <2>2. Serving(g, pv) = Serving(meta, pv) \ {c}  BY <1>2 DEF Serving
  <2>3. \A x \in Serving(g, pv) : g[x] = meta[x]  BY <1>2, <2>2 DEF Serving
  <2>. QED  BY <1>1, <2>1, <2>2, <2>3, RemoveKeepsShard
<1>5. TypeOK'
  <2>1. \A pv \in DOMAIN shards' : IsShard(shards'[pv])  BY <1>1, <1>4 DEF ShardInv, Indexed
  <2>2. passed' \in [Ids -> Nat]  BY <1>1 DEF NoneLate
  <2>. QED  BY <1>1, <1>3, <2>1, <2>2, NoPickAnswered DEF Inv, TypeOK
<1>. QED  BY <1>1, <1>4, <1>5 DEF Inv

LEMMA InitCorrect == Init => Inv /\ Answered
<1>. SUFFICES ASSUME Init PROVE Inv /\ Answered  OBVIOUS
<1>1. DOMAIN meta = {} /\ DOMAIN shards = {}  BY DEF Init
<1>2. meta \in [DOMAIN meta -> Meta(Providers)]  BY <1>1 DEF Init
<1>3. out \in [provider: SUBSET Providers, allowed: SUBSET Ids, preferWs: BOOLEAN, id: SUBSET Ids]
  BY DEF Init, NoPick
<1>4. TypeOK  BY <1>1, <1>2, <1>3 DEF Init, TypeOK, NoneLate
<1>5. Answered  BY DEF Init, NoPick, Answered, PicksTheBest, PickMade, FailsOnlyWhenAllWait
<1>. QED  BY <1>1, <1>4, <1>5 DEF Inv

LEMMA NextCorrect == Inv /\ Answered /\ [Next]_vars => Inv' /\ Answered'
<1>. SUFFICES ASSUME Inv, Answered, [Next]_vars PROVE Inv' /\ Answered'  OBVIOUS
<1>1. CASE Tick
  <2>1. /\ now' = now + 1 /\ now \in Nat /\ out' = NoPick
        /\ UNCHANGED <<fillFirst, meta, shards, turn, passed>>
    BY <1>1 DEF Tick, Inv, TypeOK
  <2>2. meta \in [DOMAIN meta -> Meta(Providers)]  BY DEF Inv, TypeOK
  <2>3. \A pv \in DOMAIN shards : ShardInv(shards[pv], meta, pv, now + 1)
    BY <2>1, <2>2, TickKeepsShard DEF Inv
  <2>4. TypeOK'  BY <2>1, NoPickAnswered DEF Inv, TypeOK
  <2>. QED  BY <2>1, <2>3, <2>4, NoPickAnswered DEF Inv
<1>2. CASE SetSelector
  <2>1. /\ fillFirst' = ~fillFirst /\ turn' = 0 /\ out' = NoPick /\ passed' = NoneLate
        /\ UNCHANGED <<now, meta, shards>>
    BY <1>2 DEF SetSelector
  <2>2. fillFirst' \in BOOLEAN  BY <2>1 DEF Inv, TypeOK
  <2>3. TypeOK'  BY <2>1, <2>2, NoPickAnswered DEF Inv, TypeOK, NoneLate
  <2>. QED  BY <2>1, <2>3, NoPickAnswered DEF Inv
<1>3. CASE \E c \in Ids : \E a \in Snapshots[c] : UpsertAuth(c, a)
  <2>1. PICK c \in Ids : \E a \in Snapshots[c] : UpsertAuth(c, a)  BY <1>3
  <2>2. PICK a \in Snapshots[c] : UpsertAuth(c, a)  BY <2>1
  <2>. QED  BY <2>2, UpsertAuthCorrect, NoPickAnswered DEF UpsertAuth
<1>4. CASE \E c \in Ids : RemoveAuth(c)
  <2>1. PICK c \in Ids : RemoveAuth(c)  BY <1>4
  <2>. QED  BY <2>1, RemoveAuthCorrect, NoPickAnswered DEF RemoveAuth
<1>5. CASE Rebuild
  <2>1. /\ shards' = [pv \in {} |-> 0] /\ turn' = 0 /\ out' = NoPick /\ passed' = NoneLate
        /\ UNCHANGED <<now, fillFirst, meta>>
    BY <1>5 DEF Rebuild
  <2>2. DOMAIN shards' = {}  BY <2>1
  <2>3. TypeOK'  BY <2>1, <2>2, NoPickAnswered DEF Inv, TypeOK, NoneLate
  <2>. QED  BY <2>1, <2>2, <2>3, NoPickAnswered DEF Inv
<1>6. CASE \E pv \in Providers, tried \in Tries : PickSingle(pv, {}, tried, FALSE)
  BY <1>6, PickSingleCorrect DEF Tries
<1>7. CASE \E pv \in WsProviders, tried \in Tries : PickSingle(pv, {}, tried, TRUE)
  <2>1. PICK pv \in WsProviders, tried \in Tries : PickSingle(pv, {}, tried, TRUE)  BY <1>7
  <2>2. pv \in Providers /\ tried \in SUBSET Ids  BY SchedulerAssumption DEF Tries
  <2>. QED  BY <2>1, <2>2, PickSingleCorrect
<1>8. CASE \E pv \in Providers, c \in Ids : \E tried \in SUBSET {c} :
             PickSingle(pv, {c}, tried, FALSE)
  BY <1>8, PickSingleCorrect
<1>9. CASE \E tried \in Tries : PickMixed(tried)  BY <1>9, PickMixedCorrect DEF Tries
<1>10. CASE \E c \in Ids : \E tried \in SUBSET {c} : PickMixedPinned(c, tried)
  BY <1>10, PickMixedPinnedCorrect
<1>11. CASE UNCHANGED vars
  <2>1. Inv'  BY <1>11 DEF vars, Inv, TypeOK
  <2>2. Answered'
    BY <1>11 DEF vars, Answered, PicksTheBest, PickMade, FailsOnlyWhenAllWait, Candidates
  <2>. QED  BY <2>1, <2>2
<1>. QED  BY <1>1, <1>2, <1>3, <1>4, <1>5, <1>6, <1>7, <1>8, <1>9, <1>10, <1>11 DEF Next

-----------------------------------------------------------------------------
LEMMA Invariance == Spec => [](Inv /\ Answered)
<1>1. Init => Inv /\ Answered  BY InitCorrect
<1>2. (Inv /\ Answered) /\ [Next]_vars => (Inv /\ Answered)'  BY NextCorrect
<1>. QED  BY <1>1, <1>2, PTL DEF Spec

\* Every variable keeps its type (scheduler.go:34-120).
THEOREM TypeCorrect == Spec => []TypeOK
<1>1. Inv /\ Answered => TypeOK  BY DEF Inv
<1>. QED  BY <1>1, Invariance, PTL

\* Whatever order snapshots, removals, picks and the clock come in, each shard
\* holds exactly the credentials of its provider that serve the model, and its
\* indexes agree with its entries (scheduler.go:489-510, 642-732, 870-936).
THEOREM ShardsStayExact == Spec => []ShardsExact
<1>1. Inv /\ Answered => ShardsExact  BY DEF Inv, ShardInv, Indexed, ShardsExact
<1>. QED  BY <1>1, Invariance, PTL

\* Every pick returns an available credential of the highest priority among the
\* allowed ones, a websocket one first when the request asks for it
\* (scheduler.go:202-410, 735-800).
THEOREM PicksAreBest == Spec => []PicksTheBest
<1>1. Inv /\ Answered => PicksTheBest  BY DEF Answered
<1>. QED  BY <1>1, Invariance, PTL

\* A pick that fails had nothing to return: every candidate is out of service or
\* waits for a time still ahead (scheduler.go:698-732, 821-868).
THEOREM FailuresAreJustified == Spec => []FailsOnlyWhenAllWait
<1>1. Inv /\ Answered => FailsOnlyWhenAllWait  BY DEF Answered
<1>. QED  BY <1>1, Invariance, PTL

-----------------------------------------------------------------------------
(* Whose turn it is: two nested rotations.                                    *)

\* How many picks from a view come before the one that takes c.
Distance(v, c) ==
  (Rank(c, v.ids) + Cardinality(v.ids) - (v.cursor % Cardinality(v.ids))) % Cardinality(v.ids)

\* A rotation of total slots is at slot s, and the segment of size slots from start on
\* serves d others first: after so many slots it has served c.
Until(s, total, start, size, d) ==
  IF s < start THEN start - s + d + 1
  ELSE IF s + d < start + size THEN d + 1
  ELSE IF s < start + size THEN total - size + d + 1
  ELSE total - s + start + d + 1

LEMMA UntilBounds ==
  ASSUME NEW s \in Nat, NEW total \in Nat, NEW start \in Nat, NEW size \in Nat, NEW d \in Nat,
         s < total, start + size <= total, d < size
  PROVE  Until(s, total, start, size, d) \in 1..total
BY DEF Until

LEMMA UntilCloser ==
  ASSUME NEW s \in Nat, NEW total \in Nat, NEW start \in Nat, NEW size \in Nat, NEW d \in Nat,
         s < total, start + size <= total, d < size, NEW e \in Nat, e <= d
  PROVE  Until(s, total, start, size, e) <= Until(s, total, start, size, d)
BY DEF Until

LEMMA Remainder ==
  ASSUME NEW n \in Nat, NEW size \in Nat, size > 0
  PROVE  /\ n % size \in 0..(size - 1)
         /\ n < size => n % size = n
         /\ size <= n /\ n < size + size => n % size = n - size
<1>1. n % size \in 0..(size - 1)  OBVIOUS
<1>2. n < size => n % size = n  OBVIOUS
<1>3. size <= n /\ n < size + size => n % size = n - size
  OBVIOUS
<1>. QED  BY <1>1, <1>2, <1>3

LEMMA RankBelow ==
  ASSUME NEW S \in SUBSET Ids, NEW c \in S
  PROVE  Rank(c, S) \in 0..(Cardinality(S) - 1)
<1>. DEFINE B == {d \in S : d < c}
<1>1. c \in Nat /\ c \notin B /\ B \subseteq S  BY ShardAssumption
<1>2. IsFiniteSet(S) /\ Cardinality(S) \in Nat  BY FiniteIds
<1>3. Cardinality(B) < Cardinality(S) /\ Cardinality(B) \in Nat
  <2>1. B # S  BY <1>1
  <2>. HIDE DEF B
  <2>2. Cardinality(B) <= Cardinality(S) /\ (Cardinality(B) = Cardinality(S) => B = S)
        /\ IsFiniteSet(B)
    BY <1>1, <1>2, FS_Subset
  <2>. QED  BY <1>2, <2>1, <2>2, FS_CardinalityType
<1>. QED  BY <1>2, <1>3 DEF Rank

LEMMA RanksDiffer ==
  ASSUME NEW S \in SUBSET Ids, NEW c \in S, NEW d \in S, c # d
  PROVE  Rank(c, S) # Rank(d, S)
<1>1. ASSUME NEW x \in S, NEW y \in S, x < y  PROVE Rank(x, S) < Rank(y, S)
  <2>. DEFINE B(z) == {e \in S : e < z}
  <2>0. S \subseteq Nat  BY ShardAssumption
  <2>1. x \in Nat /\ y \in Nat /\ \A e \in S : e \in Nat  BY <2>0
  <2>2. B(x) \subseteq B(y) /\ x \in B(y) /\ x \notin B(x)
    <3>1. ~(x < x) /\ \A e \in S : e < x => e < y  BY <1>1, <2>1
    <3>. QED  BY <1>1, <3>1
  <2>3. IsFiniteSet(B(y))  BY FiniteIds
  <2>4. Rank(x, S) = Cardinality(B(x)) /\ Rank(y, S) = Cardinality(B(y))  BY DEF Rank
  <2>5. Rank(x, S) \in Nat /\ Rank(y, S) \in Nat  BY RankType
  <2>. HIDE DEF B
  <2>6. Cardinality(B(x)) <= Cardinality(B(y))
        /\ (Cardinality(B(x)) = Cardinality(B(y)) => B(x) = B(y))
    BY <2>2, <2>3, FS_Subset
  <2>. QED  BY <2>2, <2>4, <2>5, <2>6
<1>2. c \in Nat /\ d \in Nat  BY ShardAssumption
<1>3. c < d \/ d < c  BY <1>2
<1>4. Rank(c, S) \in Nat /\ Rank(d, S) \in Nat  BY RankType
<1>. QED  BY <1>1, <1>3, <1>4

\* A distance is that of two positions on the ring.
LEMMA DistanceValue ==
  ASSUME NEW v \in View, NEW c \in v.ids
  PROVE  LET size == Cardinality(v.ids)
             at   == v.cursor % size
         IN /\ size \in Nat /\ size > 0 /\ at \in 0..(size - 1)
            /\ Distance(v, c) = IF at <= Rank(c, v.ids) THEN Rank(c, v.ids) - at
                                                        ELSE Rank(c, v.ids) + size - at
            /\ Distance(v, c) \in 0..(size - 1)
<1>. DEFINE size == Cardinality(v.ids)
            at   == v.cursor % size
            r    == Rank(c, v.ids)
            n    == r + size - at
<1>1. v.ids \in SUBSET Ids /\ v.cursor \in Nat  BY DEF View
<1>2. size \in Nat /\ size > 0  BY <1>1, FiniteIds
<1>3. r \in 0..(size - 1)  BY <1>1, RankBelow
<1>. HIDE DEF size, r
<1>4. at \in 0..(size - 1)  BY <1>1, <1>2, Remainder
<1>. HIDE DEF at
<1>5. n \in Nat /\ n < size + size /\ (at <= r <=> size <= n)  BY <1>2, <1>3, <1>4
<1>. HIDE DEF n
<1>6. n % size = IF at <= r THEN n - size ELSE n  BY <1>2, <1>5, Remainder
<1>7. Distance(v, c) = IF at <= r THEN r - at ELSE r + size - at
  BY <1>2, <1>3, <1>4, <1>6 DEF Distance, n, at, r, size
<1>8. Distance(v, c) \in 0..(size - 1)  BY <1>2, <1>3, <1>4, <1>7
<1>. QED  BY <1>2, <1>4, <1>7, <1>8 DEF at, r, size

\* A rotation that picks another leaves c nearer.
LEMMA RotationNears ==
  ASSUME NEW v \in View, NEW c \in v.ids, NEW d \in v.ids, c # d,
         Distance(v, d) <= Distance(v, c)
  PROVE  /\ Distance(v, c) > 0
         /\ Distance([v EXCEPT !.cursor = Rank(d, v.ids) + 1], c) <= Distance(v, c) - 1
<1>. DEFINE w == [v EXCEPT !.cursor = Rank(d, v.ids) + 1]
<1>1. v.ids \in SUBSET Ids /\ v.cursor \in Nat  BY DEF View
<1>. DEFINE size == Cardinality(v.ids)
            at   == v.cursor % size
            x    == Rank(c, v.ids)
            y    == Rank(d, v.ids)
            now1 == (y + 1) % size
<1>2. x \in 0..(size - 1) /\ y \in 0..(size - 1) /\ x # y  BY <1>1, RankBelow, RanksDiffer
<1>3. w \in View /\ w.ids = v.ids /\ w.cursor = y + 1  BY <1>1, <1>2 DEF View
<1>4. /\ size \in Nat /\ size > 0 /\ at \in 0..(size - 1)
      /\ Distance(v, c) = IF at <= x THEN x - at ELSE x + size - at
      /\ Distance(v, d) = IF at <= y THEN y - at ELSE y + size - at
  BY DistanceValue
<1>5. Distance(w, c) = IF now1 <= x THEN x - now1 ELSE x + size - now1
  BY <1>3, DistanceValue
<1>. HIDE DEF size, at, x, y, w
<1>6. now1 = IF y + 1 = size THEN 0 ELSE y + 1  BY <1>2, <1>4, Remainder
<1>. HIDE DEF now1
<1>7. Distance(v, c) > 0 /\ Distance(w, c) <= Distance(v, c) - 1
  BY <1>2, <1>4, <1>5, <1>6
<1>. QED  BY <1>7 DEF w, y

\* pickRoundRobin takes the first of all when nothing has been tried.
LEMMA InTurnIsFirst ==
  ASSUME NEW v \in View, v.ids # {}
  PROVE  /\ InTurn(v, Ids) \in v.ids
         /\ \A c \in v.ids : Distance(v, InTurn(v, Ids)) <= Distance(v, c)
<1>1. v.ids \cap Ids = v.ids  BY DEF View
<1>. DEFINE f == [c \in v.ids |-> Distance(v, c)]
<1>2. f \in [v.ids -> Nat]
  <2>1. ASSUME NEW c \in v.ids  PROVE Distance(v, c) \in Nat
    <3>. DEFINE size == Cardinality(v.ids)
    <3>1. size \in Nat /\ Distance(v, c) \in 0..(size - 1)  BY DistanceValue
    <3>. HIDE DEF size
    <3>. QED  BY <3>1
  <2>. QED  BY <2>1
<1>3. PICK c \in v.ids : \A d \in v.ids : f[c] <= f[d]  BY <1>2, LeastValue
<1>4. \E e \in v.ids : \A d \in v.ids : Distance(v, e) <= Distance(v, d)  BY <1>3
<1>5. InTurn(v, Ids) = CHOOSE e \in v.ids : \A d \in v.ids : Distance(v, e) <= Distance(v, d)
  BY <1>1, Zenon DEF InTurn, Distance
<1>. QED  BY <1>4, <1>5

-----------------------------------------------------------------------------
(* The slots of the rotation over providers.                                 *)

ReadyIn(sh, p, i, c) ==
  p \in DOMAIN sh[Order[i]].ready /\ c \in sh[Order[i]].ready[p].all.ids

\* A provider's segment has as many slots as the provider has ready ids.
LEMMA SegmentSize ==
  ASSUME NEW sh, NEW p, NEW i \in 1..Len(Order),
         p \in DOMAIN sh[Order[i]].ready, sh[Order[i]].ready[p].all.ids \in SUBSET Ids
  PROVE  /\ SegmentStart(sh, p, i + 1) = SegmentStart(sh, p, i)
                                           + Cardinality(sh[Order[i]].ready[p].all.ids)
         /\ SegmentStart(sh, p, i + 1) <= TotalWeight(sh, p)
<1>. DEFINE V == sh[Order[i]].ready[p].all.ids
            R == ReadySlots(sh, p)
            A == {x \in R : x[1] < i}
            B == {x \in R : x[1] < i + 1}
            C == {i} \X V
<1>1. i \in Nat /\ \A x \in R : x[1] \in Nat  BY OrderLength DEF ReadySlots
<1>2. C \subseteq R  BY DEF ReadySlots
<1>3. \A x \in R : x[1] = i => x \in C  BY DEF ReadySlots
<1>4. B = A \cup C /\ A \cap C = {}
  <2>1. \A x \in R : x[1] < i + 1 <=> (x[1] < i \/ x[1] = i)  BY <1>1
  <2>2. \A x \in C : x[1] = i /\ ~(i < i)  BY <1>1
  <2>. HIDE DEF R, C
  <2>. QED  BY <1>2, <1>3, <2>1, <2>2
<1>5. IsFiniteSet(R) /\ IsFiniteSet(A) /\ IsFiniteSet(B) /\ IsFiniteSet(C)
  <2>1. IsFiniteSet(R)  BY SlotsFinite
  <2>. HIDE DEF R, C
  <2>. QED  BY <1>2, <2>1, FS_Subset
<1>6. Cardinality(C) = Cardinality(V)
  <2>1. IsFiniteSet(V) /\ Cardinality(V) \in Nat  BY FiniteIds
  <2>2. IsFiniteSet({i}) /\ Cardinality({i}) = 1  BY FS_Singleton
  <2>. HIDE DEF V
  <2>3. Cardinality({i} \X V) = Cardinality({i}) * Cardinality(V)  BY <2>1, <2>2, FS_Product
  <2>. QED  BY <2>1, <2>2, <2>3
<1>7. Cardinality(B) = Cardinality(A) + Cardinality(C)
  <2>. HIDE DEF A, B, C
  <2>1. Cardinality(A \cup C) = Cardinality(A) + Cardinality(C) - Cardinality(A \cap C)
    BY <1>5, FS_Union
  <2>2. Cardinality(A) \in Nat /\ Cardinality(C) \in Nat  BY <1>5, FS_CardinalityType
  <2>3. Cardinality(A \cap C) = 0  BY <1>4, FS_EmptySet
  <2>. QED  BY <1>4, <2>1, <2>2, <2>3
<1>8. Cardinality(B) <= Cardinality(R)
  <2>. HIDE DEF R
  <2>. QED  BY <1>5, FS_Subset
<1>. QED  BY <1>6, <1>7, <1>8 DEF SegmentStart, TotalWeight

LEMMA SegmentsAscend ==
  ASSUME NEW sh, NEW p, NEW i \in Nat, NEW j \in Nat, i <= j
  PROVE  SegmentStart(sh, p, i) <= SegmentStart(sh, p, j)
<1>. DEFINE A(k) == {x \in ReadySlots(sh, p) : x[1] < k}
<1>1. \A x \in ReadySlots(sh, p) : x[1] \in Nat  BY OrderLength DEF ReadySlots
<1>2. \A x \in ReadySlots(sh, p) : x[1] < i => x[1] < j  BY <1>1
<1>3. A(i) \subseteq A(j)  BY <1>2
<1>4. IsFiniteSet(A(j))
  <2>1. IsFiniteSet(ReadySlots(sh, p))  BY SlotsFinite
  <2>. QED  BY <2>1, FS_Subset
<1>. HIDE DEF A
<1>5. Cardinality(A(i)) <= Cardinality(A(j))  BY <1>3, <1>4, FS_Subset
<1>. QED  BY <1>5 DEF SegmentStart, A

\* Segments do not overlap: the holder of a slot is the only provider that has it.
LEMMA OneHolder ==
  ASSUME NEW sh, NEW p, NEW i \in Nat, NEW j \in Nat, NEW slot \in Nat,
         SegmentStart(sh, p, i) <= slot, slot < SegmentStart(sh, p, i + 1),
         SegmentStart(sh, p, j) <= slot, slot < SegmentStart(sh, p, j + 1)
  PROVE  i = j
<1>1. ASSUME NEW a \in Nat, NEW b \in Nat, a < b,
             slot < SegmentStart(sh, p, a + 1), SegmentStart(sh, p, b) <= slot
      PROVE  FALSE
  <2>1. a + 1 \in Nat /\ a + 1 <= b  BY <1>1
  <2>2. SegmentStart(sh, p, a + 1) <= SegmentStart(sh, p, b)  BY <2>1, SegmentsAscend
  <2>3. SegmentStart(sh, p, a + 1) \in Nat /\ SegmentStart(sh, p, b) \in Nat  BY SlotsFinite
  <2>. QED  BY <1>1, <2>2, <2>3
<1>. QED  BY <1>1

\* When nothing has been tried, the slot's own provider is picked from.
LEMMA HolderIsPicked ==
  ASSUME NEW sh, NEW p, NEW h \in 1..Len(Order), NEW able \in SUBSET (1..Len(Order)), h \in able
  PROVE  NextAble(h, able) = h
<1>. DEFINE n == Len(Order)
<1>1. n \in Nat /\ n > 0  BY OrderLength
<1>2. ASSUME NEW j \in 1..n
      PROVE  Around(h, j) \in 0..(n - 1) /\ (Around(h, j) = 0 <=> j = h)
  <2>. DEFINE m == j + n - h
  <2>1. j \in 1..n /\ h \in 1..n  OBVIOUS
  <2>2. Around(h, j) = m % n  BY DEF Around
  <2>. HIDE DEF n
  <2>3. m \in Nat /\ m > 0 /\ m < n + n /\ (m = n <=> j = h)  BY <1>1, <2>1
  <2>. HIDE DEF m
  <2>4. m % n \in 0..(n - 1) /\ (m < n => m % n = m) /\ (n <= m => m % n = m - n)
    BY <1>1, <2>3, Remainder
  <2>. QED  BY <1>1, <2>2, <2>3, <2>4
<1>3. \A k \in able : Around(h, h) <= Around(h, k)  BY <1>1, <1>2
<1>4. ASSUME NEW j \in able, \A k \in able : Around(h, j) <= Around(h, k)  PROVE j = h
  <2>1. Around(h, j) <= Around(h, h)  BY <1>4
  <2>2. Around(h, j) \in 0..(n - 1) /\ Around(h, h) = 0  BY <1>2
  <2>. HIDE DEF n
  <2>3. Around(h, j) = 0  BY <1>1, <2>1, <2>2
  <2>. QED  BY <1>2, <2>3 DEF n
<1>. QED  BY <1>3, <1>4 DEF NextAble

\* Two providers never hold one credential: there are no more slots than ready
\* credentials.
LEMMA SlotsAreCredentials ==
  ASSUME Inv, NEW p, DOMAIN shards = Providers
  PROVE  TotalWeight(shards, p) <= Slots(p) /\ Slots(p) \in Nat
<1>. DEFINE R == ReadySlots(shards, p)
            C == {c \in DOMAIN meta :
                    /\ meta[c].pri = p
                    /\ meta[c].provider \in DOMAIN shards
                    /\ c \in InState(shards[meta[c].provider], {"ready"})}
            f == [x \in R |-> x[2]]
<1>1. C \in SUBSET Ids  BY DEF Inv, TypeOK
<1>2. ASSUME NEW x \in R
      PROVE  x[2] \in C /\ meta[x[2]].provider = Order[x[1]] /\ x[1] \in 1..Len(Order)
             /\ x = <<x[1], x[2]>>
  <2>. DEFINE i == x[1]
              c == x[2]
              s == shards[Order[i]]
  <2>1. i \in 1..Len(Order) /\ p \in DOMAIN s.ready /\ c \in s.ready[p].all.ids /\ x = <<i, c>>
    BY DEF ReadySlots
  <2>2. Order[i] \in Providers  BY <2>1, ProviderOfPosition
  <2>3. ShardInv(s, meta, Order[i], now)  BY <2>2 DEF Inv
  <2>4. c \in ReadyAt(s, p)  BY <2>1, <2>3 DEF ShardInv, Indexed, IndexExact
  <2>5. c \in DOMAIN s.entries /\ s.entries[c].pri = p /\ c \in InState(s, {"ready"})
    BY <2>4 DEF ReadyAt, InState
  <2>6. c \in Serving(meta, Order[i]) /\ meta[c].pri = p  BY <2>3, <2>5 DEF ShardInv, Sound
  <2>7. c \in DOMAIN meta /\ meta[c].provider = Order[i]  BY <2>6 DEF Serving
  <2>. QED  BY <2>1, <2>2, <2>5, <2>6, <2>7
<1>3. \A x, y \in R : x[2] = y[2] => x = y
  <2>1. SUFFICES ASSUME NEW x \in R, NEW y \in R, x[2] = y[2]  PROVE x = y  OBVIOUS
  <2>2. Order[x[1]] = Order[y[1]]  BY <1>2, <2>1
  <2>3. x[1] = y[1]  BY <1>2, <2>2, SchedulerAssumption
  <2>. QED  BY <1>2, <2>1, <2>3
<1>4. f \in Injection(R, C)
  <2>1. f \in [R -> C]  BY <1>2
  <2>2. \A x, y \in R : f[x] = f[y] => x = y  BY <1>3
  <2>. HIDE DEF f, R, C
  <2>. QED  BY <2>1, <2>2 DEF Injection, IsInjective
<1>5. IsFiniteSet(C) /\ Cardinality(C) \in Nat  BY <1>1, FiniteIds
<1>6. Cardinality(R) <= Cardinality(C)
  <2>. HIDE DEF f, R, C
  <2>. QED  BY <1>4, <1>5, FS_Injection DEF ExistsInjection
<1>. QED  BY <1>5, <1>6 DEF TotalWeight, Slots

-----------------------------------------------------------------------------
(* What waits for its turn.                                                  *)

IsBest(sh, p) == \A pv \in Providers : \A q \in DOMAIN sh[pv].ready : q <= p

\* The slot whose turn it is when the rotation is at t.
SlotAt(sh, t, p) == t % TotalWeight(sh, p)

\* The mixed picks, with the rotation at t, until c of provider i has been picked.
PicksUntil(sh, t, p, i, c) ==
  LET view  == sh[Order[i]].ready[p].all
      total == TotalWeight(sh, p)
  IN Until(SlotAt(sh, t, p), total, SegmentStart(sh, p, i), Cardinality(view.ids),
           Distance(view, c))

\* Of c, which n mixed picks have passed: it is among the ready ones of the best
\* priority, and its turn comes before the round is over.
TurnComes(sh, t, n, c) ==
  n > 0 => /\ DOMAIN sh = Providers
           /\ \E i \in 1..Len(Order), p \in Priorities :
                /\ ReadyIn(sh, p, i, c) /\ IsBest(sh, p)
                /\ n + PicksUntil(sh, t, p, i, c) <= TotalWeight(sh, p)

Turns == \A c \in Ids : TurnComes(shards, turn, passed[c], c)

AllIndexed(sh) == \A pv \in Providers : Indexed(sh[pv])

LEMMA TheView ==
  ASSUME NEW s, Indexed(s), NEW p \in DOMAIN s.ready
  PROVE  /\ s.ready[p].all \in View /\ s.ready[p].all.ids # {}
         /\ s.ready[p].all.ids \in SUBSET Ids /\ p \in Priorities /\ p \in Int
<1>1. IsShard(s) /\ IndexExact(s)  BY DEF Indexed
<1>2. s.ready[p].all \in View /\ p \in Priorities  BY <1>1 DEF IsShard
<1>3. PICK c \in InState(s, {"ready"}) : s.entries[c].pri = p  BY <1>1 DEF IndexExact
<1>4. c \in s.ready[p].all.ids  BY <1>1, <1>3 DEF IndexExact, ReadyAt
<1>5. s.ready[p].all.ids \in SUBSET Ids  BY <1>2 DEF View
<1>. QED  BY <1>2, <1>4, <1>5, ShardAssumption

\* The place of c in both rotations: the rotation of total slots is at slot at, c's
\* provider has size of them from start on and serves d others before c.
Place(sh, t, p, i, c, total, start, size, at, d) ==
  /\ total = TotalWeight(sh, p) /\ total > 0
  /\ start = SegmentStart(sh, p, i) /\ start + size <= total
  /\ SegmentStart(sh, p, i + 1) = start + size
  /\ size = Cardinality(sh[Order[i]].ready[p].all.ids)
  /\ at = SlotAt(sh, t, p) /\ at < total
  /\ d = Distance(sh[Order[i]].ready[p].all, c) /\ d < size
  /\ PicksUntil(sh, t, p, i, c) = Until(at, total, start, size, d)
  /\ PicksUntil(sh, t, p, i, c) \in 1..total

LEMMA ThePlace ==
  ASSUME NEW sh, AllIndexed(sh), NEW t \in Nat, NEW p, NEW i \in 1..Len(Order), NEW c,
         ReadyIn(sh, p, i, c)
  PROVE  \E total, start, size, at, d \in Nat : Place(sh, t, p, i, c, total, start, size, at, d)
<1>. DEFINE v     == sh[Order[i]].ready[p].all
            total == TotalWeight(sh, p)
            start == SegmentStart(sh, p, i)
            size  == Cardinality(v.ids)
            at    == SlotAt(sh, t, p)
            d     == Distance(v, c)
<1>1. Indexed(sh[Order[i]]) /\ p \in DOMAIN sh[Order[i]].ready /\ c \in v.ids
  BY ProviderOfPosition DEF AllIndexed, ReadyIn
<1>2. v \in View /\ v.ids \in SUBSET Ids  BY <1>1, TheView
<1>3. SegmentStart(sh, p, i + 1) = start + size /\ SegmentStart(sh, p, i + 1) <= total
  BY <1>1, <1>2, SegmentSize
<1>4. total \in Nat /\ start \in Nat  BY SlotsFinite
<1>5. size \in Nat /\ size > 0 /\ d \in 0..(size - 1)  BY <1>1, <1>2, DistanceValue
<1>6. PicksUntil(sh, t, p, i, c) = Until(at, total, start, size, d)  BY DEF PicksUntil
<1>7. at = t % total  BY DEF SlotAt
<1>8. /\ total = TotalWeight(sh, p) /\ start = SegmentStart(sh, p, i)
      /\ size = Cardinality(sh[Order[i]].ready[p].all.ids)
      /\ at = SlotAt(sh, t, p)
      /\ d = Distance(sh[Order[i]].ready[p].all, c)
  OBVIOUS
<1>. HIDE DEF v, total, start, size, at, d
<1>9. total > 0 /\ start + size <= total  BY <1>3, <1>4, <1>5
<1>10. at \in Nat /\ at < total
  <2>1. t % total \in 0..(total - 1)  BY <1>4, <1>9, Remainder
  <2>. QED  BY <1>4, <1>7, <2>1
<1>11. d \in Nat /\ d < size  BY <1>5
<1>12. Until(at, total, start, size, d) \in 1..total
  BY <1>4, <1>5, <1>9, <1>10, <1>11, UntilBounds
<1>13. Place(sh, t, p, i, c, total, start, size, at, d)
  BY <1>3, <1>6, <1>8, <1>9, <1>10, <1>11, <1>12 DEF Place
<1>. QED  BY <1>4, <1>5, <1>10, <1>11, <1>13

-----------------------------------------------------------------------------
(* What a pick does to the rotation inside a provider.                        *)

\* From shard s to r a rotation took id: no other credential of a view has a longer way.
Turned(s, r, id) ==
  /\ DOMAIN r.ready = DOMAIN s.ready
  /\ \A q \in DOMAIN s.ready :
       /\ r.ready[q].all.ids = s.ready[q].all.ids
       /\ \A c \in s.ready[q].all.ids \ {id} :
            Distance(r.ready[q].all, c) <= Distance(s.ready[q].all, c)

\* It took id from the view of priority p.
TurnedAt(s, r, id, p) ==
  \A c \in s.ready[p].all.ids \ {id} :
    /\ Distance(s.ready[p].all, c) > 0
    /\ Distance(r.ready[p].all, c) <= Distance(s.ready[p].all, c) - 1

LEMMA PickTurns ==
  ASSUME NEW s, Indexed(s), NEW p \in Offers(s, Ids), NEW preferWs \in BOOLEAN
  PROVE  LET pick == PickAt(s, p, preferWs, FALSE, Ids)
         IN /\ Indexed(pick.shard)
            /\ Turned(s, pick.shard, pick.id)
            /\ ~preferWs => TurnedAt(s, pick.shard, pick.id, p)
<1>. DEFINE useWs  == preferWs /\ p \in OffersWs(s, Ids)
            bucket == s.ready[p]
            view   == IF useWs THEN bucket.ws ELSE bucket.all
            id     == InTurn(view, Ids)
            moved  == [view EXCEPT !.cursor = Rank(id, view.ids) + 1]
            next   == IF useWs THEN [bucket EXCEPT !.ws = moved] ELSE [bucket EXCEPT !.all = moved]
            r      == [s EXCEPT !.ready[p] = next]
            pick   == PickAt(s, p, preferWs, FALSE, Ids)
<1>1. pick.id = id /\ pick.shard = r  BY DEF PickAt
<1>2. p \in DOMAIN s.ready  BY DEF Offers
<1>3. IsShard(s)  BY DEF Indexed
<1>4. bucket \in [all: View, ws: View]  BY <1>2, <1>3 DEF IsShard
<1>5. /\ DOMAIN r.ready = DOMAIN s.ready
      /\ \A q \in DOMAIN s.ready : r.ready[q] = IF q = p THEN next ELSE s.ready[q]
  <2>. HIDE DEF next
  <2>. QED  BY <1>3 DEF IsShard
<1>6. ASSUME NEW q \in DOMAIN s.ready, NEW c \in s.ready[q].all.ids
      PROVE  Distance(s.ready[q].all, c) \in Int
  <2>. DEFINE w == s.ready[q].all
  <2>1. w \in View /\ c \in w.ids  BY <1>6, TheView
  <2>. HIDE DEF w
  <2>. DEFINE size == Cardinality(w.ids)
  <2>2. size \in Nat /\ Distance(w, c) \in 0..(size - 1)  BY <2>1, DistanceValue
  <2>. HIDE DEF size
  <2>. QED  BY <2>2 DEF w
<1>7. ASSUME useWs  PROVE Turned(s, pick.shard, pick.id) /\ preferWs
  <2>1. next.all = bucket.all
    <3>. HIDE DEF moved, bucket
    <3>. QED  BY <1>4, <1>7
  <2>2. \A q \in DOMAIN s.ready : r.ready[q].all = s.ready[q].all
    <3>. HIDE DEF r, next
    <3>. QED  BY <1>5, <2>1
  <2>3. preferWs  BY <1>7
  <2>. HIDE DEF r, pick
  <2>4. \A q \in DOMAIN s.ready : \A c \in s.ready[q].all.ids :
          Distance(r.ready[q].all, c) <= Distance(s.ready[q].all, c)
    BY <1>6, <2>2
  <2>5. Turned(s, r, id)  BY <1>5, <2>2, <2>4 DEF Turned
  <2>. QED  BY <1>1, <2>3, <2>5 DEF pick
<1>8. ASSUME ~useWs  PROVE Turned(s, pick.shard, pick.id) /\ TurnedAt(s, pick.shard, pick.id, p)
  <2>1. view = bucket.all /\ next = [bucket EXCEPT !.all = moved]  BY <1>8
  <2>2. view \in View /\ view.ids # {}  BY <1>2, <2>1, TheView
  <2>3. id \in view.ids /\ \A c \in view.ids : Distance(view, id) <= Distance(view, c)
    <3>. HIDE DEF view
    <3>. QED  BY <2>2, InTurnIsFirst
  <2>4. \A c \in view.ids \ {id} :
          Distance(view, c) > 0 /\ Distance(moved, c) <= Distance(view, c) - 1
    <3>. HIDE DEF view, id
    <3>. QED  BY <2>2, <2>3, RotationNears
  <2>5. moved.ids = view.ids
    <3>. HIDE DEF view, id
    <3>. QED  BY <2>2 DEF View
  <2>6. next.all = moved
    <3>. HIDE DEF moved, bucket
    <3>. QED  BY <1>4, <2>1
  <2>. HIDE DEF moved, view, id, r, next, pick, useWs
  <2>7. \A q \in DOMAIN s.ready :
          r.ready[q].all = IF q = p THEN moved ELSE s.ready[q].all
    BY <1>5, <2>6
  <2>8. view = s.ready[p].all  BY <2>1
  <2>9. ASSUME NEW q \in DOMAIN s.ready
        PROVE  /\ r.ready[q].all.ids = s.ready[q].all.ids
               /\ \A c \in s.ready[q].all.ids \ {id} :
                    /\ Distance(r.ready[q].all, c) <= Distance(s.ready[q].all, c)
                    /\ q = p => /\ Distance(s.ready[q].all, c) > 0
                                /\ Distance(r.ready[q].all, c) <= Distance(s.ready[q].all, c) - 1
    <3>1. CASE q = p
      <4>1. r.ready[q].all = moved /\ s.ready[q].all = view  BY <2>7, <2>8, <3>1
      <4>2. ASSUME NEW c \in view.ids \ {id}
            PROVE  Distance(moved, c) <= Distance(view, c)
        <5>1. Distance(view, c) > 0 /\ Distance(moved, c) <= Distance(view, c) - 1  BY <2>4
        <5>2. Distance(view, c) \in Int  BY <1>6, <4>1
        <5>3. Distance(moved, c) \in Int
          <6>1. moved \in View  BY <4>1, <2>2, <2>5, <2>3, RankType DEF View, moved
          <6>. DEFINE size == Cardinality(moved.ids)
          <6>2. size \in Nat /\ Distance(moved, c) \in 0..(size - 1)  BY <2>5, <6>1, DistanceValue
          <6>. HIDE DEF size
          <6>. QED  BY <6>2
        <5>. QED  BY <5>1, <5>2, <5>3
      <4>. QED  BY <2>4, <2>5, <4>1, <4>2
    <3>2. CASE q # p
      <4>1. r.ready[q].all = s.ready[q].all  BY <2>7, <3>2
      <4>. QED  BY <1>6, <3>2, <4>1
    <3>. QED  BY <3>1, <3>2
  <2>10. Turned(s, r, id)  BY <1>5, <2>9 DEF Turned
  <2>11. TurnedAt(s, r, id, p)  BY <1>2, <2>9 DEF TurnedAt
  <2>. QED  BY <1>1, <2>10, <2>11 DEF pick
<1>9. Indexed(pick.shard)
  <2>. HIDE DEF pick
  <2>. QED  BY PickAtCorrect DEF pick
<1>. QED  BY <1>7, <1>8, <1>9

-----------------------------------------------------------------------------
(* What a pick does to the rotation over providers.                           *)

\* Only cursors have moved.
SameViews(sh, new) ==
  \A pv \in Providers :
    /\ DOMAIN new[pv].ready = DOMAIN sh[pv].ready
    /\ \A q \in DOMAIN sh[pv].ready : new[pv].ready[q].all.ids = sh[pv].ready[q].all.ids

\* The slots stay what they are while only cursors move.
LEMMA SameSlots ==
  ASSUME NEW sh, NEW new, SameViews(sh, new), NEW p
  PROVE  /\ TotalWeight(new, p) = TotalWeight(sh, p)
         /\ \A i : SegmentStart(new, p, i) = SegmentStart(sh, p, i)
         /\ IsBest(sh, p) => IsBest(new, p)
         /\ \A i \in 1..Len(Order), c \in Ids :
              ReadyIn(sh, p, i, c) =>
                /\ ReadyIn(new, p, i, c)
                /\ new[Order[i]].ready[p].all.ids = sh[Order[i]].ready[p].all.ids
<1>1. \A i \in 1..Len(Order) : Order[i] \in Providers  BY ProviderOfPosition
<1>2. ReadySlots(new, p) = ReadySlots(sh, p)  BY <1>1 DEF ReadySlots, SameViews
<1>3. IsBest(sh, p) => IsBest(new, p)  BY DEF IsBest, SameViews
<1>4. ASSUME NEW i \in 1..Len(Order), NEW c \in Ids, ReadyIn(sh, p, i, c)
      PROVE  /\ ReadyIn(new, p, i, c)
             /\ new[Order[i]].ready[p].all.ids = sh[Order[i]].ready[p].all.ids
  BY <1>1, <1>4 DEF ReadyIn, SameViews
<1>. QED  BY <1>2, <1>3, <1>4 DEF TotalWeight, SegmentStart

Replaced(sh, new, pv, r) == new = [sh EXCEPT ![pv] = r]

LEMMA AfterPick ==
  ASSUME NEW sh, DOMAIN sh = Providers, AllIndexed(sh), NEW pv \in Providers,
         NEW r, NEW id, Indexed(r), Turned(sh[pv], r, id),
         NEW new, Replaced(sh, new, pv, r)
  PROVE  DOMAIN new = Providers /\ AllIndexed(new) /\ SameViews(sh, new)
<1>1. DOMAIN new = Providers /\ \A x \in Providers : new[x] = IF x = pv THEN r ELSE sh[x]
  BY DEF Replaced
<1>2. AllIndexed(new)  BY <1>1 DEF AllIndexed
<1>3. SameViews(sh, new)  BY <1>1 DEF SameViews, Turned
<1>. QED  BY <1>1, <1>2, <1>3

\* The place of c before and after a pick, u being the rotation then.
LEMMA BothPlaces ==
  ASSUME NEW sh, AllIndexed(sh), NEW new, AllIndexed(new), SameViews(sh, new),
         NEW t \in Nat, NEW u \in Nat, NEW p, NEW i \in 1..Len(Order), NEW c \in Ids,
         ReadyIn(sh, p, i, c)
  PROVE  \E total, start, size, at, later, d, e \in Nat :
           /\ Place(sh, t, p, i, c, total, start, size, at, d)
           /\ Place(new, u, p, i, c, total, start, size, later, e)
<1>1. /\ TotalWeight(new, p) = TotalWeight(sh, p)
      /\ SegmentStart(new, p, i) = SegmentStart(sh, p, i)
      /\ ReadyIn(new, p, i, c)
      /\ new[Order[i]].ready[p].all.ids = sh[Order[i]].ready[p].all.ids
  BY SameSlots
<1>2. PICK total, start, size, at, d \in Nat : Place(sh, t, p, i, c, total, start, size, at, d)
  BY ThePlace
<1>3. PICK w, b, z, later, e \in Nat : Place(new, u, p, i, c, w, b, z, later, e)
  BY <1>1, ThePlace
<1>4. w = total /\ b = start /\ z = size  BY <1>1, <1>2, <1>3 DEF Place
<1>. QED  BY <1>2, <1>3, <1>4

\* A pick of a single provider, or with a preference for websockets, brings nobody
\* farther from its turn.
LEMMA SinglePickKeepsTurns ==
  ASSUME NEW sh, DOMAIN sh = Providers, AllIndexed(sh), NEW pv \in Providers,
         NEW r, NEW id, Indexed(r), Turned(sh[pv], r, id),
         NEW new, Replaced(sh, new, pv, r),
         NEW t \in Nat, NEW p, NEW i \in 1..Len(Order), NEW c \in Ids, ReadyIn(sh, p, i, c), c # id
  PROVE  PicksUntil(new, t, p, i, c) <= PicksUntil(sh, t, p, i, c)
<1>1. DOMAIN new = Providers /\ AllIndexed(new) /\ SameViews(sh, new)
  BY AfterPick
<1>2. /\ DOMAIN new = Providers /\ AllIndexed(new) /\ SameViews(sh, new)
      /\ new[pv] = r /\ \A x \in Providers \ {pv} : new[x] = sh[x]
  BY <1>1 DEF Replaced
<1>3. PICK total, start, size, at, later, d, e \in Nat :
           /\ Place(sh, t, p, i, c, total, start, size, at, d)
           /\ Place(new, t, p, i, c, total, start, size, later, e)
  BY <1>2, BothPlaces
<1>4. /\ Order[i] \in Providers /\ p \in DOMAIN sh[Order[i]].ready
      /\ c \in sh[Order[i]].ready[p].all.ids
  BY ProviderOfPosition DEF ReadyIn
<1>5. e <= d
  <2>1. d = Distance(sh[Order[i]].ready[p].all, c) /\ e = Distance(new[Order[i]].ready[p].all, c)
    BY <1>3 DEF Place
  <2>2. CASE Order[i] = pv  BY <1>2, <1>4, <2>1, <2>2 DEF Turned
  <2>3. CASE Order[i] # pv
    <3>1. e = d  BY <1>2, <1>4, <2>1, <2>3
    <3>. QED  BY <3>1
  <2>. QED  BY <2>2, <2>3
<1>6. later = at
  <2>1. total = TotalWeight(sh, p) /\ total = TotalWeight(new, p)  BY <1>3 DEF Place
  <2>2. at = SlotAt(sh, t, p) /\ later = SlotAt(new, t, p)  BY <1>3 DEF Place
  <2>. QED  BY <2>1, <2>2 DEF SlotAt
<1>7. /\ at < total /\ start + size <= total /\ d < size
      /\ PicksUntil(sh, t, p, i, c) = Until(at, total, start, size, d)
      /\ PicksUntil(new, t, p, i, c) = Until(at, total, start, size, e)
  BY <1>3, <1>6 DEF Place
<1>8. Until(at, total, start, size, e) <= Until(at, total, start, size, d)
  BY <1>5, <1>7, UntilCloser
<1>. QED  BY <1>7, <1>8

\* A slot passes that serves another credential: one pick less to wait for.
LEMMA UntilAfterSlot ==
  ASSUME NEW total \in Nat, NEW start \in Nat, NEW size \in Nat, NEW at \in Nat, NEW later \in Nat,
         NEW d \in Nat, NEW e \in Nat,
         at < total, start + size <= total, d < size,
         later = IF at + 1 = total THEN 0 ELSE at + 1,
         start <= at /\ at < start + size => d > 0 /\ e <= d - 1,
         ~(start <= at /\ at < start + size) => e = d
  PROVE  Until(later, total, start, size, e) <= Until(at, total, start, size, d) - 1
BY DEF Until

\* With the rotation at t, in a slot of provider h, pick id is taken from pv; u is the
\* rotation afterwards. Credential c of provider i waits.
MixedStep(sh, new, t, slot, u, p, h, pv, r, id, i, c) ==
  /\ DOMAIN sh = Providers /\ AllIndexed(sh)
  /\ t \in Nat /\ slot \in Nat /\ u = 1 + slot /\ slot = SlotAt(sh, t, p)
  /\ h \in 1..Len(Order) /\ pv = Order[h]
  /\ SegmentStart(sh, p, h) <= slot /\ slot < SegmentStart(sh, p, h + 1)
  /\ Indexed(r) /\ Turned(sh[pv], r, id) /\ TurnedAt(sh[pv], r, id, p)
  /\ Replaced(sh, new, pv, r)
  /\ i \in 1..Len(Order) /\ c \in Ids /\ ReadyIn(sh, p, i, c) /\ c # id

\* A pick of the provider that holds the slot brings every other credential of the
\* best priority nearer by one.
LEMMA MixedPickBringsTurns ==
  ASSUME NEW sh, NEW new, NEW t, NEW slot, NEW u, NEW p, NEW h, NEW pv, NEW r, NEW id, NEW i, NEW c,
         MixedStep(sh, new, t, slot, u, p, h, pv, r, id, i, c)
  PROVE  PicksUntil(new, u, p, i, c) <= PicksUntil(sh, t, p, i, c) - 1
<1>. USE DEF MixedStep
<1>1. pv \in Providers /\ Order[i] \in Providers  BY ProviderOfPosition
<1>2. DOMAIN new = Providers /\ AllIndexed(new) /\ SameViews(sh, new)
  BY <1>1, AfterPick
<1>3. /\ DOMAIN new = Providers /\ AllIndexed(new) /\ SameViews(sh, new)
      /\ new[pv] = r /\ \A x \in Providers \ {pv} : new[x] = sh[x]
  BY <1>2, <1>1 DEF Replaced
<1>4. /\ AllIndexed(sh) /\ t \in Nat /\ u \in Nat /\ i \in 1..Len(Order) /\ c \in Ids
      /\ ReadyIn(sh, p, i, c)
  OBVIOUS
<1>5. PICK total, start, size, at, later, d, e \in Nat :
           /\ Place(sh, t, p, i, c, total, start, size, at, d)
           /\ Place(new, u, p, i, c, total, start, size, later, e)
  BY ONLY <1>3, <1>4, BothPlaces
<1>6. /\ total = TotalWeight(sh, p) /\ start = SegmentStart(sh, p, i)
      /\ SegmentStart(sh, p, i + 1) = start + size
      /\ d = Distance(sh[Order[i]].ready[p].all, c) /\ e = Distance(new[Order[i]].ready[p].all, c)
      /\ total > 0 /\ start + size <= total /\ d < size /\ at < total
      /\ PicksUntil(sh, t, p, i, c) = Until(at, total, start, size, d)
      /\ PicksUntil(new, u, p, i, c) = Until(later, total, start, size, e)
  BY <1>5 DEF Place
<1>7. slot = at /\ u = at + 1 /\ later = u % total
  <2>1. at = SlotAt(sh, t, p) /\ later = SlotAt(new, u, p) /\ TotalWeight(new, p) = total
    BY <1>5 DEF Place
  <2>2. slot = at /\ u = at + 1  BY <2>1
  <2>3. later = u % total  BY <2>1 DEF SlotAt
  <2>. QED  BY <2>2, <2>3
<1>8. later = IF at + 1 = total THEN 0 ELSE at + 1
  <2>1. u \in Nat /\ total \in Nat /\ at \in Nat /\ total > 0 /\ at < total  BY <1>6, <1>7
  <2>2. (u < total => u % total = u) /\ (total <= u /\ u < total + total => u % total = u - total)
    BY ONLY <2>1, Remainder
  <2>. QED  BY ONLY <1>7, <2>1, <2>2
<1>9. p \in DOMAIN sh[Order[i]].ready /\ c \in sh[Order[i]].ready[p].all.ids
  BY DEF ReadyIn
<1>10. ASSUME start <= at, at < start + size  PROVE d > 0 /\ e <= d - 1
  <2>1. h \in Nat /\ i \in Nat  OBVIOUS
  <2>2. SegmentStart(sh, p, i) <= slot /\ slot < SegmentStart(sh, p, i + 1)  BY <1>6, <1>7, <1>10
  <2>3. i = h  BY <2>1, <2>2, OneHolder
  <2>. QED  BY <1>3, <1>6, <1>9, <2>3 DEF TurnedAt
<1>11. ASSUME ~(start <= at /\ at < start + size)  PROVE e = d
  <2>1. i # h
    <3>1. SUFFICES ASSUME i = h  PROVE FALSE  OBVIOUS
    <3>. QED  BY <1>6, <1>7, <1>11, <3>1
  <2>2. Order[i] # pv  BY <2>1, SchedulerAssumption
  <2>. QED  BY <1>1, <1>3, <1>6, <2>2
<1>12. Until(later, total, start, size, e) <= Until(at, total, start, size, d) - 1
  BY ONLY <1>5, <1>6, <1>8, <1>10, <1>11, UntilAfterSlot
<1>. QED  BY <1>6, <1>12

-----------------------------------------------------------------------------
(* The picks and the counts of those that wait.                              *)

LEMMA WaitedSingle ==
  ASSUME NEW sh, NEW p, NEW id, NEW c \in Ids
  PROVE  /\ c = id => Waited(sh, p, id, FALSE)[c] = 0
         /\ c # id /\ sh = shards => Waited(sh, p, id, FALSE)[c] = passed[c]
         /\ c # id /\ sh # shards => Waited(sh, p, id, FALSE)[c] = 0
BY DEF Waited, NoneLate

LEMMA WaitedMixed ==
  ASSUME NEW sh, NEW p, NEW id, NEW c \in Ids, NEW n, n = IF sh = shards THEN passed[c] ELSE 0
  PROVE  /\ c = id => Waited(sh, p, id, TRUE)[c] = 0
         /\ c # id => \/ Waited(sh, p, id, TRUE)[c] = n
                      \/ /\ Waited(sh, p, id, TRUE)[c] = n + 1
                         /\ \E pv \in Providers : /\ p \in DOMAIN sh[pv].ready
                                                  /\ c \in sh[pv].ready[p].all.ids
BY DEF Waited, NoneLate

LEMMA NobodyWaits ==
  ASSUME passed' = NoneLate
  PROVE  Turns'
BY DEF Turns, TurnComes, NoneLate

LEMMA EverythingAllowed == Allowed({}, {}) = Ids
BY DEF Allowed

\* A round-robin pick of one provider.
LEMMA SinglePickTurns ==
  ASSUME Inv, Turns, NEW pv \in Providers, NEW sh, sh = Ensured({pv}),
         NEW p \in Offers(sh[pv], Ids), NEW preferWs \in BOOLEAN,
         NEW r, NEW id, Indexed(r), Turned(sh[pv], r, id),
         shards' = [sh EXCEPT ![pv] = r], turn' = turn,
         passed' = Waited(sh, p, id, FALSE)
  PROVE  Turns'
<1>1. SUFFICES ASSUME NEW c \in Ids, passed'[c] > 0
               PROVE  TurnComes(shards', turn', passed'[c], c)
  BY DEF Turns, TurnComes
<1>2. c # id /\ sh = shards /\ passed'[c] = passed[c]
  <2>1. passed'[c] = Waited(sh, p, id, FALSE)[c]  OBVIOUS
  <2>2. /\ c = id => passed'[c] = 0
        /\ c # id /\ sh = shards => passed'[c] = passed[c]
        /\ c # id /\ sh # shards => passed'[c] = 0
    BY <2>1, WaitedSingle
  <2>3. ~(0 > 0)  OBVIOUS
  <2>. QED  BY <1>1, <2>2, <2>3
<1>3. turn \in Nat /\ passed[c] \in Nat  BY DEF Inv, TypeOK
<1>4. TurnComes(shards, turn, passed[c], c)  BY DEF Turns
<1>5. DOMAIN shards = Providers  BY <1>1, <1>2, <1>4 DEF TurnComes
<1>6. PICK i \in 1..Len(Order), q \in Priorities :
        /\ ReadyIn(shards, q, i, c) /\ IsBest(shards, q)
        /\ passed[c] + PicksUntil(shards, turn, q, i, c) <= TotalWeight(shards, q)
  BY <1>1, <1>2, <1>4 DEF TurnComes
<1>7. AllIndexed(shards)  BY <1>5 DEF AllIndexed, Inv, ShardInv
<1>8. PICK t \in Nat : t = turn  BY <1>3
<1>9. PICK old, new : old = shards /\ new = shards'  OBVIOUS
<1>10. /\ Replaced(old, new, pv, r) /\ Turned(old[pv], r, id) /\ Indexed(r)
      /\ DOMAIN old = Providers /\ AllIndexed(old) /\ ReadyIn(old, q, i, c) /\ IsBest(old, q)
      /\ pv \in Providers /\ i \in 1..Len(Order) /\ c \in Ids /\ c # id /\ t \in Nat
  BY <1>2, <1>5, <1>6, <1>7, <1>9 DEF Replaced
<1>11. passed[c] + PicksUntil(old, t, q, i, c) <= TotalWeight(old, q)
  BY <1>6, <1>8, <1>9
<1>12. DOMAIN new = Providers /\ AllIndexed(new) /\ SameViews(old, new)
  BY <1>10, AfterPick
<1>13. /\ ReadyIn(new, q, i, c) /\ IsBest(new, q)
       /\ TotalWeight(new, q) = TotalWeight(old, q)
  BY <1>10, <1>12, SameSlots
<1>14. PicksUntil(new, t, q, i, c) <= PicksUntil(old, t, q, i, c)
  BY ONLY <1>10, SinglePickKeepsTurns
<1>15. PicksUntil(new, t, q, i, c) \in Nat /\ PicksUntil(old, t, q, i, c) \in Nat
       /\ TotalWeight(old, q) \in Nat
  <2>1. \E total, start, size, at, d \in Nat : Place(old, t, q, i, c, total, start, size, at, d)
    BY ONLY <1>10, ThePlace
  <2>2. \E total, start, size, at, d \in Nat : Place(new, t, q, i, c, total, start, size, at, d)
    BY ONLY <1>10, <1>12, <1>13, ThePlace
  <2>3. PICK total \in Nat : PicksUntil(old, t, q, i, c) \in 1..total /\ total = TotalWeight(old, q)
    BY <2>1 DEF Place
  <2>4. PICK total_1 \in Nat : PicksUntil(new, t, q, i, c) \in 1..total_1
    BY <2>2 DEF Place
  <2>. QED  BY <2>3, <2>4
<1>16. passed[c] + PicksUntil(new, t, q, i, c) <= TotalWeight(new, q)
  BY <1>3, <1>11, <1>13, <1>14, <1>15
<1>. QED  BY <1>2, <1>8, <1>9, <1>12, <1>13, <1>16 DEF TurnComes

LEMMA PickSingleTurns ==
  ASSUME Inv, Turns, NEW pv \in Providers, NEW pinned \in SUBSET Ids, NEW tried \in SUBSET Ids,
         NEW websocket \in BOOLEAN, PickSingle(pv, pinned, tried, websocket)
  PROVE  Turns'
<1>. DEFINE sh       == Ensured({pv})
            allowed  == Allowed(pinned, tried)
            preferWs == websocket /\ pv \in WsProviders /\ pinned = {}
            p        == BestPriority(sh[pv], preferWs, allowed)
            pick     == PickAt(sh[pv], p, preferWs, fillFirst, allowed)
<1>1. CASE passed' = NoneLate  BY <1>1, NobodyWaits
<1>2. CASE passed' # NoneLate
  <2>1. Offers(sh[pv], allowed) # {}  BY <1>2 DEF PickSingle, PickFails
  <2>2. /\ shards' = [sh EXCEPT ![pv] = pick.shard]
        /\ passed' = IF pinned = {} /\ tried = {} /\ ~fillFirst
                     THEN Waited(sh, p, pick.id, FALSE) ELSE NoneLate
        /\ turn' = turn
    BY <2>1 DEF PickSingle
  <2>3. pinned = {} /\ tried = {} /\ ~fillFirst /\ passed' = Waited(sh, p, pick.id, FALSE)
    BY <1>2, <2>2
  <2>4. allowed = Ids  BY <2>3, EverythingAllowed
  <2>5. fillFirst = FALSE  BY <2>3 DEF Inv, TypeOK
  <2>6. Indexed(sh[pv])  BY EnsuredCorrect DEF ShardInv
  <2>7. preferWs \in BOOLEAN  OBVIOUS
  <2>9. p \in Offers(sh[pv], Ids)
    <3>. DEFINE s == sh[pv]
    <3>1. /\ OffersWs(s, allowed) \subseteq Offers(s, allowed)
          /\ Offers(s, allowed) \in SUBSET Priorities
      BY <2>6, OffersCorrect
    <3>. HIDE DEF s, allowed, preferWs
    <3>2. p \in Offers(s, allowed)
      BY <2>1, <3>1, HighestIsGreatest DEF BestPriority, s
    <3>. QED  BY <2>4, <3>2 DEF s
  <2>. HIDE DEF preferWs, p, allowed, sh
  <2>10. pick = PickAt(sh[pv], p, preferWs, FALSE, Ids)  BY <2>4, <2>5
  <2>11. Indexed(pick.shard) /\ Turned(sh[pv], pick.shard, pick.id)
    <3>. DEFINE s == sh[pv]
    <3>1. Indexed(s) /\ p \in Offers(s, Ids)  BY <2>6, <2>9
    <3>. HIDE DEF s, pick
    <3>2. pick = PickAt(s, p, preferWs, FALSE, Ids)  BY <2>10 DEF s
    <3>3. LET x == PickAt(s, p, preferWs, FALSE, Ids)
          IN Indexed(x.shard) /\ Turned(s, x.shard, x.id)
      BY <2>7, <3>1, PickTurns
    <3>. QED  BY <3>2, <3>3 DEF s
  <2>. HIDE DEF pick
  <2>12. PICK r, id : r = pick.shard /\ id = pick.id  OBVIOUS
  <2>13. sh = Ensured({pv})  BY DEF sh
  <2>. QED  BY <2>2, <2>3, <2>7, <2>9, <2>11, <2>12, <2>13, SinglePickTurns
<1>. QED  BY <1>1, <1>2

-----------------------------------------------------------------------------
(* A round-robin pick among all providers.                                   *)

LEMMA MixedPickTurns ==
  ASSUME Inv, Turns, NEW sh, sh = Ensured(Providers), NEW p \in Int, IsBest(sh, p),
         NEW t \in Nat, t = turn, NEW slot \in Nat, slot = SlotAt(sh, t, p),
         NEW h \in 1..Len(Order),
         SegmentStart(sh, p, h) <= slot, slot < SegmentStart(sh, p, h + 1),
         NEW pv, pv = Order[h], p \in DOMAIN sh[pv].ready,
         NEW r, NEW id, Indexed(r), Turned(sh[pv], r, id), TurnedAt(sh[pv], r, id, p),
         shards' = [sh EXCEPT ![pv] = r], turn' = 1 + slot,
         passed' = Waited(sh, p, id, TRUE)
  PROVE  Turns'
<1>1. SUFFICES ASSUME NEW c \in Ids, passed'[c] > 0
               PROVE  TurnComes(shards', turn', passed'[c], c)
  BY DEF Turns, TurnComes
<1>2. DOMAIN sh = Providers /\ AllIndexed(sh)
  <2>1. DOMAIN shards \subseteq Providers  BY DEF Inv, TypeOK
  <2>2. DOMAIN sh = DOMAIN shards \cup Providers /\ \A x \in DOMAIN sh : Indexed(sh[x])
    BY EnsuredCorrect DEF ShardInv
  <2>. QED  BY <2>1, <2>2 DEF AllIndexed
<1>3. PICK n : n = IF sh = shards THEN passed[c] ELSE 0  OBVIOUS
<1>4. n \in Nat  BY <1>3 DEF Inv, TypeOK
<1>5. PICK m : m = passed'[c]  OBVIOUS
<1>6. m > 0  BY <1>1, <1>5
<1>7. m = Waited(sh, p, id, TRUE)[c]  BY <1>5
<1>8. /\ c = id => m = 0
      /\ c # id => \/ m = n
                   \/ /\ m = n + 1
                      /\ \E x \in Providers : /\ p \in DOMAIN sh[x].ready
                                             /\ c \in sh[x].ready[p].all.ids
  BY <1>3, <1>7 DEF Waited, NoneLate
<1>9. c # id
  <2>1. ~(0 > 0)  OBVIOUS
  <2>. QED  BY <1>6, <1>8, <2>1
<1>10. m \in Nat /\ m <= n + 1
  <2>1. m = n \/ m = n + 1  BY <1>8, <1>9
  <2>. QED  BY <1>4, <2>1
<1>11. \E i \in 1..Len(Order) :
        ReadyIn(sh, p, i, c) /\ n + PicksUntil(sh, t, p, i, c) <= TotalWeight(sh, p)
  <2>1. CASE n > 0
    <3>1. sh = shards /\ passed[c] = n  BY <1>3, <2>1
    <3>2. PICK i \in 1..Len(Order), q \in Priorities :
            /\ ReadyIn(shards, q, i, c) /\ IsBest(shards, q)
            /\ n + PicksUntil(shards, turn, q, i, c) <= TotalWeight(shards, q)
      BY <2>1, <3>1 DEF Turns, TurnComes
    <3>3. /\ ReadyIn(sh, q, i, c) /\ IsBest(sh, q)
          /\ n + PicksUntil(sh, t, q, i, c) <= TotalWeight(sh, q)
      BY <3>1, <3>2
    <3>4. q \in Int /\ pv \in Providers /\ Order[i] \in Providers
      BY <3>2, ProviderOfPosition, ShardAssumption
    <3>5. q = p
      <4>1. p <= q  BY <3>3, <3>4 DEF IsBest
      <4>2. q <= p  BY <3>3, <3>4 DEF IsBest, ReadyIn
      <4>. QED  BY <3>4, <4>1, <4>2
    <3>. QED  BY <3>3, <3>5
  <2>2. CASE n = 0
    <3>1. PICK x \in Providers : p \in DOMAIN sh[x].ready /\ c \in sh[x].ready[p].all.ids
      <4>1. m # n  BY <1>10, <1>6, <2>2
      <4>. QED  BY <1>8, <1>9, <4>1
    <3>2. PICK i \in 1..Len(Order) : x = Order[i]  BY DEF Providers
    <3>3. ReadyIn(sh, p, i, c)  BY <3>1, <3>2 DEF ReadyIn
    <3>4. PICK total, start, size, at, d \in Nat : Place(sh, t, p, i, c, total, start, size, at, d)
      BY <1>2, <3>3, ThePlace
    <3>5. PicksUntil(sh, t, p, i, c) \in 1..total /\ total = TotalWeight(sh, p)
      BY <3>4 DEF Place
    <3>6. 0 + PicksUntil(sh, t, p, i, c) <= TotalWeight(sh, p)  BY <3>5
    <3>. QED  BY <2>2, <3>3, <3>6
  <2>. QED  BY <1>4, <2>1, <2>2
<1>12. PICK i \in 1..Len(Order) :
        ReadyIn(sh, p, i, c) /\ n + PicksUntil(sh, t, p, i, c) <= TotalWeight(sh, p)
  BY <1>11
<1>13. PICK new, u : new = shards' /\ u = turn'  OBVIOUS
<1>14. Replaced(sh, new, pv, r) /\ u \in Nat /\ pv \in Providers
  BY <1>13, ProviderOfPosition DEF Replaced
<1>15. MixedStep(sh, new, t, slot, u, p, h, pv, r, id, i, c)
  BY <1>2, <1>9, <1>12, <1>13, <1>14 DEF MixedStep
<1>16. /\ DOMAIN sh = Providers /\ AllIndexed(sh) /\ Indexed(r) /\ Turned(sh[pv], r, id)
       /\ i \in 1..Len(Order) /\ c \in Ids /\ ReadyIn(sh, p, i, c) /\ t \in Nat
  BY <1>2, <1>12
<1>17. PicksUntil(new, u, p, i, c) <= PicksUntil(sh, t, p, i, c) - 1
  BY ONLY <1>15, MixedPickBringsTurns
<1>18. DOMAIN new = Providers /\ AllIndexed(new) /\ SameViews(sh, new)
  BY ONLY <1>14, <1>16, AfterPick
<1>19. /\ ReadyIn(new, p, i, c) /\ IsBest(new, p)
       /\ TotalWeight(new, p) = TotalWeight(sh, p)
  BY <1>16, <1>18, SameSlots
<1>20. /\ PicksUntil(new, u, p, i, c) \in Nat /\ PicksUntil(sh, t, p, i, c) \in Nat
       /\ TotalWeight(sh, p) \in Nat
  <2>1. \E total, start, size, at, d \in Nat : Place(sh, t, p, i, c, total, start, size, at, d)
    BY ONLY <1>16, ThePlace
  <2>2. \E total, start, size, at, d \in Nat : Place(new, u, p, i, c, total, start, size, at, d)
    BY ONLY <1>14, <1>16, <1>18, <1>19, ThePlace
  <2>3. PICK total \in Nat : PicksUntil(sh, t, p, i, c) \in 1..total /\ total = TotalWeight(sh, p)
    BY <2>1 DEF Place
  <2>4. PICK total_1 \in Nat : PicksUntil(new, u, p, i, c) \in 1..total_1
    BY <2>2 DEF Place
  <2>. QED  BY <2>3, <2>4
<1>21. m + PicksUntil(new, u, p, i, c) <= TotalWeight(new, p)
  BY <1>4, <1>10, <1>12, <1>17, <1>19, <1>20
<1>22. p \in Priorities  BY <1>2, <1>14, TheView DEF AllIndexed
<1>23. \E i_1 \in 1..Len(Order), q \in Priorities :
         /\ ReadyIn(new, q, i_1, c) /\ IsBest(new, q)
         /\ m + PicksUntil(new, u, q, i_1, c) <= TotalWeight(new, q)
  BY <1>16, <1>19, <1>21, <1>22
<1>. QED  BY <1>13, <1>18, <1>23, <1>5 DEF TurnComes

\* The provider whose segment holds the slot has something to offer.
LEMMA HolderOffers ==
  ASSUME NEW sh, AllIndexed(sh), NEW p, NEW slot \in Nat, NEW h \in 1..Len(Order),
         SegmentStart(sh, p, h) <= slot, slot < SegmentStart(sh, p, h + 1)
  PROVE  p \in Offers(sh[Order[h]], Ids)
<1>. DEFINE R == ReadySlots(sh, p)
            A(k) == {x \in R : x[1] < k}
<1>1. PICK x \in R : x[1] = h
  <2>1. SUFFICES ASSUME \A x \in R : x[1] # h  PROVE FALSE  OBVIOUS
  <2>2. \A x \in R : x[1] \in Nat  BY OrderLength DEF ReadySlots
  <2>3. \A x \in R : x[1] < h <=> x[1] < h + 1  BY <2>1, <2>2
  <2>4. A(h) = A(h + 1)  BY <2>3
  <2>5. SegmentStart(sh, p, h) = SegmentStart(sh, p, h + 1)
    <3>. HIDE DEF R
    <3>. QED  BY <2>4 DEF SegmentStart, R
  <2>6. SegmentStart(sh, p, h) \in Nat  BY SlotsFinite
  <2>. QED  BY <2>5, <2>6
<1>2. p \in DOMAIN sh[Order[h]].ready /\ x[2] \in sh[Order[h]].ready[p].all.ids
  BY <1>1 DEF ReadySlots
<1>3. Indexed(sh[Order[h]])  BY ProviderOfPosition DEF AllIndexed
<1>4. sh[Order[h]].ready[p].all.ids \cap Ids # {}
  <2>1. sh[Order[h]].ready[p].all.ids \in SUBSET Ids  BY <1>2, <1>3, TheView
  <2>. QED  BY <1>2, <2>1
<1>. QED  BY <1>2, <1>4 DEF Offers

-----------------------------------------------------------------------------

LEMMA PickMixedTurns ==
  ASSUME Inv, Turns, NEW tried \in SUBSET Ids, PickMixed(tried)
  PROVE  Turns'
<1>. DEFINE sh      == Ensured(Providers)
            allowed == Allowed({}, tried)
            offered == UNION {Offers(sh[pv], allowed) : pv \in Providers}
            p       == Highest(offered)
            choice  == MixedChoice(sh, p, allowed)
            pick(x) == PickAt(sh[x], p, FALSE, fillFirst, allowed)
<1>1. CASE passed' = NoneLate  BY <1>1, NobodyWaits
<1>2. CASE passed' # NoneLate
  <2>1. offered # {}  BY <1>2 DEF PickMixed, PickFails
  <2>2. tried = {} /\ ~fillFirst  BY <1>2, <2>1 DEF PickMixed
  <2>3. /\ shards' = [sh EXCEPT ![choice.provider] = pick(choice.provider).shard]
        /\ turn' = choice.turn
        /\ passed' = Waited(sh, p, pick(choice.provider).id, TRUE)
    BY <2>1, <2>2 DEF PickMixed
  <2>4. allowed = Ids /\ fillFirst = FALSE  BY <2>2, EverythingAllowed DEF Inv, TypeOK
  <2>5. AllIndexed(sh)
    <3>1. DOMAIN sh = DOMAIN shards \cup Providers /\ \A x \in DOMAIN sh : Indexed(sh[x])
      BY EnsuredCorrect DEF ShardInv
    <3>. QED  BY <3>1 DEF AllIndexed
  <2>6. p \in offered /\ \A q \in offered : q <= p
    <3>1. offered \in SUBSET Priorities  BY <2>5, OffersCorrect DEF AllIndexed
    <3>. HIDE DEF offered
    <3>. QED  BY <2>1, <3>1, HighestIsGreatest
  <2>. HIDE DEF p, allowed, choice, sh
  <2>7. PICK x \in Providers : p \in Offers(sh[x], Ids)  BY <2>4, <2>6
  <2>8. \A y \in Providers : Offers(sh[y], Ids) = DOMAIN sh[y].ready
    <3>1. SUFFICES ASSUME NEW y \in Providers  PROVE Offers(sh[y], Ids) = DOMAIN sh[y].ready
      OBVIOUS
    <3>. DEFINE s == sh[y]
    <3>2. Indexed(s)  BY <2>5 DEF AllIndexed
    <3>. HIDE DEF s
    <3>3. \A q \in DOMAIN s.ready : s.ready[q].all.ids # {} /\ s.ready[q].all.ids \in SUBSET Ids
      BY <3>2, TheView
    <3>4. Offers(s, Ids) = DOMAIN s.ready  BY <3>3 DEF Offers
    <3>. QED  BY <3>4 DEF s
  <2>9. IsBest(sh, p)  BY <2>4, <2>6, <2>8 DEF IsBest
  <2>10. PICK i \in 1..Len(Order) : x = Order[i]  BY DEF Providers
  <2>11. PICK c \in Ids : ReadyIn(sh, p, i, c)  BY <2>7, <2>10 DEF Offers, ReadyIn
  <2>12. PICK t \in Nat : t = turn  BY DEF Inv, TypeOK
  <2>13. PICK total, start, size, slot, d \in Nat :
           Place(sh, t, p, i, c, total, start, size, slot, d)
    BY <2>5, <2>11, ThePlace
  <2>14. slot = SlotAt(sh, t, p) /\ slot < TotalWeight(sh, p)  BY <2>13 DEF Place
  <2>15. PICK h : h = Holder(sh, p, slot)  OBVIOUS
  <2>16. /\ h \in 1..Len(Order)
         /\ SegmentStart(sh, p, h) <= slot /\ slot < SegmentStart(sh, p, h + 1)
    BY <2>14, <2>15, HolderExists
  <2>17. h \in Able(sh, p, Ids) /\ Able(sh, p, Ids) \in SUBSET (1..Len(Order))
    <3>1. p \in Offers(sh[Order[h]], Ids)  BY <2>5, <2>16, HolderOffers
    <3>. QED  BY <2>16, <3>1 DEF Able
  <2>18. NextAble(h, Able(sh, p, Ids)) = h  BY <2>16, <2>17, HolderIsPicked
  <2>19. choice = [provider |-> Order[h], turn |-> 1 + slot]
    BY <2>4, <2>12, <2>14, <2>15, <2>18 DEF choice, MixedChoice, SlotAt
  <2>20. PICK pv : pv = Order[h]  OBVIOUS
  <2>21. pv \in Providers /\ Indexed(sh[pv]) /\ p \in Offers(sh[pv], Ids)
    BY <2>5, <2>16, <2>17, <2>20, ProviderOfPosition DEF AllIndexed, Able
  <2>22. PICK r, id : r = pick(pv).shard /\ id = pick(pv).id  OBVIOUS
  <2>23. Indexed(r) /\ Turned(sh[pv], r, id) /\ TurnedAt(sh[pv], r, id, p)
    <3>. DEFINE s == sh[pv]
    <3>1. Indexed(s) /\ p \in Offers(s, Ids)  BY <2>21
    <3>2. r = PickAt(s, p, FALSE, FALSE, Ids).shard /\ id = PickAt(s, p, FALSE, FALSE, Ids).id
      BY <2>4, <2>22
    <3>. HIDE DEF s
    <3>3. LET y == PickAt(s, p, FALSE, FALSE, Ids)
          IN /\ Indexed(y.shard) /\ Turned(s, y.shard, y.id)
             /\ ~FALSE => TurnedAt(s, y.shard, y.id, p)
      BY <3>1, PickTurns
    <3>. QED  BY <3>2, <3>3 DEF s
  <2>24. /\ shards' = [sh EXCEPT ![pv] = r] /\ turn' = 1 + slot
         /\ passed' = Waited(sh, p, id, TRUE)
    <3>1. choice.provider = pv /\ choice.turn = 1 + slot  BY <2>19, <2>20
    <3>. QED  BY <2>3, <2>22, <3>1
  <2>. HIDE DEF pick
  <2>25. p \in Int  BY <2>21, TheView DEF Offers
  <2>26. sh = Ensured(Providers)  BY DEF sh
  <2>27. p \in DOMAIN sh[pv].ready  BY <2>8, <2>21
  <2>. QED  BY <2>9, <2>12, <2>14, <2>16, <2>20, <2>23, <2>24, <2>25, <2>26, <2>27, MixedPickTurns
<1>. QED  BY <1>1, <1>2

LEMMA PickMixedPinnedTurns ==
  ASSUME Inv, Turns, NEW c \in Ids, NEW tried \in SUBSET Ids, PickMixedPinned(c, tried)
  PROVE  Turns'
<1>1. CASE c \notin DOMAIN meta
  <2>1. passed' = NoneLate  BY <1>1 DEF PickMixedPinned, PickFails
  <2>. QED  BY <2>1, NobodyWaits
<1>2. CASE c \in DOMAIN meta
  <2>1. meta[c].provider \in Providers  BY <1>2 DEF Inv, TypeOK, Meta
  <2>2. PickSingle(meta[c].provider, {c}, tried, FALSE)  BY <1>2 DEF PickMixedPinned
  <2>. QED  BY <2>1, <2>2, PickSingleTurns
<1>. QED  BY <1>1, <1>2

\* Everything but a pick and the clock starts the counts anew.
LEMMA NextTurns == Inv /\ Turns /\ [Next]_vars => Turns'
<1>. SUFFICES ASSUME Inv, Turns, [Next]_vars PROVE Turns'  OBVIOUS
<1>1. CASE Tick \/ UNCHANGED vars
  <2>1. UNCHANGED <<shards, turn, passed>>  BY <1>1 DEF Tick, vars
  <2>. QED  BY <2>1 DEF Turns
<1>2. CASE SetSelector  BY <1>2, NobodyWaits DEF SetSelector
<1>3. ASSUME NEW c \in Ids, NEW a \in Snapshots[c], UpsertAuth(c, a)  PROVE Turns'
  BY <1>3, NobodyWaits DEF UpsertAuth
<1>4. ASSUME NEW c \in Ids, RemoveAuth(c)  PROVE Turns'
  BY <1>4, NobodyWaits DEF RemoveAuth
<1>5. CASE Rebuild  BY <1>5, NobodyWaits DEF Rebuild
<1>6. ASSUME NEW pv \in Providers, NEW tried \in Tries, PickSingle(pv, {}, tried, FALSE)
      PROVE  Turns'
  <2>1. tried \in SUBSET Ids  BY DEF Tries
  <2>. QED  BY <1>6, <2>1, PickSingleTurns
<1>7. ASSUME NEW pv \in WsProviders, NEW tried \in Tries, PickSingle(pv, {}, tried, TRUE)
      PROVE  Turns'
  <2>1. tried \in SUBSET Ids /\ pv \in Providers  BY SchedulerAssumption DEF Tries
  <2>. QED  BY <1>7, <2>1, PickSingleTurns
<1>8. ASSUME NEW pv \in Providers, NEW c \in Ids, NEW tried \in SUBSET {c},
             PickSingle(pv, {c}, tried, FALSE)
      PROVE  Turns'
  <2>1. tried \in SUBSET Ids  OBVIOUS
  <2>. QED  BY <1>8, <2>1, PickSingleTurns
<1>9. ASSUME NEW tried \in Tries, PickMixed(tried)  PROVE Turns'
  <2>1. tried \in SUBSET Ids  BY DEF Tries
  <2>. QED  BY <1>9, <2>1, PickMixedTurns
<1>10. ASSUME NEW c \in Ids, NEW tried \in SUBSET {c}, PickMixedPinned(c, tried)  PROVE Turns'
  <2>1. tried \in SUBSET Ids  OBVIOUS
  <2>. QED  BY <1>10, <2>1, PickMixedPinnedTurns
<1>. QED  BY <1>1, <1>2, <1>3, <1>4, <1>5, <1>6, <1>7, <1>8, <1>9, <1>10 DEF Next

\* Whoever waits has its turn before all the slots have been used.
LEMMA TurnsInTime == Inv /\ Turns => EveryoneInTurn
<1>. SUFFICES ASSUME Inv, Turns, NEW c \in DOMAIN meta, passed[c] > 0
              PROVE  passed[c] < Slots(meta[c].pri)
  BY DEF EveryoneInTurn
<1>1. c \in Ids /\ passed[c] \in Nat /\ turn \in Nat  BY DEF Inv, TypeOK
<1>2. /\ DOMAIN shards = Providers
      /\ \E i \in 1..Len(Order), p \in Priorities :
           /\ ReadyIn(shards, p, i, c)
           /\ passed[c] + PicksUntil(shards, turn, p, i, c) <= TotalWeight(shards, p)
  BY <1>1 DEF Turns, TurnComes
<1>3. PICK i \in 1..Len(Order), p \in Priorities :
        /\ ReadyIn(shards, p, i, c)
        /\ passed[c] + PicksUntil(shards, turn, p, i, c) <= TotalWeight(shards, p)
  BY <1>2
<1>4. AllIndexed(shards)  BY <1>2 DEF AllIndexed, Inv, ShardInv
<1>5. PICK sh, t : sh = shards /\ t = turn  OBVIOUS
<1>6. PICK total, start, size, at, d \in Nat : Place(sh, t, p, i, c, total, start, size, at, d)
  BY <1>1, <1>3, <1>4, <1>5, ThePlace
<1>7. PicksUntil(sh, t, p, i, c) \in 1..total /\ total = TotalWeight(sh, p)
  BY <1>6 DEF Place
<1>8. passed[c] < total
  <2>1. passed[c] + PicksUntil(sh, t, p, i, c) <= total  BY <1>3, <1>5, <1>7
  <2>. QED  BY <1>1, <1>7, <2>1
<1>9. meta[c].pri = p
  <2>1. Order[i] \in Providers  BY ProviderOfPosition
  <2>2. ShardInv(shards[Order[i]], meta, Order[i], now)  BY <1>2, <2>1 DEF Inv
  <2>3. c \in ReadyAt(shards[Order[i]], p)  BY <1>3, <2>2 DEF ShardInv, Indexed, IndexExact, ReadyIn
  <2>4. c \in DOMAIN shards[Order[i]].entries /\ shards[Order[i]].entries[c].pri = p
    BY <2>3 DEF ReadyAt, InState
  <2>. QED  BY <2>2, <2>4 DEF ShardInv, Sound
<1>10. total <= Slots(p) /\ Slots(p) \in Nat  BY <1>2, <1>5, <1>7, SlotsAreCredentials
<1>11. passed[c] < Slots(p)  BY <1>1, <1>8, <1>10
<1>. QED  BY <1>9, <1>11

\* As long as the ready credentials stay the same, each of them is passed over by
\* fewer mixed picks than there are slots between two picks that take it, mixed or
\* for its provider alone, whatever else is picked meanwhile
\* (scheduler.go:293-410, 780-819).
THEOREM TurnsComeRound == Spec => []EveryoneInTurn
<1>1. Init => Turns  BY DEF Init, Turns, TurnComes, NoneLate
<1>2. Inv /\ Answered => Inv  OBVIOUS
<1>3. Spec => [](Inv /\ Turns)
  <2>1. Spec => []Inv  BY <1>2, Invariance, PTL
  <2>2. Inv /\ Turns /\ [Next]_vars => Turns'  BY NextTurns
  <2>. QED  BY <1>1, <2>1, <2>2, PTL DEF Spec
<1>4. Inv /\ Turns => EveryoneInTurn  BY TurnsInTime
<1>. QED  BY <1>3, <1>4, PTL
=============================================================================
