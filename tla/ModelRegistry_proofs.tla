------------------------ MODULE ModelRegistry_proofs ------------------------
(***************************************************************************)
(* Proofs about module ModelRegistry, for every finite set of clients and   *)
(* any models, lists, providers and readers: the counters are exact, the    *)
(* cached listing is fresh, a free client keeps its model listed, and the   *)
(* registry implements ModelListing.                                        *)
(***************************************************************************)
EXTENDS ModelRegistry, TLAPS, FiniteSetTheorems

-----------------------------------------------------------------------------
(* Sums over the clients.                                                    *)

\* The occurrences that Tally counts.
Occurrences(f) == UNION {{c} \X (1..f[c]) : c \in DOMAIN f}

LEMMA OccurrencesAre ==
  ASSUME NEW S, NEW f \in [S -> Nat]
  PROVE  \A x : x \in Occurrences(f) <=>
           \E c \in S : \E k \in 1..f[c] : x = <<c, k>>
BY DEF Occurrences

LEMMA ClientOccurrences ==
  ASSUME NEW c, NEW n \in Nat
  PROVE  IsFiniteSet({c} \X (1..n)) /\ Cardinality({c} \X (1..n)) = n
<1>1. IsFiniteSet({c}) /\ Cardinality({c}) = 1  BY FS_Singleton
<1>2. IsFiniteSet(1..n) /\ Cardinality(1..n) = n  BY FS_Interval
<1>3. /\ IsFiniteSet({c} \X (1..n))
      /\ Cardinality({c} \X (1..n)) = Cardinality({c}) * Cardinality(1..n)
  BY <1>1, <1>2, FS_Product
<1>. QED  BY <1>1, <1>2, <1>3

LEMMA TallyType ==
  ASSUME NEW S, IsFiniteSet(S), NEW f \in [S -> Nat]
  PROVE  IsFiniteSet(Occurrences(f)) /\ Tally(f) \in Nat
<1>. DEFINE T == {{c} \X (1..f[c]) : c \in S}
            g == [c \in S |-> {c} \X (1..f[c])]
<1>1. g \in Surjection(S, T)  BY DEF Surjection
<1>2. IsFiniteSet(T)  BY <1>1, FS_Surjection
<1>3. \A t \in T : IsFiniteSet(t)
  <2>. SUFFICES ASSUME NEW c \in S  PROVE IsFiniteSet({c} \X (1..f[c]))
    OBVIOUS
  <2>1. f[c] \in Nat  OBVIOUS
  <2>. QED  BY <2>1, ClientOccurrences
<1>4. IsFiniteSet(UNION T)  BY <1>2, <1>3, FS_UNION
<1>5. Occurrences(f) = UNION T  BY DEF Occurrences
<1>. QED  BY <1>4, <1>5, FS_CardinalityType DEF Tally, Occurrences

\* A sum is zero exactly when every client's part is.
LEMMA TallyZero ==
  ASSUME NEW S, IsFiniteSet(S), NEW f \in [S -> Nat]
  PROVE  Tally(f) = 0 <=> \A c \in S : f[c] = 0
<1>1. Tally(f) = 0 <=> Occurrences(f) = {}
  BY TallyType, FS_EmptySet DEF Tally, Occurrences
<1>2. ASSUME NEW c \in S, f[c] # 0  PROVE Occurrences(f) # {}
  <2>1. 1 \in 1..f[c]  BY <1>2
  <2>2. <<c, 1>> \in Occurrences(f)  BY <2>1, OccurrencesAre
  <2>. QED  BY <2>2
<1>3. ASSUME \A c \in S : f[c] = 0  PROVE Occurrences(f) = {}
  BY <1>3, OccurrencesAre
<1>. QED  BY <1>1, <1>2, <1>3

\* Taking one client's part out of a sum.
LEMMA TallySplit ==
  ASSUME NEW S, IsFiniteSet(S), NEW f \in [S -> Nat], NEW c \in S
  PROVE  Tally(f) = f[c] + Tally([f EXCEPT ![c] = 0])
<1>. DEFINE g == [f EXCEPT ![c] = 0]
            A == {c} \X (1..f[c])
            B == Occurrences(g)
<1>1. g \in [S -> Nat] /\ f[c] \in Nat  OBVIOUS
<1>2. IsFiniteSet(B) /\ Tally(g) \in Nat /\ Tally(g) = Cardinality(B)
  BY <1>1, TallyType DEF Tally, Occurrences
<1>3. IsFiniteSet(A) /\ Cardinality(A) = f[c]  BY <1>1, ClientOccurrences
<1>4. A \cap B = {}
  <2>. SUFFICES ASSUME NEW x \in A, x \in B  PROVE FALSE
    OBVIOUS
  <2>1. PICK k \in 1..f[c] : x = <<c, k>>  OBVIOUS
  <2>. HIDE DEF g
  <2>2. PICK d \in S : \E l \in 1..g[d] : x = <<d, l>>  BY <1>1, OccurrencesAre
  <2>3. d = c  BY <2>1, <2>2
  <2>4. g[c] = 0  BY DEF g
  <2>. QED  BY <2>2, <2>3, <2>4
<1>5. Occurrences(f) = A \cup B
  <2>1. ASSUME NEW x \in Occurrences(f)  PROVE x \in A \cup B
    <3>1. PICK d \in S : \E l \in 1..f[d] : x = <<d, l>>  BY OccurrencesAre
    <3>2. CASE d = c  BY <3>1, <3>2
    <3>3. CASE d # c
      <4>1. g[d] = f[d]  BY <3>3
      <4>. HIDE DEF g
      <4>. QED  BY <1>1, <3>1, <4>1, OccurrencesAre
    <3>. QED  BY <3>2, <3>3
  <2>2. ASSUME NEW x \in A  PROVE x \in Occurrences(f)
    <3>1. PICK k \in 1..f[c] : x = <<c, k>>  OBVIOUS
    <3>. QED  BY <3>1, OccurrencesAre
  <2>3. ASSUME NEW x \in B  PROVE x \in Occurrences(f)
    <3>. HIDE DEF g
    <3>1. PICK d \in S : \E l \in 1..g[d] : x = <<d, l>>  BY <1>1, <2>3, OccurrencesAre
    <3>2. g[d] = IF d = c THEN 0 ELSE f[d]  BY DEF g
    <3>3. d # c /\ \E l \in 1..f[d] : x = <<d, l>>  BY <3>1, <3>2
    <3>. QED  BY <3>3, OccurrencesAre
  <2>. QED  BY <2>1, <2>2, <2>3
<1>6. Cardinality(A \cup B) = Cardinality(A) + Cardinality(B) - Cardinality(A \cap B)
  BY <1>2, <1>3, FS_Union
<1>7. Cardinality(A \cap B) = 0  BY <1>4, FS_EmptySet
<1>8. Tally(f) = Cardinality(A \cup B)  BY <1>5 DEF Tally, Occurrences
<1>. HIDE DEF A, B, g
<1>9. Tally(f) = f[c] + Tally(g)  BY <1>1, <1>2, <1>3, <1>6, <1>7, <1>8
<1>. QED  BY <1>9 DEF g

\* What a change of one client's part does to a sum.
LEMMA TallyChange ==
  ASSUME NEW S, IsFiniteSet(S), NEW f \in [S -> Nat], NEW g \in [S -> Nat], NEW c \in S,
         \A d \in S \ {c} : g[d] = f[d]
  PROVE  Tally(g) + f[c] = Tally(f) + g[c]
<1>. DEFINE h == [f EXCEPT ![c] = 0]
<1>1. h = [g EXCEPT ![c] = 0]  OBVIOUS
<1>2. h \in [S -> Nat] /\ f[c] \in Nat /\ g[c] \in Nat  OBVIOUS
<1>3. Tally(h) \in Nat  BY <1>2, TallyType
<1>4. Tally(f) = f[c] + Tally(h)  BY TallySplit
<1>5. Tally(g) = g[c] + Tally(h)
  <2>1. Tally(g) = g[c] + Tally([g EXCEPT ![c] = 0])  BY TallySplit
  <2>. QED  BY <1>1, <2>1
<1>. HIDE DEF h
<1>. QED  BY <1>2, <1>3, <1>4, <1>5

\* Clients that contribute are no more than the sum.
LEMMA TallyCovers ==
  ASSUME NEW S, IsFiniteSet(S), NEW f \in [S -> Nat], NEW T \in SUBSET S,
         \A c \in T : f[c] > 0
  PROVE  IsFiniteSet(T) /\ Cardinality(T) <= Tally(f)
<1>1. IsFiniteSet(T) /\ Cardinality(T) \in Nat  BY FS_Subset, FS_CardinalityType
<1>2. IsFiniteSet(T \X {1}) /\ Cardinality(T \X {1}) = Cardinality(T)
  <2>1. IsFiniteSet({1}) /\ Cardinality({1}) = 1  BY FS_Singleton
  <2>2. /\ IsFiniteSet(T \X {1})
        /\ Cardinality(T \X {1}) = Cardinality(T) * Cardinality({1})
    BY <1>1, <2>1, FS_Product
  <2>. QED  BY <1>1, <2>1, <2>2
<1>3. T \X {1} \subseteq Occurrences(f)
  <2>. SUFFICES ASSUME NEW c \in T  PROVE <<c, 1>> \in Occurrences(f)
    OBVIOUS
  <2>1. f[c] \in Nat /\ f[c] > 0  OBVIOUS
  <2>2. 1 \in 1..f[c]  BY <2>1
  <2>. QED  BY <2>2, OccurrencesAre
<1>4. Cardinality(T \X {1}) <= Cardinality(Occurrences(f))
  BY <1>3, TallyType, FS_Subset
<1>. QED  BY <1>1, <1>2, <1>4, TallyType DEF Tally, Occurrences

\* Parts that nobody contributes to both of add up to no more than the whole.
LEMMA TallyParts ==
  ASSUME NEW S, IsFiniteSet(S), NEW f \in [S -> Nat], NEW g \in [S -> Nat],
         NEW h \in [S -> Nat], \A c \in S : g[c] = 0 \/ h[c] = 0,
         \A c \in S : g[c] <= f[c] /\ h[c] <= f[c]
  PROVE  Tally(g) + Tally(h) <= Tally(f)
<1>. DEFINE A == Occurrences(g)  B == Occurrences(h)
<1>1. /\ IsFiniteSet(A) /\ IsFiniteSet(B) /\ IsFiniteSet(Occurrences(f))
      /\ Cardinality(A) = Tally(g) /\ Cardinality(B) = Tally(h)
      /\ Tally(g) \in Nat /\ Tally(h) \in Nat /\ Tally(f) \in Nat
      /\ Cardinality(Occurrences(f)) = Tally(f)
  BY TallyType DEF Tally, Occurrences
<1>2. A \cap B = {}
  <2>. SUFFICES ASSUME NEW x \in A, x \in B  PROVE FALSE
    OBVIOUS
  <2>1. PICK c \in S : \E k \in 1..g[c] : x = <<c, k>>  BY OccurrencesAre
  <2>2. PICK d \in S : \E l \in 1..h[d] : x = <<d, l>>  BY OccurrencesAre
  <2>3. d = c  BY <2>1, <2>2
  <2>. QED  BY <2>1, <2>2, <2>3
<1>3. A \cup B \subseteq Occurrences(f)
  <2>1. ASSUME NEW x \in A  PROVE x \in Occurrences(f)
    <3>1. PICK c \in S : \E k \in 1..g[c] : x = <<c, k>>  BY OccurrencesAre
    <3>2. 1..g[c] \subseteq 1..f[c] /\ 1..h[c] \subseteq 1..f[c]  OBVIOUS
    <3>. QED  BY <3>1, <3>2, OccurrencesAre
  <2>2. ASSUME NEW x \in B  PROVE x \in Occurrences(f)
    <3>1. PICK c \in S : \E k \in 1..h[c] : x = <<c, k>>  BY <2>2, OccurrencesAre
    <3>2. 1..g[c] \subseteq 1..f[c] /\ 1..h[c] \subseteq 1..f[c]  OBVIOUS
    <3>. QED  BY <3>1, <3>2, OccurrencesAre
  <2>. QED  BY <2>1, <2>2
<1>4. Cardinality(A \cup B) <= Cardinality(Occurrences(f))  BY <1>1, <1>3, FS_Subset
<1>5. Cardinality(A \cup B) = Cardinality(A) + Cardinality(B)
  <2>1. Cardinality(A \cup B) = Cardinality(A) + Cardinality(B) - Cardinality(A \cap B)
    BY <1>1, FS_Union
  <2>2. Cardinality(A \cap B) = 0  BY <1>2, FS_EmptySet
  <2>. HIDE DEF A, B
  <2>. QED  BY <1>1, <2>1, <2>2
<1>. QED  BY <1>1, <1>4, <1>5

-----------------------------------------------------------------------------
(* Entries. n is what an entry counts, f what it counts per provider.        *)

Marks(V) == UNION {[S -> V] : S \in SUBSET Clients}
Entry    == [count: Nat, providers: [Providers -> Nat], infos: SUBSET Providers,
             quota: Marks(Nat), suspended: Marks(Reasons)]

Plus(f, p, k)  == [f EXCEPT ![p] = @ + k]
Minus(f, p, k) == [f EXCEPT ![p] = @ - k]

Exact(e, n, f) ==
  /\ e \in Entry
  /\ e.count = n
  /\ e.providers = f
  /\ e.infos = {p \in Providers : f[p] > 0}
  /\ n = 0 => e = NoEntry

LEMMA MarksAre ==
  ASSUME NEW V, NEW f
  PROVE  f \in Marks(V) <=> DOMAIN f \subseteq Clients /\ f \in [DOMAIN f -> V]
BY DEF Marks

LEMMA WithoutType ==
  ASSUME NEW V, NEW f \in Marks(V), NEW c
  PROVE  /\ Without(f, c) \in Marks(V)
         /\ Without(Without(f, c), c) = Without(f, c)
         /\ c \notin DOMAIN f => Without(f, c) = f
<1>1. DOMAIN f \subseteq Clients /\ f \in [DOMAIN f -> V]  BY MarksAre
<1>2. Without(f, c) = [d \in DOMAIN f \ {c} |-> f[d]]  BY DEF Without, Restrict
<1>3. Without(f, c) \in [DOMAIN f \ {c} -> V]  BY <1>1, <1>2
<1>4. Without(f, c) \in Marks(V)  BY <1>1, <1>3, MarksAre
<1>5. Without(Without(f, c), c) = Without(f, c)
  BY <1>2 DEF Without, Restrict
<1>6. c \notin DOMAIN f => Without(f, c) = f  BY <1>1, <1>2
<1>. QED  BY <1>4, <1>5, <1>6

LEMMA RestrictType ==
  ASSUME NEW V, NEW f \in Marks(V), NEW S \in SUBSET DOMAIN f
  PROVE  Restrict(f, S) \in Marks(V)
<1>1. DOMAIN f \subseteq Clients /\ f \in [DOMAIN f -> V]  BY MarksAre
<1>2. Restrict(f, S) \in [S -> V]  BY <1>1 DEF Restrict
<1>. QED  BY <1>1, <1>2, MarksAre

LEMMA WithType ==
  ASSUME NEW V, NEW f \in Marks(V), NEW c \in Clients, NEW v \in V
  PROVE  With(f, c, v) \in Marks(V)
<1>1. DOMAIN f \subseteq Clients /\ f \in [DOMAIN f -> V]  BY MarksAre
<1>2. With(f, c, v) \in [DOMAIN f \cup {c} -> V]  BY <1>1 DEF With
<1>. QED  BY <1>1, <1>2, MarksAre

LEMMA NoEntryExact == NoEntry \in Entry /\ Exact(NoEntry, 0, [p \in Providers |-> 0])
<1>1. NoMarks \in [{} -> Nat] /\ NoMarks \in [{} -> Reasons]  BY DEF NoMarks
<1>2. NoMarks \in Marks(Nat) /\ NoMarks \in Marks(Reasons)
  BY <1>1 DEF Marks
<1>3. NoEntry \in Entry  BY <1>2 DEF NoEntry, Entry
<1>. QED  BY <1>3 DEF Exact, NoEntry

LEMMA UnmarkedType ==
  ASSUME NEW e \in Entry, NEW c
  PROVE  /\ Unmarked(e, c) \in Entry
         /\ Unmarked(e, c).count = e.count /\ Unmarked(e, c).providers = e.providers
         /\ Unmarked(e, c).infos = e.infos
         /\ Unmarked(e, c).quota = Without(e.quota, c)
         /\ Unmarked(e, c).suspended = Without(e.suspended, c)
<1>1. e.quota \in Marks(Nat) /\ e.suspended \in Marks(Reasons)  BY DEF Entry
<1>2. Without(e.quota, c) \in Marks(Nat) /\ Without(e.suspended, c) \in Marks(Reasons)
  BY <1>1, WithoutType
<1>. QED  BY <1>2 DEF Unmarked, Entry

\* Taking k from a provider that supplies at least k (removeModelRegistration).
LEMMA TakeExact ==
  ASSUME NEW n \in Nat, NEW f \in [Providers -> Nat], NEW e, Exact(e, n, f),
         NEW p, NEW k \in Nat, p \in Providers \/ k = 0,
         k > 0 => k <= f[p] /\ n > 0
  PROVE  /\ Exact(TakeProvider(e, p, k), n, Minus(f, p, k))
         /\ TakeProvider(e, p, k).quota = e.quota
         /\ TakeProvider(e, p, k).suspended = e.suspended
<1>. DEFINE g == Minus(f, p, k)
<1>1. /\ e \in Entry /\ e.count = n /\ e.providers = f
      /\ e.infos = {q \in Providers : f[q] > 0}
  BY DEF Exact
<1>2. CASE k = 0
  <2>1. g = f  BY <1>2 DEF Plus, Minus
  <2>. QED  BY <1>2, <2>1 DEF TakeProvider
<1>3. CASE k > 0 /\ f[p] = k
  <2>1. p \in Providers /\ n > 0  BY <1>3
  <2>2. TakeProvider(e, p, k) = [e EXCEPT !.providers[p] = 0, !.infos = @ \ {p}]
    BY <1>1, <1>3 DEF TakeProvider
  <2>3. g = [f EXCEPT ![p] = 0] /\ g \in [Providers -> Nat]  BY <1>3 DEF Plus, Minus
  <2>4. {q \in Providers : g[q] > 0} = {q \in Providers : f[q] > 0} \ {p}
    BY <2>1, <2>3
  <2>5. [e EXCEPT !.providers[p] = 0, !.infos = @ \ {p}]
          = [e EXCEPT !.providers = g, !.infos = @ \ {p}]
    BY <1>1, <2>1, <2>3 DEF Entry
  <2>6. g \in [Providers -> Nat]  BY <2>3
  <2>. HIDE DEF g
  <2>7. [e EXCEPT !.providers = g, !.infos = @ \ {p}] \in Entry  BY <1>1, <2>6 DEF Entry
  <2>. DEFINE r == TakeProvider(e, p, k)
  <2>8. /\ r.count = n /\ r.providers = g /\ r.infos = e.infos \ {p}
        /\ r.quota = e.quota /\ r.suspended = e.suspended
    BY <1>1, <2>2, <2>5 DEF Entry
  <2>9. Exact(r, n, g)  BY <1>1, <2>1, <2>2, <2>4, <2>5, <2>7, <2>8 DEF Exact
  <2>. QED  BY <2>8, <2>9 DEF g
<1>4. CASE k > 0 /\ f[p] # k
  <2>1. p \in Providers /\ n > 0 /\ f[p] > k /\ f[p] \in Nat  BY <1>4
  <2>2. TakeProvider(e, p, k) = [e EXCEPT !.providers[p] = @ - k]
    BY <1>1, <1>4, <2>1 DEF TakeProvider
  <2>3. g \in [Providers -> Nat]  BY <2>1 DEF Plus, Minus
  <2>4. {q \in Providers : g[q] > 0} = {q \in Providers : f[q] > 0}  BY <1>4, <2>1 DEF Plus, Minus
  <2>5. [e EXCEPT !.providers[p] = @ - k] = [e EXCEPT !.providers = g]
    BY <1>1, <2>1 DEF Entry, Plus, Minus
  <2>. HIDE DEF g
  <2>6. [e EXCEPT !.providers = g] \in Entry  BY <1>1, <2>3 DEF Entry
  <2>8. /\ Exact(TakeProvider(e, p, k), n, g) /\ TakeProvider(e, p, k).quota = e.quota
        /\ TakeProvider(e, p, k).suspended = e.suspended
    BY <1>1, <2>1, <2>2, <2>4, <2>5, <2>6 DEF Exact, Entry
  <2>. QED  BY <2>8 DEF g
<1>. QED  BY <1>2, <1>3, <1>4

LEMMA AddedExact ==
  ASSUME NEW n \in Nat, NEW f \in [Providers -> Nat], NEW e, Exact(e, n, f),
         NEW p \in Providers, NEW k \in Nat
  PROVE  /\ Exact(Added(e, p, k), n + k, Plus(f, p, k))
         /\ Added(e, p, k).quota = e.quota
         /\ Added(e, p, k).suspended = e.suspended
<1>. DEFINE g == Plus(f, p, k)
            w == [e EXCEPT !.count = @ + k]
<1>1. /\ e \in Entry /\ e.count = n /\ e.providers = f
      /\ e.infos = {q \in Providers : f[q] > 0}
  BY DEF Exact
<1>2. g \in [Providers -> Nat]  BY DEF Plus
<1>3. CASE k = 0
  <2>1. g = f  BY <1>3 DEF Plus, Minus
  <2>2. w = e  BY <1>1, <1>3 DEF Entry
  <2>3. Added(e, p, k) = e  BY <1>3, <2>2 DEF Added, GiveProvider
  <2>4. n + k = n  BY <1>3
  <2>5. Exact(Added(e, p, k), n + k, f)  BY <2>3, <2>4
  <2>. QED  BY <2>1, <2>3, <2>5
<1>4. CASE k > 0
  <2>1. /\ w \in Entry /\ w.providers = f /\ w.infos = e.infos /\ w.count = n + k
        /\ w.quota = e.quota /\ w.suspended = e.suspended
    BY <1>1 DEF Entry
  <2>2. Added(e, p, k) = [w EXCEPT !.providers[p] = @ + k, !.infos = @ \cup {p}]
    BY <1>4 DEF Added, GiveProvider
  <2>3. {q \in Providers : g[q] > 0} = {q \in Providers : f[q] > 0} \cup {p}
    BY <1>4 DEF Plus, Minus
  <2>. HIDE DEF w
  <2>4. Added(e, p, k) = [w EXCEPT !.providers = g, !.infos = @ \cup {p}]
    BY <2>1, <2>2 DEF Entry, Plus, Minus
  <2>. HIDE DEF g
  <2>5. [w EXCEPT !.providers = g, !.infos = @ \cup {p}] \in Entry
    BY <1>2, <2>1 DEF Entry
  <2>6. /\ Added(e, p, k).count = n + k /\ Added(e, p, k).providers = g
        /\ Added(e, p, k).infos = e.infos \cup {p} /\ Added(e, p, k).quota = e.quota
        /\ Added(e, p, k).suspended = e.suspended
    BY <2>1, <2>4 DEF Entry
  <2>7. n + k # 0  BY <1>4
  <2>8. Exact(Added(e, p, k), n + k, g)
    BY <1>1, <2>3, <2>4, <2>5, <2>6, <2>7 DEF Exact
  <2>. QED  BY <2>6, <2>8 DEF g
<1>. QED  BY <1>3, <1>4

\* A client that supplies k of the n, all through p, gives them back: what stays
\* is exact, and its marks are gone (removeModelRegistration, k times).
LEMMA RemovedExact ==
  ASSUME NEW n \in Nat, NEW f \in [Providers -> Nat], NEW e, Exact(e, n, f),
         NEW c, NEW p, NEW k \in Nat, p \in Providers \/ k = 0,
         k > 0 => k <= f[p] /\ f[p] <= n,
         n = k => \A q \in Providers : q # p => f[q] = 0
  PROVE  LET r == Removed(e, c, p, k)
         IN  /\ Exact(r, n - k, Minus(f, p, k))
             /\ r.quota = IF n - k = 0 THEN NoMarks
                          ELSE IF k > 0 THEN Without(e.quota, c) ELSE e.quota
             /\ r.suspended = IF n - k = 0 THEN NoMarks
                              ELSE IF k > 0 THEN Without(e.suspended, c) ELSE e.suspended
<1>. DEFINE r == Removed(e, c, p, k)
            g == Minus(f, p, k)
<1>1. /\ e \in Entry /\ e.count = n /\ e.providers = f
      /\ e.infos = {q \in Providers : f[q] > 0} /\ (n = 0 => e = NoEntry)
  BY DEF Exact
<1>2. CASE k = 0
  <2>1. g = f /\ n - k = n  BY <1>2 DEF Plus, Minus
  <2>2. r = e  BY <1>2 DEF Removed
  <2>3. n = 0 => e.quota = NoMarks /\ e.suspended = NoMarks  BY <1>1 DEF NoEntry
  <2>4. Exact(r, n - k, g)
    <3>. HIDE DEF g, r
    <3>. QED  BY <2>1, <2>2
  <2>. QED  BY <1>2, <2>1, <2>2, <2>3, <2>4
<1>3. CASE k > 0 /\ n = k
  <2>1. e # NoEntry  BY <1>1, <1>3 DEF NoEntry
  <2>2. r = NoEntry  BY <1>1, <1>3, <2>1 DEF Removed
  <2>3. n - k = 0 /\ f[p] = k /\ p \in Providers /\ f[p] \in Nat  BY <1>3
  <2>4. g = [q \in Providers |-> 0]  BY <1>3, <2>3 DEF Plus, Minus
  <2>5. Exact(r, n - k, g)
    <3>. HIDE DEF g, r
    <3>. QED  BY <2>2, <2>3, <2>4, NoEntryExact
  <2>. QED  BY <2>2, <2>3, <2>5 DEF NoEntry
<1>4. CASE k > 0 /\ n # k
  <2>1. e # NoEntry  BY <1>1, <1>4 DEF NoEntry
  <2>2. k < n /\ p \in Providers /\ n - k \in Nat /\ n - k > 0 /\ k <= f[p]  BY <1>4
  <2>. DEFINE u == Unmarked(e, c)
              w == [u EXCEPT !.count = @ - k]
  <2>3. /\ u \in Entry /\ u.count = n /\ u.providers = f /\ u.infos = e.infos
        /\ u.quota = Without(e.quota, c) /\ u.suspended = Without(e.suspended, c)
    BY <1>1, UnmarkedType
  <2>4. r = TakeProvider(w, p, k)  BY <1>1, <1>4, <2>1, <2>2 DEF Removed
  <2>. HIDE DEF u
  <2>5. /\ w \in Entry /\ w.count = n - k /\ w.providers = f /\ w.infos = e.infos
        /\ w.quota = Without(e.quota, c) /\ w.suspended = Without(e.suspended, c)
    BY <2>2, <2>3 DEF Entry
  <2>. HIDE DEF w
  <2>6. Exact(w, n - k, f)  BY <1>1, <2>2, <2>5 DEF Exact
  <2>7. k > 0 => k <= f[p] /\ n - k > 0  BY <2>2
  <2>8. /\ Exact(TakeProvider(w, p, k), n - k, Minus(f, p, k))
        /\ TakeProvider(w, p, k).quota = w.quota
        /\ TakeProvider(w, p, k).suspended = w.suspended
    BY <2>2, <2>6, <2>7, TakeExact
  <2>. QED  BY <1>4, <2>2, <2>4, <2>5, <2>8
<1>. QED  BY <1>2, <1>3, <1>4

\* A registration of a known client replaces its share of the entry by the new one,
\* and its marks are gone if it listed or lists the model.
LEMMA ReconciledExact ==
  ASSUME NEW n \in Nat, NEW f \in [Providers -> Nat], NEW e, Exact(e, n, f),
         NEW c, NEW from \in Providers, NEW to \in Providers,
         NEW old \in Nat, NEW new \in Nat, old <= f[from], f[from] <= n,
         n = old => \A q \in Providers : q # from => f[q] = 0
  PROVE  LET r == Reconciled(e, c, old, new, from, to)
             m == n - old + new
         IN  /\ Exact(r, m, Plus(Minus(f, from, old), to, new))
             /\ r.quota = IF m = 0 THEN NoMarks
                          ELSE IF old + new > 0 THEN Without(e.quota, c) ELSE e.quota
             /\ r.suspended = IF m = 0 THEN NoMarks
                              ELSE IF old + new > 0 THEN Without(e.suspended, c) ELSE e.suspended
<1>. DEFINE overlap  == Least(old, new)
            changed  == from # to
            detached == IF changed THEN TakeProvider(e, from, overlap) ELSE e
            smaller  == Removed(detached, c, from, old - overlap)
            larger   == Added(smaller, to, new - overlap)
            fresh    == [Unmarked(larger, c) EXCEPT !.infos = @ \cup {to}]
            r        == Reconciled(e, c, old, new, from, to)
            f1 == IF changed THEN Minus(f, from, overlap) ELSE f
            f2 == Minus(f1, from, old - overlap)
            f3 == Plus(f2, to, new - overlap)
            g  == Plus(Minus(f, from, old), to, new)
<1>1. r = IF new = 0 THEN larger
          ELSE IF changed THEN GiveProvider(fresh, to, overlap) ELSE fresh
  BY DEF Reconciled
<1>2. /\ overlap \in Nat /\ overlap <= old /\ overlap <= new
      /\ old - overlap \in Nat /\ new - overlap \in Nat
      /\ overlap = old \/ overlap = new
  BY DEF Least
<1>3. e \in Entry /\ (n = 0 => e = NoEntry)  BY DEF Exact
<1>. HIDE DEF overlap
<1>4. /\ Exact(detached, n, f1) /\ detached.quota = e.quota
      /\ detached.suspended = e.suspended
  <2>1. CASE changed
    <3>1. overlap > 0 => overlap <= f[from] /\ n > 0  BY <1>2
    <3>2. /\ Exact(TakeProvider(e, from, overlap), n, Minus(f, from, overlap))
          /\ TakeProvider(e, from, overlap).quota = e.quota
          /\ TakeProvider(e, from, overlap).suspended = e.suspended
      BY <1>2, <3>1, TakeExact
    <3>. QED  BY <2>1, <3>2
  <2>2. CASE ~changed  BY <2>2
  <2>. QED  BY <2>1, <2>2
<1>5. /\ f1 \in [Providers -> Nat] /\ f[from] \in Nat
      /\ f1[from] = IF changed THEN f[from] - overlap ELSE f[from]
      /\ \A q \in Providers : q # from => f1[q] = f[q]
  BY <1>2 DEF Plus, Minus
<1>. DEFINE k == old - overlap
<1>6. /\ k \in Nat /\ k <= f1[from] /\ f1[from] <= n
      /\ n = k => \A q \in Providers : q # from => f1[q] = 0
  <2>1. n = k => n = old  BY <1>2
  <2>. QED  BY <1>2, <1>5, <2>1
<1>. HIDE DEF detached, f1
<1>7. /\ Exact(smaller, n - k, f2)
      /\ smaller.quota = IF n - k = 0 THEN NoMarks
                         ELSE IF k > 0 THEN Without(e.quota, c) ELSE e.quota
      /\ smaller.suspended = IF n - k = 0 THEN NoMarks
                             ELSE IF k > 0 THEN Without(e.suspended, c) ELSE e.suspended
  BY <1>4, <1>5, <1>6, RemovedExact
<1>8. /\ f2 \in [Providers -> Nat] /\ n - k \in Nat
      /\ f2[from] = f1[from] - k
      /\ \A q \in Providers : q # from => f2[q] = f[q]
  BY <1>5, <1>6 DEF Plus, Minus
<1>. HIDE DEF smaller, f2, k
<1>9. /\ Exact(larger, n - k + (new - overlap), f3)
      /\ larger.quota = smaller.quota /\ larger.suspended = smaller.suspended
  BY <1>2, <1>7, <1>8, AddedExact
<1>10. /\ f3 \in [Providers -> Nat] /\ f3[to] = f2[to] + (new - overlap)
       /\ \A q \in Providers : q # to => f3[q] = f2[q]
  BY <1>2, <1>8 DEF Plus, Minus
<1>11. n - k + (new - overlap) = n - old + new  BY <1>2 DEF k
<1>12. /\ g \in [Providers -> Nat]
       /\ \A q \in Providers :
            g[q] = IF q = to THEN (IF q = from THEN f[q] - old + new ELSE f[q] + new)
                   ELSE IF q = from THEN f[q] - old ELSE f[q]
  BY DEF Plus, Minus
<1>. HIDE DEF larger, f3, g
<1>13. CASE new = 0
  <2>1. overlap = 0 /\ k = old  BY <1>2, <1>13 DEF k
  <2>2. f3 = g
    <3>. SUFFICES ASSUME NEW q \in Providers  PROVE f3[q] = g[q]
      BY <1>10, <1>12
    <3>. QED  BY <1>2, <1>5, <1>8, <1>10, <1>12, <1>13, <2>1
  <2>3. r = larger  BY <1>1, <1>13
  <2>. QED  BY <1>7, <1>9, <1>11, <1>13, <2>1, <2>2, <2>3 DEF g
<1>14. CASE new # 0
  <2>1. new > 0 /\ n - old + new > 0 /\ n - old + new \in Nat /\ old + new > 0
    BY <1>14
  <2>2. larger \in Entry /\ larger.count = n - old + new /\ larger.providers = f3
        /\ larger.infos = {q \in Providers : f3[q] > 0}
    BY <1>9, <1>11 DEF Exact
  <2>3. /\ Without(larger.quota, c) = Without(e.quota, c)
        /\ Without(larger.suspended, c) = Without(e.suspended, c)
    <3>1. e.quota \in Marks(Nat) /\ e.suspended \in Marks(Reasons)  BY <1>3 DEF Entry
    <3>2. CASE n - k = 0 /\ n # 0
      <4>1. overlap = 0 /\ n = old  BY <1>2, <3>2 DEF k
      <4>2. FALSE  BY <1>2, <1>14, <3>2, <4>1
      <4>. QED  BY <4>2
    <3>3. CASE n = 0
      <4>1. e.quota = NoMarks /\ e.suspended = NoMarks  BY <1>3, <3>3 DEF NoEntry
      <4>2. n - k = 0  BY <1>6, <1>8, <3>3 DEF k
      <4>. QED  BY <1>7, <1>9, <4>1, <4>2
    <3>4. CASE n - k # 0  BY <1>7, <1>9, <3>1, <3>4, WithoutType
    <3>. QED  BY <3>2, <3>3, <3>4
  <2>. DEFINE u == Unmarked(larger, c)
  <2>4. /\ u \in Entry /\ u.count = n - old + new /\ u.providers = f3
        /\ u.infos = larger.infos
        /\ u.quota = Without(e.quota, c) /\ u.suspended = Without(e.suspended, c)
    BY <2>2, <2>3, UnmarkedType
  <2>. HIDE DEF u
  <2>5. /\ fresh \in Entry /\ fresh.count = n - old + new /\ fresh.providers = f3
        /\ fresh.infos = larger.infos \cup {to}
        /\ fresh.quota = Without(e.quota, c) /\ fresh.suspended = Without(e.suspended, c)
    <3>1. fresh = [u EXCEPT !.infos = @ \cup {to}]  BY DEF u
    <3>. QED  BY <2>4, <3>1 DEF Entry
  <2>. HIDE DEF fresh
  <2>6. {q \in Providers : g[q] > 0} = {q \in Providers : f3[q] > 0} \cup {to}
    <3>1. g[to] > 0  BY <1>12, <2>1
    <3>2. ASSUME NEW q \in Providers, q # to  PROVE g[q] = f3[q]
      BY <1>2, <1>5, <1>8, <1>10, <1>12, <3>2 DEF k
    <3>. QED  BY <3>1, <3>2
  <2>7. CASE changed
    <3>1. g = [f3 EXCEPT ![to] = @ + overlap]
      <4>. SUFFICES ASSUME NEW q \in Providers
                    PROVE  g[q] = [f3 EXCEPT ![to] = @ + overlap][q]
        BY <1>10, <1>12
      <4>. QED  BY <1>2, <1>5, <1>8, <1>10, <1>12, <2>7 DEF k
    <3>2. r = GiveProvider(fresh, to, overlap)  BY <1>1, <1>14, <2>7
    <3>3. r = [fresh EXCEPT !.providers = g, !.infos = @ \cup {to}]
      <4>1. CASE overlap = 0
        <5>1. g = f3  BY <1>10, <3>1, <4>1
        <5>2. r = fresh  BY <3>2, <4>1 DEF GiveProvider
        <5>3. fresh.infos \cup {to} = fresh.infos  BY <2>5
        <5>. QED  BY <2>5, <5>1, <5>2, <5>3 DEF Entry
      <4>2. CASE overlap # 0
        <5>1. r = [fresh EXCEPT !.providers[to] = @ + overlap, !.infos = @ \cup {to}]
          BY <3>2, <4>2 DEF GiveProvider
        <5>. QED  BY <2>5, <3>1, <5>1 DEF Entry
      <4>. QED  BY <4>1, <4>2
    <3>4. /\ r \in Entry /\ r.count = n - old + new /\ r.providers = g
          /\ r.infos = larger.infos \cup {to}
          /\ r.quota = Without(e.quota, c) /\ r.suspended = Without(e.suspended, c)
      BY <1>12, <2>5, <3>3 DEF Entry
    <3>. HIDE DEF r
    <3>5. Exact(r, n - old + new, g)
      BY <2>1, <2>2, <2>6, <3>4 DEF Exact
    <3>. QED  BY <2>1, <3>4, <3>5 DEF g, r
  <2>8. CASE ~changed
    <3>1. f3 = g
      <4>. SUFFICES ASSUME NEW q \in Providers  PROVE f3[q] = g[q]
        BY <1>10, <1>12
      <4>. QED  BY <1>2, <1>5, <1>8, <1>10, <1>12, <2>8 DEF k
    <3>2. r = fresh  BY <1>1, <1>14, <2>8
    <3>. HIDE DEF r
    <3>3. Exact(r, n - old + new, g)
      BY <2>1, <2>2, <2>5, <2>6, <3>1, <3>2 DEF Exact
    <3>. QED  BY <2>1, <2>5, <3>2, <3>3 DEF g, r
  <2>. QED  BY <2>7, <2>8
<1>. QED  BY <1>13, <1>14

-----------------------------------------------------------------------------
(* The inductive invariant.                                                  *)

ByClient(m)      == [c \in Clients |-> listed[c][m]]
ByProvider(m, p) == [c \in Clients |-> IF provider[c] = p THEN listed[c][m] ELSE 0]
Count(m)         == Tally(ByClient(m))
Supply(m)        == [p \in Providers |-> Tally(ByProvider(m, p))]

\* Who has a list has a provider.
ListsOK ==
  /\ listed \in [Clients -> Lists \cup {Nothing}]
  /\ provider \in [Clients -> Providers \cup {NoProvider}]
  /\ \A c \in Clients : listed[c] # Nothing => provider[c] \in Providers

RegistryTypeOK ==
  /\ now \in Nat
  /\ models \in [Models -> Entry]
  /\ ListsOK
  /\ asked \in [Readers -> {-1} \cup 0..now]

\* There is at most one cached listing, built from the present counters and marks
\* with a clock that was right at some time.
CacheBuilt == cache = {} \/ \E t \in 0..now : cache = {Listing(t)}

EntriesExact == \A m \in Models : Exact(models[m], Count(m), Supply(m))

IInv == RegistryTypeOK /\ EntriesExact /\ CacheBuilt

LEMMA ListType ==
  /\ Nothing \in [Models -> Nat] /\ Lists \cup {Nothing} \subseteq [Models -> Nat]
  /\ Nothing \notin Lists
BY RegistryAssumption DEF Nothing

LEMMA TalliesType ==
  ASSUME ListsOK, NEW m \in Models
  PROVE  /\ ByClient(m) \in [Clients -> Nat] /\ Count(m) \in Nat
         /\ \A p : ByProvider(m, p) \in [Clients -> Nat] /\ Tally(ByProvider(m, p)) \in Nat
         /\ Supply(m) \in [Providers -> Nat]
<1>1. \A c \in Clients : listed[c][m] \in Nat  BY ListType DEF ListsOK
<1>2. ByClient(m) \in [Clients -> Nat]  BY <1>1 DEF ByClient
<1>3. \A p : ByProvider(m, p) \in [Clients -> Nat]  BY <1>1 DEF ByProvider
<1>4. IsFiniteSet(Clients)  BY RegistryAssumption
<1>. QED  BY <1>2, <1>3, <1>4, TallyType DEF Count, Supply

TalliesOK == \A m \in Models : /\ ByClient(m) \in [Clients -> Nat] /\ Count(m) \in Nat
                               /\ Supply(m) \in [Providers -> Nat]

LEMMA TalliesTypes == ListsOK => TalliesOK
BY TalliesType DEF TalliesOK

LEMMA CountsAreExact ==
  ASSUME RegistryTypeOK
  PROVE  CountsExact <=> EntriesExact
<1>1. ASSUME NEW m \in Models
      PROVE  /\ Supply(m) \in [Providers -> Nat] /\ Count(m) \in Nat
             /\ \A p \in Providers : Supply(m)[p] = Tally(ByProvider(m, p))
             /\ models[m] \in Entry /\ models[m].providers \in [Providers -> Nat]
  BY TalliesType DEF Supply, RegistryTypeOK, Entry
<1>2. ASSUME NEW m \in Models
      PROVE  models[m].providers = Supply(m) <=>
               \A p \in Providers : models[m].providers[p] = Tally(ByProvider(m, p))
  BY <1>1
<1>. QED  BY <1>1, <1>2 DEF CountsExact, EntriesExact, Exact, Count, ByClient, ByProvider

\* What c lists is part of what its provider supplies, which is part of the whole;
\* so if c alone makes up the whole, no other provider supplies the model.
LEMMA Shares ==
  ASSUME ListsOK, NEW m \in Models, NEW c \in Clients, listed[c] # Nothing
  PROVE  LET p == provider[c]
         IN  /\ p \in Providers
             /\ listed[c][m] \in Nat
             /\ listed[c][m] <= Supply(m)[p]
             /\ Supply(m)[p] <= Count(m)
             /\ Count(m) = listed[c][m] =>
                  \A q \in Providers : q # p => Supply(m)[q] = 0
<1>. DEFINE p == provider[c]
<1>1. IsFiniteSet(Clients) /\ p \in Providers  BY RegistryAssumption DEF ListsOK
<1>2. /\ ByClient(m) \in [Clients -> Nat] /\ Count(m) \in Nat
      /\ \A q \in Providers : /\ ByProvider(m, q) \in [Clients -> Nat]
                              /\ Supply(m)[q] = Tally(ByProvider(m, q)) /\ Supply(m)[q] \in Nat
  BY TalliesType DEF Supply
<1>3. ByProvider(m, p)[c] = listed[c][m] /\ listed[c][m] \in Nat
  BY ListType DEF ByProvider, ListsOK
<1>4. listed[c][m] <= Supply(m)[p]
  <2>. DEFINE g == [ByProvider(m, p) EXCEPT ![c] = 0]
  <2>1. Tally(ByProvider(m, p)) = ByProvider(m, p)[c] + Tally(g)
    BY <1>1, <1>2, TallySplit
  <2>2. g \in [Clients -> Nat]  BY <1>1, <1>2
  <2>. HIDE DEF g
  <2>3. Tally(g) \in Nat  BY <1>1, <2>2, TallyType
  <2>. QED  BY <1>1, <1>2, <1>3, <2>1, <2>3
<1>5. ASSUME NEW q \in Providers, q # p  PROVE Supply(m)[p] + Supply(m)[q] <= Count(m)
  <2>1. /\ \A d \in Clients : ByProvider(m, p)[d] = 0 \/ ByProvider(m, q)[d] = 0
        /\ \A d \in Clients : /\ ByProvider(m, p)[d] <= ByClient(m)[d]
                              /\ ByProvider(m, q)[d] <= ByClient(m)[d]
    BY <1>2, <1>5 DEF ByProvider, ByClient
  <2>2. Tally(ByProvider(m, p)) + Tally(ByProvider(m, q)) <= Tally(ByClient(m))
    BY <1>1, <1>2, <2>1, TallyParts
  <2>. QED  BY <1>1, <1>2, <2>2 DEF Count
<1>6. Supply(m)[p] <= Count(m)
  <2>. DEFINE g == [d \in Clients |-> 0]
  <2>1. g \in [Clients -> Nat] /\ Tally(g) \in Nat  BY <1>1, TallyType
  <2>2. /\ \A d \in Clients : ByProvider(m, p)[d] = 0 \/ g[d] = 0
        /\ \A d \in Clients : /\ ByProvider(m, p)[d] <= ByClient(m)[d]
                              /\ g[d] <= ByClient(m)[d]
    BY <1>2 DEF ByProvider, ByClient
  <2>. HIDE DEF g
  <2>3. Tally(ByProvider(m, p)) + Tally(g) <= Tally(ByClient(m))
    BY <1>1, <1>2, <2>1, <2>2, TallyParts
  <2>. QED  BY <1>1, <1>2, <2>1, <2>3 DEF Count
<1>7. Count(m) = listed[c][m] => \A q \in Providers : q # p => Supply(m)[q] = 0
  <2>. SUFFICES ASSUME Count(m) = listed[c][m], NEW q \in Providers, q # p
                PROVE  Supply(m)[q] = 0
    OBVIOUS
  <2>1. Supply(m)[p] + Supply(m)[q] <= Count(m)  BY <1>5
  <2>2. Supply(m)[p] \in Nat /\ Supply(m)[q] \in Nat  BY <1>1, <1>2
  <2>. QED  BY <1>2, <1>3, <1>4, <2>1, <2>2
<1>. QED  BY <1>1, <1>3, <1>4, <1>6, <1>7

\* What a new list of c does to the sums.
LEMMA NewShares ==
  ASSUME ListsOK, ListsOK', NEW m \in Models, NEW c \in Clients,
         NEW list, NEW pv,
         listed' = [listed EXCEPT ![c] = list], provider' = [provider EXCEPT ![c] = pv]
  PROVE  /\ Count(m)' = Count(m) - listed[c][m] + list[m]
         /\ Supply(m)' = Plus(Minus(Supply(m), provider[c], listed[c][m]), pv, list[m])
<1>. DEFINE old == listed[c][m]
            new == list[m]
<1>1. IsFiniteSet(Clients)  BY RegistryAssumption
<1>2. /\ ByClient(m) \in [Clients -> Nat] /\ Count(m) \in Nat
      /\ \A p \in Providers : /\ ByProvider(m, p) \in [Clients -> Nat]
                              /\ Supply(m)[p] = Tally(ByProvider(m, p)) /\ Supply(m)[p] \in Nat
      /\ Supply(m) \in [Providers -> Nat]
  BY TalliesType DEF Supply
<1>3. /\ ByClient(m)' \in [Clients -> Nat] /\ Count(m)' \in Nat
      /\ \A p \in Providers : /\ ByProvider(m, p)' \in [Clients -> Nat]
                              /\ Supply(m)'[p] = Tally(ByProvider(m, p)')
                              /\ Supply(m)'[p] \in Nat
      /\ Supply(m)' \in [Providers -> Nat]
  <2>1. /\ ByClient(m)' \in [Clients -> Nat] /\ Count(m)' \in Nat
        /\ Supply(m)' \in [Providers -> Nat]
    <3>1. ListsOK' => TalliesOK'  BY TalliesTypes, PTL
    <3>. QED  BY <3>1 DEF TalliesOK
  <2>2. \A p : ByProvider(m, p)' \in [Clients -> Nat]
    <3>1. \A d \in Clients : listed'[d][m] \in Nat  BY ListType DEF ListsOK
    <3>. QED  BY <3>1 DEF ByProvider
  <2>3. \A p \in Providers : Supply(m)'[p] = Tally(ByProvider(m, p)')
    BY DEF Supply, Tally
  <2>. QED  BY <2>1, <2>2, <2>3
<1>4. old \in Nat /\ new \in Nat /\ listed'[c] = list /\ provider'[c] = pv
  BY ListType DEF ListsOK
<1>5. \A d \in Clients \ {c} : listed'[d] = listed[d] /\ provider'[d] = provider[d]
  BY DEF ListsOK
<1>6. Count(m)' = Count(m) - old + new
  <2>. DEFINE f == ByClient(m)
              g == ByClient(m)'
  <2>1. f[c] = old /\ g[c] = new /\ \A d \in Clients \ {c} : g[d] = f[d]
    BY <1>4, <1>5 DEF ByClient
  <2>2. f \in [Clients -> Nat] /\ g \in [Clients -> Nat]  BY <1>2, <1>3
  <2>3. Count(m)' = Tally(g) /\ Count(m) = Tally(f)  BY DEF Count, Tally
  <2>. DEFINE n == Count(m)
              n1 == Count(m)'
  <2>5. n \in Nat /\ n1 \in Nat /\ n1 = Tally(g) /\ n = Tally(f)  BY <1>2, <1>3, <2>3
  <2>. HIDE DEF f, g, n, n1
  <2>4. Tally(g) + f[c] = Tally(f) + g[c]
    BY <1>1, <2>1, <2>2, TallyChange
  <2>6. n1 = n - old + new  BY <1>4, <2>1, <2>4, <2>5
  <2>. QED  BY <2>6 DEF n, n1
<1>7. ASSUME NEW p \in Providers
      PROVE  Supply(m)'[p] = Supply(m)[p] - (IF provider[c] = p THEN old ELSE 0)
                                          + (IF pv = p THEN new ELSE 0)
  <2>. DEFINE f == ByProvider(m, p)
              g == ByProvider(m, p)'
  <2>1. /\ f[c] = IF provider[c] = p THEN old ELSE 0
        /\ g[c] = IF pv = p THEN new ELSE 0
        /\ \A d \in Clients \ {c} : g[d] = f[d]
    BY <1>4, <1>5 DEF ByProvider
  <2>2. f \in [Clients -> Nat] /\ g \in [Clients -> Nat]  BY <1>2, <1>3
  <2>3. Tally(f) = Supply(m)[p] /\ Tally(g) = Supply(m)'[p]  BY <1>2, <1>3
  <2>. HIDE DEF f, g
  <2>4. Tally(g) + f[c] = Tally(f) + g[c]
    BY <1>1, <2>1, <2>2, TallyChange
  <2>5. Supply(m)[p] \in Nat /\ Supply(m)'[p] \in Nat  BY <1>2, <1>3
  <2>. QED  BY <1>4, <2>1, <2>3, <2>4, <2>5
<1>. HIDE DEF old, new
<1>8. Supply(m)' = Plus(Minus(Supply(m), provider[c], old), pv, new)
  <2>. DEFINE s == Supply(m)
              g == Plus(Minus(s, provider[c], old), pv, new)
  <2>1. s \in [Providers -> Nat]  BY <1>2
  <2>. HIDE DEF s
  <2>2. /\ g = [p \in Providers |-> g[p]]
        /\ \A p \in Providers : g[p] = s[p] - (IF provider[c] = p THEN old ELSE 0)
                                            + (IF pv = p THEN new ELSE 0)
    <3>. DEFINE h == Minus(s, provider[c], old)
    <3>1. /\ h = [p \in Providers |-> h[p]] /\ DOMAIN h = Providers
          /\ \A p \in Providers : h[p] = s[p] - (IF provider[c] = p THEN old ELSE 0)
      <4>. DEFINE q == provider[c]
      <4>0. h = [s EXCEPT ![q] = s[q] - old]  BY DEF Minus
      <4>. HIDE DEF h, q
      <4>1. CASE q \in Providers
        <5>1. h = [p \in Providers |-> h[p]] /\ DOMAIN h = Providers
          BY <2>1, <4>0
        <5>2. ASSUME NEW p \in Providers
              PROVE  h[p] = s[p] - (IF q = p THEN old ELSE 0)
          <6>1. s[p] \in Nat /\ h[p] = IF p = q THEN s[q] - old ELSE s[p]  BY <2>1, <4>0
          <6>. QED  BY <6>1
        <5>. QED  BY <5>1, <5>2 DEF q
      <4>2. CASE q \notin Providers
        <5>1. h = s  BY <2>1, <4>0, <4>2
        <5>2. /\ h = [p \in Providers |-> h[p]] /\ DOMAIN h = Providers
              /\ \A p \in Providers : h[p] = s[p] - (IF q = p THEN old ELSE 0)
          BY <1>4, <2>1, <4>2, <5>1
        <5>. QED  BY <5>2 DEF q
      <4>. QED  BY <4>1, <4>2
    <3>2. \A p \in Providers : h[p] \in Int  BY <1>4, <2>1, <3>1
    <3>3. g = Plus(h, pv, new)  OBVIOUS
    <3>. HIDE DEF h, g
    <3>4. /\ g = [p \in Providers |-> g[p]]
          /\ \A p \in Providers : g[p] = h[p] + (IF pv = p THEN new ELSE 0)
      BY <1>4, <3>1, <3>2, <3>3 DEF Plus
    <3>. QED  BY <3>1, <3>4
  <2>3. \A p \in Providers : Supply(m)'[p] = g[p]  BY <1>7, <2>2 DEF s
  <2>. HIDE DEF g
  <2>4. Supply(m)' = g  BY <1>3, <2>2, <2>3
  <2>. QED  BY <2>4 DEF g, s
<1>. QED  BY <1>6, <1>8 DEF old, new

-----------------------------------------------------------------------------
(* Registrations.                                                            *)

\* The marks of a model after c's list has changed: none when nobody lists the
\* model any more, none of c when c has given the model up or listed it again.
MarksAfter(marks, total, relisted, c) ==
  IF total = 0 THEN NoMarks ELSE IF relisted THEN Without(marks, c) ELSE marks

LEMMA UnregisterStep ==
  ASSUME ListsOK, EntriesExact, NEW c \in Clients, UnregisterClient(c), NEW m \in Models
  PROVE  /\ ListsOK'
         /\ Count(m)' \in Nat
         /\ Exact(models'[m], Count(m)', Supply(m)')
         /\ LET relisted == listed[c] # Nothing /\ listed[c][m] > 0
            IN  /\ models'[m].quota = MarksAfter(models[m].quota, Count(m)', relisted, c)
                /\ models'[m].suspended =
                     MarksAfter(models[m].suspended, Count(m)', relisted, c)
<1>. DEFINE k == listed[c][m]
            p == provider[c]
            e == models[m]
            n == Count(m)
            f == Supply(m)
            r == Removed(e, c, p, k)
<1>1. /\ models' = [x \in Models |-> Removed(models[x], c, provider[c], listed[c][x])]
      /\ listed' = [listed EXCEPT ![c] = Nothing]
      /\ provider' = [provider EXCEPT ![c] = NoProvider]
  BY DEF UnregisterClient
<1>2. ListsOK'  BY <1>1 DEF ListsOK
<1>3. /\ Count(m)' = n - k + Nothing[m]
      /\ Supply(m)' = Plus(Minus(f, p, k), NoProvider, Nothing[m])
  BY <1>1, <1>2, NewShares
<1>4. Nothing[m] = 0 /\ k \in Nat /\ n \in Nat /\ f \in [Providers -> Nat]
  BY ListType, TalliesType DEF ListsOK, Nothing
<1>5. Plus(Minus(f, p, k), NoProvider, 0) = Minus(f, p, k)
  <2>. DEFINE g == Minus(f, p, k)
  <2>1. DOMAIN g = Providers /\ g = [x \in Providers |-> g[x]]  BY <1>4 DEF Minus
  <2>. HIDE DEF g
  <2>2. Plus(g, NoProvider, 0) = g  BY <2>1, RegistryAssumption DEF Plus
  <2>. QED  BY <2>2 DEF g
<1>6. Exact(e, n, f)  BY DEF EntriesExact
<1>7. /\ p \in Providers \/ k = 0
      /\ k > 0 => k <= f[p] /\ f[p] <= n
      /\ n = k => \A q \in Providers : q # p => f[q] = 0
  <2>1. CASE listed[c] # Nothing  BY <2>1, Shares
  <2>2. CASE listed[c] = Nothing
    <3>1. k = 0  BY <2>2 DEF Nothing
    <3>2. n = 0 => \A q \in Providers : f[q] = 0
      <4>. SUFFICES ASSUME n = 0, NEW q \in Providers  PROVE f[q] = 0
        OBVIOUS
      <4>1. f = NoEntry.providers  BY <1>6 DEF Exact
      <4>. QED  BY <4>1 DEF NoEntry
    <3>. HIDE DEF n, f, k
    <3>. QED  BY <3>1, <3>2
  <2>. QED  BY <2>1, <2>2
<1>8. models'[m] = r  BY <1>1
<1>9. k > 0 <=> listed[c] # Nothing /\ k > 0  BY DEF Nothing
<1>10. Count(m)' = n - k  BY <1>3, <1>4
<1>11. Supply(m)' = Minus(f, p, k)  BY <1>3, <1>4, <1>5
<1>12. n - k \in Nat
  <2>1. n - k \in Int  BY <1>4
  <2>2. k <= n
    <3>1. k > 0 => p \in Providers /\ f[p] \in Nat  BY <1>4, <1>7
    <3>. HIDE DEF n, f, k
    <3>. QED  BY <1>4, <1>7, <3>1
  <2>. HIDE DEF n, k
  <2>. QED  BY <1>4, <2>1, <2>2
<1>13. /\ Exact(r, n - k, Minus(f, p, k))
       /\ r.quota = MarksAfter(e.quota, n - k, k > 0, c)
       /\ r.suspended = MarksAfter(e.suspended, n - k, k > 0, c)
  <2>. HIDE DEF n, f, e, p, k
  <2>. QED  BY <1>4, <1>6, <1>7, RemovedExact DEF MarksAfter
<1>. HIDE DEF n, f, e, p, k, r
<1>14. /\ Exact(models'[m], Count(m)', Supply(m)')
       /\ models'[m].quota = MarksAfter(e.quota, Count(m)', k > 0, c)
       /\ models'[m].suspended = MarksAfter(e.suspended, Count(m)', k > 0, c)
  BY <1>8, <1>10, <1>11, <1>13
<1>. QED  BY <1>2, <1>9, <1>10, <1>12, <1>14 DEF e, k, MarksAfter

LEMMA RegisterStep ==
  ASSUME ListsOK, EntriesExact, NEW c \in Clients, NEW list \in Lists, NEW pv \in Providers,
         RegisterClient(c, list, pv), NEW m \in Models
  PROVE  /\ ListsOK'
         /\ Count(m)' \in Nat
         /\ Exact(models'[m], Count(m)', Supply(m)')
         /\ LET relisted == listed[c] # Nothing /\ listed[c][m] + list[m] > 0
            IN  /\ models'[m].quota = MarksAfter(models[m].quota, Count(m)', relisted, c)
                /\ models'[m].suspended =
                     MarksAfter(models[m].suspended, Count(m)', relisted, c)
<1>. DEFINE old == listed[c][m]
            new == list[m]
            p == provider[c]
            e == models[m]
            n == Count(m)
            f == Supply(m)
<1>1. /\ models' = [x \in Models |->
            IF listed[c] = Nothing THEN Added(models[x], pv, list[x])
            ELSE Reconciled(models[x], c, listed[c][x], list[x], provider[c], pv)]
      /\ listed' = [listed EXCEPT ![c] = list]
      /\ provider' = [provider EXCEPT ![c] = pv]
  BY DEF RegisterClient
<1>2. ListsOK'  BY <1>1 DEF ListsOK
<1>3. /\ Count(m)' = n - old + new
      /\ Supply(m)' = Plus(Minus(f, p, old), pv, new)
  BY <1>1, <1>2, NewShares
<1>4. new \in Nat /\ old \in Nat /\ n \in Nat /\ f \in [Providers -> Nat]
  BY ListType, TalliesType DEF ListsOK
<1>5. Exact(e, n, f)  BY DEF EntriesExact
<1>6. /\ e \in Entry /\ (n = 0 => e = NoEntry)  BY <1>5 DEF Exact
<1>7. CASE listed[c] = Nothing
  <2>1. models'[m] = Added(e, pv, new)  BY <1>1, <1>7
  <2>2. old = 0  BY <1>7 DEF Nothing
  <2>3. Minus(f, p, 0) = f
    <3>. HIDE DEF f, p
    <3>. QED  BY <1>4 DEF Minus
  <2>. DEFINE r == Added(e, pv, new)
  <2>. HIDE DEF old, new, n, f, p, e
  <2>4. Count(m)' = n + new /\ Supply(m)' = Plus(f, pv, new)  BY <1>3, <1>4, <2>2, <2>3
  <2>5. Exact(r, n + new, Plus(f, pv, new)) /\ r.quota = e.quota /\ r.suspended = e.suspended
    BY <1>4, <1>5, AddedExact
  <2>6. n + new = 0 => e.quota = NoMarks /\ e.suspended = NoMarks
    BY <1>4, <1>6 DEF NoEntry
  <2>7. n + new \in Nat  BY <1>4
  <2>. HIDE DEF r
  <2>8. /\ models'[m].quota = MarksAfter(e.quota, Count(m)', FALSE, c)
        /\ models'[m].suspended = MarksAfter(e.suspended, Count(m)', FALSE, c)
    BY <2>1, <2>4, <2>5, <2>6 DEF MarksAfter, r
  <2>. QED  BY <1>2, <1>7, <2>1, <2>4, <2>5, <2>7, <2>8 DEF e, r
<1>8. CASE listed[c] # Nothing
  <2>1. /\ p \in Providers /\ old <= f[p] /\ f[p] <= n
        /\ n = old => \A q \in Providers : q # p => f[q] = 0
    BY <1>8, Shares
  <2>. DEFINE r == Reconciled(e, c, old, new, p, pv)
  <2>2. models'[m] = r  BY <1>1, <1>8
  <2>. HIDE DEF old, new, n, f, p, e
  <2>3. n - old + new \in Nat
    <3>1. f[p] \in Nat  BY <1>4, <2>1
    <3>. QED  BY <1>4, <2>1, <3>1
  <2>4. /\ Exact(r, n - old + new, Plus(Minus(f, p, old), pv, new))
        /\ r.quota = MarksAfter(e.quota, n - old + new, old + new > 0, c)
        /\ r.suspended = MarksAfter(e.suspended, n - old + new, old + new > 0, c)
    BY <1>4, <1>5, <2>1, ReconciledExact DEF MarksAfter
  <2>. HIDE DEF r
  <2>5. /\ Exact(models'[m], Count(m)', Supply(m)') /\ Count(m)' \in Nat
        /\ models'[m].quota = MarksAfter(e.quota, Count(m)', old + new > 0, c)
        /\ models'[m].suspended = MarksAfter(e.suspended, Count(m)', old + new > 0, c)
    BY <1>3, <2>2, <2>3, <2>4
  <2>. QED  BY <1>2, <1>8, <2>5 DEF e, old, new, MarksAfter
<1>. QED  BY <1>7, <1>8

-----------------------------------------------------------------------------
(* Marks.                                                                    *)

\* An entry somebody listed stays exact when its marks change.
LEMMA MarkedExact ==
  ASSUME NEW n, NEW f, NEW e, Exact(e, n, f), n # 0, NEW q \in Marks(Nat), NEW s \in Marks(Reasons)
  PROVE  Exact([e EXCEPT !.quota = q], n, f) /\ Exact([e EXCEPT !.suspended = s], n, f)
BY DEF Exact, Entry

LEMMA MarksType ==
  ASSUME RegistryTypeOK, NEW m \in Models
  PROVE  /\ models[m].quota \in Marks(Nat) /\ models[m].suspended \in Marks(Reasons)
         /\ \A t : OverQuota(m, t) \subseteq DOMAIN models[m].quota
         /\ DOMAIN models[m].quota \subseteq Clients
         /\ DOMAIN models[m].suspended \subseteq Clients
<1>1. models[m].quota \in Marks(Nat) /\ models[m].suspended \in Marks(Reasons)
  BY DEF RegistryTypeOK, Entry
<1>. QED  BY <1>1, MarksAre DEF OverQuota

\* What a mark of one model does: the counters stay, and only that entry changes.
LEMMA MarkStep ==
  ASSUME RegistryTypeOK, EntriesExact, NEW c \in Clients, NEW m \in Models, Mark(c, m)
  PROVE  /\ EntriesExact' /\ UNCHANGED <<now, listed, provider, asked>>
         /\ cache' = {} /\ answer' = {}
         /\ Count(m) > 0
<1>. DEFINE e == models[m]
<1>1. /\ Exact(e, Count(m), Supply(m)) /\ Count(m) \in Nat
      /\ e.quota \in Marks(Nat) /\ e.suspended \in Marks(Reasons)
      /\ (Count(m) = 0 => e = NoEntry) /\ models \in [Models -> Entry]
  BY TalliesType, MarksType DEF EntriesExact, Exact, RegistryTypeOK
<1>2. ASSUME UNCHANGED <<listed, provider>>,
             NEW w, models' = [models EXCEPT ![m] = w], Exact(w, Count(m), Supply(m))
      PROVE  EntriesExact'
  <2>1. \A x \in Models : Count(x)' = Count(x) /\ Supply(x)' = Supply(x)
    BY <1>2 DEF Count, Supply, ByClient, ByProvider
  <2>2. models'[m] = w /\ \A x \in Models \ {m} : models'[x] = models[x]
    BY <1>1, <1>2
  <2>3. \A x \in Models : Exact(models'[x], Count(x), Supply(x))
    BY <1>2, <2>2 DEF EntriesExact
  <2>. QED  BY <2>1, <2>3 DEF EntriesExact
<1>3. CASE SetModelQuotaExceeded(c, m)
  <2>1. Count(m) # 0  BY <1>1, <1>3 DEF SetModelQuotaExceeded
  <2>2. With(e.quota, c, now) \in Marks(Nat)  BY <1>1, WithType DEF RegistryTypeOK
  <2>3. models' = [models EXCEPT ![m] = [e EXCEPT !.quota = With(e.quota, c, now)]]
    BY <1>1, <1>3 DEF SetModelQuotaExceeded
  <2>4. Exact([e EXCEPT !.quota = With(e.quota, c, now)], Count(m), Supply(m))
    BY <1>1, <2>1, <2>2, MarkedExact
  <2>5. UNCHANGED <<now, listed, provider, asked>> /\ cache' = {} /\ answer' = {}
    BY <1>3 DEF SetModelQuotaExceeded, Invalidate
  <2>6. EntriesExact'  BY <1>2, <2>3, <2>4, <2>5
  <2>. QED  BY <1>1, <2>1, <2>5, <2>6
<1>4. CASE ClearModelQuotaExceeded(c, m)
  <2>1. Count(m) # 0  BY <1>1, <1>4 DEF ClearModelQuotaExceeded
  <2>2. Without(e.quota, c) \in Marks(Nat)  BY <1>1, WithoutType
  <2>3. models' = [models EXCEPT ![m] = [e EXCEPT !.quota = Without(e.quota, c)]]
    BY <1>1, <1>4 DEF ClearModelQuotaExceeded
  <2>4. Exact([e EXCEPT !.quota = Without(e.quota, c)], Count(m), Supply(m))
    BY <1>1, <2>1, <2>2, MarkedExact
  <2>5. UNCHANGED <<now, listed, provider, asked>> /\ cache' = {} /\ answer' = {}
    BY <1>4 DEF ClearModelQuotaExceeded, Invalidate
  <2>6. EntriesExact'  BY <1>2, <2>3, <2>4, <2>5
  <2>. QED  BY <1>1, <2>1, <2>5, <2>6
<1>5. ASSUME NEW reason \in Reasons, SuspendClientModel(c, m, reason)
      PROVE  /\ EntriesExact' /\ UNCHANGED <<now, listed, provider, asked>>
             /\ cache' = {} /\ answer' = {}
             /\ Count(m) > 0
  <2>1. Count(m) # 0  BY <1>1, <1>5 DEF SuspendClientModel
  <2>2. With(e.suspended, c, reason) \in Marks(Reasons)  BY <1>1, WithType
  <2>3. models' = [models EXCEPT ![m] = [e EXCEPT !.suspended = With(e.suspended, c, reason)]]
    BY <1>1, <1>5 DEF SuspendClientModel
  <2>4. Exact([e EXCEPT !.suspended = With(e.suspended, c, reason)], Count(m), Supply(m))
    BY <1>1, <2>1, <2>2, MarkedExact
  <2>5. UNCHANGED <<now, listed, provider, asked>> /\ cache' = {} /\ answer' = {}
    BY <1>5 DEF SuspendClientModel, Invalidate
  <2>6. EntriesExact'  BY <1>2, <2>3, <2>4, <2>5
  <2>. QED  BY <1>1, <2>1, <2>5, <2>6
<1>6. CASE ResumeClientModel(c, m)
  <2>1. Count(m) # 0
    <3>1. DOMAIN NoEntry.suspended = {}  BY DEF NoEntry, NoMarks
    <3>. QED  BY <1>1, <1>6, <3>1 DEF ResumeClientModel
  <2>2. Without(e.suspended, c) \in Marks(Reasons)  BY <1>1, WithoutType
  <2>3. models' = [models EXCEPT ![m] = [e EXCEPT !.suspended = Without(e.suspended, c)]]
    BY <1>1, <1>6 DEF ResumeClientModel
  <2>4. Exact([e EXCEPT !.suspended = Without(e.suspended, c)], Count(m), Supply(m))
    BY <1>1, <2>1, <2>2, MarkedExact
  <2>5. UNCHANGED <<now, listed, provider, asked>> /\ cache' = {} /\ answer' = {}
    BY <1>6 DEF ResumeClientModel, Invalidate
  <2>6. EntriesExact'  BY <1>2, <2>3, <2>4, <2>5
  <2>. QED  BY <1>1, <2>1, <2>5, <2>6
<1>. QED  BY <1>3, <1>4, <1>5, <1>6 DEF Mark

LEMMA CleanupStep ==
  ASSUME RegistryTypeOK, EntriesExact, CleanupExpiredQuotas
  PROVE  /\ EntriesExact' /\ UNCHANGED <<now, listed, provider, asked>>
         /\ cache' = {} /\ answer' = {}
<1>1. /\ models' = [m \in Models |->
                      [models[m] EXCEPT !.quota = Restrict(@, OverQuota(m, now))]]
      /\ UNCHANGED <<now, listed, provider, asked>> /\ cache' = {} /\ answer' = {}
  BY DEF CleanupExpiredQuotas, Invalidate
<1>2. \A x \in Models : Count(x)' = Count(x) /\ Supply(x)' = Supply(x)
  BY <1>1 DEF Count, Supply, ByClient, ByProvider
<1>3. ASSUME NEW m \in Models
      PROVE  Exact(models'[m], Count(m), Supply(m))
  <2>. DEFINE e == models[m]
              q == Restrict(e.quota, OverQuota(m, now))
  <2>1. models'[m] = [e EXCEPT !.quota = q]  BY <1>1
  <2>2. q \in Marks(Nat)  BY MarksType, RestrictType
  <2>3. Exact(e, Count(m), Supply(m)) /\ models[m].suspended \in Marks(Reasons)
    BY MarksType DEF EntriesExact
  <2>4. CASE Count(m) # 0
    <3>1. e.suspended \in Marks(Reasons)  BY <2>3
    <3>. HIDE DEF e, q
    <3>2. Exact([e EXCEPT !.quota = q], Count(m), Supply(m))
      BY <2>2, <2>3, <2>4, <3>1, MarkedExact
    <3>. QED  BY <2>1, <3>2
  <2>5. CASE Count(m) = 0
    <3>1. e = NoEntry  BY <2>3, <2>5 DEF Exact
    <3>2. e.quota = NoMarks  BY <3>1 DEF NoEntry
    <3>3. OverQuota(m, now) = {}  BY <3>2 DEF OverQuota, NoMarks
    <3>4. q = NoMarks  BY <3>3 DEF Restrict, NoMarks
    <3>5. models'[m] = e
      <4>. HIDE DEF q
      <4>. QED  BY <2>1, <3>1, <3>4 DEF NoEntry
    <3>. QED  BY <2>3, <3>5
  <2>. QED  BY <2>4, <2>5
<1>. QED  BY <1>1, <1>2, <1>3 DEF EntriesExact

-----------------------------------------------------------------------------
(* The cache.                                                                *)

LEMMA MinOfNaturals ==
  ASSUME NEW S \in SUBSET Nat, S # {}
  PROVE  Min(S) \in S /\ \A x \in S : Min(S) <= x
<1>1. \E x \in S : \A y \in S : x <= y
  <2>1. PICK x \in S : \A y \in S : ~ <<y, x>> \in OpToRel(<, Nat)
    BY NatLessThanWellFounded, WFMin, Zenon
  <2>2. ASSUME NEW y \in S  PROVE x <= y
    <3>1. ~ (y < x)  BY <2>1 DEF OpToRel
    <3>. QED  BY <3>1
  <2>. QED  BY <2>2
<1>. QED  BY <1>1 DEF Min

\* A listing stands until its first mark expires.
LEMMA ListingStands ==
  ASSUME RegistryTypeOK, NEW s \in Nat, NEW t \in Nat, s <= t, Valid(Listing(s), t)
  PROVE  Available(t) = Available(s)
<1>1. ASSUME NEW m \in Models, NEW c \in DOMAIN models[m].quota
      PROVE  models[m].quota[c] \in Nat
  BY MarksType, MarksAre
<1>2. Recoveries(s) \subseteq Nat
  BY <1>1, RegistryAssumption DEF Recoveries, OverQuota
<1>3. ASSUME NEW m \in Models  PROVE OverQuota(m, t) = OverQuota(m, s)
  <2>1. OverQuota(m, t) \subseteq OverQuota(m, s)
    BY <1>1, RegistryAssumption DEF OverQuota
  <2>2. ASSUME NEW c \in OverQuota(m, s)  PROVE c \in OverQuota(m, t)
    <3>. DEFINE x == models[m].quota[c] + QuotaWindow
    <3>1. x \in Recoveries(s) /\ s < x /\ c \in DOMAIN models[m].quota
      BY DEF Recoveries, OverQuota
    <3>2. Listing(s).expires = Min(Recoveries(s))  BY <3>1 DEF Listing
    <3>3. Min(Recoveries(s)) \in Recoveries(s) /\ Min(Recoveries(s)) <= x
      BY <1>2, <3>1, MinOfNaturals
    <3>4. \A y \in Recoveries(s) : y \in Nat /\ s < y  BY <1>2 DEF Recoveries, OverQuota
    <3>5. t < Min(Recoveries(s))
      BY <3>2, <3>3, <3>4 DEF Valid
    <3>6. t < x /\ x \in Nat
      <4>1. x \in Nat /\ Min(Recoveries(s)) \in Nat  BY <1>2, <3>1, <3>3
      <4>. HIDE DEF x
      <4>. QED  BY <3>3, <3>5, <4>1
    <3>. QED  BY <3>1, <3>6 DEF OverQuota
  <2>. QED  BY <2>1, <2>2
<1>. QED  BY <1>3 DEF Available, IsAvailable

LEMMA SameListing ==
  ASSUME UNCHANGED models, NEW t
  PROVE  Listing(t)' = Listing(t) /\ Available(t)' = Available(t)
BY DEF Listing, Available, Recoveries, IsAvailable, OverQuota, ForQuota, Otherwise

\* The answer of the call that takes the write lock is a listing of now or of a
\* moment since it read the clock, and so is what it leaves in the cache.
LEMMA FillStep ==
  ASSUME RegistryTypeOK, CacheBuilt, NEW r \in Readers, FillCache(r)
  PROVE  /\ \E t \in 0..now : cache' = {Listing(t)}
         /\ \E t \in asked[r]..now : answer' = {Available(t)}
<1>. DEFINE a    == asked[r]
            hits == {entry \in cache : Valid(entry, a)}
<1>1. /\ cache' = IF hits # {} THEN cache ELSE {Listing(a)}
      /\ answer' = {entry.models : entry \in cache'}
      /\ a # -1
  BY DEF FillCache
<1>2. a \in 0..now /\ now \in Nat  BY <1>1 DEF RegistryTypeOK
<1>3. CASE hits = {}
  <2>1. cache' = {Listing(a)}  BY <1>1, <1>3
  <2>2. answer' = {Listing(a).models}  BY <1>1, <2>1
  <2>3. Listing(a).models = Available(a)  BY DEF Listing
  <2>. QED  BY <1>2, <2>1, <2>2, <2>3
<1>4. CASE hits # {}
  <2>1. cache' = cache  BY <1>1, <1>4
  <2>2. PICK s \in 0..now : cache = {Listing(s)}  BY <1>4 DEF CacheBuilt
  <2>3. answer' = {Available(s)}
    <3>1. answer' = {Listing(s).models}  BY <1>1, <2>1, <2>2
    <3>2. Listing(s).models = Available(s)  BY DEF Listing
    <3>. QED  BY <3>1, <3>2
  <2>4. Valid(Listing(s), a)  BY <1>4, <2>2
  <2>5. CASE s <= a
    <3>1. Available(a) = Available(s)  BY <1>2, <2>4, <2>5, ListingStands
    <3>. QED  BY <1>2, <2>1, <2>2, <2>3, <3>1
  <2>6. CASE a <= s
    <3>1. s \in a..now  BY <1>2, <2>6
    <3>. QED  BY <2>1, <2>2, <2>3, <3>1
  <2>. QED  BY <1>2, <2>5, <2>6
<1>. QED  BY <1>3, <1>4

-----------------------------------------------------------------------------
(* The invariant is inductive.                                               *)

LEMMA InitIInv == Init => IInv
<1>. SUFFICES ASSUME Init  PROVE IInv
  OBVIOUS
<1>1. RegistryTypeOK  BY NoEntryExact DEF Init, RegistryTypeOK, ListsOK
<1>2. ASSUME NEW m \in Models  PROVE Exact(models[m], Count(m), Supply(m))
  <2>1. IsFiniteSet(Clients) /\ ListsOK  BY <1>1, RegistryAssumption DEF RegistryTypeOK
  <2>2. \A c \in Clients : ByClient(m)[c] = 0 /\ \A p : ByProvider(m, p)[c] = 0
    BY DEF Init, Nothing, ByClient, ByProvider
  <2>3. Count(m) = 0  BY <2>1, <2>2, TalliesType, TallyZero DEF Count
  <2>4. \A p \in Providers : Tally(ByProvider(m, p)) = 0
    BY <2>1, <2>2, TalliesType, TallyZero
  <2>5. Supply(m) = [p \in Providers |-> 0]  BY <2>4 DEF Supply
  <2>. QED  BY <2>3, <2>5, NoEntryExact DEF Init
<1>3. CacheBuilt  BY DEF Init, CacheBuilt
<1>. QED  BY <1>1, <1>2, <1>3 DEF IInv, EntriesExact

LEMMA Rested ==
  ASSUME IInv, UNCHANGED <<models, listed, provider>>
  PROVE  EntriesExact' /\ ListsOK' /\ models' \in [Models -> Entry]
<1>1. \A m \in Models : Count(m)' = Count(m) /\ Supply(m)' = Supply(m)
  BY DEF Count, Supply, ByClient, ByProvider
<1>. QED  BY <1>1 DEF IInv, EntriesExact, RegistryTypeOK, ListsOK

\* A change of the entries empties the cache.
LEMMA ChangedIInv ==
  ASSUME RegistryTypeOK, EntriesExact', ListsOK', DOMAIN models' = Models,
         models' = [m \in Models |-> models'[m]], Invalidate
  PROVE  IInv'
<1>1. models' \in [Models -> Entry]  BY DEF EntriesExact, Exact
<1>. QED  BY <1>1 DEF IInv, RegistryTypeOK, Invalidate, CacheBuilt

LEMMA NextIInv == IInv /\ [Next]_vars => IInv'
<1>. SUFFICES ASSUME IInv, [Next]_vars  PROVE IInv'
  OBVIOUS
<1>. USE DEF IInv
<1>1. CASE Tick
  <2>1. UNCHANGED <<models, listed, provider, cache, asked>> /\ now' = now + 1
    BY <1>1 DEF Tick
  <2>2. EntriesExact' /\ ListsOK' /\ models' \in [Models -> Entry]  BY <2>1, Rested
  <2>3. now \in Nat /\ now' \in Nat /\ 0..now \subseteq 0..now'
    BY <2>1 DEF RegistryTypeOK
  <2>4. CacheBuilt'  BY <2>1, <2>3, SameListing DEF CacheBuilt
  <2>. QED  BY <2>1, <2>2, <2>3, <2>4 DEF RegistryTypeOK
<1>2. ASSUME NEW c \in Clients, UnregisterClient(c)  PROVE IInv'
  <2>1. /\ models' = [m \in Models |-> models'[m]] /\ DOMAIN models' = Models /\ Invalidate
        /\ listed' = [listed EXCEPT ![c] = Nothing]
        /\ provider' = [provider EXCEPT ![c] = NoProvider]
    BY <1>2 DEF UnregisterClient
  <2>2. ListsOK'  BY <2>1 DEF RegistryTypeOK, ListsOK
  <2>3. EntriesExact'
    <3>1. ASSUME NEW m \in Models  PROVE Exact(models'[m], Count(m)', Supply(m)')
      BY <1>2, UnregisterStep DEF RegistryTypeOK
    <3>. QED  BY <3>1 DEF EntriesExact
  <2>. QED  BY <2>1, <2>2, <2>3, ChangedIInv
<1>3. ASSUME NEW c \in Clients, NEW list \in Lists, NEW pv \in Providers,
             RegisterClient(c, list, pv)
      PROVE  IInv'
  <2>1. /\ models' = [m \in Models |-> models'[m]] /\ DOMAIN models' = Models /\ Invalidate
        /\ listed' = [listed EXCEPT ![c] = list]
        /\ provider' = [provider EXCEPT ![c] = pv]
    BY <1>3 DEF RegisterClient
  <2>2. ListsOK'  BY <2>1 DEF RegistryTypeOK, ListsOK
  <2>3. EntriesExact'
    <3>1. ASSUME NEW m \in Models  PROVE Exact(models'[m], Count(m)', Supply(m)')
      BY <1>3, RegisterStep DEF RegistryTypeOK
    <3>. QED  BY <3>1 DEF EntriesExact
  <2>. QED  BY <2>1, <2>2, <2>3, ChangedIInv
<1>4. ASSUME NEW c \in Clients, NEW m \in Markable, Mark(c, m)  PROVE IInv'
  <2>1. m \in Models  BY RegistryAssumption
  <2>2. /\ EntriesExact' /\ UNCHANGED <<now, listed, provider, asked>>
        /\ cache' = {} /\ answer' = {}
    BY <1>4, <2>1, MarkStep
  <2>3. DOMAIN models' = Models /\ models' = [x \in Models |-> models'[x]]
    BY <1>4, <2>1 DEF RegistryTypeOK, Mark, SetModelQuotaExceeded, ClearModelQuotaExceeded,
                      SuspendClientModel, ResumeClientModel
  <2>4. ListsOK'  BY <2>2 DEF RegistryTypeOK, ListsOK
  <2>. QED  BY <2>2, <2>3, <2>4, ChangedIInv DEF Invalidate
<1>5. CASE CleanupExpiredQuotas
  <2>1. /\ EntriesExact' /\ UNCHANGED <<now, listed, provider, asked>>
        /\ cache' = {} /\ answer' = {}
    BY <1>5, CleanupStep
  <2>2. DOMAIN models' = Models /\ models' = [x \in Models |-> models'[x]]
    BY <1>5 DEF CleanupExpiredQuotas
  <2>3. ListsOK'  BY <2>1 DEF RegistryTypeOK, ListsOK
  <2>. QED  BY <2>1, <2>2, <2>3, ChangedIInv DEF Invalidate
<1>6. CASE HitCache
  <2>1. UNCHANGED <<now, models, listed, provider, cache, asked>>  BY <1>6 DEF HitCache
  <2>2. EntriesExact' /\ ListsOK' /\ models' \in [Models -> Entry]  BY <2>1, Rested
  <2>3. CacheBuilt'  BY <2>1, SameListing DEF CacheBuilt
  <2>. QED  BY <2>1, <2>2, <2>3 DEF RegistryTypeOK
<1>7. ASSUME NEW r \in Readers, MissCache(r)  PROVE IInv'
  <2>1. UNCHANGED <<now, models, listed, provider, cache>> /\ asked' = [asked EXCEPT ![r] = now]
    BY <1>7 DEF MissCache
  <2>2. EntriesExact' /\ ListsOK' /\ models' \in [Models -> Entry]  BY <2>1, Rested
  <2>3. CacheBuilt'  BY <2>1, SameListing DEF CacheBuilt
  <2>4. asked' \in [Readers -> {-1} \cup 0..now']  BY <2>1 DEF RegistryTypeOK
  <2>. QED  BY <2>1, <2>2, <2>3, <2>4 DEF RegistryTypeOK
<1>8. ASSUME NEW r \in Readers, FillCache(r)  PROVE IInv'
  <2>1. UNCHANGED <<now, models, listed, provider>> /\ asked' = [asked EXCEPT ![r] = -1]
    BY <1>8 DEF FillCache
  <2>2. EntriesExact' /\ ListsOK' /\ models' \in [Models -> Entry]  BY <2>1, Rested
  <2>3. PICK t \in 0..now : cache' = {Listing(t)}  BY <1>8, FillStep
  <2>4. CacheBuilt'  BY <2>1, <2>3, SameListing DEF CacheBuilt
  <2>5. asked' \in [Readers -> {-1} \cup 0..now']  BY <2>1 DEF RegistryTypeOK
  <2>. QED  BY <2>1, <2>2, <2>4, <2>5 DEF RegistryTypeOK
<1>9. CASE UNCHANGED vars
  <2>1. UNCHANGED <<now, models, listed, provider, cache, asked>>  BY <1>9 DEF vars
  <2>2. EntriesExact' /\ ListsOK' /\ models' \in [Models -> Entry]  BY <2>1, Rested
  <2>3. CacheBuilt'  BY <2>1, SameListing DEF CacheBuilt
  <2>. QED  BY <2>1, <2>2, <2>3 DEF RegistryTypeOK
<1>. QED
  BY <1>1, <1>2, <1>3, <1>4, <1>5, <1>6, <1>7, <1>8, <1>9 DEF Next

LEMMA RegistryInv == Spec => []IInv
BY InitIInv, NextIInv, PTL DEF Spec

-----------------------------------------------------------------------------
(* The properties.                                                           *)

\* The counters that registrations adjust in steps say what the clients' lists say
\* (model_registry.go:243-560), for every number of clients, lists and providers.
THEOREM CountersAreExact == Spec => []CountsExact
<1>1. IInv => CountsExact  BY CountsAreExact DEF IInv
<1>. QED  BY <1>1, RegistryInv, PTL

\* A cached listing that would be handed out is what would be built now
\* (model_registry.go:769-870).
THEOREM CacheIsFresh == Spec => []CacheFresh
<1>1. IInv => CacheFresh
  <2>. SUFFICES ASSUME IInv, NEW entry \in cache, Valid(entry, now)
                PROVE  entry.models = Available(now)
    BY DEF CacheFresh
  <2>1. PICK s \in 0..now : entry = Listing(s)  BY DEF IInv, CacheBuilt
  <2>2. now \in Nat /\ RegistryTypeOK  BY DEF IInv, RegistryTypeOK
  <2>3. Available(now) = Available(s)  BY <2>1, <2>2, ListingStands
  <2>. QED  BY <2>1, <2>3 DEF Listing
<1>. QED  BY <1>1, RegistryInv, PTL

\* A client without a mark keeps its model listed when marks are only on clients that
\* list the model and no client has two that count (model_registry.go:763).
THEOREM FreeClientsCount == Spec => []FreeClientKeepsListed
<1>1. IInv => FreeClientKeepsListed
  <2>. SUFFICES ASSUME IInv, NEW m \in Models
                PROVE  LET marked == OverQuota(m, now) \cup DOMAIN models[m].suspended
                           bound  == {c \in Clients : listed[c][m] > 0}
                       IN /\ marked \subseteq bound /\ bound \ marked # {}
                          /\ OverQuota(m, now) \cap Otherwise(m) = {}
                          => IsAvailable(m, now)
    BY DEF FreeClientKeepsListed
  <2>. DEFINE Q == OverQuota(m, now)
              O == Otherwise(m)
              marked == Q \cup DOMAIN models[m].suspended
              bound  == {c \in Clients : listed[c][m] > 0}
  <2>. SUFFICES ASSUME marked \subseteq bound, bound \ marked # {}, Q \cap O = {}
                PROVE  IsAvailable(m, now)
    OBVIOUS
  <2>0. RegistryTypeOK /\ IsFiniteSet(Clients) /\ ListsOK
    BY RegistryAssumption DEF IInv, RegistryTypeOK
  <2>1. IsFiniteSet(bound) /\ Cardinality(bound) <= Count(m)
    <3>1. ByClient(m) \in [Clients -> Nat]  BY <2>0, TalliesType
    <3>2. bound \subseteq Clients /\ \A c \in bound : ByClient(m)[c] > 0
      BY DEF ByClient
    <3>. QED  BY <2>0, <3>1, <3>2, TallyCovers DEF Count
  <2>2. Count(m) \in Nat /\ models[m].count = Count(m)
    BY <2>0, TalliesType DEF IInv, EntriesExact, Exact
  <2>3. IsFiniteSet(Q) /\ IsFiniteSet(O) /\ Q \cup O \subseteq marked
    <3>1. Q \subseteq Clients /\ O \subseteq Clients
      BY <2>0, MarksType DEF Otherwise
    <3>. QED  BY <2>0, <3>1, FS_Subset DEF Otherwise
  <2>. HIDE DEF Q, O, bound
  <2>4. /\ Cardinality(Q) \in Nat /\ Cardinality(O) \in Nat /\ Cardinality(bound) \in Nat
    BY <2>1, <2>3, FS_CardinalityType
  <2>5. IsFiniteSet(Q \cup O) /\ Cardinality(Q \cup O) = Cardinality(Q) + Cardinality(O)
    <3>1. Cardinality(Q \cap O) = 0  BY FS_EmptySet
    <3>2. IsFiniteSet(Q \cup O)
          /\ Cardinality(Q \cup O) = Cardinality(Q) + Cardinality(O) - Cardinality(Q \cap O)
      BY <2>3, FS_Union
    <3>. QED  BY <2>4, <3>1, <3>2
  <2>6. Cardinality(Q \cup O) < Cardinality(bound)
    <3>1. Q \cup O \in SUBSET bound /\ Q \cup O # bound  BY <2>3
    <3>2. /\ Cardinality(Q \cup O) <= Cardinality(bound)
          /\ Cardinality(bound) = Cardinality(Q \cup O) => bound = Q \cup O
      BY <2>1, <3>1, FS_Subset
    <3>. QED  BY <2>4, <2>5, <3>1, <3>2
  <2>7. models[m].count - Cardinality(Q) - Cardinality(O) > 0
    BY <2>1, <2>2, <2>4, <2>5, <2>6
  <2>. QED  BY <2>7 DEF IsAvailable, Q, O
<1>. QED  BY <1>1, RegistryInv, PTL

-----------------------------------------------------------------------------
(* The registry implements ModelListing.                                     *)

\* Nobody lists the models whose count is zero.
CountZero == \A m \in Models : Count(m) = 0 <=> \A c \in Clients : listed[c][m] = 0

LEMMA CountZeroHolds == ListsOK => CountZero
<1>. SUFFICES ASSUME ListsOK, NEW m \in Models
              PROVE  Count(m) = 0 <=> \A c \in Clients : listed[c][m] = 0
  BY DEF CountZero
<1>1. IsFiniteSet(Clients) /\ ByClient(m) \in [Clients -> Nat]
  BY TalliesType, RegistryAssumption
<1>2. \A c \in Clients : ByClient(m)[c] = listed[c][m]  BY DEF ByClient
<1>. QED  BY <1>1, <1>2, TallyZero DEF Count

\* ModelListing brings its own copies of two library operators.
LEMMA SameCardinality == \A S : Promise!Cardinality(S) = Cardinality(S)
BY DEF Promise!Cardinality, Cardinality

LEMMA SameRestrict == \A f, S : Promise!Restrict(f, S) = Restrict(f, S)
BY DEF Promise!Restrict, Restrict

LEMMA PromisedTotal ==
  ASSUME NEW m \in Models
  PROVE  Promise!Total(m) = Count(m)
<1>1. \A c \in Clients : ByClient(m)[c] = listed[c][m]  BY DEF ByClient
<1>2. DOMAIN ByClient(m) = Clients  BY DEF ByClient
<1>. DEFINE A == {{c} \X (1..ByClient(m)[c]) : c \in DOMAIN ByClient(m)}
            B == {{c} \X (1..listed[c][m]) : c \in Clients}
<1>3. A = B  BY <1>1, <1>2
<1>4. Promise!Total(m) = Promise!Cardinality(UNION B)  BY DEF Promise!Total
<1>5. Count(m) = Cardinality(UNION A)  BY DEF Count, Tally
<1>. HIDE DEF A, B
<1>. QED  BY <1>3, <1>4, <1>5, SameCardinality

\* What the counters offer is what the lists and marks promise.
LEMMA PromisedListing ==
  ASSUME RegistryTypeOK, EntriesExact, NEW t
  PROVE  Promise!Listing(t) = Available(t)
<1>. SUFFICES ASSUME NEW m \in Models  PROVE Promise!Offered(m, t) <=> IsAvailable(m, t)
  BY DEF Promise!Listing, Available
<1>. DEFINE Q == OverQuota(m, t)
            O == Otherwise(m)
            F == ForQuota(m)
            n == Count(m)
<1>1. Promise!OverQuota(m, t) = Q  BY DEF Promise!OverQuota, OverQuota
<1>2. Promise!ForQuota(m) = F  BY DEF Promise!ForQuota, ForQuota
<1>3. Promise!Otherwise(m) = O  BY <1>2 DEF Promise!Otherwise, Otherwise
<1>4. Promise!Total(m) = n /\ models[m].count = n /\ n \in Nat
  BY PromisedTotal, TalliesType DEF RegistryTypeOK, EntriesExact, Exact
<1>5. IsFiniteSet(Q) /\ IsFiniteSet(O)
  <2>1. Q \subseteq Clients /\ O \subseteq Clients  BY MarksType DEF Otherwise
  <2>. QED  BY <2>1, RegistryAssumption, FS_Subset
<1>. HIDE DEF Q, O, F, n
<1>6. /\ Cardinality(Q) \in Nat /\ Cardinality(O) \in Nat
      /\ (Cardinality(Q) = 0 <=> Q = {}) /\ (Cardinality(O) = 0 <=> O = {})
  BY <1>5, FS_CardinalityType, FS_EmptySet
<1>7. Promise!Offered(m, t) <=> \/ n > Cardinality(Q) + Cardinality(O)
                                \/ n > 0 /\ O = {} /\ Q \cup F # {}
  BY <1>1, <1>2, <1>3, <1>4, SameCardinality DEF Promise!Offered
<1>8. IsAvailable(m, t) <=>
        \/ models[m].count - Cardinality(Q) - Cardinality(O) > 0
        \/ models[m].count > 0 /\ (Cardinality(Q) > 0 \/ F # {}) /\ Cardinality(O) = 0
  BY DEF IsAvailable, Q, O, F
<1>9. Cardinality(Q) > 0 \/ F # {} <=> Q \cup F # {}  BY <1>6
<1>. QED  BY <1>4, <1>6, <1>7, <1>8, <1>9

\* Forgetting the marks of c, in the words of ModelListing.
LEMMA UnmarkedAfter ==
  ASSUME NEW V, NEW f \in Marks(V), NEW c, NEW total, NEW relisted \in BOOLEAN,
         NEW none \in BOOLEAN, total = 0 <=> none
  PROVE  MarksAfter(f, total, relisted, c) =
           IF none THEN NoMarks
           ELSE Restrict(f, DOMAIN f \ (IF relisted THEN {c} ELSE {}))
<1>1. f = [x \in DOMAIN f |-> f[x]]  BY MarksAre
<1>2. Restrict(f, DOMAIN f \ {}) = f
  <2>1. DOMAIN f \ {} = DOMAIN f  OBVIOUS
  <2>. QED  BY <1>1, <2>1 DEF Restrict
<1>3. Without(f, c) = Restrict(f, DOMAIN f \ {c})  BY DEF Without
<1>. QED  BY <1>2, <1>3 DEF MarksAfter

\* A (de)registration is a Register of the promise.
LEMMA RegisterPromised ==
  ASSUME RegistryTypeOK, ListsOK', NEW c \in Clients, NEW list \in Lists \cup {Nothing},
         NEW pv \in Providers,
         listed' = [listed EXCEPT ![c] = list],
         provider' = [provider EXCEPT ![c] = IF list = Nothing THEN NoProvider ELSE pv],
         answer' = {}, UNCHANGED <<now, asked>>,
         \A m \in Models :
           LET relisted == listed[c] # Nothing /\ listed[c][m] + list[m] > 0
           IN  /\ models'[m].quota = MarksAfter(models[m].quota, Count(m)', relisted, c)
               /\ models'[m].suspended =
                    MarksAfter(models[m].suspended, Count(m)', relisted, c)
  PROVE  Promise!Register(c, list, pv)
<1>. DEFINE after == [listed EXCEPT ![c] = list]
            fresh == listed[c] = Nothing
            gone  == IF fresh THEN {} ELSE {m \in Models : listed[c][m] + list[m] > 0}
            quota == [m \in Models |-> models[m].quota]
            suspended == [m \in Models |-> models[m].suspended]
<1>1. CountZero'  BY CountZeroHolds, PTL
<1>2. ASSUME NEW m \in Models
      PROVE  /\ models'[m].quota = Promise!Unmark(quota, c, gone, after)[m]
             /\ models'[m].suspended = Promise!Unmark(suspended, c, gone, after)[m]
  <2>. DEFINE relisted == listed[c] # Nothing /\ listed[c][m] + list[m] > 0
              none     == \A d \in Clients : after[d][m] = 0
  <2>1. Count(m)' = 0 <=> none  BY <1>1 DEF CountZero
  <2>2. m \in gone <=> relisted  OBVIOUS
  <2>3. quota[m] \in Marks(Nat) /\ suspended[m] \in Marks(Reasons)  BY MarksType
  <2>4. /\ models'[m].quota = MarksAfter(quota[m], Count(m)', relisted, c)
        /\ models'[m].suspended = MarksAfter(suspended[m], Count(m)', relisted, c)
    OBVIOUS
  <2>5. /\ Promise!Unmark(quota, c, gone, after)[m] =
             IF none THEN NoMarks
             ELSE Restrict(quota[m], DOMAIN quota[m] \ (IF m \in gone THEN {c} ELSE {}))
        /\ Promise!Unmark(suspended, c, gone, after)[m] =
             IF none THEN NoMarks
             ELSE Restrict(suspended[m], DOMAIN suspended[m] \ (IF m \in gone THEN {c} ELSE {}))
    BY SameRestrict DEF Promise!Unmark, Promise!NoMarks, NoMarks
  <2>6. relisted \in BOOLEAN /\ none \in BOOLEAN  OBVIOUS
  <2>. HIDE DEF relisted, none, gone, quota, suspended
  <2>7. /\ MarksAfter(quota[m], Count(m)', relisted, c) =
             IF none THEN NoMarks
             ELSE Restrict(quota[m], DOMAIN quota[m] \ (IF relisted THEN {c} ELSE {}))
        /\ MarksAfter(suspended[m], Count(m)', relisted, c) =
             IF none THEN NoMarks
             ELSE Restrict(suspended[m], DOMAIN suspended[m] \ (IF relisted THEN {c} ELSE {}))
    BY <2>1, <2>3, <2>6, UnmarkedAfter
  <2>. QED  BY <2>2, <2>4, <2>5, <2>7
<1>3. /\ [m \in Models |-> models'[m].quota] = Promise!Unmark(quota, c, gone, after)
      /\ [m \in Models |-> models'[m].suspended] = Promise!Unmark(suspended, c, gone, after)
  <2>1. /\ Promise!Unmark(quota, c, gone, after) =
             [m \in Models |-> Promise!Unmark(quota, c, gone, after)[m]]
        /\ Promise!Unmark(suspended, c, gone, after) =
             [m \in Models |-> Promise!Unmark(suspended, c, gone, after)[m]]
    BY DEF Promise!Unmark
  <2>. QED  BY <1>2, <2>1
<1>. QED  BY <1>3 DEF Promise!Register, Promise!Nothing, Nothing

LEMMA MarkPromised ==
  ASSUME RegistryTypeOK, EntriesExact, NEW c \in Clients, NEW m \in Models, Mark(c, m)
  PROVE  Promise!Remark(m)
<1>. DEFINE quota == [x \in Models |-> models[x].quota]
            suspended == [x \in Models |-> models[x].suspended]
            Q == quota[m]
            S == suspended[m]
<1>1. /\ UNCHANGED <<now, listed, provider, asked>> /\ answer' = {} /\ Count(m) > 0
  BY MarkStep
<1>2. Promise!Total(m) > 0  BY <1>1, PromisedTotal
<1>3. models \in [Models -> Entry]  BY DEF RegistryTypeOK
<1>4. ASSUME NEW q, models' = [models EXCEPT ![m].quota = q]
      PROVE  /\ [x \in Models |-> models'[x].quota] = [quota EXCEPT ![m] = q]
             /\ [x \in Models |-> models'[x].suspended] = suspended
  BY <1>3, <1>4 DEF Entry
<1>5. ASSUME NEW q, models' = [models EXCEPT ![m].suspended = q]
      PROVE  /\ [x \in Models |-> models'[x].suspended] = [suspended EXCEPT ![m] = q]
             /\ [x \in Models |-> models'[x].quota] = quota
  BY <1>3, <1>5 DEF Entry
<1>6. Q = models[m].quota /\ S = models[m].suspended  OBVIOUS
<1>7. CASE SetModelQuotaExceeded(c, m)
  <2>1. models' = [models EXCEPT ![m].quota = With(Q, c, now)]
    BY <1>3, <1>6, <1>7 DEF SetModelQuotaExceeded
  <2>2. With(Q, c, now) = [d \in DOMAIN Q \cup {c} |-> IF d = c THEN now ELSE Q[d]]
    BY DEF With
  <2>3. /\ [x \in Models |-> models'[x].quota] =
             [quota EXCEPT ![m] = [d \in DOMAIN Q \cup {c} |-> IF d = c THEN now ELSE Q[d]]]
        /\ [x \in Models |-> models'[x].suspended] = suspended
    BY <1>4, <2>1, <2>2
  <2>. QED  BY <1>1, <1>2, <2>3 DEF Promise!Remark
<1>8. CASE ClearModelQuotaExceeded(c, m)
  <2>1. models' = [models EXCEPT ![m].quota = Without(Q, c)]
    BY <1>3, <1>6, <1>8 DEF ClearModelQuotaExceeded
  <2>2. Without(Q, c) = Promise!Restrict(Q, DOMAIN Q \ {c})
    BY SameRestrict DEF Without
  <2>3. /\ [x \in Models |-> models'[x].quota] =
             [quota EXCEPT ![m] = Promise!Restrict(Q, DOMAIN Q \ {c})]
        /\ [x \in Models |-> models'[x].suspended] = suspended
    BY <1>4, <2>1, <2>2
  <2>. QED  BY <1>1, <1>2, <2>3 DEF Promise!Remark
<1>9. ASSUME NEW r \in Reasons, SuspendClientModel(c, m, r)  PROVE Promise!Remark(m)
  <2>1. models' = [models EXCEPT ![m].suspended = With(S, c, r)]
    BY <1>3, <1>6, <1>9 DEF SuspendClientModel
  <2>2. With(S, c, r) = [d \in DOMAIN S \cup {c} |-> IF d = c THEN r ELSE S[d]]
    BY DEF With
  <2>3. /\ [x \in Models |-> models'[x].suspended] =
             [suspended EXCEPT ![m] = [d \in DOMAIN S \cup {c} |-> IF d = c THEN r ELSE S[d]]]
        /\ [x \in Models |-> models'[x].quota] = quota
    BY <1>5, <2>1, <2>2
  <2>. QED  BY <1>1, <1>2, <1>9, <2>3 DEF Promise!Remark
<1>10. CASE ResumeClientModel(c, m)
  <2>1. models' = [models EXCEPT ![m].suspended = Without(S, c)]
    BY <1>3, <1>6, <1>10 DEF ResumeClientModel
  <2>2. Without(S, c) = Promise!Restrict(S, DOMAIN S \ {c})
    BY SameRestrict DEF Without
  <2>3. /\ [x \in Models |-> models'[x].suspended] =
             [suspended EXCEPT ![m] = Promise!Restrict(S, DOMAIN S \ {c})]
        /\ [x \in Models |-> models'[x].quota] = quota
    BY <1>5, <2>1, <2>2
  <2>. QED  BY <1>1, <1>2, <2>3 DEF Promise!Remark
<1>. QED  BY <1>7, <1>8, <1>9, <1>10 DEF Mark

LEMMA PromisedInit == Init => Promise!Init
BY DEF Init, NoEntry, NoMarks, Nothing, Promise!Init, Promise!NoMarks, Promise!Nothing

LEMMA PromisedStep == IInv /\ IInv' /\ [Next]_vars => [Promise!Next]_(Promise!vars)
<1>. SUFFICES ASSUME IInv, IInv', [Next]_vars
              PROVE  Promise!Next \/ UNCHANGED Promise!vars
  OBVIOUS
<1>0. /\ RegistryTypeOK /\ EntriesExact /\ ListsOK /\ ListsOK' /\ CacheBuilt
      /\ now \in Nat /\ asked \in [Readers -> {-1} \cup 0..now]
  BY DEF IInv, RegistryTypeOK
<1>1. CASE Tick
  <2>1. Promise!Tick  BY <1>1 DEF Tick, Promise!Tick
  <2>. QED  BY <2>1 DEF Promise!Next
<1>2. ASSUME NEW c \in Clients, UnregisterClient(c)  PROVE Promise!Next
  <2>1. /\ listed' = [listed EXCEPT ![c] = Nothing]
        /\ provider' = [provider EXCEPT ![c] = NoProvider]
        /\ answer' = {} /\ UNCHANGED <<now, asked>>
    BY <1>2 DEF UnregisterClient, Invalidate
  <2>2. ASSUME NEW m \in Models
        PROVE  LET relisted == listed[c] # Nothing /\ listed[c][m] + Nothing[m] > 0
               IN  /\ models'[m].quota = MarksAfter(models[m].quota, Count(m)', relisted, c)
                   /\ models'[m].suspended =
                        MarksAfter(models[m].suspended, Count(m)', relisted, c)
    <3>1. listed[c][m] + Nothing[m] = listed[c][m]
      BY <1>0, ListType DEF ListsOK, Nothing
    <3>. QED  BY <1>0, <1>2, <3>1, UnregisterStep
  <2>3. PICK pv \in Providers : TRUE  BY RegistryAssumption
  <2>4. Promise!Register(c, Nothing, pv)
    BY <1>0, <2>1, <2>2, RegisterPromised
  <2>. QED  BY <2>4 DEF Promise!Next, Promise!Nothing, Nothing
<1>3. ASSUME NEW c \in Clients, NEW list \in Lists, NEW pv \in Providers,
             RegisterClient(c, list, pv)
      PROVE  Promise!Next
  <2>1. /\ listed' = [listed EXCEPT ![c] = list]
        /\ provider' = [provider EXCEPT ![c] = pv]
        /\ answer' = {} /\ UNCHANGED <<now, asked>>
    BY <1>3 DEF RegisterClient, Invalidate
  <2>2. provider' = [provider EXCEPT ![c] = IF list = Nothing THEN NoProvider ELSE pv]
    BY <2>1, ListType
  <2>3. ASSUME NEW m \in Models
        PROVE  LET relisted == listed[c] # Nothing /\ listed[c][m] + list[m] > 0
               IN  /\ models'[m].quota = MarksAfter(models[m].quota, Count(m)', relisted, c)
                   /\ models'[m].suspended =
                        MarksAfter(models[m].suspended, Count(m)', relisted, c)
    BY <1>0, <1>3, RegisterStep
  <2>4. Promise!Register(c, list, pv)
    BY <1>0, <2>1, <2>2, <2>3, RegisterPromised
  <2>. QED  BY <2>4 DEF Promise!Next
<1>4. ASSUME NEW c \in Clients, NEW m \in Markable, Mark(c, m)  PROVE Promise!Next
  <2>1. m \in Models  BY RegistryAssumption
  <2>2. Promise!Remark(m)  BY <1>0, <1>4, <2>1, MarkPromised
  <2>. QED  BY <2>1, <2>2 DEF Promise!Next
<1>5. CASE CleanupExpiredQuotas
  <2>1. /\ models' = [m \in Models |->
                        [models[m] EXCEPT !.quota = Restrict(@, OverQuota(m, now))]]
        /\ UNCHANGED <<listed, provider, now, asked>> /\ answer' = {}
    BY <1>5 DEF CleanupExpiredQuotas, Invalidate
  <2>2. ASSUME NEW m \in Models
        PROVE  /\ models'[m].quota =
                    Promise!Restrict(models[m].quota, Promise!OverQuota(m, now))
               /\ models'[m].suspended = models[m].suspended
    <3>1. Promise!OverQuota(m, now) = OverQuota(m, now)  BY DEF Promise!OverQuota, OverQuota
    <3>2. models[m] \in Entry  BY <1>0 DEF RegistryTypeOK
    <3>. QED  BY <2>1, <3>1, <3>2, SameRestrict DEF Entry
  <2>3. Promise!Forget  BY <2>1, <2>2 DEF Promise!Forget
  <2>. QED  BY <2>3 DEF Promise!Next
<1>6. CASE HitCache
  <2>1. PICK entry \in cache : Valid(entry, now) /\ answer' = {entry.models}
    BY <1>6 DEF HitCache
  <2>2. PICK s \in 0..now : entry = Listing(s)  BY <1>0, <2>1 DEF CacheBuilt
  <2>3. Available(now) = Available(s)  BY <1>0, <2>1, <2>2, ListingStands
  <2>4. entry.models = Available(s)  BY <2>2 DEF Listing
  <2>5. answer' = {Promise!Listing(now)}
    BY <1>0, <2>1, <2>3, <2>4, PromisedListing
  <2>6. Promise!AnswerAtOnce  BY <1>6, <2>5 DEF HitCache, Promise!AnswerAtOnce
  <2>. QED  BY <2>6 DEF Promise!Next
<1>7. ASSUME NEW r \in Readers, MissCache(r)  PROVE Promise!Next
  <2>1. Promise!Ask(r)  BY <1>7 DEF MissCache, Promise!Ask
  <2>. QED  BY <2>1 DEF Promise!Next
<1>8. ASSUME NEW r \in Readers, FillCache(r)  PROVE Promise!Next
  <2>1. PICK t \in asked[r]..now : answer' = {Available(t)}
    BY <1>0, <1>8, FillStep
  <2>2. answer' = {Promise!Listing(t)}  BY <1>0, <2>1, PromisedListing
  <2>3. Promise!Answer(r)  BY <1>8, <2>2 DEF FillCache, Promise!Answer
  <2>. QED  BY <2>3 DEF Promise!Next
<1>9. CASE UNCHANGED vars
  BY <1>9 DEF vars, Promise!vars
<1>. QED
  BY <1>1, <1>2, <1>3, <1>4, <1>5, <1>6, <1>7, <1>8, <1>9 DEF Next

\* Counters, marks inside counted entries and an expiring cache filled by concurrent
\* readers give only answers that follow from what clients registered and from the
\* marks put on them, at a moment of the call (model_registry.go:769-870).
THEOREM RegistryImplementsListing == Spec => AnswersAsPromised
BY PromisedInit, PromisedStep, RegistryInv, PTL
   DEF Spec, AnswersAsPromised, Promise!Spec
=============================================================================
