---------------------------- MODULE ModelRegistry ----------------------------
(***************************************************************************)
(* The global model registry: reference counts per model and provider that  *)
(* every registration adjusts, marks that live inside the counted entries,  *)
(* and a cached listing with an expiry. Every method holds r.mutex except   *)
(* GetAvailableModels, which reads the clock and looks at the cache under   *)
(* the read lock before it takes the write lock. One handler type: entries  *)
(* of others are copies of the same listing in another layout.              *)
(***************************************************************************)
EXTENDS Integers, FiniteSets, FiniteSetsExt, Functions

CONSTANTS
  Clients, Models, Readers, Lists, Providers, NoProvider, Reasons, QuotaWindow,
  MaxTime,     \* as in ModelListing
  Markable     \* models that get marks (a bound on the inputs)

ASSUME RegistryAssumption ==
  /\ IsFiniteSet(Clients)
  /\ Markable \subseteq Models
  /\ Lists \subseteq [Models -> Nat]
  /\ \A list \in Lists : \E m \in Models : list[m] > 0
  /\ Providers # {} /\ NoProvider \notin Providers
  /\ "quota" \in Reasons
  /\ QuotaWindow \in Nat \ {0}
  /\ MaxTime \in Nat

VARIABLES
  now,
  models,      \* r.models: per model its entry, NoEntry when it has none
  listed,      \* r.clientModels, as occurrences
  provider,    \* r.clientProviders
  cache,       \* r.availableModelsCache: {} or {[models, expires]}
  asked,       \* GetAvailableModels calls between the two locks, with their clock
  answer

vars == <<now, models, listed, provider, cache, asked, answer>>

-----------------------------------------------------------------------------
Nothing == [m \in Models |-> 0]
NoMarks == [c \in {} |-> 0]
NoEntry == [count |-> 0, providers |-> [p \in Providers |-> 0], infos |-> {},
            quota |-> NoMarks, suspended |-> NoMarks]

Least(a, b)    == IF a < b THEN a ELSE b
Without(f, c)  == Restrict(f, DOMAIN f \ {c})
With(f, c, v)  == [d \in DOMAIN f \cup {c} |-> IF d = c THEN v ELSE f[d]]
Unmarked(e, c) == [e EXCEPT !.quota = Without(@, c), !.suspended = Without(@, c)]

\* Takes k from what provider p counts; the last one takes its model info along.
TakeProvider(e, p, k) ==
  IF k = 0 \/ e.providers[p] = 0 THEN e
  ELSE IF e.providers[p] <= k THEN [e EXCEPT !.providers[p] = 0, !.infos = @ \ {p}]
  ELSE [e EXCEPT !.providers[p] = @ - k]

GiveProvider(e, p, k) ==
  IF k = 0 THEN e
  ELSE [e EXCEPT !.providers[p] = @ + k, !.infos = @ \cup {p}]

\* addModelRegistration and removeModelRegistration, k times.
Added(e, p, k) == GiveProvider([e EXCEPT !.count = @ + k], p, k)

\* Mutant of Removed: the marks of the client that left stay.
RemovedStillMarked(e, c, p, k) ==
  IF k = 0 \/ e = NoEntry THEN e
  ELSE IF e.count <= k THEN NoEntry
  ELSE TakeProvider([e EXCEPT !.count = @ - k], p, k)

Removed(e, c, p, k) ==
  IF k = 0 \/ e = NoEntry THEN e
  ELSE IF e.count <= k THEN NoEntry
  ELSE TakeProvider([Unmarked(e, c) EXCEPT !.count = @ - k], p, k)

\* Mutant of Reconciled: the provider the client left keeps the overlap.
ReconciledUndetached(e, c, old, new, from, to) ==
  LET overlap == Least(old, new)
      larger  == Added(Removed(e, c, from, old - overlap), to, new - overlap)
      fresh   == [Unmarked(larger, c) EXCEPT !.infos = @ \cup {to}]
  IN IF new = 0 THEN larger
     ELSE IF from # to THEN GiveProvider(fresh, to, overlap) ELSE fresh

\* What the registration of a known client does to one entry: old and new are
\* how often the client listed the model and lists it now.
Reconciled(e, c, old, new, from, to) ==
  LET overlap  == Least(old, new)
      changed  == from # to
      detached == IF changed THEN TakeProvider(e, from, overlap) ELSE e
      smaller  == Removed(detached, c, from, old - overlap)
      larger   == Added(smaller, to, new - overlap)
      fresh    == [Unmarked(larger, c) EXCEPT !.infos = @ \cup {to}]
  IN IF new = 0 THEN larger
     ELSE IF changed THEN GiveProvider(fresh, to, overlap) ELSE fresh

-----------------------------------------------------------------------------
\* Clients of m whose quota mark still counts at time t, and suspensions by reason.
OverQuota(m, t)  == {c \in DOMAIN models[m].quota : t < models[m].quota[c] + QuotaWindow}
ForQuota(m)      == {c \in DOMAIN models[m].suspended : models[m].suspended[c] = "quota"}
Otherwise(m)     == DOMAIN models[m].suspended \ ForQuota(m)

\* Mutant of IsAvailable: a suspension for quota counts next to its quota mark.
IsAvailableQuotaTwice(m, t) ==
  LET cooling   == Cardinality(OverQuota(m, t))
      others    == Cardinality(DOMAIN models[m].suspended)
      effective == models[m].count - cooling - others
  IN \/ effective > 0
     \/ models[m].count > 0 /\ (cooling > 0 \/ ForQuota(m) # {}) /\ others = 0

\* buildAvailableModelsLocked.
IsAvailable(m, t) ==
  LET cooling   == Cardinality(OverQuota(m, t))
      others    == Cardinality(Otherwise(m))
      effective == models[m].count - cooling - others
  IN \/ effective > 0
     \/ models[m].count > 0 /\ (cooling > 0 \/ ForQuota(m) # {}) /\ others = 0

Available(t)  == {m \in Models : IsAvailable(m, t)}
Recoveries(t) == UNION {{models[m].quota[c] + QuotaWindow : c \in OverQuota(m, t)} : m \in Models}

\* Mutant of Listing: expires with the last recovery, not the first.
ListingUntilLast(t) == [models |-> Available(t),
                        expires |-> IF Recoveries(t) = {} THEN 0 ELSE Max(Recoveries(t))]

Listing(t) == [models |-> Available(t),
               expires |-> IF Recoveries(t) = {} THEN 0 ELSE Min(Recoveries(t))]

Valid(entry, t) == entry.expires = 0 \/ t < entry.expires

-----------------------------------------------------------------------------
Init ==
  /\ now = 0
  /\ models = [m \in Models |-> NoEntry]
  /\ listed = [c \in Clients |-> Nothing]
  /\ provider = [c \in Clients |-> NoProvider]
  /\ cache = {}
  /\ asked = [r \in Readers |-> -1]
  /\ answer = {}

Tick ==
  /\ now < MaxTime
  /\ now' = now + 1
  /\ answer' = {}
  /\ UNCHANGED <<models, listed, provider, cache, asked>>

\* The tail of every change: invalidateAvailableModelsCacheLocked.
Invalidate == cache' = {} /\ answer' = {} /\ UNCHANGED <<now, asked>>

UnregisterClient(c) ==
  /\ models' = [m \in Models |-> Removed(models[m], c, provider[c], listed[c][m])]
  /\ listed' = [listed EXCEPT ![c] = Nothing]
  /\ provider' = [provider EXCEPT ![c] = NoProvider]
  /\ Invalidate

\* Callers pass a provider and a list that is not empty.
RegisterClient(c, list, pv) ==
  /\ models' = [m \in Models |->
       IF listed[c] = Nothing THEN Added(models[m], pv, list[m])
       ELSE Reconciled(models[m], c, listed[c][m], list[m], provider[c], pv)]
  /\ listed' = [listed EXCEPT ![c] = list]
  /\ provider' = [provider EXCEPT ![c] = pv]
  /\ Invalidate

\* A mark is written into the entry whether or not the client lists the model.
SetModelQuotaExceeded(c, m) ==
  /\ models[m] # NoEntry
  /\ models' = [models EXCEPT ![m].quota = With(@, c, now)]
  /\ UNCHANGED <<listed, provider>>
  /\ Invalidate

ClearModelQuotaExceeded(c, m) ==
  /\ models[m] # NoEntry
  /\ models' = [models EXCEPT ![m].quota = Without(@, c)]
  /\ UNCHANGED <<listed, provider>>
  /\ Invalidate

\* The first reason stays.
SuspendClientModel(c, m, reason) ==
  /\ models[m] # NoEntry
  /\ c \notin DOMAIN models[m].suspended
  /\ models' = [models EXCEPT ![m].suspended = With(@, c, reason)]
  /\ UNCHANGED <<listed, provider>>
  /\ Invalidate

ResumeClientModel(c, m) ==
  /\ c \in DOMAIN models[m].suspended
  /\ models' = [models EXCEPT ![m].suspended = Without(@, c)]
  /\ UNCHANGED <<listed, provider>>
  /\ Invalidate

CleanupExpiredQuotas ==
  /\ \E m \in Models : DOMAIN models[m].quota # OverQuota(m, now)
  /\ models' = [m \in Models |-> [models[m] EXCEPT !.quota = Restrict(@, OverQuota(m, now))]]
  /\ UNCHANGED <<listed, provider>>
  /\ Invalidate

\* GetAvailableModels under the read lock: a valid entry is the answer, ...
HitCache ==
  /\ \E entry \in cache : Valid(entry, now) /\ answer' = {entry.models}
  /\ UNCHANGED <<now, models, listed, provider, cache, asked>>

\* ... else the call goes for the write lock with the clock it has read.
MissCache(r) ==
  /\ asked[r] = -1
  /\ ~ \E entry \in cache : Valid(entry, now)
  /\ asked' = [asked EXCEPT ![r] = now]
  /\ answer' = {}
  /\ UNCHANGED <<now, models, listed, provider, cache>>

\* Under the write lock: somebody else may have filled the cache meanwhile.
FillCache(r) ==
  /\ asked[r] # -1
  /\ LET hits == {entry \in cache : Valid(entry, asked[r])}
     IN /\ cache' = IF hits # {} THEN cache ELSE {Listing(asked[r])}
        /\ answer' = {entry.models : entry \in cache'}
  /\ asked' = [asked EXCEPT ![r] = -1]
  /\ UNCHANGED <<now, models, listed, provider>>

Mark(c, m) ==
  \/ SetModelQuotaExceeded(c, m)
  \/ ClearModelQuotaExceeded(c, m)
  \/ \E reason \in Reasons : SuspendClientModel(c, m, reason)
  \/ ResumeClientModel(c, m)

Next ==
  \/ Tick
  \/ \E c \in Clients :
       \/ UnregisterClient(c)
       \/ \E list \in Lists, pv \in Providers : RegisterClient(c, list, pv)
       \/ \E m \in Markable : Mark(c, m)
  \/ CleanupExpiredQuotas
  \/ HitCache
  \/ \E r \in Readers : MissCache(r) \/ FillCache(r)

Spec == Init /\ [][Next]_vars

-----------------------------------------------------------------------------
\* The sum of a function of the clients: every client stands for f[c] occurrences.
Tally(f) == Cardinality(UNION {{c} \X (1..f[c]) : c \in DOMAIN f})

\* The counters every registration adjusts in steps (overlap, removal, addition,
\* metadata) are what the clients' lists say, per model and per provider; a
\* provider has model info of its own exactly while somebody supplies the model,
\* and an entry nobody lists is gone with its marks.
CountsExact ==
  \A m \in Models :
    /\ models[m].count = Tally([c \in Clients |-> listed[c][m]])
    /\ models[m].count = 0 => models[m] = NoEntry
    /\ \A p \in Providers :
         models[m].providers[p] =
           Tally([c \in Clients |-> IF provider[c] = p THEN listed[c][m] ELSE 0])
    /\ models[m].infos = {p \in Providers : models[m].providers[p] > 0}

\* A cached listing a caller would be given is what would be built now, also when
\* it was built with a clock read before the lock or a mark has expired since.
CacheFresh == \A entry \in cache : Valid(entry, now) => entry.models = Available(now)

\* The registry implements ModelListing: every answer of GetAvailableModels is the
\* listing that follows from registrations and marks at a moment of the call.
Promise == INSTANCE ModelListing WITH
  quota <- [m \in Models |-> models[m].quota],
  suspended <- [m \in Models |-> models[m].suspended]

AnswersAsPromised == Promise!Spec

\* "GetAvailableModels returns all models that have at least one available client"
\* (model_registry.go:763): a client without a mark keeps its model listed, as long
\* as marks are only on clients that list the model and nobody is both over quota and
\* suspended for another reason: such a client is counted twice, and hides a free one.
FreeClientKeepsListed ==
  \A m \in Models :
    LET marked == OverQuota(m, now) \cup DOMAIN models[m].suspended
        bound  == {c \in Clients : listed[c][m] > 0}
    IN /\ marked \subseteq bound /\ bound \ marked # {}
       /\ OverQuota(m, now) \cap Otherwise(m) = {}
       => IsAvailable(m, now)
=============================================================================
