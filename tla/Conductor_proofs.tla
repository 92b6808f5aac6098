--------------------------- MODULE Conductor_proofs ---------------------------
(***************************************************************************)
(* Proofs about module Conductor, for any credentials, models, goroutines,    *)
(* durations and bounds: its types; what the scheduler knows of a credential  *)
(* whose last change it has applied; that once nothing is in flight it knows  *)
(* each by the registry's models; that turning cooling off leaves no quota    *)
(* cooldown; and that only Register brings a removed id back.                 *)
(***************************************************************************)
EXTENDS Conductor, TLAPS, FiniteSetTheorems, WellFoundedInduction

-----------------------------------------------------------------------------
(* Partial functions and credentials as the members of sets.                 *)

Maps(D, R) == UNION {[S -> R] : S \in SUBSET D}

StateMaps == Maps(Models, ModelState)
Auths     ==
  [disabled : BOOLEAN, status : Statuses, unavail : BOOLEAN, next : Nat, quota : Quota,
   states : StateMaps]

LEMMA Constants ==
  /\ QuotaBase \in Nat \ {0} /\ QuotaMax \in Nat /\ ChallengeMin \in Nat
  /\ HalfHour \in Nat /\ HalfDay \in Nat /\ TransientWait \in Nat /\ MaxLevel \in Nat
  /\ RetryAfters \subseteq Nat /\ MaxTime \in Nat /\ MaxVer \in Nat
BY DurationsAssumption, ConductorAssumption

LEMMA AStateMapIsPartial ==
  ASSUME NEW f
  PROVE  f \in StateMaps <=>
           IsPartial(f, Models) /\ \A m \in DOMAIN f : f[m] \in ModelState
<1>1. ASSUME f \in StateMaps
      PROVE  IsPartial(f, Models) /\ \A m \in DOMAIN f : f[m] \in ModelState
  <2>1. PICK S \in SUBSET Models : f \in [S -> ModelState]  BY <1>1 DEF StateMaps, Maps
  <2>. QED  BY <2>1 DEF IsPartial
<1>2. ASSUME IsPartial(f, Models), \A m \in DOMAIN f : f[m] \in ModelState
      PROVE  f \in StateMaps
  <2>1. f \in [DOMAIN f -> ModelState] /\ DOMAIN f \in SUBSET Models  BY <1>2 DEF IsPartial
  <2>. QED  BY <2>1 DEF StateMaps, Maps
<1>. QED  BY <1>1, <1>2

LEMMA AuthsAreAuths ==
  ASSUME NEW a
  PROVE  a \in Auths <=> IsAuth(a)
<1>1. ASSUME a \in Auths  PROVE IsAuth(a)
  <2>1. a.states \in StateMaps  BY <1>1 DEF Auths
  <2>2. a \in [disabled: BOOLEAN, status: Statuses, unavail: BOOLEAN, next: Nat,
               quota: Quota, states: {a.states}]
    <3>. HIDE DEF StateMaps
    <3>. QED  BY <1>1 DEF Auths
  <2>. QED  BY <2>1, <2>2, AStateMapIsPartial DEF IsAuth
<1>2. ASSUME IsAuth(a)  PROVE a \in Auths
  <2>1. a.states \in StateMaps  BY <1>2, AStateMapIsPartial DEF IsAuth
  <2>2. a \in [disabled: BOOLEAN, status: Statuses, unavail: BOOLEAN, next: Nat,
               quota: Quota, states: {a.states}]
    BY <1>2 DEF IsAuth
  <2>. HIDE DEF StateMaps
  <2>. QED  BY <2>1, <2>2 DEF Auths
<1>. QED  BY <1>1, <1>2

LEMMA StatesOf ==
  ASSUME NEW a \in Auths
  PROVE  /\ Tracked(a) \subseteq Models
         /\ a.states \in [Tracked(a) -> ModelState]
         /\ \A m \in Tracked(a) : a.states[m] \in ModelState
         /\ \A m : StateOf(a, m) \in ModelState
<1>1. a.states \in StateMaps  BY DEF Auths
<1>2. Tracked(a) \subseteq Models /\ a.states \in [Tracked(a) -> ModelState]
  <2>1. PICK S \in SUBSET Models : a.states \in [S -> ModelState]  BY <1>1 DEF StateMaps, Maps
  <2>. QED  BY <2>1 DEF Tracked
<1>3. CleanState \in ModelState
  BY Constants DEF CleanState, ModelState, NoQuota, Quota
<1>. QED  BY <1>2, <1>3 DEF StateOf

LEMMA MapOfStates ==
  ASSUME NEW S \in SUBSET Models, NEW f \in [S -> ModelState]
  PROVE  f \in StateMaps
BY DEF StateMaps, Maps

LEMMA Clean ==
  /\ NoQuota \in Quota /\ CleanState \in ModelState /\ NoStates \in StateMaps
  /\ \A d \in BOOLEAN : FreshAuth(d) \in Auths
<1>1. NoQuota \in Quota  BY Constants DEF NoQuota, Quota
<1>2. CleanState \in ModelState  BY <1>1 DEF CleanState, ModelState
<1>3. NoStates \in StateMaps
  <2>1. NoStates \in [{} -> ModelState]  BY DEF NoStates
  <2>. QED  BY <2>1 DEF StateMaps, Maps
<1>. HIDE DEF StateMaps
<1>. QED  BY <1>1, <1>2, <1>3 DEF FreshAuth, Auths, Statuses

-----------------------------------------------------------------------------
(* Times and levels.                                                         *)

LEMMA EarliestType ==
  ASSUME NEW S \in SUBSET Nat
  PROVE  Earliest(S) \in Nat
<1>1. CASE S # {}
  <2>1. \E m \in S : \A n \in S : m <= n
    <3>1. PICK m \in S : \A n \in S : <<n, m>> \notin OpToRel(<, Nat)
      BY <1>1, NatLessThanWellFounded, WFMin, Zenon
    <3>2. ASSUME NEW n \in S  PROVE m <= n
      <4>1. ~ (n < m)  BY <3>1 DEF OpToRel
      <4>. QED  BY <4>1
    <3>. QED  BY <3>2
  <2>. QED  BY <1>1, <2>1 DEF Earliest
<1>. QED  BY <1>1 DEF Earliest

LEMMA LargestType ==
  ASSUME NEW S \in SUBSET (0..MaxLevel)
  PROVE  Largest(S) \in 0..MaxLevel
<1>1. CASE S # {}
  <2>. DEFINE T == {MaxLevel - l : l \in S}
  <2>1. T \subseteq Nat /\ T # {}
    <3>1. \A l \in S : MaxLevel - l \in Nat  BY Constants
    <3>. QED  BY <1>1, <3>1
  <2>2. PICK d \in T : \A e \in T : <<e, d>> \notin OpToRel(<, Nat)
    <3>. HIDE DEF T
    <3>. QED  BY <2>1, NatLessThanWellFounded, WFMin, Zenon
  <2>3. PICK l \in S : d = MaxLevel - l  OBVIOUS
  <2>4. ASSUME NEW k \in S  PROVE k <= l
    <3>1. MaxLevel - k \in T /\ MaxLevel - k \in Nat /\ d \in Nat  BY <2>1, Constants
    <3>2. ~ (MaxLevel - k < d)  BY <2>2, <3>1 DEF OpToRel
    <3>. QED  BY <2>3, <3>1, <3>2, Constants
  <2>. QED  BY <1>1, <2>4 DEF Largest
<1>. QED  BY <1>1, Constants DEF Largest

LEMMA LevelTypes ==
  ASSUME NEW l \in 0..MaxLevel
  PROVE  QuotaCooldown(l) \in Nat /\ NextLevel(l) \in 0..MaxLevel
<1>1. \A k \in 0..MaxLevel : QuotaBase * 2^k \in Int  BY Constants
<1>2. Doubled(l) \in Nat /\ Doubled(MaxLevel) \in Nat
  <2>1. QuotaBase * 2^l \in Int /\ QuotaBase * 2^MaxLevel \in Int  BY <1>1, Constants
  <2>. QED  BY <2>1, Constants DEF Doubled
<1>3. Doubled(MaxLevel) >= QuotaMax
  <2>1. QuotaBase * 2^MaxLevel \in Int  BY <1>1, Constants
  <2>2. QuotaBase * 2^MaxLevel >= QuotaMax  BY DurationsAssumption
  <2>. QED  BY <2>1, <2>2, Constants DEF Doubled
<1>4. QuotaCooldown(l) \in Nat  BY <1>2, Constants DEF QuotaCooldown
<1>5. NextLevel(l) \in 0..MaxLevel
  <2>1. CASE l = MaxLevel  BY <1>3, <2>1 DEF NextLevel, AtCap
  <2>2. CASE l # MaxLevel  BY <2>2, Constants DEF NextLevel
  <2>. QED  BY <2>1, <2>2
<1>. QED  BY <1>4, <1>5

LEMMA FailStateType ==
  ASSUME NEW s \in ModelState, NEW kind, NEW ra \in Nat, NEW on \in BOOLEAN, NEW t \in Nat
  PROVE  FailState(s, kind, ra, on, t) \in ModelState
<1>1. s.quota \in Quota /\ s.quota.level \in 0..MaxLevel /\ s.quota.recover \in Nat
  BY DEF ModelState, Quota
<1>2. QuotaCooldown(s.quota.level) \in Nat /\ NextLevel(s.quota.level) \in 0..MaxLevel
  BY <1>1, LevelTypes
<1>. DEFINE next == RetryAt(kind, s.quota.level, ra, on, t)
<1>3. next \in Nat
  BY <1>2, Constants DEF RetryAt, AtLeast
<1>4. QuotaAfter(s.quota, kind, ra, on, next) \in Quota
  <2>. HIDE DEF next
  <2>. QED  BY <1>1, <1>2, <1>3 DEF QuotaAfter, Quota
<1>. HIDE DEF next
<1>5. FailState(s, kind, ra, on, t) =
        [failed |-> TRUE, unavail |-> TRUE, next |-> next,
         quota |-> QuotaAfter(s.quota, kind, ra, on, next)]
  BY DEF FailState, next
<1>. QED  BY <1>3, <1>4, <1>5 DEF ModelState

-----------------------------------------------------------------------------
(* What the operations make of a credential: its type, and, for those that    *)
(* matter while cooling is off, that no quota cooldown is pending.            *)

Cooled(a) == \A m \in Tracked(a) : a.states[m].quota.recover = 0

LEMMA WithStateFacts ==
  ASSUME NEW a \in Auths, NEW m \in Models, NEW s \in ModelState
  PROVE  /\ WithState(a, m, s) \in Auths
         /\ Cooled(a) /\ s.quota.recover = 0 => Cooled(WithState(a, m, s))
<1>. DEFINE f == [k \in Tracked(a) \cup {m} |-> IF k = m THEN s ELSE a.states[k]]
<1>1. f \in [Tracked(a) \cup {m} -> ModelState] /\ Tracked(a) \cup {m} \in SUBSET Models
  BY StatesOf
<1>2. f \in StateMaps
  <2>. HIDE DEF f
  <2>. QED  BY <1>1, MapOfStates
<1>3. WithState(a, m, s) = [a EXCEPT !.states = f]  BY DEF WithState
<1>4. DOMAIN f = Tracked(a) \cup {m} /\ f[m] = s /\ \A k \in Tracked(a) \ {m} : f[k] = a.states[k]
  OBVIOUS
<1>. HIDE DEF f, StateMaps
<1>5. WithState(a, m, s) \in Auths /\ WithState(a, m, s).states = f
  BY <1>2, <1>3 DEF Auths
<1>. QED  BY <1>4, <1>5 DEF Cooled, Tracked

LEMMA ExpireFacts ==
  ASSUME NEW s \in ModelState, NEW t \in Nat
  PROVE  Expire(s, t) \in ModelState /\ Expire(s, t).quota = s.quota
BY DEF Expire, ModelState

LEMMA AggregateQuotaType ==
  ASSUME NEW S, NEW f \in [S -> ModelState]
  PROVE  AggregateQuota(f) \in Quota
<1>. DEFINE over == {m \in S : f[m].quota.exceeded}
<1>1. DOMAIN f = S  OBVIOUS
<1>2. \A m \in S : f[m].quota \in Quota  BY DEF ModelState
<1>3. \A m \in S : f[m].quota.recover \in Nat /\ f[m].quota.level \in 0..MaxLevel
  BY <1>2 DEF Quota
<1>4. Earliest({f[m].quota.recover : m \in over} \ {0}) \in Nat
  <2>1. {f[m].quota.recover : m \in over} \ {0} \in SUBSET Nat  BY <1>3
  <2>. QED  BY <2>1, EarliestType
<1>5. Largest({f[m].quota.level : m \in over}) \in 0..MaxLevel
  <2>1. {f[m].quota.level : m \in over} \in SUBSET (0..MaxLevel)  BY <1>3
  <2>. QED  BY <2>1, LargestType
<1>. DEFINE e == Earliest({f[m].quota.recover : m \in over} \ {0})
            l == Largest({f[m].quota.level : m \in over})
<1>6. AggregateQuota(f) = IF over = {} THEN NoQuota
                          ELSE [exceeded |-> TRUE, recover |-> e, level |-> l]
  BY <1>1 DEF AggregateQuota
<1>. HIDE DEF e, l, over
<1>7. [exceeded |-> TRUE, recover |-> e, level |-> l] \in Quota
  BY <1>4, <1>5 DEF Quota, e, l
<1>. QED  BY <1>6, <1>7, Clean

LEMMA AggregateFacts ==
  ASSUME NEW a \in Auths, NEW t \in Nat
  PROVE  /\ Aggregate(a, t) \in Auths
         /\ Tracked(Aggregate(a, t)) = Tracked(a)
         /\ \A m \in Tracked(a) : Aggregate(a, t).states[m].quota = a.states[m].quota
<1>. DEFINE f    == [m \in Tracked(a) |-> Expire(a.states[m], t)]
            all  == Tracked(a) # {} /\ \A m \in Tracked(a) : Cooling(f[m], t)
            next == IF all THEN Earliest({f[m].next : m \in Tracked(a)}) ELSE 0
<1>1. \A m \in Tracked(a) : /\ f[m] = Expire(a.states[m], t) /\ f[m] \in ModelState
                            /\ f[m].quota = a.states[m].quota
  BY StatesOf, ExpireFacts
<1>2. f \in [Tracked(a) -> ModelState] /\ Tracked(a) \in SUBSET Models
  BY <1>1, StatesOf
<1>3. f \in StateMaps
  <2>. HIDE DEF f
  <2>. QED  BY <1>2, MapOfStates
<1>4. next \in Nat
  <2>1. {f[m].next : m \in Tracked(a)} \in SUBSET Nat
    <3>. HIDE DEF f
    <3>. QED  BY <1>1 DEF ModelState
  <2>. HIDE DEF f
  <2>. QED  BY <2>1, EarliestType
<1>5. AggregateQuota(f) \in Quota
  <2>. HIDE DEF f
  <2>. QED  BY <1>2, AggregateQuotaType
<1>6. all \in BOOLEAN  OBVIOUS
<1>7. Aggregate(a, t) = [a EXCEPT !.states = f, !.unavail = all, !.next = next,
                                  !.quota = AggregateQuota(f)]
  BY DEF Aggregate
<1>8. DOMAIN f = Tracked(a)  OBVIOUS
<1>. HIDE DEF f, all, next, StateMaps
<1>9. Aggregate(a, t) \in Auths /\ Aggregate(a, t).states = f
  BY <1>3, <1>4, <1>5, <1>6, <1>7 DEF Auths
<1>. QED  BY <1>1, <1>8, <1>9 DEF Tracked

LEMMA AggregateCools ==
  ASSUME NEW a \in Auths, NEW t \in Nat, Cooled(a)
  PROVE  Cooled(Aggregate(a, t))
BY AggregateFacts DEF Cooled

LEMMA SettleFacts ==
  ASSUME NEW a \in Auths
  PROVE  Settle(a) \in Auths /\ (Cooled(a) => Cooled(Settle(a)))
<1>1. [a EXCEPT !.status = "active"] \in Auths
      /\ [a EXCEPT !.status = "active"].states = a.states
  <2>. HIDE DEF StateMaps
  <2>. QED  BY DEF Auths, Statuses
<1>2. Settle(a) = a \/ Settle(a) = [a EXCEPT !.status = "active"]  BY DEF Settle
<1>. QED  BY <1>1, <1>2 DEF Cooled, Tracked

LEMMA SucceedFacts ==
  ASSUME NEW a \in Auths, NEW m \in Models, NEW t \in Nat
  PROVE  Succeed(a, m, t) \in Auths /\ (Cooled(a) => Cooled(Succeed(a, m, t)))
<1>. DEFINE b == WithState(a, m, CleanState)
<1>1. b \in Auths /\ (Cooled(a) => Cooled(b))
  BY Clean, WithStateFacts DEF CleanState, NoQuota
<1>2. Succeed(a, m, t) = Settle(Aggregate(b, t))  BY DEF Succeed
<1>. HIDE DEF b
<1>3. Aggregate(b, t) \in Auths  BY <1>1, AggregateFacts
<1>. QED  BY <1>1, <1>2, <1>3, AggregateCools, SettleFacts

LEMMA FailFacts ==
  ASSUME NEW a \in Auths, NEW m \in Models, NEW kind, NEW ra \in Nat, NEW on \in BOOLEAN,
         NEW t \in Nat
  PROVE  /\ Fail(a, m, kind, ra, on, t) \in Auths
         /\ ~on /\ Cooled(a) => Cooled(Fail(a, m, kind, ra, on, t))
<1>. DEFINE s == FailState(StateOf(a, m), kind, ra, on, t)
            b == WithState(a, m, s)
            e == [b EXCEPT !.status = "error"]
<1>1. StateOf(a, m) \in ModelState /\ s \in ModelState
  BY StatesOf, FailStateType
<1>2. ASSUME ~on, Cooled(a)  PROVE s.quota.recover = 0
  <2>1. StateOf(a, m).quota.recover = 0
    BY <1>2 DEF Cooled, StateOf, CleanState, NoQuota
  <2>2. kind # "unsupported" => RetryAt(kind, StateOf(a, m).quota.level, ra, on, t) = 0
    BY <1>2 DEF RetryAt
  <2>. QED  BY <2>1, <2>2 DEF FailState, QuotaAfter
<1>3. b \in Auths /\ (~on /\ Cooled(a) => Cooled(b))
  <2>. HIDE DEF s
  <2>. QED  BY <1>1, <1>2, WithStateFacts
<1>4. e \in Auths /\ e.states = b.states
  <2>. HIDE DEF b, StateMaps
  <2>. QED  BY <1>3 DEF Auths, Statuses
<1>5. ~on /\ Cooled(a) => Cooled(e)
  <2>. HIDE DEF b, e
  <2>. QED  BY <1>3, <1>4 DEF Cooled, Tracked
<1>6. Fail(a, m, kind, ra, on, t) = IF kind = "scoped404" THEN a ELSE Aggregate(e, t)
  BY DEF Fail
<1>. HIDE DEF e
<1>. QED  BY <1>4, <1>5, <1>6, AggregateFacts, AggregateCools

\* What is not held has no quota cooldown, and what is dropped has none left.
LEMMA DropStateFacts ==
  ASSUME NEW s \in ModelState
  PROVE  DropHold(s) \in ModelState /\ DropHold(s).quota.recover = 0
<1>. DEFINE d == [s EXCEPT !.unavail = FALSE, !.next = 0, !.quota = NoQuota]
<1>1. NoQuota \in Quota /\ NoQuota.recover = 0  BY Clean DEF NoQuota
<1>2. d \in ModelState /\ d.quota = NoQuota  BY <1>1 DEF ModelState
<1>3. DropHold(s) = IF Holds(s) THEN d ELSE s  BY DEF DropHold
<1>4. ~Holds(s) => s.quota.recover = 0  BY DEF Holds
<1>. HIDE DEF d
<1>. QED  BY <1>1, <1>2, <1>3, <1>4

LEMMA ClearFacts ==
  ASSUME NEW a \in Auths, NEW t \in Nat
  PROVE  ClearCooldown(a, t) \in Auths /\ Cooled(ClearCooldown(a, t))
<1>. DEFINE f == [m \in Tracked(a) |-> DropHold(a.states[m])]
            b == [DropHold(a) EXCEPT !.states = f]
<1>1. ASSUME NEW m \in Tracked(a)
      PROVE  f[m] \in ModelState /\ f[m].quota.recover = 0
  <2>1. a.states[m] \in ModelState  BY StatesOf
  <2>. QED  BY <2>1, DropStateFacts
<1>2. f \in [Tracked(a) -> ModelState] /\ Tracked(a) \in SUBSET Models
  BY <1>1, StatesOf
<1>3. f \in StateMaps /\ DOMAIN f = Tracked(a)
  <2>. HIDE DEF f
  <2>. QED  BY <1>2, MapOfStates
<1>4. DropHold(a) \in Auths
  <2>. HIDE DEF StateMaps
  <2>. QED  BY Clean DEF DropHold, Auths
<1>5. b \in Auths /\ b.states = f
  <2>. HIDE DEF f, StateMaps
  <2>. QED  BY <1>3, <1>4 DEF Auths
<1>6. Cooled(b)  BY <1>1, <1>3, <1>5 DEF Cooled, Tracked
<1>7. ClearCooldown(a, t) = IF Tracked(a) = {} THEN b ELSE Aggregate(b, t)
  BY DEF ClearCooldown
<1>. HIDE DEF b
<1>. QED  BY <1>5, <1>6, <1>7, AggregateFacts, AggregateCools

LEMMA ResetFacts ==
  ASSUME NEW a \in Auths, NEW t \in Nat
  PROVE  Reset(a, t) \in Auths /\ Cooled(Reset(a, t))
<1>. DEFINE f == [m \in Tracked(a) |-> CleanState]
            b == [a EXCEPT !.states = f]
            c == ClearCooldown(b, t)
<1>1. f \in [Tracked(a) -> ModelState] /\ Tracked(a) \in SUBSET Models
  BY Clean, StatesOf
<1>2. f \in StateMaps  BY <1>1, MapOfStates
<1>3. b \in Auths
  <2>. HIDE DEF f, StateMaps
  <2>. QED  BY <1>2 DEF Auths
<1>4. c \in Auths /\ Cooled(c)
  <2>. HIDE DEF b
  <2>. QED  BY <1>3, ClearFacts
<1>5. Reset(a, t) = c \/ Reset(a, t) = Settle(c)  BY DEF Reset
<1>. HIDE DEF c
<1>. QED  BY <1>4, <1>5, SettleFacts

LEMMA ReconcileFacts ==
  ASSUME NEW a \in Auths, NEW S, NEW t \in Nat
  PROVE  Reconcile(a, S, t) \in Auths /\ (Cooled(a) => Cooled(Reconcile(a, S, t)))
<1>. DEFINE f == [m \in Tracked(a) \cap S |-> CleanState]
            b == [a EXCEPT !.states = f]
<1>1. f \in [Tracked(a) \cap S -> ModelState] /\ Tracked(a) \cap S \in SUBSET Models
  BY Clean, StatesOf
<1>2. f \in StateMaps  BY <1>1, MapOfStates
<1>3. b \in Auths /\ b.states = f
  <2>. HIDE DEF f, StateMaps
  <2>. QED  BY <1>2 DEF Auths
<1>4. Cooled(b)  BY <1>3 DEF Cooled, Tracked, CleanState, NoQuota
<1>5. Reconcile(a, S, t) = a \/ Reconcile(a, S, t) = Settle(Aggregate(b, t))
  BY DEF Reconcile
<1>. HIDE DEF b
<1>6. Aggregate(b, t) \in Auths /\ Cooled(Aggregate(b, t))
  BY <1>3, <1>4, AggregateFacts, AggregateCools
<1>. QED  BY <1>5, <1>6, SettleFacts

LEMMA MergeFacts ==
  ASSUME NEW a \in Auths, NEW b \in Auths, NEW on \in BOOLEAN, NEW t \in Nat
  PROVE  /\ Merge(a, b, on, t) \in Auths /\ (~on => Cooled(Merge(a, b, on, t)))
         /\ Admit(b, on, t) \in Auths /\ (~on => Cooled(Admit(b, on, t)))
<1>1. PICK f \in {a.states, b.states} :
        LET c == [b EXCEPT !.states = f]
        IN Merge(a, b, on, t) = IF ~on \/ OutOfService(c) THEN ClearCooldown(c, t) ELSE c
  BY DEF Merge
<1>. DEFINE c == [b EXCEPT !.states = f]
<1>2. c \in Auths
  <2>. HIDE DEF StateMaps
  <2>. QED  BY DEF Auths
<1>3. Merge(a, b, on, t) = IF ~on \/ OutOfService(c) THEN ClearCooldown(c, t) ELSE c
  BY <1>1
<1>. HIDE DEF c
<1>4. Merge(a, b, on, t) \in Auths /\ (~on => Cooled(Merge(a, b, on, t)))
  BY <1>2, <1>3, ClearFacts
<1>5. Admit(b, on, t) \in Auths /\ (~on => Cooled(Admit(b, on, t)))
  BY ClearFacts DEF Admit
<1>. QED  BY <1>4, <1>5

LEMMA RefreshFailedFacts ==
  ASSUME NEW a \in Auths, NEW rejected
  PROVE  /\ RefreshFailed(a, rejected) \in Auths
         /\ Cooled(a) => Cooled(RefreshFailed(a, rejected))
<1>. DEFINE b == [a EXCEPT !.unavail = TRUE, !.status = "error"]
<1>1. b \in Auths /\ b.states = a.states
  <2>. HIDE DEF StateMaps
  <2>. QED  BY DEF Auths, Statuses
<1>2. RefreshFailed(a, rejected) \in {a, b}  BY DEF RefreshFailed
<1>. HIDE DEF b
<1>. QED  BY <1>1, <1>2 DEF Cooled, Tracked

LEMMA StatesCarriedOver ==
  ASSUME NEW a \in Auths, NEW b \in Auths
  PROVE  [a EXCEPT !.states = b.states] \in Auths
<1>. HIDE DEF StateMaps
<1>. QED  BY DEF Auths

LEMMA FlagFlipped ==
  ASSUME NEW a \in Auths, NEW d \in BOOLEAN, NEW s \in Statuses
  PROVE  [a EXCEPT !.disabled = d, !.status = s] \in Auths
<1>. HIDE DEF StateMaps
<1>. QED  BY DEF Auths

\* A credential that may be used may be used later.
LEMMA NotBlockedLater ==
  ASSUME NEW a \in Auths, NEW m, NEW t \in Nat, ~Blocked(a, m, t)
  PROVE  ~Blocked(a, m, t + 1)
<1>1. StateOf(a, m) \in ModelState  BY StatesOf
<1>. QED  BY <1>1 DEF Blocked, Cooling, ModelState

LEMMA ClassifyFacts ==
  ASSUME NEW a \in Auths, NEW m, now \in Nat
  PROVE  Classify(a, m) \in Entry /\ (Classify(a, m).state = "ready" => ~Blocked(a, m, now))
<1>1. StateOf(a, m) \in ModelState  BY StatesOf
<1>2. BlockedUntil(a, m, now) \in Nat  BY <1>1 DEF BlockedUntil, ModelState, Quota
<1>. QED  BY <1>2 DEF Classify, Entry

-----------------------------------------------------------------------------
(* Partial functions.                                                        *)

LEMMA MapFacts ==
  ASSUME NEW D, NEW R, NEW f
  PROVE  f \in Maps(D, R) <=> f \in [DOMAIN f -> R] /\ DOMAIN f \subseteq D
BY DEF Maps

LEMMA MapIsPartial ==
  ASSUME NEW D, NEW R, NEW f \in Maps(D, R)
  PROVE  IsPartial(f, D) /\ \A x \in DOMAIN f : f[x] \in R
<1>1. f \in [DOMAIN f -> R] /\ DOMAIN f \subseteq D  BY MapFacts
<1>. QED  BY <1>1 DEF IsPartial

LEMMA EmptyMap ==
  ASSUME NEW D, NEW R
  PROVE  Empty \in Maps(D, R) /\ DOMAIN Empty = {}
<1>1. Empty \in [{} -> R]  BY DEF Empty
<1>. QED  BY <1>1 DEF Maps, Empty

LEMMA WithMap ==
  ASSUME NEW D, NEW R, NEW f \in Maps(D, R), NEW k \in D, NEW v \in R
  PROVE  With(f, k, v) \in Maps(D, R)
<1>1. f \in [DOMAIN f -> R] /\ DOMAIN f \subseteq D  BY MapFacts
<1>2. With(f, k, v) \in [DOMAIN f \cup {k} -> R]  BY <1>1 DEF With
<1>3. DOMAIN f \cup {k} \in SUBSET D  BY <1>1
<1>. DEFINE g == With(f, k, v)  S == DOMAIN f \cup {k}
<1>. HIDE DEF g, S
<1>4. g \in [S -> R] /\ S \in SUBSET D  BY <1>2, <1>3 DEF g, S
<1>. QED  BY <1>4 DEF Maps, g

LEMMA WithoutMap ==
  ASSUME NEW D, NEW R, NEW f \in Maps(D, R), NEW k
  PROVE  Without(f, k) \in Maps(D, R)
<1>1. f \in [DOMAIN f -> R] /\ DOMAIN f \subseteq D  BY MapFacts
<1>2. Without(f, k) \in [DOMAIN f \ {k} -> R]  BY <1>1 DEF Without
<1>3. DOMAIN f \ {k} \in SUBSET D  BY <1>1
<1>. DEFINE g == Without(f, k)  S == DOMAIN f \ {k}
<1>. HIDE DEF g, S
<1>4. g \in [S -> R] /\ S \in SUBSET D  BY <1>2, <1>3 DEF g, S
<1>. QED  BY <1>4 DEF Maps, g

LEMMA AMap ==
  ASSUME NEW D, NEW R, NEW S \in SUBSET D, NEW f \in [S -> R]
  PROVE  f \in Maps(D, R) /\ DOMAIN f = S
BY DEF Maps

-----------------------------------------------------------------------------
(* Snapshots and tasks.                                                      *)

Refs   == [live : BOOLEAN, auth : Auths, ver : Nat]
Clones == [live : {FALSE}, auth : Auths, ver : Nat]
Metas  == [ref : Refs, supported : SUBSET Models]

ListTasks  == [op : {"list"}, todo : Maps(Creds, BOOLEAN), then : Tails]
FetchTasks == [op : {"fetch"}, ids : SUBSET Creds, then : Tails \cup ListTasks]
Registrations == Tails \cup ListTasks \cup FetchTasks
Followers  ==
  Registrations \cup [op : {"suspend"}, c : Creds, m : Models]
                \cup [op : {"resume"}, c : Creds, ms : SUBSET Models, then : {Idle}]
UpsertTasks    == [op : {"upsert"}, refs : Maps(Creds, Refs), then : Followers]
ResumeTasks    ==
  [op : {"resume"}, c : Creds, ms : SUBSET Models,
   then : [op : {"upsert"}, refs : Maps(Creds, Clones), then : Followers]]
ReadTasks      == [op : {"supported"}, c : Creds, then : Registrations]
ReconcileTasks == [op : {"reconcile"}, c : Creds, ms : SUBSET Models, then : Registrations]
StoreTasks     ==
  [op : {"update", "refresh", "register"}, c : Creds, auth : Auths, then : {Idle} \cup ListTasks]
RebuildTasks   == [op : {"rebuild"}, vers : [Creds -> Nat], refs : Maps(Creds, Clones)]
ResetTasks     == [op : {"reset"}, c : Creds, ms : SUBSET Models]
RemoveTasks    == [op : {"remove"}, c : Creds, v : Nat]
CredTasks      == [op : {"drop", "unregister"}, c : Creds]

Tasks ==
  Followers \cup UpsertTasks \cup ResumeTasks \cup ReadTasks \cup ReconcileTasks \cup StoreTasks
  \cup RebuildTasks \cup ResetTasks \cup RemoveTasks \cup CredTasks \cup [op : {"sweep"}]

LEMMA SnapshotFacts ==
  /\ LiveRef \in Refs /\ LiveRef.live = TRUE
  /\ \A a \in Auths, v \in Nat : /\ Clone(a, v) \in Clones /\ Clone(a, v) \in Refs
                                 /\ Clone(a, v).live = FALSE
                                 /\ Clone(a, v).auth = a /\ Clone(a, v).ver = v
  /\ Clones \subseteq Refs
<1>. HIDE DEF Auths
<1>1. FreshAuth(FALSE) \in Auths  BY Clean
<1>. QED  BY <1>1 DEF LiveRef, Clone, Refs, Clones

LEMMA Following ==
  /\ Idle \in Ends /\ Release \in Ends /\ Ends \subseteq Tails /\ Tails \subseteq Registrations
  /\ ListTasks \subseteq Registrations /\ FetchTasks \subseteq Registrations
  /\ Registrations \subseteq Followers /\ Followers \subseteq Tasks
BY DEF Ends, Tails, Registrations, Followers, Tasks

LEMMA TailTasks ==
  /\ \A t \in Ends : Sync(t) \in Tails /\ FetchAll(t) \in Tails
  /\ \A c \in Creds : LookUp(c) \in Tails
BY DEF Tails, Sync, FetchAll, LookUp

LEMMA ListFacts ==
  ASSUME NEW todo \in Maps(Creds, BOOLEAN), NEW then \in Tails
  PROVE  ListModels(todo, then) \in Tails \cup ListTasks
<1>1. [op |-> "list", todo |-> todo, then |-> then] \in ListTasks  BY DEF ListTasks
<1>. QED  BY <1>1 DEF ListModels

LEMMA ListOneFacts ==
  ASSUME NEW c \in Creds, NEW a \in Auths, NEW then \in Tails
  PROVE  /\ ListOne(c, a, then) \in ListTasks
         /\ ListOne(c, a, then) =
              [op |-> "list", todo |-> [x \in {c} |-> a.disabled], then |-> then]
<1>. DEFINE f == [x \in {c} |-> a.disabled]
<1>1. f \in [{c} -> BOOLEAN]  BY DEF Auths
<1>2. f \in Maps(Creds, BOOLEAN) /\ DOMAIN f = {c}
  <2>. HIDE DEF f
  <2>. QED  BY <1>1, AMap
<1>3. f # Empty  BY <1>2, EmptyMap
<1>4. ListOne(c, a, then) = [op |-> "list", todo |-> f, then |-> then]
  BY <1>3 DEF ListOne, ListModels
<1>. HIDE DEF f
<1>5. ListOne(c, a, then) \in ListTasks  BY <1>2, <1>4 DEF ListTasks
<1>. QED  BY <1>4, <1>5 DEF f

LEMMA FetchFacts ==
  ASSUME NEW ids \in SUBSET Creds, NEW then \in Tails \cup ListTasks
  PROVE  Fetch(ids, then) \in Registrations
<1>1. [op |-> "fetch", ids |-> ids, then |-> then] \in FetchTasks  BY DEF FetchTasks
<1>. QED  BY <1>1 DEF Fetch, Registrations

LEMMA AfterRegistrationFacts ==
  ASSUME NEW c \in Creds, NEW todo \in Maps(Creds, BOOLEAN), NEW then \in Tails
  PROVE  AfterRegistration(c, todo, then) \in Registrations
<1>1. Without(todo, c) \in Maps(Creds, BOOLEAN)  BY WithoutMap
<1>2. ListModels(Without(todo, c), then) \in Tails \cup ListTasks  BY <1>1, ListFacts
<1>3. Fetch({c}, ListModels(Without(todo, c), then)) \in Registrations  BY <1>2, FetchFacts
<1>. QED  BY <1>3, Following DEF AfterRegistration

LEMMA UpsertFacts ==
  ASSUME NEW refs \in Maps(Creds, Refs), NEW then \in Followers
  PROVE  Upsert(refs, then) \in UpsertTasks /\ Upsert(refs, then) \in Tasks
BY DEF Upsert, UpsertTasks, Tasks

LEMMA UpsertOneFacts ==
  ASSUME NEW c \in Creds, NEW r \in Refs, NEW then \in Followers
  PROVE  /\ UpsertOne(c, r, then) \in UpsertTasks /\ UpsertOne(c, r, then) \in Tasks
         /\ UpsertOne(c, r, then).op = "upsert" /\ UpsertOne(c, r, then).then = then
         /\ DOMAIN UpsertOne(c, r, then).refs = {c} /\ UpsertOne(c, r, then).refs[c] = r
<1>. DEFINE f == [x \in {c} |-> r]
<1>1. f \in [{c} -> Refs]  OBVIOUS
<1>2. f \in Maps(Creds, Refs) /\ DOMAIN f = {c} /\ f[c] = r
  <2>1. f[c] = r  OBVIOUS
  <2>. HIDE DEF f
  <2>. QED  BY <1>1, <2>1, AMap
<1>3. UpsertOne(c, r, then) = Upsert(f, then)  BY DEF UpsertOne
<1>. HIDE DEF f
<1>. QED  BY <1>2, <1>3, UpsertFacts DEF Upsert

\* A task is of the kind that its operation says.
LEMMA TaskKinds ==
  ASSUME NEW t \in Tasks
  PROVE  /\ t.op = "upsert" => t \in UpsertTasks
         /\ t.op = "resume" => t \in [op : {"resume"}, c : Creds, ms : SUBSET Models, then : {Idle}]
                              \/ t \in ResumeTasks
         /\ t.op = "suspend" => t \in [op : {"suspend"}, c : Creds, m : Models]
         /\ t.op = "supported" => t \in ReadTasks
         /\ t.op = "reconcile" => t \in ReconcileTasks
         /\ t.op \in {"update", "refresh", "register"} => t \in StoreTasks
         /\ t.op = "rebuild" => t \in RebuildTasks
         /\ t.op = "reset" => t \in ResetTasks
         /\ t.op = "remove" => t \in RemoveTasks
         /\ t.op \in {"drop", "unregister"} => t \in CredTasks
         /\ t.op = "list" => t \in ListTasks
         /\ t.op = "fetch" => t \in FetchTasks
         /\ t.op \in {"sync", "all"} => t \in [op : {"sync", "all"}, then : Ends]
         /\ t.op = "lookup" => t \in [op : {"lookup"}, c : Creds]
<1>1. /\ \A x \in UpsertTasks : x.op = "upsert"
      /\ \A x \in ResumeTasks : x.op = "resume"
      /\ \A x \in ReadTasks : x.op = "supported"
      /\ \A x \in ReconcileTasks : x.op = "reconcile"
      /\ \A x \in StoreTasks : x.op \in {"update", "refresh", "register"}
      /\ \A x \in RebuildTasks : x.op = "rebuild"
      /\ \A x \in ResetTasks : x.op = "reset"
      /\ \A x \in RemoveTasks : x.op = "remove"
      /\ \A x \in CredTasks : x.op \in {"drop", "unregister"}
      /\ \A x \in ListTasks : x.op = "list"
      /\ \A x \in FetchTasks : x.op = "fetch"
  BY DEF UpsertTasks, ResumeTasks, ReadTasks, ReconcileTasks, StoreTasks, RebuildTasks, ResetTasks,
         RemoveTasks, CredTasks, ListTasks, FetchTasks
<1>2. \A x \in Ends : x.op \in {"idle", "release"}  BY DEF Ends, Idle, Release
<1>. HIDE DEF UpsertTasks, ResumeTasks, ReadTasks, ReconcileTasks, StoreTasks, RebuildTasks,
              ResetTasks, RemoveTasks, CredTasks, ListTasks, FetchTasks, Ends, Idle
<1>. QED  BY <1>1, <1>2 DEF Tasks, Followers, Registrations, Tails

LEMMA RegistrationsFollow ==
  ASSUME NEW t \in Registrations
  PROVE  Follows(t)
<1>1. CASE t \in ListTasks
  <2>1. t.todo \in Maps(Creds, BOOLEAN)  BY <1>1 DEF ListTasks
  <2>2. t \in [op: {"list"}, todo: {t.todo}, then: Tails]
    <3>. HIDE DEF Tails
    <3>. QED  BY <1>1 DEF ListTasks
  <2>. QED  BY <1>1, <2>1, <2>2, MapIsPartial DEF Follows, IsList
<1>2. CASE t \in FetchTasks
  <2>1. t.op = "fetch" /\ t \in [op: {"fetch"}, ids: SUBSET Creds, then: {t.then}]
    <3>. HIDE DEF Tails, ListTasks
    <3>. QED  BY <1>2 DEF FetchTasks
  <2>2. t.then \in Tails \/ IsList(t.then)
    <3>1. t.then \in Tails \/ t.then \in ListTasks
      <4>. HIDE DEF Tails, ListTasks
      <4>. QED  BY <1>2 DEF FetchTasks
    <3>2. ASSUME NEW l \in ListTasks  PROVE IsList(l)
      <4>1. l.todo \in Maps(Creds, BOOLEAN)  BY DEF ListTasks
      <4>2. l \in [op: {"list"}, todo: {l.todo}, then: Tails] /\ l.op = "list"
        <5>. HIDE DEF Tails
        <5>. QED  BY DEF ListTasks
      <4>. QED  BY <4>1, <4>2, MapIsPartial DEF IsList
    <3>. QED  BY <3>1, <3>2
  <2>. QED  BY <2>1, <2>2 DEF Follows, IsFetch
<1>3. CASE t \in Tails  BY <1>3 DEF Follows
<1>. QED  BY <1>1, <1>2, <1>3 DEF Registrations

LEMMA FollowersFollow ==
  ASSUME NEW t \in Followers
  PROVE  Follows(t)
<1>1. CASE t \in Registrations  BY <1>1, RegistrationsFollow
<1>2. CASE t \notin Registrations
  BY <1>2 DEF Followers, Follows
<1>. QED  BY <1>1, <1>2

LEMMA RefsAreRefs ==
  ASSUME NEW r \in Refs
  PROVE  IsRef(r)
<1>. HIDE DEF Auths
<1>1. r.auth \in Auths /\ r \in [live: BOOLEAN, auth: {r.auth}, ver: Nat]  BY DEF Refs
<1>. QED  BY <1>1, AuthsAreAuths DEF IsRef

LEMMA UpsertsAreUpserts ==
  ASSUME NEW refs \in Maps(Creds, Refs), NEW then \in Followers,
         NEW t, t = [op |-> "upsert", refs |-> refs, then |-> then]
  PROVE  IsUpsert(t)
<1>1. IsPartial(refs, Creds) /\ \A c \in DOMAIN refs : refs[c] \in Refs  BY MapIsPartial
<1>2. AreRefs(refs)  BY <1>1, RefsAreRefs DEF AreRefs
<1>3. Follows(then)  BY FollowersFollow
<1>4. t.op = "upsert" /\ t.refs = refs /\ t.then = then  OBVIOUS
<1>5. t = Upsert(t.refs, t.then)  BY <1>4 DEF Upsert
<1>. QED  BY <1>2, <1>3, <1>4, <1>5 DEF IsUpsert

LEMMA ClonesAreRefs == Maps(Creds, Clones) \subseteq Maps(Creds, Refs)
<1>. SUFFICES ASSUME NEW f \in Maps(Creds, Clones)  PROVE f \in Maps(Creds, Refs)
  OBVIOUS
<1>1. f \in [DOMAIN f -> Clones] /\ DOMAIN f \subseteq Creds  BY MapFacts
<1>2. f \in [DOMAIN f -> Refs]  BY <1>1, SnapshotFacts
<1>. QED  BY <1>1, <1>2, MapFacts

LEMMA TasksAreTasks ==
  ASSUME NEW t \in Tasks
  PROVE  IsTask(t)
<1>1. CASE t \in Followers  BY <1>1, FollowersFollow DEF IsTask
<1>2. CASE t \in UpsertTasks
  <2>1. /\ t.refs \in Maps(Creds, Refs) /\ t.then \in Followers
        /\ t = [op |-> "upsert", refs |-> t.refs, then |-> t.then]
    <3>. HIDE DEF Followers
    <3>. QED  BY <1>2 DEF UpsertTasks
  <2>. QED  BY <2>1, UpsertsAreUpserts DEF IsTask
<1>3. CASE t \in ResumeTasks
  <2>. DEFINE u == t.then
  <2>1. /\ t.op = "resume"
        /\ t \in [op: {"resume"}, c: Creds, ms: SUBSET Models, then: {t.then}]
        /\ u \in [op : {"upsert"}, refs : Maps(Creds, Clones), then : Followers]
    <3>. HIDE DEF Followers
    <3>. QED  BY <1>3 DEF ResumeTasks
  <2>. HIDE DEF u
  <2>2. /\ u.refs \in Maps(Creds, Refs) /\ u.then \in Followers
        /\ u = [op |-> "upsert", refs |-> u.refs, then |-> u.then]
    <3>. HIDE DEF Followers
    <3>. QED  BY <2>1, ClonesAreRefs
  <2>3. IsUpsert(u)  BY <2>2, UpsertsAreUpserts
  <2>. QED  BY <2>1, <2>3 DEF IsTask, u
<1>4. CASE t \in ReadTasks \cup ReconcileTasks
  <2>. HIDE DEF Registrations
  <2>1. /\ t.op \in {"supported", "reconcile"} /\ t.then \in Registrations
        /\ \/ t \in [op: {"supported"}, c: Creds, then: {t.then}]
           \/ t \in [op: {"reconcile"}, c: Creds, ms: SUBSET Models, then: {t.then}]
    BY <1>4 DEF ReadTasks, ReconcileTasks
  <2>. QED  BY <2>1, RegistrationsFollow DEF IsTask
<1>5. CASE t \in StoreTasks
  <2>. HIDE DEF Auths, ListTasks
  <2>1. /\ t.op \in {"update", "refresh", "register"} /\ t.auth \in Auths
        /\ t \in [op: {t.op}, c: Creds, auth: {t.auth}, then: {t.then}]
        /\ t.then = Idle \/ t.then \in ListTasks
    BY <1>5 DEF StoreTasks
  <2>2. IsAuth(t.auth)  BY <2>1, AuthsAreAuths
  <2>3. ASSUME NEW l \in ListTasks  PROVE IsList(l)
    <3>1. l.todo \in Maps(Creds, BOOLEAN)  BY DEF ListTasks
    <3>2. l \in [op: {"list"}, todo: {l.todo}, then: Tails] /\ l.op = "list"
      <4>. HIDE DEF Tails
      <4>. QED  BY DEF ListTasks
    <3>. QED  BY <3>1, <3>2, MapIsPartial DEF IsList
  <2>. QED  BY <2>1, <2>2, <2>3 DEF IsTask
<1>6. CASE t \in RebuildTasks
  <2>1. /\ t.op = "rebuild" /\ t.refs \in Maps(Creds, Clones)
        /\ t \in [op: {"rebuild"}, vers: [Creds -> Nat], refs: {t.refs}]
    BY <1>6 DEF RebuildTasks
  <2>2. IsPartial(t.refs, Creds) /\ \A c \in DOMAIN t.refs : t.refs[c] \in Refs
    BY <2>1, ClonesAreRefs, MapIsPartial
  <2>. QED  BY <2>1, <2>2, RefsAreRefs DEF IsTask, AreRefs
<1>7. CASE t \in ResetTasks \cup RemoveTasks \cup CredTasks \cup [op : {"sweep"}]
  BY <1>7 DEF IsTask, ResetTasks, RemoveTasks, CredTasks
<1>. QED  BY <1>1, <1>2, <1>3, <1>4, <1>5, <1>6, <1>7 DEF Tasks

-----------------------------------------------------------------------------
(* The inductive invariant.                                                  *)

TypeInv ==
  /\ now \in Nat /\ cool \in BOOLEAN
  /\ auths \in Maps(Creds, Auths)
  /\ listed \in [Creds -> SUBSET Models] /\ marked \in [Creds -> SUBSET Models]
  /\ meta \in Maps(Creds, Metas)
  /\ shard \in Maps(Models, Maps(Creds, Entry))
  /\ task \in [Procs -> Tasks]
  /\ config \in SUBSET Procs
  /\ ver \in [Creds -> Nat] /\ applied \in [Creds -> Nat]

\* A live reference is to a registered credential; a clone that has the number of the
\* credential's last change is what the credential is.
RefOK(c, r) ==
  IF r.live THEN c \in DOMAIN auths
  ELSE /\ r.ver <= ver[c]
       /\ r.ver = ver[c] => c \in DOMAIN auths /\ r.auth = auths[c]

\* The same of what the goroutines still have to do.
UpsertOK(t)  == \A c \in DOMAIN t.refs : RefOK(c, t.refs[c])
RebuildOK(t) ==
  \A c \in Creds :
    /\ t.vers[c] <= ver[c]
    /\ t.vers[c] = ver[c] => (c \in DOMAIN t.refs <=> c \in DOMAIN auths)
    /\ c \in DOMAIN t.refs => t.refs[c].ver = t.vers[c] /\ RefOK(c, t.refs[c])
RemoveOK(t)  == t.v <= ver[t.c] /\ (t.v = ver[t.c] => t.c \notin DOMAIN auths)
TaskOK(t) ==
  /\ t.op = "upsert" => UpsertOK(t)
  /\ t.op = "resume" /\ t.then.op = "upsert" => UpsertOK(t.then)
  /\ t.op = "rebuild" => RebuildOK(t)
  /\ t.op = "remove" => RemoveOK(t)

\* A shard has an entry for the scheduled credentials that support its model.
ShardsFit ==
  \A m \in DOMAIN shard, c \in Creds :
    c \in DOMAIN shard[m] <=> c \in DOMAIN meta /\ m \in meta[c].supported

LiveMeta == \A c \in DOMAIN meta : meta[c].ref.live => c \in DOMAIN auths

\* What the scheduler knows of a credential whose last change it has applied.
UpToDate(c) ==
  /\ c \in DOMAIN meta <=> (c \in DOMAIN auths /\ ~auths[c].disabled)
  /\ c \in DOMAIN meta => Deref(meta[c].ref, c) = auths[c]
  /\ \A m \in DOMAIN shard :
       c \in DOMAIN shard[m] /\ shard[m][c].state = "ready" => ~Blocked(auths[c], m, now)

Agrees(c) == applied[c] <= ver[c] /\ (applied[c] = ver[c] => UpToDate(c))

IInv ==
  /\ TypeInv
  /\ \A p \in Procs : TaskOK(task[p])
  /\ ShardsFit /\ LiveMeta
  /\ \A c \in Creds : Agrees(c)

-----------------------------------------------------------------------------
(* Types.                                                                    *)

LEMMA TypeInvImpliesTypeOK == TypeInv => TypeOK
<1>. SUFFICES ASSUME TypeInv  PROVE TypeOK
  OBVIOUS
<1>1. IsPartial(auths, Creds) /\ \A c \in DOMAIN auths : IsAuth(auths[c])
  BY MapIsPartial, AuthsAreAuths DEF TypeInv
<1>2. /\ IsPartial(meta, Creds)
      /\ \A c \in DOMAIN meta : /\ meta[c] \in [ref: {meta[c].ref}, supported: SUBSET Models]
                                /\ IsRef(meta[c].ref)
  <2>1. IsPartial(meta, Creds) /\ \A c \in DOMAIN meta : meta[c] \in Metas
    BY MapIsPartial DEF TypeInv
  <2>2. \A x \in Metas : x \in [ref: {x.ref}, supported: SUBSET Models] /\ x.ref \in Refs
    <3>. HIDE DEF Refs
    <3>. QED  BY DEF Metas
  <2>. QED  BY <2>1, <2>2, RefsAreRefs
<1>3. /\ IsPartial(shard, Models)
      /\ \A m \in DOMAIN shard :
           IsPartial(shard[m], Creds) /\ \A c \in DOMAIN shard[m] : shard[m][c] \in Entry
  <2>1. IsPartial(shard, Models) /\ \A m \in DOMAIN shard : shard[m] \in Maps(Creds, Entry)
    BY MapIsPartial DEF TypeInv
  <2>. QED  BY <2>1, MapIsPartial
<1>4. task = [p \in Procs |-> task[p]] /\ \A p \in Procs : IsTask(task[p])
  BY TasksAreTasks DEF TypeInv
<1>. QED  BY <1>1, <1>2, <1>3, <1>4 DEF TypeInv, TypeOK

LEMMA AuthTypes ==
  ASSUME TypeInv
  PROVE  /\ DOMAIN auths \subseteq Creds /\ \A c \in DOMAIN auths : auths[c] \in Auths
         /\ DOMAIN meta \subseteq Creds /\ \A c \in DOMAIN meta : meta[c] \in Metas
         /\ DOMAIN shard \subseteq Models
         /\ \A m \in DOMAIN shard : shard[m] \in Maps(Creds, Entry)
         /\ \A c \in Creds : ver[c] \in Nat /\ applied[c] \in Nat /\ listed[c] \in SUBSET Models
BY MapFacts DEF TypeInv

LEMMA TaskTypes ==
  ASSUME TypeInv, NEW p \in Procs
  PROVE  task[p] \in Tasks
BY DEF TypeInv

\* What a reference stands for, and that a frozen one stands for the same.
LEMMA RefTypes ==
  ASSUME TypeInv, NEW c \in Creds, NEW r \in Refs, RefOK(c, r)
  PROVE  /\ r.live => c \in DOMAIN auths
         /\ Deref(r, c) \in Auths /\ RefVer(r, c) \in Nat /\ RefVer(r, c) <= ver[c]
         /\ RefVer(r, c) = ver[c] => c \in DOMAIN auths /\ Deref(r, c) = auths[c]
<1>. HIDE DEF Auths
<1>1. r.auth \in Auths /\ r.ver \in Nat /\ r.live \in BOOLEAN  BY DEF Refs
<1>. QED  BY <1>1, AuthTypes DEF RefOK, Deref, RefVer

LEMMA FrozenFacts ==
  ASSUME TypeInv, NEW c \in DOMAIN auths, NEW r \in Refs
  PROVE  /\ Frozen(r, c) \in Refs /\ Frozen(r, c).live = FALSE
         /\ r.live => Frozen(r, c).auth = auths[c] /\ Frozen(r, c).ver = ver[c]
         /\ ~r.live => Frozen(r, c) = r
<1>1. auths[c] \in Auths /\ ver[c] \in Nat  BY AuthTypes
<1>2. Clone(auths[c], ver[c]) \in Refs /\ Clone(auths[c], ver[c]).live = FALSE
      /\ Clone(auths[c], ver[c]).auth = auths[c] /\ Clone(auths[c], ver[c]).ver = ver[c]
  BY <1>1, SnapshotFacts
<1>3. r.live \in BOOLEAN  BY DEF Refs
<1>. QED  BY <1>2, <1>3 DEF Frozen

-----------------------------------------------------------------------------
(* The kinds of steps.                                                       *)

\* One goroutine goes on to t; whatever the others have to do still stands.
LEMMA TasksStay ==
  ASSUME task \in [Procs -> Tasks], \A q \in Procs : TaskOK(task[q]),
         NEW p \in Procs, NEW t \in Tasks, task' = [task EXCEPT ![p] = t], TaskOK(t)',
         \A x \in Tasks : TaskOK(x) => TaskOK(x)'
  PROVE  task' \in [Procs -> Tasks] /\ \A q \in Procs : TaskOK(task[q])'
<1>1. task' \in [Procs -> Tasks]  OBVIOUS
<1>2. ASSUME NEW q \in Procs  PROVE TaskOK(task[q])'
  <2>1. PICK x : x = task'[q]  OBVIOUS
  <2>2. TaskOK(x)'
    <3>1. CASE q = p
      <4>1. x = t  BY <2>1, <3>1
      <4>. QED  BY <4>1
    <3>2. CASE q # p
      <4>1. x = task[q] /\ x \in Tasks  BY <2>1, <3>2
      <4>2. TaskOK(x)  BY <4>1
      <4>. QED  BY <4>1, <4>2
    <3>. QED  BY <3>1, <3>2
  <2>. QED  BY <2>1, <2>2 DEF TaskOK, UpsertOK, RebuildOK, RemoveOK
<1>. QED  BY <1>1, <1>2

LEMMA SameAuths ==
  ASSUME UNCHANGED <<auths, ver>>
  PROVE  /\ \A t : TaskOK(t) <=> TaskOK(t)'
         /\ \A c, r : Deref(r, c)' = Deref(r, c)
BY DEF TaskOK, UpsertOK, RebuildOK, RemoveOK, RefOK, Deref

\* A step that changes no credential and nothing of the scheduler.
LEMMA NeutralStep ==
  ASSUME IInv, NEW p \in Procs, NEW t \in Tasks, Finish(p, t), TaskOK(t),
         UNCHANGED <<now, auths, ver, Scheduler>>, cool' \in BOOLEAN, config' \in SUBSET Procs,
         listed' \in [Creds -> SUBSET Models], marked' \in [Creds -> SUBSET Models]
  PROVE  IInv'
<1>1. UNCHANGED <<meta, shard, applied>>  BY DEF Scheduler
<1>2. task' \in [Procs -> Tasks] /\ \A q \in Procs : TaskOK(task[q])'
  <2>1. \A x \in Tasks : TaskOK(x) => TaskOK(x)'  BY SameAuths
  <2>2. TaskOK(t)'  BY SameAuths
  <2>. QED  BY <2>1, <2>2, TasksStay DEF IInv, TypeInv, Finish
<1>3. TypeInv'  BY <1>1, <1>2 DEF IInv, TypeInv
<1>4. ShardsFit' /\ LiveMeta'  BY <1>1 DEF IInv, ShardsFit, LiveMeta
<1>5. \A c \in Creds : Agrees(c)'
  BY <1>1 DEF IInv, Agrees, UpToDate, Deref
<1>. QED  BY <1>2, <1>3, <1>4, <1>5 DEF IInv

\* What the goroutines have to do still stands after a change in place of the credentials
\* of S: each gets a number of its own, so nothing older can pass for what it is now.
LEMMA InPlaceTasks ==
  ASSUME IInv, NEW S \in SUBSET DOMAIN auths, auths' \in [DOMAIN auths -> Auths],
         ver' \in [Creds -> Nat],
         \A c \in S : ver'[c] = ver[c] + 1,
         \A c \in Creds \ S : ver'[c] = ver[c] /\ (c \in DOMAIN auths => auths'[c] = auths[c])
  PROVE  \A x \in Tasks : TaskOK(x) => TaskOK(x)'
<1>1. DOMAIN auths' = DOMAIN auths /\ DOMAIN auths \subseteq Creds
  BY AuthTypes DEF IInv
<1>2. \A c \in Creds : ver[c] \in Nat /\ applied[c] \in Nat  BY AuthTypes DEF IInv
<1>3. ASSUME NEW c \in Creds, NEW r \in Refs, RefOK(c, r)
      PROVE  RefOK(c, r)' /\ (c \in S => r.live \/ r.ver # ver'[c])
  <2>1. r.ver \in Nat  BY DEF Refs
  <2>2. CASE c \in S  BY <1>1, <1>2, <1>3, <2>1, <2>2 DEF RefOK
  <2>3. CASE c \notin S  BY <1>1, <1>2, <1>3, <2>1, <2>3 DEF RefOK
  <2>. QED  BY <2>2, <2>3
<1>4. ASSUME NEW x \in Tasks, TaskOK(x)  PROVE TaskOK(x)'
  <2>1. ASSUME NEW refs \in Maps(Creds, Refs), \A c \in DOMAIN refs : RefOK(c, refs[c])
        PROVE  \A c \in DOMAIN refs : RefOK(c, refs[c])'
    <3>1. \A c \in DOMAIN refs : c \in Creds /\ refs[c] \in Refs  BY MapFacts
    <3>. QED  BY <1>3, <2>1, <3>1
  <2>2. CASE x.op = "upsert"
    <3>1. x.refs \in Maps(Creds, Refs)  BY <2>2, TaskKinds DEF UpsertTasks
    <3>. QED  BY <1>4, <2>1, <2>2, <3>1 DEF TaskOK, UpsertOK
  <2>3. CASE x.op = "resume"
    <3>1. x.then.op = "upsert" => x.then.refs \in Maps(Creds, Refs)
      <4>1. x.then = Idle \/ x.then.refs \in Maps(Creds, Clones)
        BY <2>3, TaskKinds DEF ResumeTasks
      <4>. QED  BY <4>1, ClonesAreRefs DEF Idle
    <3>. QED  BY <1>4, <2>1, <2>3, <3>1 DEF TaskOK, UpsertOK
  <2>4. CASE x.op = "rebuild"
    <3>1. x.refs \in Maps(Creds, Refs) /\ x.vers \in [Creds -> Nat]
      BY <2>4, TaskKinds, ClonesAreRefs DEF RebuildTasks
    <3>2. ASSUME NEW c \in Creds
          PROVE  /\ x.vers[c] <= ver'[c]
                 /\ x.vers[c] = ver'[c] => (c \in DOMAIN x.refs <=> c \in DOMAIN auths')
                 /\ c \in DOMAIN x.refs => x.refs[c].ver = x.vers[c] /\ RefOK(c, x.refs[c])'
      <4>1. /\ x.vers[c] <= ver[c] /\ x.vers[c] \in Nat
            /\ x.vers[c] = ver[c] => (c \in DOMAIN x.refs <=> c \in DOMAIN auths)
            /\ c \in DOMAIN x.refs => x.refs[c].ver = x.vers[c] /\ RefOK(c, x.refs[c])
        BY <1>4, <2>4, <3>1 DEF TaskOK, RebuildOK
      <4>2. c \in DOMAIN x.refs => RefOK(c, x.refs[c])'
        <5>1. c \in DOMAIN x.refs => x.refs[c] \in Refs  BY <3>1, MapFacts
        <5>. QED  BY <1>3, <4>1, <5>1
      <4>3. ver'[c] = ver[c] \/ ver'[c] = ver[c] + 1  OBVIOUS
      <4>. QED  BY <1>1, <1>2, <4>1, <4>2, <4>3
    <3>. QED  BY <2>4, <3>2 DEF TaskOK, RebuildOK
  <2>5. CASE x.op = "remove"
    <3>1. x.c \in Creds /\ x.v \in Nat  BY <2>5, TaskKinds DEF RemoveTasks
    <3>2. ver'[x.c] = ver[x.c] \/ ver'[x.c] = ver[x.c] + 1  BY <3>1
    <3>. QED  BY <1>1, <1>2, <1>4, <2>5, <3>1, <3>2 DEF TaskOK, RemoveOK
  <2>6. CASE x.op \notin {"upsert", "resume", "rebuild", "remove"}  BY <2>6 DEF TaskOK
  <2>. QED  BY <2>2, <2>3, <2>4, <2>5, <2>6
<1>. QED  BY <1>4

\* After such a change what the scheduler has of them is out of date.
LEMMA InPlaceStep ==
  ASSUME IInv, NEW p \in Procs, NEW t \in Tasks, Finish(p, t), TaskOK(t)',
         NEW S \in SUBSET DOMAIN auths, auths' \in [DOMAIN auths -> Auths],
         ver' \in [Creds -> Nat],
         \A c \in S : ver'[c] = ver[c] + 1,
         \A c \in Creds \ S : ver'[c] = ver[c] /\ (c \in DOMAIN auths => auths'[c] = auths[c]),
         UNCHANGED <<now, config, cool, Scheduler, Registry>>
  PROVE  IInv'
<1>1. UNCHANGED <<meta, shard, applied, listed, marked>>  BY DEF Scheduler, Registry
<1>2. DOMAIN auths' = DOMAIN auths /\ DOMAIN auths \subseteq Creds
  BY AuthTypes DEF IInv
<1>3. \A c \in Creds : ver[c] \in Nat /\ applied[c] \in Nat  BY AuthTypes DEF IInv
<1>4. \A x \in Tasks : TaskOK(x) => TaskOK(x)'  BY InPlaceTasks
<1>5. task' \in [Procs -> Tasks] /\ \A q \in Procs : TaskOK(task[q])'
  BY <1>4, TasksStay DEF IInv, TypeInv, Finish
<1>6. auths' \in Maps(Creds, Auths)  BY <1>2, AMap
<1>7. TypeInv'  BY <1>1, <1>5, <1>6 DEF IInv, TypeInv
<1>8. ShardsFit' /\ LiveMeta'  BY <1>1, <1>2 DEF IInv, ShardsFit, LiveMeta
<1>9. ASSUME NEW c \in Creds  PROVE Agrees(c)'
  <2>1. Agrees(c)  BY DEF IInv
  <2>2. CASE c \in S  BY <1>1, <1>3, <2>1, <2>2 DEF Agrees
  <2>3. CASE c \notin S
    <3>1. ver'[c] = ver[c] /\ (c \in DOMAIN auths => auths'[c] = auths[c])  BY <2>3
    <3>2. UpToDate(c) => UpToDate(c)'
      BY <1>1, <1>2, <3>1 DEF UpToDate, Deref, IInv, ShardsFit
    <3>. QED  BY <1>1, <2>1, <3>1, <3>2 DEF Agrees
  <2>. QED  BY <2>2, <2>3
<1>. QED  BY <1>5, <1>7, <1>8, <1>9 DEF IInv

\* What a task becomes when the object of c in the map is replaced or deleted.
Refreezed(x, c) == IF c \in DOMAIN auths THEN FreezeTask(x, c) ELSE x

LEMMA FreezeMapFacts ==
  ASSUME TypeInv, NEW c \in DOMAIN auths, NEW f \in Maps(Creds, Refs)
  PROVE  LET g == [x \in DOMAIN f |-> IF x = c THEN Frozen(f[x], c) ELSE f[x]]
         IN  /\ g \in Maps(Creds, Refs) /\ DOMAIN g = DOMAIN f
             /\ \A x \in DOMAIN f : x # c => g[x] = f[x]
             /\ c \in DOMAIN f => g[c] = Frozen(f[c], c)
<1>. DEFINE g == [x \in DOMAIN f |-> IF x = c THEN Frozen(f[x], c) ELSE f[x]]
<1>1. f \in [DOMAIN f -> Refs] /\ DOMAIN f \subseteq Creds  BY MapFacts
<1>2. \A r \in Refs : Frozen(r, c) \in Refs  BY FrozenFacts
<1>3. g \in [DOMAIN f -> Refs] /\ DOMAIN g = DOMAIN f  BY <1>1, <1>2
<1>4. g \in Maps(Creds, Refs)
  <2>. HIDE DEF g
  <2>. QED  BY <1>1, <1>3, AMap
<1>5. /\ \A x \in DOMAIN f : x # c => g[x] = f[x]
      /\ c \in DOMAIN f => g[c] = Frozen(f[c], c)
  OBVIOUS
<1>. QED  BY <1>3, <1>4, <1>5

LEMMA FreezeTaskFacts ==
  ASSUME TypeInv, NEW c \in DOMAIN auths, NEW x \in Tasks
  PROVE  /\ FreezeTask(x, c) \in Tasks /\ FreezeTask(x, c).op = x.op
         /\ x.op # "upsert" => FreezeTask(x, c) = x
         /\ x.op = "upsert" =>
              /\ FreezeTask(x, c).then = x.then /\ FreezeTask(x, c).refs \in Maps(Creds, Refs)
              /\ DOMAIN FreezeTask(x, c).refs = DOMAIN x.refs
              /\ \A d \in DOMAIN x.refs : d # c => FreezeTask(x, c).refs[d] = x.refs[d]
              /\ c \in DOMAIN x.refs => FreezeTask(x, c).refs[c] = Frozen(x.refs[c], c)
<1>1. CASE x.op # "upsert"  BY <1>1 DEF FreezeTask
<1>2. CASE x.op = "upsert"
  <2>. DEFINE f == x.refs
              g == [d \in DOMAIN f |-> IF d = c THEN Frozen(f[d], c) ELSE f[d]]
  <2>1. x \in UpsertTasks  BY <1>2, TaskKinds
  <2>2. f \in Maps(Creds, Refs) /\ x.then \in Followers
    <3>. HIDE DEF Followers
    <3>. QED  BY <2>1 DEF UpsertTasks
  <2>3. FreezeTask(x, c) = [x EXCEPT !.refs = g]  BY <1>2 DEF FreezeTask
  <2>4. /\ g \in Maps(Creds, Refs) /\ DOMAIN g = DOMAIN f
        /\ \A d \in DOMAIN f : d # c => g[d] = f[d]
        /\ c \in DOMAIN f => g[c] = Frozen(f[c], c)
    BY <2>2, FreezeMapFacts
  <2>. HIDE DEF f, g, Followers
  <2>5. FreezeTask(x, c) \in UpsertTasks /\ FreezeTask(x, c).refs = g
        /\ FreezeTask(x, c).then = x.then /\ FreezeTask(x, c).op = "upsert"
    BY <2>1, <2>3, <2>4 DEF UpsertTasks
  <2>6. FreezeTask(x, c) \in Tasks  BY <2>5 DEF Tasks
  <2>. QED  BY <1>2, <2>4, <2>5, <2>6 DEF f
<1>. QED  BY <1>1, <1>2

\* Another object stored under c, or c deleted: every reference to the old object is
\* frozen, so none that is left is live.
LEMMA ReplaceStep ==
  ASSUME IInv, NEW p \in Procs, NEW t \in Tasks, TaskOK(t)', NEW c \in Creds,
         task' = [q \in Procs |-> IF q = p THEN t ELSE Refreezed(task[q], c)],
         auths' \in Maps(Creds, Auths), ver' = [ver EXCEPT ![c] = @ + 1],
         \A x \in Creds \ {c} : /\ x \in DOMAIN auths' <=> x \in DOMAIN auths
                                /\ x \in DOMAIN auths => auths'[x] = auths[x],
         meta' = IF c \in DOMAIN auths THEN FreezeMeta(c) ELSE meta,
         UNCHANGED <<now, config, cool, shard, applied, Registry>>
  PROVE  IInv'
<1>1. UNCHANGED <<shard, applied, listed, marked>>  BY DEF Registry
<1>2. TypeInv /\ DOMAIN auths \subseteq Creds /\ DOMAIN meta \subseteq Creds
      /\ \A x \in DOMAIN meta : meta[x] \in Metas
  BY AuthTypes DEF IInv
<1>3. \A x \in Creds : ver[x] \in Nat /\ applied[x] \in Nat  BY <1>2, AuthTypes
<1>4. ver' \in [Creds -> Nat] /\ ver'[c] = ver[c] + 1
      /\ \A x \in Creds \ {c} : ver'[x] = ver[x]
  BY <1>3 DEF IInv, TypeInv
<1>5. ASSUME NEW x \in Creds \ {c}, NEW r \in Refs, RefOK(x, r)
      PROVE  RefOK(x, r)'
  <2>1. ver'[x] = ver[x]  BY <1>4
  <2>2. /\ x \in DOMAIN auths' <=> x \in DOMAIN auths
        /\ x \in DOMAIN auths => auths'[x] = auths[x]
    OBVIOUS
  <2>. QED  BY <1>5, <2>1, <2>2 DEF RefOK
<1>6. ASSUME NEW r \in Refs, ~r.live, RefOK(c, r)
      PROVE  RefOK(c, r)'
  <2>1. r.ver \in Nat /\ r.ver <= ver[c]  BY <1>6 DEF RefOK, Refs
  <2>. QED  BY <1>3, <1>4, <1>6, <2>1 DEF RefOK
<1>7. ASSUME NEW r \in Refs, RefOK(c, r),
             NEW s, s = IF c \in DOMAIN auths THEN Frozen(r, c) ELSE r
      PROVE  s \in Refs /\ ~s.live /\ RefOK(c, s)'
  <2>1. CASE c \notin DOMAIN auths
    <3>1. s = r /\ ~r.live  BY <1>7, <2>1 DEF RefOK
    <3>. QED  BY <1>6, <1>7, <3>1
  <2>2. CASE c \in DOMAIN auths
    <3>1. /\ s \in Refs /\ ~s.live /\ (~r.live => s = r)
          /\ r.live => s.ver = ver[c] /\ s.auth = auths[c]
      BY <1>2, <1>7, <2>2, FrozenFacts
    <3>2. ver[c] <= ver[c]  BY <1>3
    <3>3. RefOK(c, s)  BY <1>7, <2>2, <3>1, <3>2 DEF RefOK
    <3>. QED  BY <1>6, <3>1, <3>3
  <2>. QED  BY <2>1, <2>2
<1>8. ASSUME NEW x \in Tasks, TaskOK(x), NEW y, y = Refreezed(x, c)
      PROVE  y \in Tasks /\ TaskOK(y)'
  <2>1. CASE x.op = "upsert"
    <3>1. x.refs \in Maps(Creds, Refs)  BY <2>1, TaskKinds DEF UpsertTasks
    <3>2. DOMAIN x.refs \subseteq Creds
          /\ \A d \in DOMAIN x.refs : x.refs[d] \in Refs /\ RefOK(d, x.refs[d])
      BY <1>8, <2>1, <3>1, MapFacts DEF TaskOK, UpsertOK
    <3>3. /\ y \in Tasks /\ y.op = "upsert"
          /\ DOMAIN y.refs = DOMAIN x.refs
          /\ \A d \in DOMAIN x.refs : d # c => y.refs[d] = x.refs[d]
          /\ c \in DOMAIN x.refs =>
               y.refs[c] = IF c \in DOMAIN auths THEN Frozen(x.refs[c], c) ELSE x.refs[c]
      <4>1. CASE c \in DOMAIN auths
        <5>1. y = FreezeTask(x, c)  BY <1>8, <4>1 DEF Refreezed
        <5>. QED  BY <1>2, <2>1, <4>1, <5>1, FreezeTaskFacts
      <4>2. CASE c \notin DOMAIN auths
        <5>1. y = x  BY <1>8, <4>2 DEF Refreezed
        <5>. QED  BY <2>1, <4>2, <5>1
      <4>. QED  BY <4>1, <4>2
    <3>4. ASSUME NEW d \in DOMAIN y.refs  PROVE RefOK(d, y.refs[d])'
      <4>1. CASE d = c
        <5>1. x.refs[c] \in Refs /\ RefOK(c, x.refs[c])  BY <3>2, <3>3, <3>4, <4>1
        <5>2. RefOK(c, y.refs[c])'  BY <1>7, <3>3, <3>4, <4>1, <5>1
        <5>. QED  BY <4>1, <5>2
      <4>2. CASE d # c
        <5>1. d \in Creds \ {c} /\ x.refs[d] \in Refs /\ RefOK(d, x.refs[d])
          BY <3>2, <3>3, <3>4, <4>2
        <5>2. RefOK(d, x.refs[d])'  BY <1>5, <5>1
        <5>. QED  BY <3>3, <3>4, <4>2, <5>2
      <4>. QED  BY <4>1, <4>2
    <3>. QED  BY <3>3, <3>4 DEF TaskOK, UpsertOK
  <2>2. CASE x.op # "upsert"
    <3>1. y = x
      <4>1. CASE c \in DOMAIN auths
        <5>1. y = FreezeTask(x, c)  BY <1>8, <4>1 DEF Refreezed
        <5>. QED  BY <1>2, <2>2, <4>1, <5>1, FreezeTaskFacts
      <4>. QED  BY <1>8, <4>1 DEF Refreezed
    <3>2. CASE x.op = "resume" /\ x.then.op = "upsert"
      <4>1. x.then.refs \in Maps(Creds, Clones)
        BY <3>2, TaskKinds DEF ResumeTasks, Idle
      <4>2. \A d \in DOMAIN x.then.refs : /\ d \in Creds /\ x.then.refs[d] \in Refs
                                          /\ ~x.then.refs[d].live /\ RefOK(d, x.then.refs[d])
        <5>1. \A d \in DOMAIN x.then.refs : d \in Creds /\ x.then.refs[d] \in Clones
          BY <4>1, MapFacts
        <5>2. \A r \in Clones : r \in Refs /\ ~r.live  BY DEF Clones, Refs
        <5>. QED  BY <1>8, <3>2, <5>1, <5>2 DEF TaskOK, UpsertOK
      <4>3. \A d \in DOMAIN x.then.refs : RefOK(d, x.then.refs[d])'
        BY <1>5, <1>6, <4>2
      <4>. QED  BY <3>1, <3>2, <4>3 DEF TaskOK, UpsertOK
    <3>3. CASE x.op = "rebuild"
      <4>1. x.refs \in Maps(Creds, Clones) /\ x.vers \in [Creds -> Nat]
        BY <3>3, TaskKinds DEF RebuildTasks
      <4>2. \A d \in DOMAIN x.refs : d \in Creds /\ x.refs[d] \in Refs /\ ~x.refs[d].live
        <5>1. \A d \in DOMAIN x.refs : d \in Creds /\ x.refs[d] \in Clones
          BY <4>1, MapFacts
        <5>2. \A r \in Clones : r \in Refs /\ ~r.live  BY DEF Clones, Refs
        <5>. QED  BY <5>1, <5>2
      <4>3. ASSUME NEW d \in Creds
            PROVE  /\ x.vers[d] <= ver'[d]
                   /\ x.vers[d] = ver'[d] => (d \in DOMAIN x.refs <=> d \in DOMAIN auths')
                   /\ d \in DOMAIN x.refs => x.refs[d].ver = x.vers[d] /\ RefOK(d, x.refs[d])'
        <5>1. /\ x.vers[d] <= ver[d] /\ x.vers[d] \in Nat
              /\ x.vers[d] = ver[d] => (d \in DOMAIN x.refs <=> d \in DOMAIN auths)
              /\ d \in DOMAIN x.refs => x.refs[d].ver = x.vers[d] /\ RefOK(d, x.refs[d])
          BY <1>8, <3>3, <4>1 DEF TaskOK, RebuildOK
        <5>2. d \in DOMAIN x.refs => RefOK(d, x.refs[d])'
          BY <1>5, <1>6, <4>2, <5>1
        <5>3. CASE d = c  BY <1>3, <1>4, <5>1, <5>2, <5>3
        <5>4. CASE d # c
          <6>1. ver'[d] = ver[d] /\ (d \in DOMAIN auths' <=> d \in DOMAIN auths)
            BY <1>4, <5>4
          <6>. QED  BY <5>1, <5>2, <6>1
        <5>. QED  BY <5>3, <5>4
      <4>. QED  BY <1>8, <3>1, <3>3, <4>3 DEF TaskOK, RebuildOK
    <3>4. CASE x.op = "remove"
      <4>1. x.c \in Creds /\ x.v \in Nat /\ RemoveOK(x)
        BY <1>8, <3>4, TaskKinds DEF RemoveTasks, TaskOK
      <4>2. RemoveOK(x)'
        <5>1. CASE x.c = c  BY <1>3, <1>4, <4>1, <5>1 DEF RemoveOK
        <5>2. CASE x.c # c
          <6>1. ver'[x.c] = ver[x.c] /\ (x.c \in DOMAIN auths' <=> x.c \in DOMAIN auths)
            BY <1>4, <4>1, <5>2
          <6>. QED  BY <4>1, <6>1 DEF RemoveOK
        <5>. QED  BY <5>1, <5>2
      <4>. QED  BY <1>8, <3>1, <3>4, <4>2 DEF TaskOK
    <3>. QED  BY <1>8, <2>2, <3>1, <3>2, <3>3, <3>4 DEF TaskOK
  <2>. QED  BY <2>1, <2>2
<1>9. task' \in [Procs -> Tasks] /\ \A q \in Procs : TaskOK(task[q])'
  <2>1. ASSUME NEW q \in Procs
        PROVE  (IF q = p THEN t ELSE Refreezed(task[q], c)) \in Tasks /\ TaskOK(task[q])'
    <3>1. CASE q = p
      <4>1. PICK x : x = task'[q]  OBVIOUS
      <4>2. x = t  BY <3>1, <4>1
      <4>3. TaskOK(x)'  BY <4>2
      <4>4. TaskOK(task[q])'  BY <4>1, <4>3 DEF TaskOK, UpsertOK, RebuildOK, RemoveOK
      <4>. QED  BY <3>1, <4>4
    <3>2. CASE q # p
      <4>1. PICK z : z = task[q]  OBVIOUS
      <4>2. PICK y : y = Refreezed(z, c)  OBVIOUS
      <4>3. z \in Tasks /\ TaskOK(z)  BY <1>2, <4>1, TaskTypes DEF IInv
      <4>4. y \in Tasks /\ TaskOK(y)'  BY <1>8, <4>2, <4>3
      <4>5. y = task'[q]  BY <3>2, <4>1, <4>2
      <4>6. TaskOK(task[q])'  BY <4>4, <4>5 DEF TaskOK, UpsertOK, RebuildOK, RemoveOK
      <4>. QED  BY <3>2, <4>1, <4>2, <4>4, <4>6
    <3>. QED  BY <3>1, <3>2
  <2>. QED  BY <2>1
<1>10. /\ meta' \in Maps(Creds, Metas) /\ DOMAIN meta' = DOMAIN meta
       /\ \A x \in DOMAIN meta : meta'[x].supported = meta[x].supported
       /\ \A x \in DOMAIN meta \ {c} : meta'[x] = meta[x]
       /\ c \in DOMAIN meta => ~meta'[c].ref.live
  <2>1. CASE c \notin DOMAIN auths
    <3>1. meta' = meta  BY <2>1
    <3>2. c \in DOMAIN meta => ~meta[c].ref.live  BY <2>1 DEF IInv, LiveMeta
    <3>. QED  BY <1>2, <3>1, <3>2 DEF IInv, TypeInv
  <2>2. CASE c \in DOMAIN auths
    <3>. DEFINE new(x) == IF x = c THEN [meta[x] EXCEPT !.ref = Frozen(@, c)] ELSE meta[x]
    <3>1. ASSUME NEW x \in DOMAIN meta
          PROVE  /\ new(x) \in Metas /\ new(x).supported = meta[x].supported
                 /\ x = c => ~new(x).ref.live
      <4>1. /\ meta[x] \in [ref: {meta[x].ref}, supported: SUBSET Models]
            /\ meta[x].ref \in Refs
        <5>. HIDE DEF Refs
        <5>. QED  BY <1>2 DEF Metas
      <4>2. Frozen(meta[x].ref, c) \in Refs /\ ~Frozen(meta[x].ref, c).live
        BY <1>2, <2>2, <4>1, FrozenFacts
      <4>. HIDE DEF Refs
      <4>. QED  BY <4>1, <4>2 DEF Metas
    <3>2. meta' = [x \in DOMAIN meta |-> new(x)]  BY <2>2 DEF FreezeMeta
    <3>3. meta' \in [DOMAIN meta -> Metas]
      <4>. HIDE DEF Metas, new
      <4>. QED  BY <3>1, <3>2
    <3>4. meta' \in Maps(Creds, Metas) /\ DOMAIN meta' = DOMAIN meta
      <4>. HIDE DEF Metas
      <4>. QED  BY <1>2, <3>3, AMap
    <3>5. \A x \in DOMAIN meta : meta'[x] = new(x)
      <4>. HIDE DEF new
      <4>. QED  BY <3>2
    <3>6. \A x \in DOMAIN meta \ {c} : new(x) = meta[x]  OBVIOUS
    <3>. HIDE DEF new
    <3>. QED  BY <3>1, <3>4, <3>5, <3>6
  <2>. QED  BY <2>1, <2>2
<1>11. TypeInv'  BY <1>1, <1>4, <1>9, <1>10 DEF IInv, TypeInv
<1>12. ShardsFit' /\ LiveMeta'
  <2>1. ShardsFit'  BY <1>1, <1>10 DEF IInv, ShardsFit
  <2>2. ASSUME NEW x \in DOMAIN meta', meta'[x].ref.live  PROVE x \in DOMAIN auths'
    <3>1. x \in Creds \ {c}  BY <1>2, <1>10, <2>2
    <3>2. x \in DOMAIN auths  BY <1>10, <2>2, <3>1 DEF IInv, LiveMeta
    <3>. QED  BY <3>1, <3>2
  <2>. QED  BY <2>1, <2>2 DEF LiveMeta
<1>13. ASSUME NEW x \in Creds  PROVE Agrees(x)'
  <2>1. Agrees(x)  BY DEF IInv
  <2>2. CASE x = c  BY <1>1, <1>3, <1>4, <2>1, <2>2 DEF Agrees
  <2>3. CASE x # c
    <3>1. /\ ver'[x] = ver[x] /\ (x \in DOMAIN auths' <=> x \in DOMAIN auths)
          /\ x \in DOMAIN auths => auths'[x] = auths[x]
          /\ x \in DOMAIN meta' <=> x \in DOMAIN meta
          /\ x \in DOMAIN meta => meta'[x] = meta[x]
      BY <1>4, <1>10, <2>3
    <3>2. UpToDate(x) => UpToDate(x)'
      <4>. SUFFICES ASSUME UpToDate(x)  PROVE UpToDate(x)'
        OBVIOUS
      <4>1. x \in DOMAIN meta' <=> (x \in DOMAIN auths' /\ ~auths'[x].disabled)
        BY <3>1 DEF UpToDate
      <4>2. x \in DOMAIN meta' => Deref(meta[x].ref, x)' = auths'[x]
        BY <3>1 DEF UpToDate, Deref
      <4>3. \A m \in DOMAIN shard' :
              x \in DOMAIN shard'[m] /\ shard'[m][x].state = "ready" => ~Blocked(auths'[x], m, now')
        BY <1>1, <3>1 DEF UpToDate, IInv, ShardsFit
      <4>. QED  BY <4>1, <4>2, <4>3 DEF UpToDate
    <3>. QED  BY <1>1, <2>1, <3>1, <3>2 DEF Agrees
  <2>. QED  BY <2>2, <2>3
<1>. QED  BY <1>9, <1>11, <1>12, <1>13 DEF IInv

-----------------------------------------------------------------------------
(* The scheduler's critical sections.                                        *)

\* What the scheduler knows of the other credentials when it is told of c.
OthersKept(c) ==
  /\ DOMAIN shard' = DOMAIN shard
  /\ \A x \in Creds \ {c} :
       /\ applied'[x] = applied[x]
       /\ x \in DOMAIN meta' <=> x \in DOMAIN meta
       /\ x \in DOMAIN meta => meta'[x] = meta[x]
       /\ \A m \in DOMAIN shard :
            /\ x \in DOMAIN shard'[m] <=> x \in DOMAIN shard[m]
            /\ x \in DOMAIN shard[m] => shard'[m][x] = shard[m][x]

SchedulerTypes ==
  /\ meta \in Maps(Creds, Metas) /\ shard \in Maps(Models, Maps(Creds, Entry))
  /\ applied \in [Creds -> Nat]

LEMMA RemovalFacts ==
  ASSUME TypeInv, ShardsFit, NEW c \in Creds, NEW v \in Nat, SchedulerRemove(c, v)
  PROVE  /\ SchedulerTypes' /\ ShardsFit' /\ OthersKept(c)
         /\ applied'[c] = v /\ c \notin DOMAIN meta'
         /\ \A m \in DOMAIN shard : c \notin DOMAIN shard'[m]
<1>1. /\ meta' = Without(meta, c) /\ applied' = [applied EXCEPT ![c] = v]
      /\ shard' = [m \in DOMAIN shard |-> Without(shard[m], c)]
  BY DEF SchedulerRemove
<1>2. /\ meta' \in Maps(Creds, Metas) /\ DOMAIN meta' = DOMAIN meta \ {c}
      /\ \A x \in DOMAIN meta \ {c} : meta'[x] = meta[x]
  <2>1. meta \in Maps(Creds, Metas)  BY DEF TypeInv
  <2>2. Without(meta, c) \in Maps(Creds, Metas)  BY <2>1, WithoutMap
  <2>. QED  BY <1>1, <2>2 DEF Without
<1>3. DOMAIN shard \subseteq Models /\ \A m \in DOMAIN shard : shard[m] \in Maps(Creds, Entry)
  BY AuthTypes
<1>4. ASSUME NEW m \in DOMAIN shard
      PROVE  /\ Without(shard[m], c) \in Maps(Creds, Entry) /\ shard'[m] = Without(shard[m], c)
             /\ DOMAIN shard'[m] = DOMAIN shard[m] \ {c}
             /\ \A x \in DOMAIN shard[m] \ {c} : shard'[m][x] = shard[m][x]
  <2>1. Without(shard[m], c) \in Maps(Creds, Entry)  BY <1>3, WithoutMap
  <2>. QED  BY <1>1, <2>1 DEF Without
<1>5. shard' \in [DOMAIN shard -> Maps(Creds, Entry)] /\ DOMAIN shard' = DOMAIN shard
  BY <1>1, <1>4
<1>6. shard' \in Maps(Models, Maps(Creds, Entry))  BY <1>3, <1>5, AMap
<1>7. applied' \in [Creds -> Nat] /\ applied'[c] = v
      /\ \A x \in Creds \ {c} : applied'[x] = applied[x]
  BY <1>1 DEF TypeInv
<1>8. OthersKept(c)  BY <1>2, <1>4, <1>5, <1>7 DEF OthersKept
<1>9. ShardsFit'
  <2>1. ASSUME NEW m \in DOMAIN shard, NEW x \in Creds
        PROVE  x \in DOMAIN shard'[m] <=> x \in DOMAIN meta' /\ m \in meta'[x].supported
    BY <1>2, <1>4 DEF ShardsFit
  <2>. QED  BY <1>5, <2>1 DEF ShardsFit
<1>. QED  BY <1>2, <1>4, <1>6, <1>7, <1>8, <1>9 DEF SchedulerTypes

LEMMA UpsertionFacts ==
  ASSUME TypeInv, ShardsFit, NEW c \in Creds, NEW a \in Auths, NEW r \in Refs, NEW v \in Nat,
         SchedulerUpsert(c, a, r, v)
  PROVE  /\ SchedulerTypes' /\ ShardsFit' /\ OthersKept(c)
         /\ applied'[c] = v /\ (c \in DOMAIN meta' <=> ~a.disabled)
         /\ c \in DOMAIN meta' => meta'[c].ref = r /\ meta'[c].supported = listed[c]
         /\ \A m \in DOMAIN shard :
              c \in DOMAIN shard'[m] /\ shard'[m][c].state = "ready" => ~Blocked(a, m, now)
<1>1. CASE a.disabled
  <2>1. SchedulerRemove(c, v)  BY <1>1 DEF SchedulerUpsert
  <2>. QED  BY <1>1, <2>1, RemovalFacts
<1>2. CASE ~a.disabled
  <2>. DEFINE new(m) == IF m \in listed[c] THEN With(shard[m], c, Classify(a, m))
                                           ELSE Without(shard[m], c)
              entry  == [ref |-> r, supported |-> listed[c]]
  <2>1. /\ meta' = With(meta, c, entry) /\ applied' = [applied EXCEPT ![c] = v]
        /\ shard' = [m \in DOMAIN shard |-> new(m)]
    BY <1>2 DEF SchedulerUpsert
  <2>2. entry \in Metas /\ entry.ref = r /\ entry.supported = listed[c]
    <3>1. listed[c] \in SUBSET Models  BY DEF TypeInv
    <3>. HIDE DEF Refs
    <3>. QED  BY <3>1 DEF Metas
  <2>. HIDE DEF entry
  <2>3. /\ meta' \in Maps(Creds, Metas) /\ DOMAIN meta' = DOMAIN meta \cup {c}
        /\ meta'[c] = entry /\ \A x \in DOMAIN meta : x # c => meta'[x] = meta[x]
    <3>1. meta \in Maps(Creds, Metas)  BY DEF TypeInv
    <3>2. With(meta, c, entry) \in Maps(Creds, Metas)  BY <2>2, <3>1, WithMap
    <3>. QED  BY <2>1, <3>2 DEF With
  <2>4. DOMAIN shard \subseteq Models /\ \A m \in DOMAIN shard : shard[m] \in Maps(Creds, Entry)
    BY AuthTypes
  <2>5. \A m : Classify(a, m) \in Entry
               /\ (Classify(a, m).state = "ready" => ~Blocked(a, m, now))
    BY ClassifyFacts DEF TypeInv
  <2>6. ASSUME NEW m \in DOMAIN shard
        PROVE  /\ new(m) \in Maps(Creds, Entry)
               /\ c \in DOMAIN new(m) <=> m \in listed[c]
               /\ c \in DOMAIN new(m) => new(m)[c] = Classify(a, m)
               /\ \A x \in Creds \ {c} : /\ x \in DOMAIN new(m) <=> x \in DOMAIN shard[m]
                                         /\ x \in DOMAIN shard[m] => new(m)[x] = shard[m][x]
    <3>1. CASE m \in listed[c]
      <4>1. new(m) = With(shard[m], c, Classify(a, m))  BY <3>1
      <4>. HIDE DEF new
      <4>2. shard[m] \in Maps(Creds, Entry) /\ Classify(a, m) \in Entry  BY <2>4, <2>5
      <4>3. With(shard[m], c, Classify(a, m)) \in Maps(Creds, Entry)  BY <4>2, WithMap
      <4>. QED  BY <3>1, <4>1, <4>3 DEF With
    <3>2. CASE m \notin listed[c]
      <4>1. new(m) = Without(shard[m], c)  BY <3>2
      <4>. HIDE DEF new
      <4>2. Without(shard[m], c) \in Maps(Creds, Entry)  BY <2>4, WithoutMap
      <4>. QED  BY <3>2, <4>1, <4>2 DEF Without
    <3>. QED  BY <3>1, <3>2
  <2>. HIDE DEF new
  <2>7. DOMAIN shard' = DOMAIN shard /\ \A m \in DOMAIN shard : shard'[m] = new(m)
    BY <2>1
  <2>8. shard' \in Maps(Models, Maps(Creds, Entry))
    <3>1. shard' \in [DOMAIN shard -> Maps(Creds, Entry)]  BY <2>1, <2>6
    <3>. QED  BY <2>4, <3>1, AMap
  <2>9. applied' \in [Creds -> Nat] /\ applied'[c] = v
        /\ \A x \in Creds \ {c} : applied'[x] = applied[x]
    BY <2>1 DEF TypeInv
  <2>10. OthersKept(c)  BY <2>3, <2>6, <2>7, <2>9 DEF OthersKept
  <2>11. ShardsFit'
    <3>1. ASSUME NEW m \in DOMAIN shard, NEW x \in Creds
          PROVE  x \in DOMAIN shard'[m] <=> x \in DOMAIN meta' /\ m \in meta'[x].supported
      <4>1. CASE x = c  BY <2>2, <2>3, <2>6, <2>7, <4>1
      <4>2. CASE x # c  BY <2>3, <2>6, <2>7, <4>2 DEF ShardsFit
      <4>. QED  BY <4>1, <4>2
    <3>. QED  BY <2>7, <3>1 DEF ShardsFit
  <2>12. \A m \in DOMAIN shard :
           c \in DOMAIN shard'[m] /\ shard'[m][c].state = "ready" => ~Blocked(a, m, now)
    BY <2>5, <2>6, <2>7
  <2>. QED  BY <1>2, <2>2, <2>3, <2>8, <2>9, <2>10, <2>11, <2>12 DEF SchedulerTypes
<1>. QED  BY <1>1, <1>2

\* The scheduler is told of c, possibly in the step that changes it: whatever it has of
\* c now must be right if it has the number of c's last change.
LEMMA TellStep ==
  ASSUME IInv, NEW c \in Creds, SchedulerTypes', ShardsFit', OthersKept(c),
         c \in DOMAIN meta' /\ meta'[c].ref.live => c \in DOMAIN auths',
         applied'[c] <= ver'[c], applied'[c] = ver'[c] => UpToDate(c)',
         task' \in [Procs -> Tasks], \A q \in Procs : TaskOK(task[q])',
         auths' \in Maps(Creds, Auths), ver' \in [Creds -> Nat],
         \A x \in Creds \ {c} : /\ x \in DOMAIN auths' <=> x \in DOMAIN auths
                                /\ x \in DOMAIN auths => auths'[x] = auths[x]
                                /\ ver'[x] = ver[x],
         UNCHANGED <<now, config, cool, Registry>>
  PROVE  IInv'
<1>1. UNCHANGED <<listed, marked>>  BY DEF Registry
<1>2. TypeInv'  BY <1>1 DEF IInv, TypeInv, SchedulerTypes
<1>3. ASSUME NEW x \in DOMAIN meta', meta'[x].ref.live  PROVE x \in DOMAIN auths'
  <2>1. DOMAIN meta' \subseteq Creds  BY MapFacts DEF SchedulerTypes
  <2>2. CASE x = c  BY <1>3, <2>2
  <2>3. CASE x # c
    <3>1. x \in Creds \ {c}  BY <2>1, <2>3
    <3>2. x \in DOMAIN meta /\ meta'[x] = meta[x]  BY <3>1 DEF OthersKept
    <3>3. x \in DOMAIN auths  BY <1>3, <3>2 DEF IInv, LiveMeta
    <3>. QED  BY <3>1, <3>3
  <2>. QED  BY <2>2, <2>3
<1>4. ASSUME NEW x \in Creds  PROVE Agrees(x)'
  <2>1. CASE x = c  BY <2>1 DEF Agrees
  <2>2. CASE x # c
    <3>1. /\ ver'[x] = ver[x] /\ (x \in DOMAIN auths' <=> x \in DOMAIN auths)
          /\ x \in DOMAIN auths => auths'[x] = auths[x]
      BY <2>2
    <3>2. /\ x \in DOMAIN meta' <=> x \in DOMAIN meta
          /\ x \in DOMAIN meta => meta'[x] = meta[x]
          /\ applied'[x] = applied[x] /\ DOMAIN shard' = DOMAIN shard
          /\ \A m \in DOMAIN shard : /\ x \in DOMAIN shard'[m] <=> x \in DOMAIN shard[m]
                                     /\ x \in DOMAIN shard[m] => shard'[m][x] = shard[m][x]
      BY <2>2 DEF OthersKept
    <3>3. UpToDate(x) => UpToDate(x)'
      <4>. SUFFICES ASSUME UpToDate(x)  PROVE UpToDate(x)'
        OBVIOUS
      <4>1. x \in DOMAIN meta' <=> (x \in DOMAIN auths' /\ ~auths'[x].disabled)
        BY <3>1, <3>2 DEF UpToDate
      <4>2. x \in DOMAIN meta' => Deref(meta[x].ref, x)' = auths'[x]
        BY <3>1, <3>2 DEF UpToDate, Deref, IInv, LiveMeta
      <4>3. \A m \in DOMAIN shard' :
              x \in DOMAIN shard'[m] /\ shard'[m][x].state = "ready" => ~Blocked(auths'[x], m, now')
        <5>1. ASSUME NEW m \in DOMAIN shard, x \in DOMAIN shard[m], shard[m][x].state = "ready"
              PROVE  ~Blocked(auths'[x], m, now)
          <6>1. x \in DOMAIN meta  BY <5>1 DEF IInv, ShardsFit
          <6>2. auths'[x] = auths[x] /\ ~Blocked(auths[x], m, now)
            BY <3>1, <5>1, <6>1 DEF UpToDate
          <6>. QED  BY <6>2
        <5>. QED  BY <3>2, <5>1
      <4>. QED  BY <4>1, <4>2, <4>3 DEF UpToDate
    <3>4. Agrees(x)  BY DEF IInv
    <3>. QED  BY <3>1, <3>2, <3>3, <3>4 DEF Agrees
  <2>. QED  BY <2>1, <2>2
<1>. QED  BY <1>2, <1>3, <1>4 DEF IInv, LiveMeta

\* The changes that tell the scheduler what it is to know of c.
LEMMA UpsertionStep ==
  ASSUME IInv, NEW c \in Creds, NEW a \in Auths, NEW r \in Refs, NEW v \in Nat,
         SchedulerUpsert(c, a, r, v), v <= ver'[c],
         r.live => c \in DOMAIN auths',
         ~a.disabled /\ v = ver'[c] => (IF r.live THEN auths'[c] ELSE r.auth) = a,
         v = ver'[c] => c \in DOMAIN auths' /\ a = auths'[c],
         task' \in [Procs -> Tasks], \A q \in Procs : TaskOK(task[q])',
         auths' \in Maps(Creds, Auths), ver' \in [Creds -> Nat],
         \A x \in Creds \ {c} : /\ x \in DOMAIN auths' <=> x \in DOMAIN auths
                                /\ x \in DOMAIN auths => auths'[x] = auths[x]
                                /\ ver'[x] = ver[x],
         UNCHANGED <<now, config, cool, Registry>>
  PROVE  IInv'
<1>1. /\ SchedulerTypes' /\ ShardsFit' /\ OthersKept(c)
      /\ applied'[c] = v /\ (c \in DOMAIN meta' <=> ~a.disabled)
      /\ c \in DOMAIN meta' => meta'[c].ref = r
      /\ \A m \in DOMAIN shard :
           c \in DOMAIN shard'[m] /\ shard'[m][c].state = "ready" => ~Blocked(a, m, now)
  BY UpsertionFacts DEF IInv
<1>2. ASSUME v = ver'[c]  PROVE UpToDate(c)'
  <2>1. c \in DOMAIN auths' /\ a = auths'[c]  BY <1>2
  <2>2. c \in DOMAIN meta' <=> (c \in DOMAIN auths' /\ ~auths'[c].disabled)
    BY <1>1, <2>1
  <2>3. c \in DOMAIN meta' => Deref(meta[c].ref, c)' = auths'[c]
    BY <1>1, <1>2, <2>1 DEF Deref
  <2>4. \A m \in DOMAIN shard' :
          c \in DOMAIN shard'[m] /\ shard'[m][c].state = "ready" => ~Blocked(auths'[c], m, now')
    BY <1>1, <2>1 DEF OthersKept
  <2>. QED  BY <2>2, <2>3, <2>4 DEF UpToDate
<1>3. c \in DOMAIN meta' /\ meta'[c].ref.live => c \in DOMAIN auths'  BY <1>1
<1>4. applied'[c] <= ver'[c] /\ (applied'[c] = ver'[c] => UpToDate(c)')  BY <1>1, <1>2
<1>. QED  BY <1>1, <1>3, <1>4, TellStep

-----------------------------------------------------------------------------
(* What a goroutine is given to do next stands.                              *)

LEMMA OthersStand ==
  ASSUME NEW t, t.op \notin {"upsert", "resume", "rebuild", "remove"}
  PROVE  TaskOK(t) /\ TaskOK(t)'
BY DEF TaskOK

LEMMA FollowersStand ==
  ASSUME NEW t \in Followers
  PROVE  t \in Tasks /\ TaskOK(t) /\ TaskOK(t)'
<1>1. t \in Tasks  BY Following
<1>2. CASE t.op = "resume"
  <2>1. t.then.op # "upsert"
    <3>1. t \in [op : {"resume"}, c : Creds, ms : SUBSET Models, then : {Idle}]
      <4>. HIDE DEF Idle
      <4>. QED  BY <1>2, Following DEF Followers, Registrations, Tails, Ends, Idle, ListTasks,
                                      FetchTasks, Release
    <3>. QED  BY <3>1 DEF Idle
  <2>. QED  BY <1>1, <1>2, <2>1 DEF TaskOK
<1>3. CASE t.op # "resume"
  <2>1. t.op \notin {"upsert", "rebuild", "remove"}
    BY DEF Followers, Registrations, Tails, Ends, Idle, ListTasks, FetchTasks, Release
  <2>. QED  BY <1>1, <1>3, <2>1, OthersStand
<1>. QED  BY <1>2, <1>3

LEMMA UpsertOneStands ==
  ASSUME NEW c \in Creds, NEW r \in Refs, NEW then \in Followers,
         NEW t, t = UpsertOne(c, r, then)
  PROVE  t \in Tasks /\ (RefOK(c, r) => TaskOK(t)) /\ (RefOK(c, r)' => TaskOK(t)')
<1>1. t \in Tasks /\ t.op = "upsert" /\ DOMAIN t.refs = {c} /\ t.refs[c] = r
  BY UpsertOneFacts
<1>. QED  BY <1>1 DEF TaskOK, UpsertOK

-----------------------------------------------------------------------------
(* The steps, one by one.                                                    *)

LEMMA ApplyUpsertKeeps ==
  ASSUME IInv, NEW p \in Procs, ApplyUpsert(p)
  PROVE  IInv'
<1>. DEFINE x == task[p]
<1>1. x \in Tasks /\ x.op = "upsert" /\ TaskOK(x)  BY TaskTypes DEF ApplyUpsert, Doing, IInv
<1>2. x.refs \in Maps(Creds, Refs) /\ x.then \in Followers
  <2>. HIDE DEF x, Followers
  <2>. QED  BY <1>1, TaskKinds DEF UpsertTasks
<1>3. PICK c \in DOMAIN x.refs :
        /\ SchedulerUpsert(c, Deref(x.refs[c], c), x.refs[c], RefVer(x.refs[c], c))
        /\ Finish(p, IF Without(x.refs, c) = Empty THEN x.then
                     ELSE Upsert(Without(x.refs, c), x.then))
  BY DEF ApplyUpsert
<1>4. UNCHANGED <<now, config, cool, auths, Registry, ver>>  BY DEF ApplyUpsert
<1>5. PICK r : r = x.refs[c]  OBVIOUS
<1>6. PICK a : a = Deref(r, c)  OBVIOUS
<1>7. PICK v : v = RefVer(r, c)  OBVIOUS
<1>8. c \in Creds /\ r \in Refs  BY <1>2, <1>3, <1>5, MapFacts
<1>9. RefOK(c, r)  BY <1>1, <1>3, <1>5 DEF TaskOK, UpsertOK
<1>10. /\ a \in Auths /\ v \in Nat /\ v <= ver[c] /\ (r.live => c \in DOMAIN auths)
       /\ v = ver[c] => c \in DOMAIN auths /\ a = auths[c]
  BY <1>6, <1>7, <1>8, <1>9, RefTypes DEF IInv
<1>11. a = IF r.live THEN auths[c] ELSE r.auth  BY <1>6 DEF Deref
<1>12. SchedulerUpsert(c, a, r, v)  BY <1>3, <1>5, <1>6, <1>7
<1>13. task' \in [Procs -> Tasks] /\ \A q \in Procs : TaskOK(task[q])'
  <2>1. PICK t : t = IF Without(x.refs, c) = Empty THEN x.then
                     ELSE Upsert(Without(x.refs, c), x.then)
    OBVIOUS
  <2>2. t \in Tasks /\ TaskOK(t)
    <3>1. CASE Without(x.refs, c) = Empty  BY <1>2, <2>1, <3>1, FollowersStand
    <3>2. CASE Without(x.refs, c) # Empty
      <4>1. Without(x.refs, c) \in Maps(Creds, Refs)  BY <1>2, WithoutMap
      <4>2. t = Upsert(Without(x.refs, c), x.then)  BY <2>1, <3>2
      <4>3. t \in Tasks  BY <1>2, <4>1, <4>2, UpsertFacts
      <4>4. t.op = "upsert" /\ t.refs = Without(x.refs, c)  BY <4>2 DEF Upsert
      <4>5. DOMAIN t.refs \subseteq DOMAIN x.refs
            /\ \A d \in DOMAIN t.refs : t.refs[d] = x.refs[d]
        BY <4>4 DEF Without
      <4>. QED  BY <1>1, <4>3, <4>4, <4>5 DEF TaskOK, UpsertOK
    <3>. QED  BY <3>1, <3>2
  <2>3. \A y \in Tasks : TaskOK(y) => TaskOK(y)'  BY <1>4, SameAuths
  <2>4. task' = [task EXCEPT ![p] = t]  BY <1>3, <2>1 DEF Finish
  <2>5. TaskOK(t)'  BY <2>2, <2>3
  <2>. QED  BY <2>2, <2>3, <2>4, <2>5, TasksStay DEF IInv, TypeInv
<1>14. ver' = ver /\ auths' = auths /\ auths \in Maps(Creds, Auths) /\ ver \in [Creds -> Nat]
  BY <1>4 DEF IInv, TypeInv
<1>15. /\ v <= ver'[c] /\ (r.live => c \in DOMAIN auths')
       /\ v = ver'[c] => (IF r.live THEN auths'[c] ELSE r.auth) = a
       /\ v = ver'[c] => c \in DOMAIN auths' /\ a = auths'[c]
       /\ auths' \in Maps(Creds, Auths) /\ ver' \in [Creds -> Nat]
       /\ \A d \in Creds \ {c} : /\ d \in DOMAIN auths' <=> d \in DOMAIN auths
                                 /\ d \in DOMAIN auths => auths'[d] = auths[d]
                                 /\ ver'[d] = ver[d]
  BY <1>10, <1>11, <1>14
<1>. HIDE DEF x
<1>. QED  BY <1>4, <1>8, <1>10, <1>12, <1>13, <1>15, UpsertionStep

LEMMA RefreshFailsKeeps ==
  ASSUME IInv, NEW p \in Procs, NEW rejected \in BOOLEAN, RefreshFails(p, rejected)
  PROVE  IInv'
<1>1. PICK c : c = task[p].c  OBVIOUS
<1>2. c \in Creds
  <2>1. task[p] \in StoreTasks
    BY TaskTypes, TaskKinds DEF RefreshFails, Doing, IInv
  <2>. HIDE DEF Auths, ListTasks
  <2>. QED  BY <1>1, <2>1 DEF StoreTasks
<1>3. UNCHANGED <<now, config, cool, Registry>>  BY DEF RefreshFails
<1>4. Idle \in Followers /\ Idle \in Tasks  BY Following
<1>5. CASE c \notin DOMAIN auths
  <2>1. Finish(p, Idle) /\ UNCHANGED <<auths, ver, Scheduler>>  BY <1>1, <1>5 DEF RefreshFails
  <2>2. TaskOK(Idle)  BY <1>4, FollowersStand
  <2>3. UNCHANGED <<listed, marked>>  BY <1>3 DEF Registry
  <2>. QED  BY <1>3, <1>4, <2>1, <2>2, <2>3, NeutralStep DEF IInv, TypeInv
<1>6. CASE c \in DOMAIN auths
  <2>1. PICK a : a = RefreshFailed(auths[c], rejected)  OBVIOUS
  <2>2. PICK v : v = ver[c] + 1  OBVIOUS
  <2>3. /\ auths' = [auths EXCEPT ![c] = a] /\ ver' = [ver EXCEPT ![c] = @ + 1]
        /\ Finish(p, Idle) /\ SchedulerUpsert(c, a, Clone(a, v), v)
    BY <1>1, <1>6, <2>1, <2>2 DEF RefreshFails, Change, Bump
  <2>4. a \in Auths /\ v \in Nat /\ DOMAIN auths \subseteq Creds
        /\ auths \in [DOMAIN auths -> Auths]
    BY <1>2, <1>6, <2>1, <2>2, AuthTypes, RefreshFailedFacts, MapFacts DEF IInv, TypeInv
  <2>5. PICK r : r = Clone(a, v)  OBVIOUS
  <2>6. r \in Refs /\ r.live = FALSE /\ r.auth = a  BY <2>4, <2>5, SnapshotFacts
  <2>7. /\ auths' \in [DOMAIN auths -> Auths] /\ auths'[c] = a /\ DOMAIN auths' = DOMAIN auths
        /\ auths' \in Maps(Creds, Auths) /\ ver' \in [Creds -> Nat] /\ ver'[c] = v
        /\ \A d \in Creds \ {c} : ver'[d] = ver[d] /\ (d \in DOMAIN auths => auths'[d] = auths[d])
    <3>. HIDE DEF Auths
    <3>1. auths' \in [DOMAIN auths -> Auths] /\ auths'[c] = a  BY <1>6, <2>3, <2>4
    <3>2. auths' \in Maps(Creds, Auths) /\ DOMAIN auths' = DOMAIN auths  BY <2>4, <3>1, AMap
    <3>3. ver \in [Creds -> Nat]  BY DEF IInv, TypeInv
    <3>4. ver' \in [Creds -> Nat] /\ ver'[c] = v  BY <1>2, <2>2, <2>3, <3>3
    <3>5. \A d \in Creds \ {c} : ver'[d] = ver[d] /\ (d \in DOMAIN auths => auths'[d] = auths[d])
      BY <2>3, <2>4, <3>3
    <3>. QED  BY <3>1, <3>2, <3>4, <3>5
  <2>8. task' \in [Procs -> Tasks] /\ \A q \in Procs : TaskOK(task[q])'
    <3>1. \A x \in Tasks : TaskOK(x) => TaskOK(x)'
      <4>1. {c} \in SUBSET DOMAIN auths /\ \A d \in {c} : ver'[d] = ver[d] + 1
        BY <1>6, <2>2, <2>7
      <4>. QED  BY <2>7, <4>1, InPlaceTasks
    <3>2. TaskOK(Idle)'  BY <1>4, FollowersStand
    <3>. QED  BY <1>4, <2>3, <3>1, <3>2, TasksStay DEF IInv, TypeInv, Finish
  <2>9. v <= ver'[c] /\ v = ver'[c] /\ c \in DOMAIN auths' /\ a = auths'[c]
    BY <1>6, <2>4, <2>7
  <2>10. \A d \in Creds \ {c} : /\ d \in DOMAIN auths' <=> d \in DOMAIN auths
                                /\ d \in DOMAIN auths => auths'[d] = auths[d]
                                /\ ver'[d] = ver[d]
    BY <2>7
  <2>11. SchedulerUpsert(c, a, r, v) /\ (IF r.live THEN auths'[c] ELSE r.auth) = a
    BY <2>3, <2>5, <2>6
  <2>. HIDE DEF Auths, Refs
  <2>. QED  BY <1>2, <1>3, <2>4, <2>6, <2>7, <2>8, <2>9, <2>10, <2>11, UpsertionStep
<1>. QED  BY <1>5, <1>6

LEMMA RemoveEntryKeeps ==
  ASSUME IInv, NEW p \in Procs, RemoveEntry(p)
  PROVE  IInv'
<1>. DEFINE x == task[p]
<1>1. x \in Tasks /\ x.op = "remove" /\ RemoveOK(x)
  BY TaskTypes DEF RemoveEntry, Doing, IInv, TaskOK
<1>2. x.c \in Creds /\ x.v \in Nat  BY <1>1, TaskKinds DEF RemoveTasks
<1>3. PICK c, v : c = x.c /\ v = x.v  OBVIOUS
<1>4. /\ SchedulerRemove(c, v) /\ Finish(p, Sync(Idle))
      /\ UNCHANGED <<now, config, cool, auths, Registry, ver>>
  BY <1>3 DEF RemoveEntry
<1>5. c \in Creds /\ v \in Nat /\ v <= ver[c] /\ (v = ver[c] => c \notin DOMAIN auths)
  BY <1>1, <1>2, <1>3 DEF RemoveOK
<1>6. /\ SchedulerTypes' /\ ShardsFit' /\ OthersKept(c)
      /\ applied'[c] = v /\ c \notin DOMAIN meta'
      /\ \A m \in DOMAIN shard : c \notin DOMAIN shard'[m]
  BY <1>4, <1>5, RemovalFacts DEF IInv
<1>7. task' \in [Procs -> Tasks] /\ \A q \in Procs : TaskOK(task[q])'
  <2>1. Sync(Idle) \in Followers  BY Following, TailTasks
  <2>2. Sync(Idle) \in Tasks /\ TaskOK(Sync(Idle))'
    <3>1. PICK t : t = Sync(Idle)  OBVIOUS
    <3>. QED  BY <2>1, FollowersStand DEF Sync, Idle
  <2>3. \A y \in Tasks : TaskOK(y) => TaskOK(y)'  BY <1>4, SameAuths
  <2>. QED  BY <1>4, <2>2, <2>3, TasksStay DEF IInv, TypeInv, Finish
<1>8. applied'[c] = ver'[c] => UpToDate(c)'
  BY <1>4, <1>5, <1>6 DEF UpToDate, OthersKept
<1>9. /\ applied'[c] <= ver'[c] /\ auths' \in Maps(Creds, Auths) /\ ver' \in [Creds -> Nat]
      /\ auths' = auths /\ ver' = ver
  BY <1>4, <1>5, <1>6 DEF IInv, TypeInv
<1>. HIDE DEF x
<1>. QED  BY <1>4, <1>5, <1>6, <1>7, <1>8, <1>9, TellStep

\* rebuild takes the credentials as they were when the snapshot was made: one that
\* changed since then keeps the older number, and is known to be out of date.
LEMMA RebuildKeeps ==
  ASSUME IInv, NEW p \in Procs, Rebuild(p)
  PROVE  IInv'
<1>. DEFINE x == task[p]
            D == {c \in DOMAIN x.refs : ~x.refs[c].auth.disabled}
            e(c) == [ref |-> x.refs[c], supported |-> listed[c]]
<1>1. x \in Tasks /\ x.op = "rebuild" /\ RebuildOK(x)
  BY TaskTypes DEF Rebuild, Doing, IInv, TaskOK
<1>2. x.refs \in Maps(Creds, Clones) /\ x.vers \in [Creds -> Nat]
  <2>. HIDE DEF x
  <2>. QED  BY <1>1, TaskKinds DEF RebuildTasks
<1>3. /\ meta' = [c \in D |-> e(c)] /\ shard' = Empty /\ applied' = x.vers
      /\ Finish(p, Idle) /\ UNCHANGED <<now, config, cool, auths, Registry, ver>>
  BY DEF Rebuild
<1>4. DOMAIN x.refs \subseteq Creds
      /\ \A c \in DOMAIN x.refs : x.refs[c] \in Refs /\ ~x.refs[c].live
  <2>1. \A r \in Clones : r \in Refs /\ ~r.live  BY DEF Clones, Refs
  <2>. HIDE DEF x
  <2>. QED  BY <1>2, <2>1, MapFacts
<1>5. ASSUME NEW c \in D
      PROVE  e(c) \in Metas /\ e(c).ref = x.refs[c] /\ ~e(c).ref.live
  <2>1. x.refs[c] \in Refs /\ listed[c] \in SUBSET Models /\ ~x.refs[c].live
    BY <1>4 DEF IInv, TypeInv
  <2>. HIDE DEF Refs, x
  <2>. QED  BY <2>1 DEF Metas
<1>6. D \subseteq Creds  BY <1>4
<1>. HIDE DEF e, D
<1>7. meta' \in [D -> Metas] /\ DOMAIN meta' = D /\ \A c \in D : meta'[c] = e(c)
  BY <1>3, <1>5
<1>8. SchedulerTypes'
  <2>1. meta' \in Maps(Creds, Metas)  BY <1>6, <1>7, AMap
  <2>2. shard' \in Maps(Models, Maps(Creds, Entry))  BY <1>3, EmptyMap
  <2>. QED  BY <1>2, <1>3, <2>1, <2>2 DEF SchedulerTypes
<1>9. task' \in [Procs -> Tasks] /\ \A q \in Procs : TaskOK(task[q])'
  <2>1. Idle \in Tasks /\ TaskOK(Idle)'  BY Following, FollowersStand
  <2>2. \A y \in Tasks : TaskOK(y) => TaskOK(y)'  BY <1>3, SameAuths
  <2>. QED  BY <1>3, <2>1, <2>2, TasksStay DEF IInv, TypeInv, Finish
<1>10. TypeInv'
  BY <1>3, <1>8, <1>9 DEF IInv, TypeInv, SchedulerTypes, Registry
<1>11. ShardsFit' /\ LiveMeta'
  <2>1. DOMAIN shard' = {}  BY <1>3, EmptyMap
  <2>. QED  BY <1>5, <1>7, <2>1 DEF ShardsFit, LiveMeta
<1>12. ASSUME NEW c \in Creds  PROVE Agrees(c)'
  <2>1. /\ x.vers[c] <= ver[c]
        /\ x.vers[c] = ver[c] => (c \in DOMAIN x.refs <=> c \in DOMAIN auths)
        /\ c \in DOMAIN x.refs => x.refs[c].ver = x.vers[c] /\ RefOK(c, x.refs[c])
    BY <1>1 DEF RebuildOK
  <2>2. ASSUME x.vers[c] = ver[c]  PROVE UpToDate(c)'
    <3>1. c \in DOMAIN x.refs => x.refs[c].auth = auths[c] /\ ~x.refs[c].live
      BY <1>4, <2>1, <2>2 DEF RefOK
    <3>2. c \in D <=> c \in DOMAIN auths /\ ~auths[c].disabled
      BY <2>1, <2>2, <3>1 DEF D
    <3>3. c \in DOMAIN meta' <=> (c \in DOMAIN auths' /\ ~auths'[c].disabled)
      BY <1>3, <1>7, <3>2
    <3>4. c \in DOMAIN meta' => Deref(meta[c].ref, c)' = auths'[c]
      <4>. SUFFICES ASSUME c \in DOMAIN meta'  PROVE Deref(meta[c].ref, c)' = auths'[c]
        OBVIOUS
      <4>1. c \in D /\ c \in DOMAIN x.refs  BY <1>7 DEF D
      <4>2. meta'[c].ref = x.refs[c]  BY <1>5, <1>7, <4>1
      <4>3. auths' = auths /\ ~meta'[c].ref.live /\ meta'[c].ref.auth = auths[c]
        BY <1>3, <3>1, <4>1, <4>2
      <4>. QED  BY <4>3 DEF Deref
    <3>5. DOMAIN shard' = {}  BY <1>3, EmptyMap
    <3>. QED  BY <3>3, <3>4, <3>5 DEF UpToDate
  <2>. QED  BY <1>3, <2>1, <2>2 DEF Agrees
<1>. QED  BY <1>9, <1>10, <1>11, <1>12 DEF IInv

LEMMA MetaAuth ==
  ASSUME TypeInv, LiveMeta, NEW c \in DOMAIN meta
  PROVE  Deref(meta[c].ref, c) \in Auths
<1>1. meta[c].ref \in Refs
  <2>1. meta[c] \in Metas  BY AuthTypes
  <2>. HIDE DEF Refs
  <2>. QED  BY <2>1 DEF Metas
<1>2. meta[c].ref.auth \in Auths
  <2>. HIDE DEF Auths
  <2>. QED  BY <1>1 DEF Refs
<1>3. meta[c].ref.live => auths[c] \in Auths  BY AuthTypes DEF LiveMeta
<1>. QED  BY <1>2, <1>3 DEF Deref

\* What a pick makes of the shard of its model.
LEMMA PickedFacts ==
  ASSUME IInv, NEW m \in Models,
         NEW f, f = IF m \in DOMAIN shard THEN Promote(m) ELSE BuildShard(m)
  PROVE  /\ f \in Maps(Creds, Entry)
         /\ \A c \in Creds : c \in DOMAIN f <=> c \in DOMAIN meta /\ m \in meta[c].supported
         /\ \A c \in DOMAIN f : /\ c \in DOMAIN meta
                                /\ f[c].state = "ready" /\ UpToDate(c) => ~Blocked(auths[c], m, now)
<1>1. TypeInv /\ LiveMeta /\ now \in Nat /\ DOMAIN meta \subseteq Creds
  BY AuthTypes DEF IInv, TypeInv
<1>2. ASSUME NEW c \in DOMAIN meta
      PROVE  /\ Classify(Deref(meta[c].ref, c), m) \in Entry
             /\ Classify(Deref(meta[c].ref, c), m).state = "ready" /\ UpToDate(c)
                  => ~Blocked(auths[c], m, now)
  <2>1. PICK a : a = Deref(meta[c].ref, c)  OBVIOUS
  <2>2. a \in Auths  BY <1>1, <2>1, MetaAuth
  <2>3. Classify(a, m) \in Entry /\ (Classify(a, m).state = "ready" => ~Blocked(a, m, now))
    BY <1>1, <2>2, ClassifyFacts
  <2>4. UpToDate(c) => a = auths[c]  BY <2>1 DEF UpToDate
  <2>. QED  BY <2>1, <2>3, <2>4
<1>3. CASE m \in DOMAIN shard
  <2>. DEFINE e(c) == IF Expired(shard[m][c]) THEN Classify(Deref(meta[c].ref, c), m)
                                              ELSE shard[m][c]
  <2>1. f = [c \in DOMAIN shard[m] |-> e(c)]  BY <1>3 DEF Promote
  <2>2. shard[m] \in Maps(Creds, Entry)  BY <1>1, <1>3, AuthTypes
  <2>3. DOMAIN shard[m] \subseteq Creds /\ \A c \in DOMAIN shard[m] : shard[m][c] \in Entry
    BY <2>2, MapFacts
  <2>4. \A c \in Creds : c \in DOMAIN shard[m] <=> c \in DOMAIN meta /\ m \in meta[c].supported
    BY <1>3 DEF IInv, ShardsFit
  <2>5. ASSUME NEW c \in DOMAIN shard[m]
        PROVE  /\ e(c) \in Entry /\ c \in DOMAIN meta
               /\ e(c).state = "ready" /\ UpToDate(c) => ~Blocked(auths[c], m, now)
    <3>1. c \in DOMAIN meta  BY <2>3, <2>4
    <3>2. shard[m][c].state = "ready" /\ UpToDate(c) => ~Blocked(auths[c], m, now)
      BY <1>3 DEF UpToDate
    <3>3. CASE Expired(shard[m][c])
      <4>1. e(c) = Classify(Deref(meta[c].ref, c), m)  BY <3>3
      <4>. HIDE DEF e
      <4>. QED  BY <1>2, <3>1, <4>1
    <3>4. CASE ~Expired(shard[m][c])
      <4>1. e(c) = shard[m][c]  BY <3>4
      <4>. HIDE DEF e
      <4>. QED  BY <2>3, <3>1, <3>2, <4>1
    <3>. QED  BY <3>3, <3>4
  <2>. HIDE DEF e
  <2>6. f \in [DOMAIN shard[m] -> Entry] /\ DOMAIN f = DOMAIN shard[m]
        /\ \A c \in DOMAIN shard[m] : f[c] = e(c)
    BY <2>1, <2>5
  <2>7. f \in Maps(Creds, Entry)  BY <2>3, <2>6, AMap
  <2>. QED  BY <2>4, <2>5, <2>6, <2>7
<1>4. CASE m \notin DOMAIN shard
  <2>. DEFINE D == {c \in DOMAIN meta : m \in meta[c].supported}
              e(c) == Classify(Deref(meta[c].ref, c), m)
  <2>1. f = [c \in D |-> e(c)]  BY <1>4 DEF BuildShard
  <2>2. D \in SUBSET Creds /\ D \subseteq DOMAIN meta
        /\ \A c : c \in D <=> c \in DOMAIN meta /\ m \in meta[c].supported
    BY <1>1
  <2>3. \A c \in D : /\ e(c) \in Entry
                     /\ e(c).state = "ready" /\ UpToDate(c) => ~Blocked(auths[c], m, now)
    BY <1>2
  <2>. HIDE DEF D, e
  <2>4. f \in [D -> Entry] /\ DOMAIN f = D /\ \A c \in D : f[c] = e(c)  BY <2>1, <2>3
  <2>5. f \in Maps(Creds, Entry)  BY <2>2, <2>4, AMap
  <2>. QED  BY <2>2, <2>3, <2>4, <2>5
<1>. QED  BY <1>3, <1>4

LEMMA PickKeeps ==
  ASSUME IInv, NEW m \in Models, Pick(m)
  PROVE  IInv'
<1>1. PICK f : f = IF m \in DOMAIN shard THEN Promote(m) ELSE BuildShard(m)  OBVIOUS
<1>2. /\ f \in Maps(Creds, Entry)
      /\ \A c \in Creds : c \in DOMAIN f <=> c \in DOMAIN meta /\ m \in meta[c].supported
      /\ \A c \in DOMAIN f : /\ c \in DOMAIN meta
                             /\ f[c].state = "ready" /\ UpToDate(c) => ~Blocked(auths[c], m, now)
  BY <1>1, PickedFacts
<1>3. /\ shard' = With(shard, m, f)
      /\ UNCHANGED <<now, config, cool, auths, listed, marked, meta, task, ver, applied>>
  BY <1>1 DEF Pick
<1>4. /\ DOMAIN shard' = DOMAIN shard \cup {m} /\ shard'[m] = f
      /\ \A n \in DOMAIN shard : n # m => shard'[n] = shard[n]
  BY <1>3 DEF With
<1>5. shard' \in Maps(Models, Maps(Creds, Entry))
  BY <1>2, <1>3, WithMap DEF IInv, TypeInv
<1>6. TypeInv'  BY <1>3, <1>5 DEF IInv, TypeInv
<1>7. \A q \in Procs : TaskOK(task[q])'
  <2>1. ASSUME NEW q \in Procs  PROVE TaskOK(task[q])'
    <3>1. PICK x : x = task[q]  OBVIOUS
    <3>2. TaskOK(x)  BY <3>1 DEF IInv
    <3>3. TaskOK(x)' /\ x = task'[q]  BY <1>3, <3>1, <3>2, SameAuths
    <3>. QED  BY <3>3 DEF TaskOK, UpsertOK, RebuildOK, RemoveOK
  <2>. QED  BY <2>1
<1>8. ShardsFit' /\ LiveMeta'
  <2>1. ASSUME NEW n \in DOMAIN shard', NEW c \in Creds
        PROVE  c \in DOMAIN shard'[n] <=> c \in DOMAIN meta' /\ n \in meta'[c].supported
    <3>1. CASE n = m  BY <1>2, <1>3, <1>4, <3>1
    <3>2. CASE n # m  BY <1>3, <1>4, <3>2 DEF IInv, ShardsFit
    <3>. QED  BY <3>1, <3>2
  <2>2. LiveMeta'  BY <1>3 DEF IInv, LiveMeta
  <2>. QED  BY <2>1, <2>2 DEF ShardsFit
<1>9. ASSUME NEW c \in Creds  PROVE Agrees(c)'
  <2>1. ASSUME UpToDate(c)  PROVE UpToDate(c)'
    <3>1. /\ c \in DOMAIN meta' <=> (c \in DOMAIN auths' /\ ~auths'[c].disabled)
          /\ c \in DOMAIN meta' => Deref(meta[c].ref, c)' = auths'[c]
      BY <1>3, <2>1 DEF UpToDate, Deref
    <3>2. ASSUME NEW n \in DOMAIN shard', c \in DOMAIN shard'[n], shard'[n][c].state = "ready"
          PROVE  ~Blocked(auths'[c], n, now')
      <4>1. CASE n = m  BY <1>2, <1>3, <1>4, <2>1, <3>2, <4>1
      <4>2. CASE n # m  BY <1>3, <1>4, <2>1, <3>2, <4>2 DEF UpToDate
      <4>. QED  BY <4>1, <4>2
    <3>. QED  BY <3>1, <3>2 DEF UpToDate
  <2>. QED  BY <1>3, <2>1 DEF IInv, Agrees
<1>. QED  BY <1>6, <1>7, <1>8, <1>9 DEF IInv

LEMMA TickKeeps ==
  ASSUME IInv, Tick
  PROVE  IInv'
<1>1. /\ now' = now + 1
      /\ UNCHANGED <<config, cool, auths, listed, marked, meta, shard, task, ver, applied>>
  BY DEF Tick
<1>2. TypeInv'  BY <1>1 DEF IInv, TypeInv
<1>3. \A q \in Procs : TaskOK(task[q])'
  <2>1. ASSUME NEW q \in Procs  PROVE TaskOK(task[q])'
    <3>1. PICK x : x = task[q]  OBVIOUS
    <3>2. TaskOK(x)  BY <3>1 DEF IInv
    <3>3. TaskOK(x)' /\ x = task'[q]  BY <1>1, <3>1, <3>2, SameAuths
    <3>. QED  BY <3>3 DEF TaskOK, UpsertOK, RebuildOK, RemoveOK
  <2>. QED  BY <2>1
<1>4. ShardsFit' /\ LiveMeta'  BY <1>1 DEF IInv, ShardsFit, LiveMeta
<1>5. ASSUME NEW c \in Creds  PROVE Agrees(c)'
  <2>1. ASSUME UpToDate(c)  PROVE UpToDate(c)'
    <3>1. /\ c \in DOMAIN meta' <=> (c \in DOMAIN auths' /\ ~auths'[c].disabled)
          /\ c \in DOMAIN meta' => Deref(meta[c].ref, c)' = auths'[c]
      BY <1>1, <2>1 DEF UpToDate, Deref
    <3>2. ASSUME NEW m \in DOMAIN shard, c \in DOMAIN shard[m], shard[m][c].state = "ready"
          PROVE  ~Blocked(auths[c], m, now + 1)
      <4>1. ~Blocked(auths[c], m, now)  BY <2>1, <3>2 DEF UpToDate
      <4>2. c \in DOMAIN auths  BY <2>1, <3>2 DEF UpToDate, IInv, ShardsFit
      <4>3. auths[c] \in Auths /\ now \in Nat  BY <4>2, AuthTypes DEF IInv, TypeInv
      <4>. QED  BY <4>1, <4>3, NotBlockedLater
    <3>. QED  BY <1>1, <3>1, <3>2 DEF UpToDate
  <2>. QED  BY <1>1, <2>1 DEF IInv, Agrees
<1>. QED  BY <1>2, <1>3, <1>4, <1>5 DEF IInv

LEMMA ChangeFacts ==
  ASSUME TypeInv, NEW p, NEW c \in DOMAIN auths, NEW a \in Auths, NEW t, Change(p, c, a, t)
  PROVE  /\ auths' \in [DOMAIN auths -> Auths] /\ auths'[c] = a /\ DOMAIN auths' = DOMAIN auths
         /\ ver' \in [Creds -> Nat] /\ ver'[c] = ver[c] + 1 /\ ver[c] \in Nat /\ c \in Creds
         /\ \A d \in Creds \ {c} : ver'[d] = ver[d] /\ (d \in DOMAIN auths => auths'[d] = auths[d])
<1>. HIDE DEF Auths
<1>1. auths' = [auths EXCEPT ![c] = a] /\ ver' = [ver EXCEPT ![c] = @ + 1]
  BY DEF Change, Bump
<1>2. auths \in [DOMAIN auths -> Auths] /\ ver \in [Creds -> Nat] /\ c \in Creds
  BY AuthTypes, MapFacts DEF TypeInv
<1>3. auths' \in [DOMAIN auths -> Auths] /\ auths'[c] = a /\ DOMAIN auths' = DOMAIN auths
  BY <1>1, <1>2
<1>4. ver' \in [Creds -> Nat] /\ ver'[c] = ver[c] + 1 /\ ver[c] \in Nat  BY <1>1, <1>2
<1>5. \A d \in Creds \ {c} : ver'[d] = ver[d] /\ (d \in DOMAIN auths => auths'[d] = auths[d])
  BY <1>1, <1>2
<1>. QED  BY <1>2, <1>3, <1>4, <1>5

LEMMA ChangeStep ==
  ASSUME IInv, NEW p \in Procs, NEW c \in DOMAIN auths, NEW a \in Auths,
         NEW t \in Tasks, TaskOK(t)', Change(p, c, a, t),
         UNCHANGED <<now, config, cool, Scheduler, Registry>>
  PROVE  IInv'
<1>. HIDE DEF Auths
<1>1. TypeInv  BY DEF IInv
<1>2. /\ auths' \in [DOMAIN auths -> Auths] /\ ver' \in [Creds -> Nat] /\ c \in Creds
      /\ ver'[c] = ver[c] + 1
      /\ \A d \in Creds \ {c} : ver'[d] = ver[d] /\ (d \in DOMAIN auths => auths'[d] = auths[d])
  BY <1>1, ChangeFacts
<1>3. {c} \in SUBSET DOMAIN auths /\ \A d \in {c} : ver'[d] = ver[d] + 1  BY <1>2
<1>4. Finish(p, t)  BY DEF Change
<1>. QED  BY <1>2, <1>3, <1>4, InPlaceStep

\* The goroutine that made the change tells the scheduler next.
LEMMA ChangeAndTell ==
  ASSUME IInv, NEW p \in Procs, NEW c \in DOMAIN auths, NEW a \in Auths, NEW then \in Followers,
         Change(p, c, a, UpsertOne(c, Clone(a, ver[c] + 1), then)),
         UNCHANGED <<now, config, cool, Scheduler, Registry>>
  PROVE  IInv'
<1>. HIDE DEF Auths, Followers, Refs
<1>1. PICK r : r = Clone(a, ver[c] + 1)  OBVIOUS
<1>2. PICK t : t = UpsertOne(c, r, then)  OBVIOUS
<1>3. /\ auths'[c] = a /\ DOMAIN auths' = DOMAIN auths /\ ver'[c] = ver[c] + 1
      /\ ver[c] \in Nat /\ c \in Creds
  BY ChangeFacts DEF IInv
<1>4. r \in Refs /\ r.live = FALSE /\ r.auth = a /\ r.ver = ver'[c]
  BY <1>1, <1>3, SnapshotFacts
<1>5. RefOK(c, r)'  BY <1>3, <1>4 DEF RefOK
<1>6. t \in Tasks /\ TaskOK(t)'  BY <1>2, <1>3, <1>4, <1>5, UpsertOneStands
<1>7. Change(p, c, a, t)  BY <1>1, <1>2
<1>. QED  BY <1>6, <1>7, ChangeStep

LEMMA MarkSuccessKeeps ==
  ASSUME IInv, NEW p \in Procs, NEW c \in Creds, NEW m \in Models, MarkSuccess(p, c, m)
  PROVE  IInv'
<1>. HIDE DEF Auths, Followers
<1>1. PICK a : a = Succeed(auths[c], m, now)  OBVIOUS
<1>2. c \in DOMAIN auths /\ auths[c] \in Auths /\ now \in Nat
  BY AuthTypes DEF MarkSuccess, IInv, TypeInv
<1>3. a \in Auths  BY <1>1, <1>2, SucceedFacts
<1>4. Resume(c, {m}, Idle) \in Followers  BY DEF Resume, Followers
<1>5. /\ Change(p, c, a, UpsertOne(c, Clone(a, ver[c] + 1), Resume(c, {m}, Idle)))
      /\ UNCHANGED <<now, config, cool, Scheduler, Registry>>
  BY <1>1 DEF MarkSuccess
<1>. QED  BY <1>2, <1>3, <1>4, <1>5, ChangeAndTell

LEMMA MarkFailureKeeps ==
  ASSUME IInv, NEW p \in Procs, NEW c \in Creds, NEW m \in Models, NEW kind \in Kinds,
         NEW ra \in RetryAfters, MarkFailure(p, c, m, kind, ra)
  PROVE  IInv'
<1>. HIDE DEF Auths, Followers
<1>1. PICK a : a = Fail(auths[c], m, kind, ra, cool, now)  OBVIOUS
<1>2. c \in DOMAIN auths /\ auths[c] \in Auths /\ now \in Nat /\ cool \in BOOLEAN /\ ra \in Nat
  BY AuthTypes, Constants DEF MarkFailure, IInv, TypeInv
<1>3. a \in Auths  BY <1>1, <1>2, FailFacts
<1>4. PICK then : then = IF Suspends(kind) THEN Suspend(c, m) ELSE Idle  OBVIOUS
<1>5. then \in Followers  BY <1>4, Following DEF Suspend, Followers
<1>6. /\ Change(p, c, a, UpsertOne(c, Clone(a, ver[c] + 1), then))
      /\ UNCHANGED <<now, config, cool, Scheduler, Registry>>
  BY <1>1, <1>4 DEF MarkFailure
<1>. QED  BY <1>2, <1>3, <1>5, <1>6, ChangeAndTell

LEMMA ReconcileModelStatesKeeps ==
  ASSUME IInv, NEW p \in Procs, ReconcileModelStates(p)
  PROVE  IInv'
<1>. HIDE DEF Auths, Followers, Registrations
<1>1. PICK x : x = task[p]  OBVIOUS
<1>2. x \in Tasks /\ x.op = "reconcile"
  BY <1>1, TaskTypes DEF ReconcileModelStates, Doing, IInv
<1>3. x.c \in Creds /\ x.then \in Registrations /\ x.then \in Followers
  BY <1>2, TaskKinds, Following DEF ReconcileTasks
<1>4. PICK c, then : c = x.c /\ then = x.then  OBVIOUS
<1>5. UNCHANGED <<now, config, cool, Scheduler, Registry>>  BY DEF ReconcileModelStates
<1>6. CASE c \in DOMAIN auths /\ NeedsReconcile(auths[c], x.ms)
  <2>1. PICK a : a = Reconcile(auths[c], x.ms, now)  OBVIOUS
  <2>2. auths[c] \in Auths /\ now \in Nat  BY <1>6, AuthTypes DEF IInv, TypeInv
  <2>3. a \in Auths  BY <2>1, <2>2, ReconcileFacts
  <2>4. Change(p, c, a, UpsertOne(c, Clone(a, ver[c] + 1), then))
    BY <1>1, <1>4, <1>6, <2>1 DEF ReconcileModelStates
  <2>. QED  BY <1>3, <1>4, <1>5, <1>6, <2>3, <2>4, ChangeAndTell
<1>7. CASE ~(c \in DOMAIN auths /\ NeedsReconcile(auths[c], x.ms))
  <2>1. Finish(p, then) /\ UNCHANGED <<auths, ver>>
    BY <1>1, <1>4, <1>7 DEF ReconcileModelStates
  <2>2. then \in Tasks /\ TaskOK(then)  BY <1>3, <1>4, FollowersStand
  <2>. QED  BY <1>5, <2>1, <2>2, NeutralStep DEF IInv, TypeInv, Registry
<1>. QED  BY <1>6, <1>7

LEMMA ResetQuotaKeeps ==
  ASSUME IInv, NEW p \in Procs, NEW saved \in BOOLEAN, ResetQuota(p, saved)
  PROVE  IInv'
<1>. HIDE DEF Auths, Followers, Refs, Clones
<1>1. PICK x : x = task[p]  OBVIOUS
<1>2. x \in Tasks /\ x.op = "reset"
  BY <1>1, TaskTypes DEF ResetQuota, Doing, IInv
<1>3. x.c \in Creds /\ x.ms \in SUBSET Models  BY <1>2, TaskKinds DEF ResetTasks
<1>4. PICK c : c = x.c  OBVIOUS
<1>5. UNCHANGED <<now, config, cool, Scheduler, Registry>>  BY DEF ResetQuota
<1>6. Idle \in Followers /\ Idle \in Tasks /\ TaskOK(Idle) /\ TaskOK(Idle)'
  BY Following, FollowersStand
<1>7. CASE c \notin DOMAIN auths
  <2>1. Finish(p, Idle) /\ UNCHANGED <<auths, ver>>
    BY <1>1, <1>4, <1>7 DEF ResetQuota
  <2>. QED  BY <1>5, <1>6, <2>1, NeutralStep DEF IInv, TypeInv, Registry
<1>8. CASE c \in DOMAIN auths
  <2>1. PICK a : a = Reset(auths[c], now)  OBVIOUS
  <2>2. PICK ms : ms = IF Tracked(auths[c]) = {} THEN x.ms ELSE Tracked(auths[c])  OBVIOUS
  <2>3. PICK r : r = Clone(a, ver[c] + 1)  OBVIOUS
  <2>4. PICK u : u = UpsertOne(c, r, Idle)  OBVIOUS
  <2>5. PICK t : t = IF saved THEN Resume(c, ms, u) ELSE Idle  OBVIOUS
  <2>6. auths[c] \in Auths /\ now \in Nat  BY <1>8, AuthTypes DEF IInv, TypeInv
  <2>7. a \in Auths /\ ms \in SUBSET Models
    BY <1>3, <2>1, <2>2, <2>6, ResetFacts, StatesOf
  <2>8. Change(p, c, a, t)
    BY <1>1, <1>4, <1>8, <2>1, <2>2, <2>3, <2>4, <2>5 DEF ResetQuota
  <2>9. /\ auths'[c] = a /\ DOMAIN auths' = DOMAIN auths /\ ver'[c] = ver[c] + 1
        /\ ver[c] \in Nat /\ c \in Creds
    BY <1>8, <2>7, <2>8, ChangeFacts DEF IInv
  <2>10. r \in Refs /\ r \in Clones /\ r.live = FALSE /\ r.auth = a /\ r.ver = ver'[c]
    BY <2>3, <2>7, <2>9, SnapshotFacts
  <2>11. RefOK(c, r)'  BY <1>8, <2>9, <2>10 DEF RefOK
  <2>12. /\ u \in [op : {"upsert"}, refs : Maps(Creds, Clones), then : Followers]
         /\ u.op = "upsert" /\ DOMAIN u.refs = {c} /\ u.refs[c] = r
    <3>1. [d \in {c} |-> r] \in Maps(Creds, Clones)
      <4>1. [d \in {c} |-> r] \in [{c} -> Clones] /\ {c} \in SUBSET Creds  BY <2>9, <2>10
      <4>. QED  BY <4>1, AMap
    <3>. QED  BY <1>6, <2>4, <3>1 DEF UpsertOne, Upsert
  <2>13. Resume(c, ms, u) \in Tasks /\ Resume(c, ms, u).op = "resume"
         /\ Resume(c, ms, u).then = u
    BY <2>7, <2>9, <2>12 DEF Resume, ResumeTasks, Tasks
  <2>14. t \in Tasks /\ TaskOK(t)'
    <3>1. CASE saved
      <4>1. t \in Tasks /\ t.op = "resume" /\ t.then = u  BY <2>5, <2>13, <3>1
      <4>. QED  BY <2>11, <2>12, <4>1 DEF TaskOK, UpsertOK
    <3>2. CASE ~saved
      <4>1. t = Idle  BY <2>5, <3>2
      <4>. QED  BY <1>6, <4>1, FollowersStand
    <3>. QED  BY <3>1, <3>2
  <2>. QED  BY <1>5, <1>8, <2>7, <2>8, <2>14, ChangeStep
<1>. QED  BY <1>7, <1>8

LEMMA SweepConfigKeeps ==
  ASSUME IInv, NEW p \in Procs, SweepConfig(p)
  PROVE  IInv'
<1>. HIDE DEF Auths, Followers, Refs
<1>1. PICK S : S = {c \in DOMAIN auths : Sweeps(c)}  OBVIOUS
<1>2. PICK after : after = [c \in DOMAIN auths |-> ClearCooldown(auths[c], now)]  OBVIOUS
<1>3. PICK clones : clones = [c \in S |-> Clone(after[c], ver[c] + 1)]  OBVIOUS
<1>4. PICK t : t = IF S = {} THEN Sync(Release) ELSE Upsert(clones, Sync(Release))  OBVIOUS
<1>5. S \in SUBSET DOMAIN auths /\ DOMAIN auths \subseteq Creds /\ S \subseteq Creds
      /\ now \in Nat /\ ver \in [Creds -> Nat]
  BY <1>1, AuthTypes DEF IInv, TypeInv
<1>6. \A c \in DOMAIN auths : auths[c] \in Auths /\ after[c] \in Auths
  <2>1. \A c \in DOMAIN auths : auths[c] \in Auths  BY AuthTypes DEF IInv
  <2>2. \A c \in DOMAIN auths : after[c] = ClearCooldown(auths[c], now)  BY <1>2
  <2>. QED  BY <1>5, <2>1, <2>2, ClearFacts
<1>7. /\ auths' = [c \in DOMAIN auths |-> IF c \in S THEN after[c] ELSE auths[c]]
      /\ ver' = [c \in Creds |-> IF c \in S THEN ver[c] + 1 ELSE ver[c]]
      /\ UNCHANGED <<now, config, cool, Scheduler, Registry>>
  BY <1>1, <1>2 DEF SweepConfig
<1>8. Finish(p, t)
  <2>1. /\ S = {} => Finish(p, Sync(Release))
        /\ S # {} => Finish(p, Upsert([c \in S |-> Clone(ClearCooldown(auths[c], now), ver[c] + 1)],
                                      Sync(Release)))
    BY <1>1 DEF SweepConfig
  <2>2. clones = [c \in S |-> Clone(ClearCooldown(auths[c], now), ver[c] + 1)]
    BY <1>2, <1>3, <1>5
  <2>. QED  BY <1>4, <2>1, <2>2
<1>9. /\ auths' \in [DOMAIN auths -> Auths] /\ ver' \in [Creds -> Nat]
      /\ DOMAIN auths' = DOMAIN auths
      /\ \A c \in S : ver'[c] = ver[c] + 1 /\ auths'[c] = after[c]
      /\ \A c \in Creds \ S : ver'[c] = ver[c] /\ (c \in DOMAIN auths => auths'[c] = auths[c])
  BY <1>5, <1>6, <1>7
<1>10. /\ clones \in Maps(Creds, Refs) /\ DOMAIN clones = S
       /\ \A c \in S : /\ clones[c] \in Refs /\ clones[c].live = FALSE
                       /\ clones[c].auth = after[c] /\ clones[c].ver = ver'[c]
  <2>1. \A c \in S : after[c] \in Auths /\ ver[c] + 1 \in Nat /\ ver'[c] = ver[c] + 1
    BY <1>5, <1>6, <1>9
  <2>2. \A c \in S : clones[c] = Clone(after[c], ver[c] + 1)  BY <1>3
  <2>3. \A c \in S : /\ clones[c] \in Refs /\ clones[c].live = FALSE
                     /\ clones[c].auth = after[c] /\ clones[c].ver = ver'[c]
    BY <2>1, <2>2, SnapshotFacts
  <2>4. clones \in [S -> Refs] /\ DOMAIN clones = S  BY <1>3, <2>3
  <2>5. clones \in Maps(Creds, Refs)  BY <1>5, <2>4, AMap
  <2>. QED  BY <2>3, <2>4, <2>5
<1>11. Sync(Release) \in Followers  BY Following, TailTasks
<1>12. t \in Tasks /\ TaskOK(t)'
  <2>1. CASE S = {}
    <3>1. t = Sync(Release)  BY <1>4, <2>1
    <3>. QED  BY <1>11, <3>1, FollowersStand
  <2>2. CASE S # {}
    <3>1. t = Upsert(clones, Sync(Release))  BY <1>4, <2>2
    <3>2. t \in Tasks  BY <1>10, <1>11, <3>1, UpsertFacts
    <3>3. t.op = "upsert" /\ t.refs = clones  BY <3>1 DEF Upsert
    <3>4. ASSUME NEW c \in S  PROVE RefOK(c, clones[c])'
      <4>1. c \in DOMAIN auths' /\ clones[c].auth = auths'[c] /\ clones[c].ver <= ver'[c]
        BY <1>5, <1>9, <1>10
      <4>. QED  BY <1>10, <4>1 DEF RefOK
    <3>. QED  BY <1>10, <3>2, <3>3, <3>4 DEF TaskOK, UpsertOK
  <2>. QED  BY <2>1, <2>2
<1>13. \A c \in S : ver'[c] = ver[c] + 1  BY <1>9
<1>. QED  BY <1>5, <1>7, <1>8, <1>9, <1>12, <1>13, InPlaceStep

\* Update and Register hand the scheduler the object they stored.
LEMMA StoreStep ==
  ASSUME IInv, NEW p \in Procs, NEW c \in Creds, NEW a \in Auths, NEW then \in Followers,
         Store(p, c, a, UpsertOne(c, LiveRef, then)),
         UNCHANGED <<now, config, cool, Registry>>
  PROVE  IInv'
<1>. HIDE DEF Auths, Followers, Refs
<1>1. PICK t : t = UpsertOne(c, LiveRef, then)  OBVIOUS
<1>2. /\ auths' = With(auths, c, a) /\ ver' = [ver EXCEPT ![c] = @ + 1]
      /\ meta' = IF c \in DOMAIN auths THEN FreezeMeta(c) ELSE meta
      /\ task' = [q \in Procs |-> IF q = p THEN t ELSE Refreezed(task[q], c)]
      /\ UNCHANGED <<now, config, cool, shard, applied, Registry>>
  BY <1>1 DEF Store, Bump, Refreezed
<1>3. auths' \in Maps(Creds, Auths)  BY <1>2, WithMap DEF IInv, TypeInv
<1>4. /\ c \in DOMAIN auths'
      /\ \A x \in Creds \ {c} : /\ x \in DOMAIN auths' <=> x \in DOMAIN auths
                                /\ x \in DOMAIN auths => auths'[x] = auths[x]
  BY <1>2 DEF With
<1>5. t \in Tasks /\ TaskOK(t)'
  <2>1. PICK r : r = LiveRef  OBVIOUS
  <2>2. r \in Refs /\ r.live /\ t = UpsertOne(c, r, then)  BY <1>1, <2>1, SnapshotFacts
  <2>3. RefOK(c, r)'  BY <1>4, <2>2 DEF RefOK
  <2>. QED  BY <2>2, <2>3, UpsertOneStands
<1>. QED  BY <1>2, <1>3, <1>4, <1>5, ReplaceStep

LEMMA UpdateKeeps ==
  ASSUME IInv, NEW p \in Procs, Update(p)
  PROVE  IInv'
<1>. HIDE DEF Auths, Followers, ListTasks
<1>1. PICK x : x = task[p]  OBVIOUS
<1>2. x \in StoreTasks
  BY <1>1, TaskTypes, TaskKinds DEF Update, IInv
<1>3. x.c \in Creds /\ x.auth \in Auths /\ x.then \in Followers
  BY <1>2, Following DEF StoreTasks
<1>4. PICK c, then : c = x.c /\ then = x.then  OBVIOUS
<1>5. UNCHANGED <<now, config, cool, Registry>>  BY DEF Update
<1>6. CASE c \in DOMAIN auths
  <2>1. PICK a : a = Merge(auths[c], x.auth, cool, now)  OBVIOUS
  <2>2. auths[c] \in Auths /\ now \in Nat /\ cool \in BOOLEAN
    BY <1>6, AuthTypes DEF IInv, TypeInv
  <2>3. a \in Auths  BY <1>3, <2>1, <2>2, MergeFacts
  <2>4. Store(p, c, a, UpsertOne(c, LiveRef, then))
    BY <1>1, <1>4, <1>6, <2>1 DEF Update
  <2>. QED  BY <1>3, <1>4, <1>5, <2>3, <2>4, StoreStep
<1>7. CASE c \notin DOMAIN auths
  <2>1. Finish(p, then) /\ UNCHANGED <<auths, ver, Scheduler>>
    BY <1>1, <1>4, <1>7 DEF Update
  <2>2. then \in Tasks /\ TaskOK(then)  BY <1>3, <1>4, FollowersStand
  <2>. QED  BY <1>5, <2>1, <2>2, NeutralStep DEF IInv, TypeInv, Registry
<1>. QED  BY <1>6, <1>7

LEMMA RegisterKeeps ==
  ASSUME IInv, NEW p \in Procs, Register(p)
  PROVE  IInv'
<1>. HIDE DEF Auths, Followers, ListTasks
<1>1. PICK x : x = task[p]  OBVIOUS
<1>2. x \in StoreTasks
  BY <1>1, TaskTypes, TaskKinds DEF Register, Doing, IInv
<1>3. x.c \in Creds /\ x.auth \in Auths /\ x.then \in Followers
  BY <1>2, Following DEF StoreTasks
<1>4. PICK c, then, a : c = x.c /\ then = x.then /\ a = Admit(x.auth, cool, now)  OBVIOUS
<1>5. now \in Nat /\ cool \in BOOLEAN  BY DEF IInv, TypeInv
<1>6. a \in Auths  BY <1>3, <1>4, <1>5, MergeFacts
<1>7. /\ Store(p, c, a, UpsertOne(c, LiveRef, then))
      /\ UNCHANGED <<now, config, cool, Registry>>
  BY <1>1, <1>4 DEF Register
<1>. QED  BY <1>3, <1>4, <1>6, <1>7, StoreStep

LEMMA RemoveKeeps ==
  ASSUME IInv, NEW p \in Procs, Remove(p)
  PROVE  IInv'
<1>. HIDE DEF Auths, Followers
<1>1. PICK x : x = task[p]  OBVIOUS
<1>2. x \in CredTasks  BY <1>1, TaskTypes, TaskKinds DEF Remove, Doing, IInv
<1>3. PICK c : c = x.c  OBVIOUS
<1>4. c \in Creds  BY <1>2, <1>3 DEF CredTasks
<1>5. UNCHANGED <<now, config, cool, Registry>>  BY DEF Remove
<1>6. CASE c \in DOMAIN auths
  <2>1. PICK t : t = [op |-> "remove", c |-> c, v |-> ver[c] + 1]  OBVIOUS
  <2>2. /\ auths' = Without(auths, c) /\ ver' = [ver EXCEPT ![c] = @ + 1]
        /\ meta' = FreezeMeta(c)
        /\ task' = [q \in Procs |-> IF q = p THEN t ELSE FreezeTask(task[q], c)]
        /\ UNCHANGED <<shard, applied>>
    BY <1>1, <1>3, <1>6, <2>1 DEF Remove, Bump
  <2>3. auths' \in Maps(Creds, Auths)  BY <2>2, WithoutMap DEF IInv, TypeInv
  <2>4. /\ c \notin DOMAIN auths'
        /\ \A d \in Creds \ {c} : /\ d \in DOMAIN auths' <=> d \in DOMAIN auths
                                  /\ d \in DOMAIN auths => auths'[d] = auths[d]
    BY <2>2 DEF Without
  <2>5. ver[c] \in Nat /\ ver'[c] = ver[c] + 1  BY <1>4, <2>2 DEF IInv, TypeInv
  <2>6. t \in RemoveTasks /\ t \in Tasks /\ t.op = "remove" /\ t.c = c /\ t.v = ver[c] + 1
    BY <1>4, <2>1, <2>5 DEF RemoveTasks, Tasks
  <2>7. TaskOK(t)'  BY <2>4, <2>5, <2>6 DEF TaskOK, RemoveOK
  <2>8. /\ task' = [q \in Procs |-> IF q = p THEN t ELSE Refreezed(task[q], c)]
        /\ meta' = IF c \in DOMAIN auths THEN FreezeMeta(c) ELSE meta
    BY <1>6, <2>2 DEF Refreezed
  <2>9. /\ ver' = [ver EXCEPT ![c] = @ + 1]
        /\ UNCHANGED <<now, config, cool, shard, applied, Registry>>
    BY <1>5, <2>2
  <2>. QED  BY <1>4, <2>3, <2>4, <2>6, <2>7, <2>8, <2>9, ReplaceStep
<1>7. CASE c \notin DOMAIN auths
  <2>1. Finish(p, Sync(Idle)) /\ UNCHANGED <<auths, ver, Scheduler>>
    BY <1>1, <1>3, <1>7 DEF Remove
  <2>2. Sync(Idle) \in Followers  BY Following, TailTasks
  <2>3. Sync(Idle) \in Tasks /\ TaskOK(Sync(Idle))  BY <2>2, FollowersStand
  <2>. QED  BY <1>5, <2>1, <2>3, NeutralStep DEF IInv, TypeInv, Registry
<1>. QED  BY <1>6, <1>7

LEMMA GoOnStep ==
  ASSUME IInv, NEW p \in Procs, NEW t \in Tasks, TaskOK(t), Finish(p, t),
         UNCHANGED <<now, config, cool, auths, Scheduler, Registry, ver>>
  PROVE  IInv'
BY NeutralStep DEF IInv, TypeInv, Registry

LEMMA GoOnWith ==
  ASSUME IInv, NEW p \in Procs, NEW t \in Followers, Finish(p, t),
         UNCHANGED <<now, config, cool, auths, Scheduler, Registry, ver>>
  PROVE  IInv'
<1>1. t \in Tasks /\ TaskOK(t)  BY FollowersStand
<1>. QED  BY <1>1, GoOnStep

LEMMA BindTypes ==
  ASSUME TypeInv, NEW c \in Creds, NEW S \in SUBSET Models, Bind(c, S)
  PROVE  listed' \in [Creds -> SUBSET Models] /\ marked' \in [Creds -> SUBSET Models]
<1>1. PICK after : after = [listed EXCEPT ![c] = S]  OBVIOUS
<1>2. PICK known : known = UNION {after[x] : x \in Creds}  OBVIOUS
<1>3. PICK kept : kept = IF listed[c] = {} THEN marked[c] ELSE marked[c] \ (listed[c] \cup S)
  OBVIOUS
<1>4. /\ listed' = after
      /\ marked' = [x \in Creds |-> (IF x = c THEN kept ELSE marked[x]) \cap known]
  BY <1>1, <1>2, <1>3 DEF Bind
<1>5. listed \in [Creds -> SUBSET Models] /\ marked \in [Creds -> SUBSET Models]
  BY DEF TypeInv
<1>6. after \in [Creds -> SUBSET Models]  BY <1>1, <1>5
<1>7. kept \in SUBSET Models  BY <1>3, <1>5
<1>8. \A x \in Creds : (IF x = c THEN kept ELSE marked[x]) \cap known \in SUBSET Models
  BY <1>5, <1>7
<1>. QED  BY <1>4, <1>6, <1>8

\* The operations that only look: their snapshot is what they go on with.
LEMMA StartKeeps ==
  ASSUME IInv, NEW p \in Procs, NEW c \in Creds,
         \/ BeginReset(p, c) \/ RefreshCatalog(p, c) \/ BeginRefresh(p, c)
         \/ \E d \in BOOLEAN : ServiceApply(p, c, d) \/ ManagementSetDisabled(p, c, d)
  PROVE  IInv'
<1>. HIDE DEF Auths, Followers, ListTasks
<1>1. c \in DOMAIN auths => auths[c] \in Auths  BY AuthTypes DEF IInv
<1>2. listed[c] \in SUBSET Models  BY DEF IInv, TypeInv
<1>3. ASSUME NEW t \in StoreTasks \cup ResetTasks  PROVE t \in Tasks /\ TaskOK(t)
  <2>1. t \in Tasks  BY DEF Tasks
  <2>2. t.op \in {"update", "refresh", "register", "reset"}  BY DEF StoreTasks, ResetTasks
  <2>. QED  BY <2>1, <2>2, OthersStand
<1>4. \A op \in {"update", "refresh", "register"}, a \in Auths, then \in {Idle} \cup ListTasks :
        [op |-> op, c |-> c, auth |-> a, then |-> then] \in StoreTasks
  BY DEF StoreTasks
<1>5. CASE BeginReset(p, c)
  <2>1. PICK t : t = [op |-> "reset", c |-> c, ms |-> listed[c]]  OBVIOUS
  <2>2. t \in ResetTasks  BY <1>2, <2>1 DEF ResetTasks
  <2>3. Finish(p, t) /\ UNCHANGED <<now, config, cool, auths, Scheduler, Registry, ver>>
    BY <1>5, <2>1 DEF BeginReset
  <2>. QED  BY <1>3, <2>2, <2>3, GoOnStep
<1>6. CASE RefreshCatalog(p, c)
  <2>1. PICK t : t = ListOne(c, auths[c], LookUp(c))  OBVIOUS
  <2>2. c \in DOMAIN auths /\ Finish(p, t)
        /\ UNCHANGED <<now, config, cool, auths, Scheduler, Registry, ver>>
    BY <1>6, <2>1 DEF RefreshCatalog
  <2>3. auths[c] \in Auths /\ LookUp(c) \in Tails  BY <1>1, <2>2, TailTasks
  <2>4. t \in ListTasks  BY <2>1, <2>3, ListOneFacts
  <2>5. t \in Followers  BY <2>4, Following
  <2>. QED  BY <2>2, <2>5, GoOnWith
<1>7. CASE BeginRefresh(p, c)
  <2>1. PICK t : t = [op |-> "refresh", c |-> c, then |-> Idle, auth |-> auths[c]]  OBVIOUS
  <2>2. c \in DOMAIN auths /\ Finish(p, t)
        /\ UNCHANGED <<now, config, cool, auths, Scheduler, Registry, ver>>
    BY <1>7, <2>1 DEF BeginRefresh
  <2>3. t = [op |-> "refresh", c |-> c, auth |-> auths[c], then |-> Idle]  BY <2>1
  <2>4. t \in StoreTasks  BY <1>1, <1>4, <2>2, <2>3
  <2>. QED  BY <1>3, <2>2, <2>4, GoOnStep
<1>8. ASSUME NEW d \in BOOLEAN, ManagementSetDisabled(p, c, d)  PROVE IInv'
  <2>1. PICK s : s = IF d THEN "disabled" ELSE "active"  OBVIOUS
  <2>2. PICK a : a = [auths[c] EXCEPT !.disabled = d, !.status = s]  OBVIOUS
  <2>3. PICK t : t = [op |-> "update", c |-> c, then |-> Idle, auth |-> a]  OBVIOUS
  <2>4. c \in DOMAIN auths /\ Finish(p, t)
        /\ UNCHANGED <<now, config, cool, auths, Scheduler, Registry, ver>>
    BY <1>8, <2>1, <2>2, <2>3 DEF ManagementSetDisabled
  <2>5. s \in Statuses  BY <2>1 DEF Statuses
  <2>6. a \in Auths  BY <1>1, <2>2, <2>4, <2>5, FlagFlipped
  <2>7. t = [op |-> "update", c |-> c, auth |-> a, then |-> Idle]  BY <2>3
  <2>8. t \in StoreTasks  BY <1>4, <2>6, <2>7
  <2>. QED  BY <1>3, <2>4, <2>8, GoOnStep
<1>9. ASSUME NEW d \in BOOLEAN, ServiceApply(p, c, d)  PROVE IInv'
  <2>1. PICK new : new = FreshAuth(d)  OBVIOUS
  <2>2. PICK then : then = ListOne(c, new, Sync(Idle))  OBVIOUS
  <2>3. new \in Auths  BY <2>1, Clean
  <2>4. then \in ListTasks
    <3>1. Sync(Idle) \in Tails  BY Following, TailTasks
    <3>. QED  BY <2>2, <2>3, <3>1, ListOneFacts
  <2>5. UNCHANGED <<now, config, cool, auths, Scheduler, Registry, ver>>
    BY <1>9 DEF ServiceApply
  <2>6. CASE c \in DOMAIN auths
    <3>1. PICK a : a = IF OutOfService(auths[c]) \/ d THEN new
                       ELSE [new EXCEPT !.states = auths[c].states]
      OBVIOUS
    <3>2. a \in Auths  BY <1>1, <2>3, <2>6, <3>1, StatesCarriedOver
    <3>3. PICK t : t = [op |-> "update", c |-> c, then |-> then, auth |-> a]  OBVIOUS
    <3>4. Finish(p, t)  BY <1>9, <2>1, <2>2, <2>6, <3>1, <3>3 DEF ServiceApply
    <3>5. t = [op |-> "update", c |-> c, auth |-> a, then |-> then]  BY <3>3
    <3>6. t \in StoreTasks  BY <1>4, <2>4, <3>2, <3>5
    <3>. QED  BY <1>3, <2>5, <3>4, <3>6, GoOnStep
  <2>7. CASE c \notin DOMAIN auths
    <3>1. PICK t : t = [op |-> "register", c |-> c, auth |-> new, then |-> then]  OBVIOUS
    <3>2. Finish(p, t)  BY <1>9, <2>1, <2>2, <2>7, <3>1 DEF ServiceApply
    <3>3. t \in StoreTasks  BY <1>4, <2>3, <2>4, <3>1
    <3>. QED  BY <1>3, <2>5, <3>2, <3>3, GoOnStep
  <2>. QED  BY <2>6, <2>7
<1>. QED  BY <1>5, <1>6, <1>7, <1>8, <1>9

LEMMA ServiceRemoveKeeps ==
  ASSUME IInv, NEW p \in Procs, NEW c \in Creds, ServiceRemove(p, c)
  PROVE  IInv'
<1>1. PICK t : t = [op |-> "drop", c |-> c]  OBVIOUS
<1>2. /\ Bind(c, {}) /\ Finish(p, t)
      /\ UNCHANGED <<now, config, cool, auths, Scheduler, ver>>
  BY <1>1 DEF ServiceRemove
<1>3. t \in Tasks /\ t.op = "drop"  BY <1>1 DEF Tasks, CredTasks
<1>4. TaskOK(t)  BY <1>3, OthersStand
<1>5. listed' \in [Creds -> SUBSET Models] /\ marked' \in [Creds -> SUBSET Models]
  BY <1>2, BindTypes DEF IInv
<1>. QED  BY <1>2, <1>3, <1>4, <1>5, NeutralStep DEF IInv, TypeInv

LEMMA SetConfigKeeps ==
  ASSUME IInv, NEW p \in Procs, NEW e \in BOOLEAN, SetConfig(p, e)
  PROVE  IInv'
<1>1. PICK t : t = [op |-> "sweep"]  OBVIOUS
<1>2. /\ cool' = e /\ config' = {p} /\ Finish(p, t)
      /\ UNCHANGED <<now, auths, Scheduler, Registry, ver>>
  BY <1>1 DEF SetConfig
<1>3. t \in Tasks /\ t.op = "sweep"  BY <1>1 DEF Tasks
<1>4. TaskOK(t)  BY <1>3, OthersStand
<1>. QED  BY <1>2, <1>3, <1>4, NeutralStep DEF IInv, TypeInv, Registry

\* The snapshot of every credential is as good as the number it carries.
LEMMA SyncSchedulerKeeps ==
  ASSUME IInv, NEW p \in Procs, SyncScheduler(p)
  PROVE  IInv'
<1>. HIDE DEF Auths, Clones
<1>1. PICK refs : refs = [c \in DOMAIN auths |-> Clone(auths[c], ver[c])]  OBVIOUS
<1>2. PICK vers : vers = ver  OBVIOUS
<1>3. PICK t : t = [op |-> "rebuild", vers |-> vers, refs |-> refs]  OBVIOUS
<1>4. Finish(p, t) /\ UNCHANGED <<now, config, cool, auths, Scheduler, Registry, ver>>
  BY <1>1, <1>2, <1>3 DEF SyncScheduler
<1>5. DOMAIN auths \subseteq Creds /\ vers \in [Creds -> Nat]
      /\ \A c \in DOMAIN auths : auths[c] \in Auths
  BY <1>2, AuthTypes DEF IInv, TypeInv
<1>6. DOMAIN refs = DOMAIN auths
      /\ \A c \in DOMAIN auths : /\ refs[c] \in Clones /\ refs[c].live = FALSE
                                 /\ refs[c].auth = auths[c] /\ refs[c].ver = vers[c]
  <2>1. \A c \in DOMAIN auths : vers[c] \in Nat  BY <1>5
  <2>2. \A c \in DOMAIN auths : refs[c] = Clone(auths[c], vers[c])  BY <1>1, <1>2
  <2>. QED  BY <1>1, <1>5, <2>1, <2>2, SnapshotFacts
<1>7. refs \in Maps(Creds, Clones)
  <2>1. refs \in [DOMAIN auths -> Clones]  BY <1>1, <1>6
  <2>. QED  BY <1>5, <2>1, AMap
<1>8. t \in Tasks /\ t.op = "rebuild" /\ t.vers = vers /\ t.refs = refs
  <2>1. t \in RebuildTasks  BY <1>3, <1>5, <1>7 DEF RebuildTasks
  <2>. QED  BY <1>3, <2>1 DEF Tasks
<1>9. TaskOK(t)
  <2>1. ASSUME NEW c \in Creds
        PROVE  /\ vers[c] <= ver[c]
               /\ vers[c] = ver[c] => (c \in DOMAIN refs <=> c \in DOMAIN auths)
               /\ c \in DOMAIN refs => refs[c].ver = vers[c] /\ RefOK(c, refs[c])
    <3>1. vers[c] = ver[c] /\ ver[c] \in Nat  BY <1>2, <1>5
    <3>2. c \in DOMAIN refs => refs[c].ver = vers[c] /\ RefOK(c, refs[c])
      BY <1>6, <3>1 DEF RefOK
    <3>. QED  BY <1>6, <3>1, <3>2
  <2>. QED  BY <1>8, <2>1 DEF TaskOK, RebuildOK
<1>. QED  BY <1>4, <1>8, <1>9, GoOnStep

\* What follows a task that holds no snapshot.
LEMMA GoesOn ==
  ASSUME IInv, NEW p \in Procs,
         \/ RefreshCancelled(p) \/ SyncPlugins(p) \/ ReadSupported(p) \/ FetchEveryEntry(p)
         \/ FetchEntry(p)
  PROVE  IInv'
<1>. HIDE DEF Auths, Followers, Registrations, ListTasks, FetchTasks, Tails, Refs
<1>1. PICK x : x = task[p]  OBVIOUS
<1>2. x \in Tasks  BY <1>1, TaskTypes DEF IInv
<1>3. DOMAIN auths \subseteq Creds /\ \A c \in DOMAIN auths : auths[c] \in Auths
  BY AuthTypes DEF IInv
<1>4. CASE RefreshCancelled(p)
  <2>1. Idle \in Followers  BY Following
  <2>. QED  BY <1>4, <2>1, GoOnWith DEF RefreshCancelled
<1>5. CASE SyncPlugins(p)
  <2>1. PICK todo : todo = [c \in DOMAIN auths |-> auths[c].disabled]  OBVIOUS
  <2>2. PICK then : then = FetchAll(x.then)  OBVIOUS
  <2>3. PICK t : t = ListModels(todo, then)  OBVIOUS
  <2>4. Finish(p, t) /\ UNCHANGED <<now, config, cool, auths, Scheduler, Registry, ver>>
    BY <1>1, <1>5, <2>1, <2>2, <2>3 DEF SyncPlugins
  <2>5. x.then \in Ends  BY <1>1, <1>2, <1>5, TaskKinds DEF SyncPlugins, Doing
  <2>6. then \in Tails  BY <2>2, <2>5, TailTasks
  <2>7. todo \in Maps(Creds, BOOLEAN)
    <3>1. \A c \in DOMAIN auths : auths[c].disabled \in BOOLEAN  BY <1>3 DEF Auths
    <3>2. todo \in [DOMAIN auths -> BOOLEAN]  BY <2>1, <3>1
    <3>. QED  BY <1>3, <3>2, AMap
  <2>8. t \in Followers
    <3>1. t \in Tails \cup ListTasks  BY <2>3, <2>6, <2>7, ListFacts
    <3>. QED  BY <3>1, Following
  <2>. QED  BY <2>4, <2>8, GoOnWith
<1>6. CASE ReadSupported(p)
  <2>1. PICK t : t = [op |-> "reconcile", c |-> x.c, ms |-> listed[x.c], then |-> x.then]
    OBVIOUS
  <2>2. Finish(p, t) /\ UNCHANGED <<now, config, cool, auths, Scheduler, Registry, ver>>
    BY <1>1, <1>6, <2>1 DEF ReadSupported
  <2>3. x.c \in Creds /\ x.then \in Registrations
    BY <1>1, <1>2, <1>6, TaskKinds DEF ReadSupported, Doing, ReadTasks
  <2>4. listed[x.c] \in SUBSET Models  BY <2>3 DEF IInv, TypeInv
  <2>5. t \in Tasks /\ t.op = "reconcile"
    <3>1. t \in ReconcileTasks  BY <2>1, <2>3, <2>4 DEF ReconcileTasks
    <3>. QED  BY <2>1, <3>1 DEF Tasks
  <2>6. TaskOK(t)  BY <2>5, OthersStand
  <2>. QED  BY <2>2, <2>5, <2>6, GoOnStep
<1>7. CASE FetchEveryEntry(p)
  <2>1. PICK t : t = Fetch(DOMAIN auths, x.then)  OBVIOUS
  <2>2. Finish(p, t) /\ UNCHANGED <<now, config, cool, auths, Scheduler, Registry, ver>>
    BY <1>1, <1>7, <2>1 DEF FetchEveryEntry
  <2>3. x.then \in Ends  BY <1>1, <1>2, <1>7, TaskKinds DEF FetchEveryEntry, Doing
  <2>4. t \in Followers
    <3>1. x.then \in Tails \cup ListTasks /\ DOMAIN auths \in SUBSET Creds  BY <1>3, <2>3, Following
    <3>2. t \in Registrations  BY <2>1, <3>1, FetchFacts
    <3>. QED  BY <3>2, Following
  <2>. QED  BY <2>2, <2>4, GoOnWith
<1>8. CASE FetchEntry(p)
  <2>1. x \in FetchTasks  BY <1>1, <1>2, <1>8, TaskKinds DEF FetchEntry, Doing
  <2>2. x.ids \in SUBSET Creds /\ x.then \in Tails \cup ListTasks
    BY <2>1 DEF FetchTasks
  <2>3. PICK c \in x.ids :
          Finish(p, IF c \in DOMAIN auths
                    THEN UpsertOne(c, Clone(auths[c], ver[c]), Fetch(x.ids \ {c}, x.then))
                    ELSE Fetch(x.ids \ {c}, x.then))
    BY <1>1, <1>8 DEF FetchEntry
  <2>4. UNCHANGED <<now, config, cool, auths, Scheduler, Registry, ver>>
    BY <1>8 DEF FetchEntry
  <2>5. PICK then : then = Fetch(x.ids \ {c}, x.then)  OBVIOUS
  <2>6. c \in Creds /\ then \in Followers
    <3>1. x.ids \ {c} \in SUBSET Creds  BY <2>2
    <3>2. then \in Registrations  BY <2>2, <2>5, <3>1, FetchFacts
    <3>. QED  BY <2>2, <3>2, Following
  <2>7. CASE c \in DOMAIN auths
    <3>1. PICK r : r = Clone(auths[c], ver[c])  OBVIOUS
    <3>2. PICK t : t = UpsertOne(c, r, then)  OBVIOUS
    <3>3. ver[c] \in Nat  BY <2>6 DEF IInv, TypeInv
    <3>4. r \in Refs /\ r.live = FALSE /\ r.auth = auths[c] /\ r.ver = ver[c]
      BY <1>3, <2>7, <3>1, <3>3, SnapshotFacts
    <3>5. RefOK(c, r)  BY <2>7, <3>3, <3>4 DEF RefOK
    <3>6. t \in Tasks /\ TaskOK(t)  BY <2>6, <3>2, <3>4, <3>5, UpsertOneStands
    <3>7. Finish(p, t)  BY <2>3, <2>5, <2>7, <3>1, <3>2
    <3>. QED  BY <2>4, <3>6, <3>7, GoOnStep
  <2>8. CASE c \notin DOMAIN auths
    <3>1. Finish(p, then)  BY <2>3, <2>5, <2>8
    <3>. QED  BY <2>4, <2>6, <3>1, GoOnWith
  <2>. QED  BY <2>7, <2>8
<1>. QED  BY <1>4, <1>5, <1>6, <1>7, <1>8

LEMMA LookUpAgainKeeps ==
  ASSUME IInv, NEW p \in Procs, LookUpAgain(p)
  PROVE  IInv'
<1>. HIDE DEF Auths, Followers, ListTasks
<1>1. PICK x : x = task[p]  OBVIOUS
<1>2. x.c \in Creds
  BY <1>1, TaskTypes, TaskKinds DEF LookUpAgain, Doing, IInv
<1>3. PICK c : c = x.c  OBVIOUS
<1>4. UNCHANGED <<now, config, cool, auths, Scheduler, Registry, ver>>  BY DEF LookUpAgain
<1>5. CASE c \in DOMAIN auths /\ ~auths[c].disabled
  <2>1. PICK t : t = ListOne(c, auths[c], Idle)  OBVIOUS
  <2>2. Finish(p, t)  BY <1>1, <1>3, <1>5, <2>1 DEF LookUpAgain
  <2>3. auths[c] \in Auths /\ Idle \in Tails  BY <1>5, AuthTypes, Following DEF IInv
  <2>4. t \in ListTasks  BY <1>2, <1>3, <2>1, <2>3, ListOneFacts
  <2>5. t \in Followers  BY <2>4, Following
  <2>. QED  BY <1>4, <2>2, <2>5, GoOnWith
<1>6. CASE ~(c \in DOMAIN auths /\ ~auths[c].disabled)
  <2>1. PICK t : t = [op |-> "unregister", c |-> c]  OBVIOUS
  <2>2. Finish(p, t)  BY <1>1, <1>3, <1>6, <2>1 DEF LookUpAgain
  <2>3. t \in Tasks /\ t.op = "unregister"  BY <1>2, <1>3, <2>1 DEF Tasks, CredTasks
  <2>4. TaskOK(t)  BY <2>3, OthersStand
  <2>. QED  BY <1>4, <2>2, <2>3, <2>4, GoOnStep
<1>. QED  BY <1>5, <1>6

\* The steps that touch the registry.
LEMMA RegistersKeep ==
  ASSUME IInv, NEW p \in Procs, RegisterModels(p) \/ Unregister(p)
  PROVE  IInv'
<1>. HIDE DEF Followers, Registrations, Tails, ListTasks
<1>1. PICK x : x = task[p]  OBVIOUS
<1>2. x \in Tasks  BY <1>1, TaskTypes DEF IInv
<1>3. CASE RegisterModels(p)
  <2>1. x \in ListTasks  BY <1>1, <1>2, <1>3, TaskKinds DEF RegisterModels, Doing
  <2>2. x.todo \in Maps(Creds, BOOLEAN) /\ x.then \in Tails  BY <2>1 DEF ListTasks
  <2>3. PICK c \in DOMAIN x.todo :
          /\ \E S \in SUBSET Models : (x.todo[c] => S = {}) /\ Bind(c, S)
          /\ Finish(p, [op |-> "supported", c |-> c,
                        then |-> AfterRegistration(c, x.todo, x.then)])
    BY <1>1, <1>3 DEF RegisterModels
  <2>4. UNCHANGED <<now, config, cool, auths, Scheduler, ver>>  BY <1>3 DEF RegisterModels
  <2>5. PICK then : then = AfterRegistration(c, x.todo, x.then)  OBVIOUS
  <2>6. PICK t : t = [op |-> "supported", c |-> c, then |-> then]  OBVIOUS
  <2>7. c \in Creds  BY <2>2, <2>3, MapFacts
  <2>8. then \in Registrations  BY <2>2, <2>5, <2>7, AfterRegistrationFacts
  <2>9. t \in Tasks /\ t.op = "supported"
    <3>1. t \in ReadTasks  BY <2>6, <2>7, <2>8 DEF ReadTasks
    <3>. QED  BY <2>6, <3>1 DEF Tasks
  <2>10. TaskOK(t)  BY <2>9, OthersStand
  <2>11. listed' \in [Creds -> SUBSET Models] /\ marked' \in [Creds -> SUBSET Models]
    BY <2>3, <2>7, BindTypes DEF IInv
  <2>12. Finish(p, t)  BY <2>3, <2>5, <2>6
  <2>. QED  BY <2>4, <2>9, <2>10, <2>11, <2>12, NeutralStep DEF IInv, TypeInv
<1>4. CASE Unregister(p)
  <2>1. x.c \in Creds
    BY <1>1, <1>2, <1>4, TaskKinds DEF Unregister, Doing, CredTasks
  <2>2. PICK c : c = x.c  OBVIOUS
  <2>3. PICK t : t = Fetch({c}, Idle)  OBVIOUS
  <2>4. /\ Bind(c, {}) /\ Finish(p, t)
        /\ UNCHANGED <<now, config, cool, auths, Scheduler, ver>>
    BY <1>1, <1>4, <2>2, <2>3 DEF Unregister
  <2>5. {c} \in SUBSET Creds /\ Idle \in Tails  BY <2>1, <2>2, Following
  <2>6. t \in Registrations  BY <2>3, <2>5, FetchFacts
  <2>7. t \in Followers  BY <2>6, Following
  <2>8. t \in Tasks /\ TaskOK(t)  BY <2>7, FollowersStand
  <2>9. listed' \in [Creds -> SUBSET Models] /\ marked' \in [Creds -> SUBSET Models]
    BY <2>1, <2>2, <2>4, BindTypes DEF IInv
  <2>. QED  BY <2>4, <2>8, <2>9, NeutralStep DEF IInv, TypeInv
<1>. QED  BY <1>3, <1>4

\* The registry forgets one suspension after the other; what is told next stays the same.
LEMMA ResumeModelsKeeps ==
  ASSUME IInv, NEW p \in Procs, ResumeModels(p)
  PROVE  IInv'
<1>. HIDE DEF Followers, Clones
<1>1. PICK x : x = task[p]  OBVIOUS
<1>2. x \in Tasks /\ x.op = "resume" /\ TaskOK(x)
  BY <1>1, TaskTypes DEF ResumeModels, Doing, IInv
<1>3. PICK then : then = x.then  OBVIOUS
<1>4. /\ x.c \in Creds /\ x.ms \in SUBSET Models /\ then \in Tasks /\ TaskOK(then)
      /\ \A S \in SUBSET Models :
           Resume(x.c, S, then) \in Tasks /\ TaskOK(Resume(x.c, S, then))
  <2>1. CASE x \in [op : {"resume"}, c : Creds, ms : SUBSET Models, then : {Idle}]
    <3>1. x.c \in Creds /\ x.ms \in SUBSET Models /\ then = Idle  BY <1>3, <2>1
    <3>2. Idle \in Tasks /\ TaskOK(Idle)  BY Following, FollowersStand
    <3>3. ASSUME NEW S \in SUBSET Models, NEW t, t = Resume(x.c, S, then)
          PROVE  t \in Tasks /\ TaskOK(t)
      <4>1. t \in Followers  BY <3>1, <3>3 DEF Resume, Followers
      <4>. QED  BY <4>1, FollowersStand
    <3>. QED  BY <3>1, <3>2, <3>3
  <2>2. CASE x \in ResumeTasks
    <3>1. /\ x.c \in Creds /\ x.ms \in SUBSET Models
          /\ then \in [op : {"upsert"}, refs : Maps(Creds, Clones), then : Followers]
      BY <1>3, <2>2 DEF ResumeTasks
    <3>2. then.op = "upsert" /\ UpsertOK(then)  BY <1>2, <1>3, <3>1 DEF TaskOK
    <3>3. then \in Tasks
      <4>1. /\ then.refs \in Maps(Creds, Refs) /\ then.then \in Followers
            /\ then = [op |-> "upsert", refs |-> then.refs, then |-> then.then]
        BY <3>1, ClonesAreRefs
      <4>2. then = Upsert(then.refs, then.then)  BY <4>1 DEF Upsert
      <4>3. Upsert(then.refs, then.then) \in Tasks  BY <4>1, UpsertFacts
      <4>. QED  BY <4>2, <4>3
    <3>4. ASSUME NEW S \in SUBSET Models, NEW t, t = Resume(x.c, S, then)
          PROVE  t \in Tasks /\ TaskOK(t)
      <4>1. t \in ResumeTasks  BY <3>1, <3>4 DEF Resume, ResumeTasks
      <4>2. t \in Tasks  BY <4>1 DEF Tasks
      <4>3. t.op = "resume" /\ t.then = then  BY <3>4 DEF Resume
      <4>. QED  BY <3>2, <4>2, <4>3 DEF TaskOK
    <3>5. TaskOK(then)  BY <3>2 DEF TaskOK
    <3>. QED  BY <3>1, <3>3, <3>4, <3>5
  <2>. QED  BY <1>2, <2>1, <2>2, TaskKinds
<1>5. UNCHANGED <<now, config, cool, auths, listed, Scheduler, ver>>  BY DEF ResumeModels
<1>6. marked \in [Creds -> SUBSET Models]  BY DEF IInv, TypeInv
<1>7. CASE x.ms = {}
  <2>1. Finish(p, then) /\ marked' = marked  BY <1>1, <1>3, <1>7 DEF ResumeModels
  <2>. QED  BY <1>4, <1>5, <2>1, NeutralStep DEF IInv, TypeInv
<1>8. CASE x.ms # {}
  <2>1. PICK m \in x.ms : /\ marked' = [marked EXCEPT ![x.c] = @ \ {m}]
                          /\ Finish(p, Resume(x.c, x.ms \ {m}, then))
    BY <1>1, <1>3, <1>8 DEF ResumeModels
  <2>2. PICK t : t = Resume(x.c, x.ms \ {m}, then)  OBVIOUS
  <2>3. x.ms \ {m} \in SUBSET Models  BY <1>4
  <2>4. t \in Tasks /\ TaskOK(t) /\ Finish(p, t)  BY <1>4, <2>1, <2>2, <2>3
  <2>5. marked' \in [Creds -> SUBSET Models]  BY <1>4, <1>6, <2>1
  <2>. QED  BY <1>5, <2>4, <2>5, NeutralStep DEF IInv, TypeInv
<1>. QED  BY <1>7, <1>8

LEMMA SuspendModelKeeps ==
  ASSUME IInv, NEW p \in Procs, SuspendModel(p)
  PROVE  IInv'
<1>1. PICK x : x = task[p]  OBVIOUS
<1>2. x.c \in Creds /\ x.m \in Models
  BY <1>1, TaskTypes, TaskKinds DEF SuspendModel, Doing, IInv
<1>3. /\ marked' = IF \E d \in Creds : x.m \in listed[d]
                   THEN [marked EXCEPT ![x.c] = @ \cup {x.m}] ELSE marked
      /\ Finish(p, Idle)
      /\ UNCHANGED <<now, config, cool, auths, listed, Scheduler, ver>>
  BY <1>1 DEF SuspendModel
<1>4. Idle \in Tasks /\ TaskOK(Idle)  BY Following, FollowersStand
<1>5. marked' \in [Creds -> SUBSET Models]
  <2>1. marked \in [Creds -> SUBSET Models]  BY DEF IInv, TypeInv
  <2>2. [marked EXCEPT ![x.c] = @ \cup {x.m}] \in [Creds -> SUBSET Models]  BY <1>2, <2>1
  <2>. QED  BY <1>3, <2>1, <2>2
<1>. QED  BY <1>3, <1>4, <1>5, NeutralStep DEF IInv, TypeInv

LEMMA EndConfigKeeps ==
  ASSUME IInv, NEW p \in Procs, EndConfig(p)
  PROVE  IInv'
<1>1. /\ config' = {} /\ Finish(p, Idle)
      /\ UNCHANGED <<now, cool, auths, Scheduler, Registry, ver>>
  BY DEF EndConfig
<1>2. Idle \in Tasks /\ TaskOK(Idle)  BY Following, FollowersStand
<1>. QED  BY <1>1, <1>2, NeutralStep DEF IInv, TypeInv, Registry

-----------------------------------------------------------------------------
(* The invariant.                                                            *)

LEMMA InitHolds == Init => IInv
<1>. SUFFICES ASSUME Init  PROVE IInv
  OBVIOUS
<1>1. TypeInv
  <2>1. Idle \in Tasks  BY Following
  <2>2. /\ Empty \in Maps(Creds, Auths) /\ Empty \in Maps(Creds, Metas)
        /\ Empty \in Maps(Models, Maps(Creds, Entry))
    BY EmptyMap
  <2>. QED  BY <2>1, <2>2 DEF Init, TypeInv
<1>2. \A p \in Procs : TaskOK(task[p])
  <2>1. TaskOK(Idle)  BY Following, FollowersStand
  <2>. QED  BY <2>1 DEF Init
<1>3. DOMAIN auths = {} /\ DOMAIN meta = {} /\ DOMAIN shard = {}  BY EmptyMap DEF Init
<1>4. ShardsFit /\ LiveMeta  BY <1>3 DEF ShardsFit, LiveMeta
<1>5. \A c \in Creds : Agrees(c)  BY <1>3 DEF Agrees, UpToDate, Init
<1>. QED  BY <1>1, <1>2, <1>4, <1>5 DEF IInv

LEMMA StutterKeeps ==
  ASSUME IInv, UNCHANGED vars
  PROVE  IInv'
<1>1. UNCHANGED <<now, cool, auths, listed, marked, meta, shard, task, config, ver, applied>>
  BY DEF vars
<1>2. TypeInv'  BY <1>1 DEF IInv, TypeInv
<1>3. \A q \in Procs : TaskOK(task[q])'
  BY <1>1 DEF IInv, TaskOK, UpsertOK, RebuildOK, RemoveOK, RefOK
<1>4. ShardsFit' /\ LiveMeta'  BY <1>1 DEF IInv, ShardsFit, LiveMeta
<1>5. \A c \in Creds : Agrees(c)'
  BY <1>1 DEF IInv, Agrees, UpToDate, Deref
<1>. QED  BY <1>2, <1>3, <1>4, <1>5 DEF IInv

LEMMA NextKeeps == IInv /\ [Next]_vars => IInv'
<1>. SUFFICES ASSUME IInv, [Next]_vars  PROVE IInv'
  OBVIOUS
<1>1. CASE Tick  BY <1>1, TickKeeps
<1>2. ASSUME NEW m \in Models, Pick(m)  PROVE IInv'
  BY <1>2, PickKeeps
<1>3. ASSUME NEW p \in Procs, Start(p)  PROVE IInv'
  <2>1. ASSUME NEW c \in Creds, NEW m \in Models, MarkSuccess(p, c, m)  PROVE IInv'
    BY <2>1, MarkSuccessKeeps
  <2>2. ASSUME NEW c \in Creds, NEW m \in Models, NEW k \in Kinds, NEW ra \in RetryAfters,
               MarkFailure(p, c, m, k, ra)
        PROVE  IInv'
    BY <2>2, MarkFailureKeeps
  <2>3. ASSUME NEW c \in Creds, BeginReset(p, c) \/ RefreshCatalog(p, c)  PROVE IInv'
    BY <2>3, StartKeeps
  <2>4. ASSUME NEW c \in Creds, NEW d \in BOOLEAN,
               ServiceApply(p, c, d) \/ ManagementSetDisabled(p, c, d)
        PROVE  IInv'
    BY <2>4, StartKeeps
  <2>5. ASSUME NEW c \in Creds, BeginRefresh(p, c)  PROVE IInv'
    BY <2>5, StartKeeps
  <2>6. ASSUME NEW c \in Creds, ServiceRemove(p, c)  PROVE IInv'
    BY <2>6, ServiceRemoveKeeps
  <2>7. ASSUME NEW e \in BOOLEAN, SetConfig(p, e)  PROVE IInv'
    BY <2>7, SetConfigKeeps
  <2>8. CASE SyncScheduler(p)  BY <2>8, SyncSchedulerKeeps
  <2>. QED  BY <1>3, <2>1, <2>2, <2>3, <2>4, <2>5, <2>6, <2>7, <2>8 DEF Start
<1>4. ASSUME NEW p \in Procs, Continue(p)  PROVE IInv'
  <2>1. ASSUME NEW rejected \in BOOLEAN, RefreshFails(p, rejected)  PROVE IInv'
    BY <2>1, RefreshFailsKeeps
  <2>2. ASSUME NEW saved \in BOOLEAN, ResetQuota(p, saved)  PROVE IInv'
    BY <2>2, ResetQuotaKeeps
  <2>3. CASE ApplyUpsert(p)  BY <2>3, ApplyUpsertKeeps
  <2>4. CASE Rebuild(p)  BY <2>4, RebuildKeeps
  <2>5. CASE Update(p)  BY <2>5, UpdateKeeps
  <2>6. CASE Register(p)  BY <2>6, RegisterKeeps
  <2>7. CASE RefreshCancelled(p) \/ SyncPlugins(p) \/ ReadSupported(p) \/ FetchEveryEntry(p)
             \/ FetchEntry(p)
    BY <2>7, GoesOn
  <2>8. CASE RegisterModels(p) \/ Unregister(p)  BY <2>8, RegistersKeep
  <2>9. CASE LookUpAgain(p)  BY <2>9, LookUpAgainKeeps
  <2>10. CASE ReconcileModelStates(p)  BY <2>10, ReconcileModelStatesKeeps
  <2>11. CASE Remove(p)  BY <2>11, RemoveKeeps
  <2>12. CASE RemoveEntry(p)  BY <2>12, RemoveEntryKeeps
  <2>13. CASE ResumeModels(p)  BY <2>13, ResumeModelsKeeps
  <2>14. CASE SuspendModel(p)  BY <2>14, SuspendModelKeeps
  <2>15. CASE SweepConfig(p)  BY <2>15, SweepConfigKeeps
  <2>16. CASE EndConfig(p)  BY <2>16, EndConfigKeeps
  <2>. QED  BY <1>4, <2>1, <2>2, <2>3, <2>4, <2>5, <2>6, <2>7, <2>8, <2>9, <2>10, <2>11,
               <2>12, <2>13, <2>14, <2>15, <2>16 DEF Continue
<1>5. CASE UNCHANGED vars  BY <1>5, StutterKeeps
<1>. QED  BY <1>1, <1>2, <1>3, <1>4, <1>5 DEF Next

LEMMA InvariantHolds == Spec => []IInv
BY InitHolds, NextKeeps, PTL DEF Spec

\* Every variable keeps its shape: in particular the snapshots in flight are of
\* credentials, and a task is followed by what the code can do after it.
THEOREM TypesHold == Spec => []TypeOK
<1>1. IInv => TypeOK  BY TypeInvImpliesTypeOK DEF IInv
<1>. QED  BY <1>1, InvariantHolds, PTL

\* However the snapshots overtake each other on their way to the scheduler, once the one
\* it applied last is of the credential's last change its entries are what the Manager
\* says: scheduled iff registered and enabled, and ready only where selection may use it.
THEOREM SchedulerAgrees == Spec => []VersionAgreement
<1>1. ASSUME IInv  PROVE VersionAgreement
  <2>1. ASSUME NEW c \in Creds, applied[c] = ver[c]
        PROVE  /\ c \in DOMAIN meta <=> (c \in DOMAIN auths /\ ~auths[c].disabled)
               /\ \A m \in DOMAIN shard :
                    /\ c \in DOMAIN shard[m] <=> (c \in DOMAIN meta /\ m \in meta[c].supported)
                    /\ c \in DOMAIN shard[m] /\ shard[m][c].state = "ready"
                         => ~Blocked(auths[c], m, now)
    BY <1>1, <2>1 DEF IInv, Agrees, UpToDate, ShardsFit
  <2>. QED  BY <2>1 DEF VersionAgreement
<1>2. IInv => VersionAgreement  BY <1>1
<1>. QED  BY <1>2, InvariantHolds, PTL

-----------------------------------------------------------------------------
(* Who touches the Manager's map: only Register adds an id, and once a sweep  *)
(* for a configuration without cooling is over no change leaves a cooldown.   *)

NobodySweeps == \A p \in Procs : ~Doing(p, "sweep")
Swept        == ~cool /\ NobodySweeps => \A c \in DOMAIN auths : Cooled(auths[c])

OnlyRegisterAdds ==
  \A c \in Creds : c \notin DOMAIN auths /\ c \in DOMAIN auths'
    => \E p \in Procs : Doing(p, "register") /\ task[p].c = c

\* A goroutine that does not sweep goes on, the others keep at what they do.
OthersKeepAt(p) ==
  task[p].op # "sweep" /\ \A q \in Procs \ {p} : task'[q].op = task[q].op

LEMMA SweptStays ==
  ASSUME Swept, NEW p \in Procs, OthersKeepAt(p), cool' = cool,
         ~cool /\ (\A c \in DOMAIN auths : Cooled(auths[c]))
           => \A c \in DOMAIN auths' : Cooled(auths'[c])
  PROVE  Swept'
<1>1. NobodySweeps' => NobodySweeps  BY DEF OthersKeepAt, NobodySweeps, Doing
<1>2. (\A c \in DOMAIN auths' : Cooled(auths'[c])) <=> (\A c \in DOMAIN auths : Cooled(auths[c]))'
  BY DEF Cooled, Tracked
<1>. QED  BY <1>1, <1>2 DEF Swept

LEMMA FinishKeepsAt ==
  ASSUME TypeInv, NEW p \in Procs, NEW t, Finish(p, t), task[p].op # "sweep"
  PROVE  OthersKeepAt(p)
<1>1. task \in [Procs -> Tasks] /\ task' = [task EXCEPT ![p] = t]  BY DEF TypeInv, Finish
<1>. QED  BY <1>1 DEF OthersKeepAt

LEMMA SweptByQuiet ==
  ASSUME TypeInv, Swept, NEW p \in Procs, NEW t, Finish(p, t), task[p].op # "sweep",
         UNCHANGED <<auths, cool>>
  PROVE  Swept' /\ OnlyRegisterAdds
<1>1. OthersKeepAt(p)  BY FinishKeepsAt
<1>2. Swept'  BY <1>1, SweptStays
<1>3. OnlyRegisterAdds  BY DEF OnlyRegisterAdds
<1>. QED  BY <1>2, <1>3

LEMMA SweptByChange ==
  ASSUME TypeInv, Swept, NEW p \in Procs, NEW c \in DOMAIN auths, NEW a \in Auths, NEW t,
         Change(p, c, a, t), task[p].op # "sweep", cool' = cool,
         ~cool /\ Cooled(auths[c]) => Cooled(a)
  PROVE  Swept' /\ OnlyRegisterAdds
<1>. HIDE DEF Auths
<1>1. OthersKeepAt(p)  BY FinishKeepsAt DEF Change
<1>2. /\ auths'[c] = a /\ DOMAIN auths' = DOMAIN auths /\ DOMAIN auths \subseteq Creds
      /\ \A d \in Creds \ {c} : d \in DOMAIN auths => auths'[d] = auths[d]
  BY ChangeFacts, AuthTypes
<1>3. Swept'
  <2>1. ASSUME ~cool, \A d \in DOMAIN auths : Cooled(auths[d]), NEW d \in DOMAIN auths'
        PROVE  Cooled(auths'[d])
    BY <1>2, <2>1 DEF Cooled, Tracked
  <2>. QED  BY <1>1, <2>1, SweptStays
<1>4. OnlyRegisterAdds  BY <1>2 DEF OnlyRegisterAdds
<1>. QED  BY <1>3, <1>4

LEMMA SweptByStore ==
  ASSUME TypeInv, Swept, NEW p \in Procs, NEW c \in Creds, NEW a, NEW t,
         Store(p, c, a, t), task[p].op # "sweep", cool' = cool, ~cool => Cooled(a),
         c \in DOMAIN auths \/ (Doing(p, "register") /\ task[p].c = c)
  PROVE  Swept' /\ OnlyRegisterAdds
<1>1. auths' = With(auths, c, a)
      /\ \A q \in Procs \ {p} :
           task'[q] = IF c \in DOMAIN auths THEN FreezeTask(task[q], c) ELSE task[q]
  BY DEF Store
<1>2. /\ DOMAIN auths' = DOMAIN auths \cup {c} /\ auths'[c] = a
      /\ \A d \in DOMAIN auths \ {c} : auths'[d] = auths[d]
  BY <1>1 DEF With
<1>3. OthersKeepAt(p)
  <2>1. ASSUME NEW q \in Procs \ {p}  PROVE task'[q].op = task[q].op
    <3>1. task[q] \in Tasks  BY TaskTypes
    <3>2. c \in DOMAIN auths => FreezeTask(task[q], c).op = task[q].op
      BY <3>1, FreezeTaskFacts
    <3>. QED  BY <1>1, <3>2
  <2>. QED  BY <2>1 DEF OthersKeepAt
<1>4. Swept'
  <2>1. ASSUME ~cool, \A d \in DOMAIN auths : Cooled(auths[d]), NEW d \in DOMAIN auths'
        PROVE  Cooled(auths'[d])
    BY <1>2, <2>1 DEF Cooled, Tracked
  <2>. QED  BY <1>3, <2>1, SweptStays
<1>5. OnlyRegisterAdds  BY <1>2 DEF OnlyRegisterAdds
<1>. QED  BY <1>4, <1>5

LEMMA SweptByRemove ==
  ASSUME TypeInv, Swept, NEW p \in Procs, Remove(p)
  PROVE  Swept' /\ OnlyRegisterAdds
<1>1. PICK c : c = task[p].c  OBVIOUS
<1>2. task[p].op # "sweep" /\ cool' = cool  BY DEF Remove, Doing
<1>3. CASE c \notin DOMAIN auths
  <2>1. Finish(p, Sync(Idle)) /\ UNCHANGED auths  BY <1>1, <1>3 DEF Remove
  <2>. QED  BY <1>2, <2>1, SweptByQuiet
<1>4. CASE c \in DOMAIN auths
  <2>1. auths' = Without(auths, c)
        /\ \A q \in Procs \ {p} : task'[q] = FreezeTask(task[q], c)
    BY <1>1, <1>4 DEF Remove
  <2>2. /\ DOMAIN auths' = DOMAIN auths \ {c}
        /\ \A d \in DOMAIN auths \ {c} : auths'[d] = auths[d]
    BY <2>1 DEF Without
  <2>3. OthersKeepAt(p)
    <3>1. ASSUME NEW q \in Procs \ {p}  PROVE task'[q].op = task[q].op
      <4>1. task[q] \in Tasks  BY TaskTypes
      <4>. QED  BY <1>4, <2>1, <4>1, FreezeTaskFacts
    <3>. QED  BY <1>2, <3>1 DEF OthersKeepAt
  <2>4. Swept'
    <3>1. ASSUME ~cool, \A d \in DOMAIN auths : Cooled(auths[d]), NEW d \in DOMAIN auths'
          PROVE  Cooled(auths'[d])
      BY <2>2, <3>1 DEF Cooled, Tracked
    <3>. QED  BY <1>2, <2>3, <3>1, SweptStays
  <2>5. OnlyRegisterAdds  BY <2>2 DEF OnlyRegisterAdds
  <2>. QED  BY <2>4, <2>5
<1>. QED  BY <1>3, <1>4

\* The sweep: a credential that is not swept holds no cooldown.
LEMMA SweptBySweep ==
  ASSUME TypeInv, NEW p \in Procs, SweepConfig(p)
  PROVE  Swept' /\ OnlyRegisterAdds
<1>1. PICK S : S = {c \in DOMAIN auths : Sweeps(c)}  OBVIOUS
<1>2. /\ auths' = [c \in DOMAIN auths |-> IF c \in S THEN ClearCooldown(auths[c], now)
                                                    ELSE auths[c]]
      /\ cool' = cool
  BY <1>1 DEF SweepConfig
<1>3. DOMAIN auths' = DOMAIN auths /\ \A c \in DOMAIN auths : auths[c] \in Auths
  BY <1>2, AuthTypes
<1>4. ASSUME ~cool, NEW c \in DOMAIN auths  PROVE Cooled(auths'[c])
  <2>1. now \in Nat /\ auths[c] \in Auths  BY <1>3 DEF TypeInv
  <2>2. CASE c \in S
    <3>1. auths'[c] = ClearCooldown(auths[c], now)  BY <1>2, <2>2
    <3>2. Cooled(ClearCooldown(auths[c], now))  BY <2>1, ClearFacts
    <3>. QED  BY <3>1, <3>2 DEF Cooled, Tracked
  <2>3. CASE c \notin S
    <3>1. auths'[c] = auths[c]  BY <1>2, <2>3
    <3>2. ~HoldsCooldown(auths[c])  BY <1>1, <1>4, <2>3 DEF Sweeps
    <3>3. Cooled(auths[c])  BY <3>2 DEF Cooled, HoldsCooldown, Holds
    <3>. QED  BY <3>1, <3>3 DEF Cooled, Tracked
  <2>. QED  BY <2>2, <2>3
<1>5. Swept'  BY <1>2, <1>3, <1>4 DEF Swept, Cooled, Tracked
<1>6. OnlyRegisterAdds  BY <1>3 DEF OnlyRegisterAdds
<1>. QED  BY <1>5, <1>6

\* Every step of an operation that has begun, and of one that begins.
LEMMA SweptByStart ==
  ASSUME TypeInv, Swept, NEW p \in Procs, Start(p)
  PROVE  Swept' /\ OnlyRegisterAdds
<1>. HIDE DEF Auths
<1>1. task[p].op # "sweep"
  <2>1. Starts(p)
    <3>1. ASSUME NEW c, NEW m, MarkSuccess(p, c, m)  PROVE Starts(p)
      BY <3>1 DEF MarkSuccess
    <3>2. ASSUME NEW c, NEW m, NEW k, NEW ra, MarkFailure(p, c, m, k, ra)  PROVE Starts(p)
      BY <3>2 DEF MarkFailure
    <3>3. ASSUME NEW c,
                 \/ BeginReset(p, c) \/ RefreshCatalog(p, c) \/ BeginRefresh(p, c)
                 \/ ServiceRemove(p, c)
          PROVE  Starts(p)
      BY <3>3 DEF BeginReset, RefreshCatalog, BeginRefresh, ServiceRemove
    <3>4. ASSUME NEW c, NEW d, ServiceApply(p, c, d) \/ ManagementSetDisabled(p, c, d)
          PROVE  Starts(p)
      BY <3>4 DEF ServiceApply, ManagementSetDisabled
    <3>5. ASSUME NEW e, SetConfig(p, e)  PROVE Starts(p)
      BY <3>5 DEF SetConfig
    <3>6. SyncScheduler(p) => Starts(p)  BY DEF SyncScheduler
    <3>. QED  BY <3>1, <3>2, <3>3, <3>4, <3>5, <3>6 DEF Start
  <2>. QED  BY <2>1 DEF Starts, Idle
<1>2. now \in Nat /\ cool \in BOOLEAN  BY DEF TypeInv
<1>3. ASSUME NEW c \in Creds, NEW m \in Models, MarkSuccess(p, c, m)
      PROVE  Swept' /\ OnlyRegisterAdds
  <2>1. PICK a : a = Succeed(auths[c], m, now)  OBVIOUS
  <2>2. PICK t : t = UpsertOne(c, Clone(a, ver[c] + 1), Resume(c, {m}, Idle))  OBVIOUS
  <2>3. c \in DOMAIN auths /\ Change(p, c, a, t) /\ cool' = cool
    BY <1>3, <2>1, <2>2 DEF MarkSuccess
  <2>4. a \in Auths /\ (Cooled(auths[c]) => Cooled(a))
    BY <1>2, <2>1, <2>3, AuthTypes, SucceedFacts
  <2>. QED  BY <1>1, <2>3, <2>4, SweptByChange
<1>4. ASSUME NEW c \in Creds, NEW m \in Models, NEW kind \in Kinds, NEW ra \in RetryAfters,
             MarkFailure(p, c, m, kind, ra)
      PROVE  Swept' /\ OnlyRegisterAdds
  <2>1. PICK a : a = Fail(auths[c], m, kind, ra, cool, now)  OBVIOUS
  <2>2. PICK t : t = UpsertOne(c, Clone(a, ver[c] + 1),
                       IF Suspends(kind) THEN Suspend(c, m) ELSE Idle)
    OBVIOUS
  <2>3. c \in DOMAIN auths /\ Change(p, c, a, t) /\ cool' = cool
    BY <1>4, <2>1, <2>2 DEF MarkFailure
  <2>4. a \in Auths /\ (~cool /\ Cooled(auths[c]) => Cooled(a))
    BY <1>2, <2>1, <2>3, AuthTypes, Constants, FailFacts
  <2>. QED  BY <1>1, <2>3, <2>4, SweptByChange
<1>5. ASSUME NEW e \in BOOLEAN, SetConfig(p, e)  PROVE Swept' /\ OnlyRegisterAdds
  <2>1. task' = [task EXCEPT ![p] = [op |-> "sweep"]] /\ auths' = auths
    BY <1>5 DEF SetConfig, Finish
  <2>2. task'[p].op = "sweep"  BY <2>1 DEF TypeInv
  <2>3. ~NobodySweeps'  BY <2>2 DEF NobodySweeps, Doing
  <2>. QED  BY <2>1, <2>3 DEF Swept, OnlyRegisterAdds
<1>6. ASSUME \/ \E c \in Creds : BeginReset(p, c) \/ RefreshCatalog(p, c)
             \/ \E c \in Creds, d \in BOOLEAN : ServiceApply(p, c, d)
             \/ \E c \in Creds, d \in BOOLEAN : ManagementSetDisabled(p, c, d)
             \/ \E c \in Creds : BeginRefresh(p, c) \/ ServiceRemove(p, c)
             \/ SyncScheduler(p)
      PROVE  Swept' /\ OnlyRegisterAdds
  <2>1. (\E t : Finish(p, t)) /\ UNCHANGED <<auths, cool>>
    <3>1. ASSUME NEW c \in Creds, BeginReset(p, c) \/ RefreshCatalog(p, c)
          PROVE  (\E t : Finish(p, t)) /\ UNCHANGED <<auths, cool>>
      BY <3>1 DEF BeginReset, RefreshCatalog
    <3>2. ASSUME NEW c \in Creds, NEW d \in BOOLEAN,
                 ServiceApply(p, c, d) \/ ManagementSetDisabled(p, c, d)
          PROVE  (\E t : Finish(p, t)) /\ UNCHANGED <<auths, cool>>
      <4>1. CASE ServiceApply(p, c, d)
        <5>1. UNCHANGED <<auths, cool>>  BY <4>1 DEF ServiceApply
        <5>2. \E t : Finish(p, t)
          <6>1. CASE c \in DOMAIN auths  BY <4>1, <6>1 DEF ServiceApply
          <6>2. CASE c \notin DOMAIN auths  BY <4>1, <6>2 DEF ServiceApply
          <6>. QED  BY <6>1, <6>2
        <5>. QED  BY <5>1, <5>2
      <4>2. CASE ManagementSetDisabled(p, c, d)  BY <4>2 DEF ManagementSetDisabled
      <4>. QED  BY <3>2, <4>1, <4>2
    <3>3. ASSUME NEW c \in Creds, BeginRefresh(p, c) \/ ServiceRemove(p, c)
          PROVE  (\E t : Finish(p, t)) /\ UNCHANGED <<auths, cool>>
      BY <3>3 DEF BeginRefresh, ServiceRemove
    <3>4. CASE SyncScheduler(p)  BY <3>4 DEF SyncScheduler
    <3>. QED  BY <1>6, <3>1, <3>2, <3>3, <3>4
  <2>. QED  BY <1>1, <2>1, SweptByQuiet
<1>. QED  BY <1>3, <1>4, <1>5, <1>6 DEF Start

LEMMA SweptByContinue ==
  ASSUME TypeInv, Swept, NEW p \in Procs, Continue(p)
  PROVE  Swept' /\ OnlyRegisterAdds
<1>. HIDE DEF Auths, Tails, Registrations, ListTasks, Followers
<1>1. PICK x : x = task[p]  OBVIOUS
<1>2. x \in Tasks  BY <1>1, TaskTypes
<1>3. now \in Nat /\ cool \in BOOLEAN  BY DEF TypeInv
<1>4. \A c \in DOMAIN auths : auths[c] \in Auths /\ c \in Creds  BY AuthTypes
<1>5. CASE Update(p)
  <2>1. x.op \in {"update", "refresh"} /\ cool' = cool  BY <1>1, <1>5 DEF Update
  <2>2. x.c \in Creds /\ x.auth \in Auths
    <3>1. x \in StoreTasks  BY <1>2, <2>1, TaskKinds
    <3>. QED  BY <3>1 DEF StoreTasks
  <2>3. PICK c : c = x.c  OBVIOUS
  <2>4. CASE c \in DOMAIN auths
    <3>1. PICK a : a = Merge(auths[c], x.auth, cool, now)  OBVIOUS
    <3>2. PICK t : t = UpsertOne(c, LiveRef, x.then)  OBVIOUS
    <3>3. Store(p, c, a, t)  BY <1>1, <1>5, <2>3, <2>4, <3>1, <3>2 DEF Update
    <3>4. ~cool => Cooled(a)  BY <1>3, <1>4, <2>2, <2>4, <3>1, MergeFacts
    <3>. QED  BY <1>1, <2>1, <2>2, <2>3, <2>4, <3>3, <3>4, SweptByStore
  <2>5. CASE c \notin DOMAIN auths
    <3>1. PICK t : t = x.then  OBVIOUS
    <3>2. Finish(p, t) /\ UNCHANGED auths  BY <1>1, <1>5, <2>3, <2>5, <3>1 DEF Update
    <3>. QED  BY <1>1, <2>1, <3>2, SweptByQuiet
  <2>. QED  BY <2>4, <2>5
<1>6. CASE Register(p)
  <2>1. x.op = "register" /\ cool' = cool  BY <1>1, <1>6 DEF Register, Doing
  <2>2. x.c \in Creds /\ x.auth \in Auths
    <3>1. x \in StoreTasks  BY <1>2, <2>1, TaskKinds
    <3>. QED  BY <3>1 DEF StoreTasks
  <2>3. PICK c : c = x.c  OBVIOUS
  <2>4. PICK a : a = Admit(x.auth, cool, now)  OBVIOUS
  <2>5. PICK t : t = UpsertOne(c, LiveRef, x.then)  OBVIOUS
  <2>6. Store(p, c, a, t)  BY <1>1, <1>6, <2>3, <2>4, <2>5 DEF Register
  <2>7. ~cool => Cooled(a)  BY <1>3, <2>2, <2>4, MergeFacts
  <2>8. Doing(p, "register") /\ task[p].c = c  BY <1>1, <2>1, <2>3 DEF Doing
  <2>. QED  BY <1>1, <2>1, <2>2, <2>3, <2>6, <2>7, <2>8, SweptByStore
<1>7. ASSUME NEW rejected \in BOOLEAN, RefreshFails(p, rejected)
      PROVE  Swept' /\ OnlyRegisterAdds
  <2>1. x.op = "refresh" /\ cool' = cool  BY <1>1, <1>7 DEF RefreshFails, Doing
  <2>2. PICK c : c = x.c  OBVIOUS
  <2>3. CASE c \in DOMAIN auths
    <3>1. PICK a : a = RefreshFailed(auths[c], rejected)  OBVIOUS
    <3>2. Change(p, c, a, Idle)  BY <1>1, <1>7, <2>2, <2>3, <3>1 DEF RefreshFails
    <3>3. a \in Auths /\ (Cooled(auths[c]) => Cooled(a))
      BY <1>4, <2>3, <3>1, RefreshFailedFacts
    <3>. QED  BY <1>1, <2>1, <2>3, <3>2, <3>3, SweptByChange
  <2>4. CASE c \notin DOMAIN auths
    <3>1. Finish(p, Idle) /\ UNCHANGED auths  BY <1>1, <1>7, <2>2, <2>4 DEF RefreshFails
    <3>. QED  BY <1>1, <2>1, <3>1, SweptByQuiet
  <2>. QED  BY <2>3, <2>4
<1>8. ASSUME NEW saved \in BOOLEAN, ResetQuota(p, saved)
      PROVE  Swept' /\ OnlyRegisterAdds
  <2>1. x.op = "reset" /\ cool' = cool  BY <1>1, <1>8 DEF ResetQuota, Doing
  <2>2. PICK c : c = x.c  OBVIOUS
  <2>3. CASE c \in DOMAIN auths
    <3>1. PICK a : a = Reset(auths[c], now)  OBVIOUS
    <3>2. \E t : Change(p, c, a, t)  BY <1>1, <1>8, <2>2, <2>3, <3>1 DEF ResetQuota
    <3>3. a \in Auths /\ Cooled(a)  BY <1>3, <1>4, <2>3, <3>1, ResetFacts
    <3>. QED  BY <1>1, <2>1, <2>3, <3>2, <3>3, SweptByChange
  <2>4. CASE c \notin DOMAIN auths
    <3>1. Finish(p, Idle) /\ UNCHANGED auths  BY <1>1, <1>8, <2>2, <2>4 DEF ResetQuota
    <3>. QED  BY <1>1, <2>1, <3>1, SweptByQuiet
  <2>. QED  BY <2>3, <2>4
<1>9. CASE ReconcileModelStates(p)
  <2>1. x.op = "reconcile" /\ cool' = cool  BY <1>1, <1>9 DEF ReconcileModelStates, Doing
  <2>2. PICK c : c = x.c  OBVIOUS
  <2>3. CASE c \in DOMAIN auths /\ NeedsReconcile(auths[c], x.ms)
    <3>1. PICK a : a = Reconcile(auths[c], x.ms, now)  OBVIOUS
    <3>2. \E t : Change(p, c, a, t)
      BY <1>1, <1>9, <2>2, <2>3, <3>1 DEF ReconcileModelStates
    <3>3. a \in Auths /\ (Cooled(auths[c]) => Cooled(a))
      BY <1>3, <1>4, <2>3, <3>1, ReconcileFacts
    <3>. QED  BY <1>1, <2>1, <2>3, <3>2, <3>3, SweptByChange
  <2>4. CASE ~(c \in DOMAIN auths /\ NeedsReconcile(auths[c], x.ms))
    <3>1. Finish(p, x.then) /\ UNCHANGED auths
      BY <1>1, <1>9, <2>2, <2>4 DEF ReconcileModelStates
    <3>. QED  BY <1>1, <2>1, <3>1, SweptByQuiet
  <2>. QED  BY <2>3, <2>4
<1>10. CASE Remove(p)  BY <1>10, SweptByRemove
<1>11. CASE SweepConfig(p)  BY <1>11, SweptBySweep
<1>12. CASE \/ ApplyUpsert(p) \/ Rebuild(p) \/ RefreshCancelled(p) \/ SyncPlugins(p)
            \/ RegisterModels(p) \/ ReadSupported(p) \/ LookUpAgain(p) \/ Unregister(p)
            \/ FetchEveryEntry(p) \/ FetchEntry(p) \/ RemoveEntry(p) \/ ResumeModels(p)
            \/ SuspendModel(p) \/ EndConfig(p)
  <2>1. task[p].op # "sweep" /\ UNCHANGED <<auths, cool>>
    BY <1>12 DEF ApplyUpsert, Rebuild, RefreshCancelled, SyncPlugins, RegisterModels,
      ReadSupported, LookUpAgain, Unregister, FetchEveryEntry, FetchEntry, RemoveEntry,
      ResumeModels, SuspendModel, EndConfig, Doing
  <2>2. \E t : Finish(p, t)
    <3>1. CASE \/ ApplyUpsert(p) \/ FetchEntry(p) \/ RegisterModels(p)
      BY <3>1 DEF ApplyUpsert, FetchEntry, RegisterModels
    <3>2. CASE ResumeModels(p)
      <4>1. CASE task[p].ms = {}  BY <3>2, <4>1 DEF ResumeModels
      <4>2. CASE task[p].ms # {}  BY <3>2, <4>2 DEF ResumeModels
      <4>. QED  BY <4>1, <4>2
    <3>3. CASE \/ Rebuild(p) \/ RefreshCancelled(p) \/ SyncPlugins(p) \/ ReadSupported(p)
               \/ LookUpAgain(p) \/ Unregister(p) \/ FetchEveryEntry(p) \/ RemoveEntry(p)
               \/ SuspendModel(p) \/ EndConfig(p)
      BY <3>3 DEF Rebuild, RefreshCancelled, SyncPlugins, ReadSupported, LookUpAgain,
        Unregister, FetchEveryEntry, RemoveEntry, SuspendModel, EndConfig
    <3>. QED  BY <1>12, <3>1, <3>2, <3>3
  <2>. QED  BY <2>1, <2>2, SweptByQuiet
<1>. QED  BY <1>5, <1>6, <1>7, <1>8, <1>9, <1>10, <1>11, <1>12 DEF Continue

LEMMA SweptStep ==
  ASSUME IInv, Swept, [Next]_vars
  PROVE  Swept' /\ (Next => OnlyRegisterAdds)
<1>1. TypeInv  BY DEF IInv
<1>2. CASE Tick \/ (\E m \in Models : Pick(m)) \/ UNCHANGED vars
  <2>1. UNCHANGED <<auths, cool, task>>  BY <1>2 DEF Tick, Pick, vars
  <2>2. Swept'  BY <2>1 DEF Swept, NobodySweeps, Doing, Cooled, Tracked
  <2>. QED  BY <2>1, <2>2 DEF OnlyRegisterAdds
<1>3. ASSUME NEW p \in Procs, Start(p) \/ Continue(p)
      PROVE  Swept' /\ OnlyRegisterAdds
  BY <1>1, <1>3, SweptByStart, SweptByContinue
<1>. QED  BY <1>2, <1>3 DEF Next

\* Once a reload that turned cooling off has swept, no quota cooldown is pending anywhere,
\* whatever results, refreshes and updates were in flight when it began (MarkResult and
\* Update read the configuration under m.mu).
THEOREM CoolingOffHolds == Spec => []CoolingOffSweeps
<1>1. Init => Swept  BY EmptyMap DEF Init, Swept
<1>2. (IInv /\ Swept) /\ [Next]_vars => Swept'  BY SweptStep
<1>3. Swept => CoolingOffSweeps  BY DEF Swept, NobodySweeps, Cooled, CoolingOffSweeps
<1>. QED  BY <1>1, <1>2, <1>3, InvariantHolds, PTL DEF Spec

\* No late refresh, update, reset or result brings a removed credential back: an id enters
\* the Manager's map only by the Register of that very id.
THEOREM OnlyRegisterRevives == Spec => RemovedStaysRemoved
<1>1. Init => Swept  BY EmptyMap DEF Init, Swept
<1>2. (IInv /\ Swept) /\ [Next]_vars => Swept' /\ [OnlyRegisterAdds]_vars  BY SweptStep
<1>3. Spec => [][OnlyRegisterAdds]_vars  BY <1>1, <1>2, InvariantHolds, PTL DEF Spec
<1>. QED  BY <1>3 DEF RemovedStaysRemoved, OnlyRegisterAdds

-----------------------------------------------------------------------------
(* Which tasks bring the scheduler's entry of a credential in step with the   *)
(* registry: by what they say themselves, or by what follows them.            *)

BringsTail(t, c)  == t.op \in {"sync", "all"} \/ (t.op = "lookup" /\ t.c = c)
BringsList(t, c)  == t.op = "list" /\ (c \in DOMAIN t.todo \/ BringsTail(t.then, c))
BringsEntry(t, c) ==
  t.op = "fetch" /\ (c \in t.ids \/ BringsTail(t.then, c) \/ BringsList(t.then, c))
BringsNext(t, c)  == BringsTail(t, c) \/ BringsList(t, c) \/ BringsEntry(t, c)
Brings(t, c) ==
  \/ BringsNext(t, c)
  \/ t.op = "upsert" /\ (c \in DOMAIN t.refs \/ BringsNext(t.then, c))
  \/ t.op \in {"supported", "reconcile"} /\ BringsNext(t.then, c)
  \/ t.op = "unregister" /\ t.c = c
  \/ t.op \in {"drop", "remove", "rebuild"}

\* A registration that a second look follows is of one credential, the one looked at.
LooksOnce(l)  == l.op = "list" /\ l.then.op = "lookup" => DOMAIN l.todo = {l.then.c}
NextLooks(t)  == LooksOnce(t) /\ (t.op = "fetch" => LooksOnce(t.then))
TaskLooks(t) ==
  /\ NextLooks(t)
  /\ t.op \in {"upsert", "supported", "reconcile", "update", "register", "refresh"}
       => NextLooks(t.then)
  /\ t.op = "resume" /\ t.then.op = "upsert" => NextLooks(t.then.then)

InStep ==
  /\ \A c \in DOMAIN auths \cap DOMAIN meta :
       meta[c].supported = listed[c] \/ \E p \in Procs : Brings(task[p], c)
  /\ \A p \in Procs : TaskLooks(task[p])

LEMMA TailKinds ==
  ASSUME NEW t \in Tails
  PROVE  /\ t.op \in {"idle", "release", "sync", "all", "lookup"}
         /\ t.op = "lookup" => t = LookUp(t.c)
BY DEF Tails, Ends, Idle, Release, LookUp

LEMMA FollowerKinds ==
  ASSUME NEW t \in Followers
  PROVE  /\ t.op \in {"idle", "release", "sync", "all", "lookup", "list", "fetch", "suspend",
                      "resume"}
         /\ t.op = "resume" => t.then = Idle
<1>1. CASE t \in Tails  BY <1>1, TailKinds
<1>2. CASE t \in ListTasks
  <2>. HIDE DEF Tails
  <2>. QED  BY <1>2 DEF ListTasks
<1>3. CASE t \in FetchTasks
  <2>. HIDE DEF Tails, ListTasks
  <2>. QED  BY <1>3 DEF FetchTasks
<1>4. CASE t \notin Registrations
  <2>1. t \in [op : {"suspend"}, c : Creds, m : Models]
              \cup [op : {"resume"}, c : Creds, ms : SUBSET Models, then : {Idle}]
    <3>. HIDE DEF Registrations
    <3>. QED  BY <1>4 DEF Followers
  <2>. QED  BY <2>1
<1>. HIDE DEF ListTasks, FetchTasks, Tails
<1>. QED  BY <1>1, <1>2, <1>3, <1>4 DEF Registrations

LEMMA TailsLook ==
  ASSUME NEW t \in Tails
  PROVE  LooksOnce(t) /\ NextLooks(t) /\ TaskLooks(t)
BY TailKinds DEF LooksOnce, NextLooks, TaskLooks

LEMMA FollowersLook ==
  ASSUME NEW t \in Followers, NextLooks(t)
  PROVE  TaskLooks(t)
<1>1. t.op = "resume" => t.then.op # "upsert"  BY FollowerKinds DEF Idle
<1>. HIDE DEF Followers
<1>. QED  BY <1>1, FollowerKinds DEF TaskLooks

LEMMA ListsBring ==
  ASSUME NEW todo \in Maps(Creds, BOOLEAN), NEW then \in Tails
  PROVE  /\ \A c : c \in DOMAIN todo \/ BringsTail(then, c)
                     => \/ BringsTail(ListModels(todo, then), c)
                        \/ BringsList(ListModels(todo, then), c)
         /\ (then.op = "lookup" => DOMAIN todo = {then.c}) => LooksOnce(ListModels(todo, then))
<1>1. PICK t : t = [op |-> "list", todo |-> todo, then |-> then]  OBVIOUS
<1>2. ListModels(todo, then) = IF todo = Empty THEN then ELSE t  BY <1>1 DEF ListModels
<1>3. \A c : c \in DOMAIN todo \/ BringsTail(then, c)
               => \/ BringsTail(ListModels(todo, then), c)
                  \/ BringsList(ListModels(todo, then), c)
  <2>1. CASE todo = Empty
    <3>1. DOMAIN todo = {}  BY <2>1, EmptyMap
    <3>. QED  BY <1>2, <2>1, <3>1
  <2>2. CASE todo # Empty
    <3>1. ListModels(todo, then) = t /\ t.op = "list" /\ t.todo = todo /\ t.then = then
      BY <1>1, <1>2, <2>2
    <3>. QED  BY <3>1 DEF BringsList
  <2>. QED  BY <2>1, <2>2
<1>4. ASSUME then.op = "lookup" => DOMAIN todo = {then.c}
      PROVE  LooksOnce(ListModels(todo, then))
  <2>1. LooksOnce(t)  BY <1>1, <1>4 DEF LooksOnce
  <2>. QED  BY <1>2, <2>1, TailsLook
<1>. QED  BY <1>3, <1>4

LEMMA FetchesBring ==
  ASSUME NEW ids, NEW then \in Tails \cup ListTasks, LooksOnce(then)
  PROVE  /\ \A c : c \in ids \/ BringsTail(then, c) \/ BringsList(then, c)
                     => BringsNext(Fetch(ids, then), c)
         /\ NextLooks(Fetch(ids, then))
<1>1. PICK t : t = [op |-> "fetch", ids |-> ids, then |-> then]  OBVIOUS
<1>2. t.op = "fetch" /\ t.ids = ids /\ t.then = then  BY <1>1
<1>3. Fetch(ids, then) = IF ids = {} THEN then ELSE t  BY <1>1 DEF Fetch
<1>4. NextLooks(t)  BY <1>2 DEF NextLooks, LooksOnce
<1>5. then.op # "fetch"
  <2>1. then \in Tails => then.op # "fetch"  BY TailKinds
  <2>2. then \in ListTasks => then.op = "list"
    <3>. HIDE DEF Tails
    <3>. QED  BY DEF ListTasks
  <2>. QED  BY <2>1, <2>2
<1>6. NextLooks(then)  BY <1>5 DEF NextLooks
<1>. QED  BY <1>2, <1>3, <1>4, <1>6 DEF BringsNext, BringsEntry

LEMMA UpsertsBring ==
  ASSUME NEW refs, NEW then
  PROVE  /\ \A c : c \in DOMAIN refs \/ BringsNext(then, c) => Brings(Upsert(refs, then), c)
         /\ NextLooks(then) => TaskLooks(Upsert(refs, then))
<1>1. PICK t : t = Upsert(refs, then)  OBVIOUS
<1>2. t.op = "upsert" /\ t.refs = refs /\ t.then = then  BY <1>1 DEF Upsert
<1>3. NextLooks(t)  BY <1>2 DEF NextLooks, LooksOnce
<1>. QED  BY <1>1, <1>2, <1>3 DEF Brings, TaskLooks

LEMMA UpsertOneBrings ==
  ASSUME NEW c, NEW r, NEW then
  PROVE  /\ \A d : d = c \/ BringsNext(then, d) => Brings(UpsertOne(c, r, then), d)
         /\ NextLooks(then) => TaskLooks(UpsertOne(c, r, then))
<1>1. DOMAIN [x \in {c} |-> r] = {c}  OBVIOUS
<1>. QED  BY <1>1, UpsertsBring DEF UpsertOne

\* The kinds of steps: nothing changes for the entries, one credential's models are
\* registered, one entry is brought in step.
LEMMA PassesOn ==
  ASSUME TypeInv, InStep, NEW p \in Procs, NEW t, Finish(p, t), TaskLooks(t),
         UNCHANGED <<meta, listed>>, DOMAIN auths' \subseteq DOMAIN auths,
         \A c \in DOMAIN auths : Brings(task[p], c) => Brings(t, c)
  PROVE  InStep'
<1>1. /\ task' = [task EXCEPT ![p] = t] /\ task'[p] = t
      /\ \A q \in Procs \ {p} : task'[q] = task[q]
  BY DEF Finish, TypeInv
<1>2. ASSUME NEW c \in DOMAIN auths' \cap DOMAIN meta'
      PROVE  meta'[c].supported = listed'[c] \/ \E q \in Procs : Brings(task'[q], c)
  BY <1>1, <1>2 DEF InStep
<1>3. ASSUME NEW q \in Procs  PROVE TaskLooks(task'[q])
  BY <1>1 DEF InStep
<1>. QED  BY <1>2, <1>3 DEF InStep

LEMMA PassesOnBinding ==
  ASSUME TypeInv, InStep, NEW p \in Procs, NEW t, Finish(p, t), TaskLooks(t),
         NEW d \in Creds, NEW S, Bind(d, S), UNCHANGED <<meta, auths>>, Brings(t, d),
         \A c \in DOMAIN auths : Brings(task[p], c) => Brings(t, c)
  PROVE  InStep'
<1>1. /\ task' = [task EXCEPT ![p] = t] /\ task'[p] = t
      /\ \A q \in Procs \ {p} : task'[q] = task[q]
  BY DEF Finish, TypeInv
<1>2. listed' = [listed EXCEPT ![d] = S] /\ DOMAIN auths \subseteq Creds
  BY AuthTypes DEF Bind
<1>3. \A c \in Creds \ {d} : listed'[c] = listed[c]  BY <1>2 DEF TypeInv
<1>4. ASSUME NEW c \in DOMAIN auths' \cap DOMAIN meta'
      PROVE  meta'[c].supported = listed'[c] \/ \E q \in Procs : Brings(task'[q], c)
  BY <1>1, <1>2, <1>3, <1>4 DEF InStep
<1>5. ASSUME NEW q \in Procs  PROVE TaskLooks(task'[q])
  BY <1>1 DEF InStep
<1>. QED  BY <1>4, <1>5 DEF InStep

LEMMA PassesOnTold ==
  ASSUME TypeInv, InStep, NEW p \in Procs, NEW t, Finish(p, t), TaskLooks(t),
         NEW d \in Creds, DOMAIN auths' \subseteq DOMAIN auths, UNCHANGED listed,
         \/ meta' = Without(meta, d)
         \/ \E r : meta' = With(meta, d, [ref |-> r, supported |-> listed[d]]),
         \A c \in DOMAIN auths \ {d} : Brings(task[p], c) => Brings(t, c)
  PROVE  InStep'
<1>1. /\ task' = [task EXCEPT ![p] = t] /\ task'[p] = t
      /\ \A q \in Procs \ {p} : task'[q] = task[q]
  BY DEF Finish, TypeInv
<1>2. ASSUME NEW c \in DOMAIN meta'
      PROVE  \/ c = d /\ meta'[c].supported = listed[c]
             \/ c # d /\ c \in DOMAIN meta /\ meta'[c] = meta[c]
  BY <1>2 DEF With, Without
<1>3. ASSUME NEW c \in DOMAIN auths' \cap DOMAIN meta'
      PROVE  meta'[c].supported = listed'[c] \/ \E q \in Procs : Brings(task'[q], c)
  BY <1>1, <1>2, <1>3 DEF InStep
<1>4. ASSUME NEW q \in Procs  PROVE TaskLooks(task'[q])
  BY <1>1 DEF InStep
<1>. QED  BY <1>3, <1>4 DEF InStep

\* Tasks that bring nothing, and tasks frozen by a store or a removal.
LEMMA BringsNothing ==
  ASSUME NEW t, t.op \in {"idle", "release", "update", "refresh", "register", "reset", "sweep",
                          "suspend", "resume"}
  PROVE  (\A c : ~Brings(t, c)) /\ NextLooks(t)
BY DEF Brings, BringsNext, BringsTail, BringsList, BringsEntry, NextLooks, LooksOnce

LEMMA FreezingBrings ==
  ASSUME TypeInv, NEW d \in DOMAIN auths, NEW x \in Tasks
  PROVE  /\ \A c : Brings(FreezeTask(x, d), c) <=> Brings(x, c)
         /\ TaskLooks(x) => TaskLooks(FreezeTask(x, d))
<1>1. PICK y : y = FreezeTask(x, d)  OBVIOUS
<1>2. CASE x.op # "upsert"
  <2>1. y = x  BY <1>1, <1>2, FreezeTaskFacts
  <2>. QED  BY <1>1, <2>1
<1>3. CASE x.op = "upsert"
  <2>1. y.op = "upsert" /\ y.then = x.then /\ DOMAIN y.refs = DOMAIN x.refs
    BY <1>1, <1>3, FreezeTaskFacts
  <2>2. \A c : Brings(y, c) <=> Brings(x, c)
    BY <1>3, <2>1 DEF Brings, BringsNext, BringsTail, BringsList, BringsEntry
  <2>3. NextLooks(y)  BY <2>1 DEF NextLooks, LooksOnce
  <2>4. TaskLooks(x) => TaskLooks(y)  BY <1>3, <2>1, <2>3 DEF TaskLooks
  <2>. QED  BY <1>1, <2>2, <2>4
<1>. QED  BY <1>2, <1>3

LEMMA InStepByStore ==
  ASSUME TypeInv, InStep, NEW p \in Procs, NEW c \in Creds, NEW a, NEW then \in Followers,
         Store(p, c, a, UpsertOne(c, LiveRef, then)), NextLooks(then), UNCHANGED listed,
         \A d : ~Brings(task[p], d)
  PROVE  InStep'
<1>. HIDE DEF Followers
<1>1. PICK t : t = UpsertOne(c, LiveRef, then)  OBVIOUS
<1>2. Brings(t, c) /\ TaskLooks(t)  BY <1>1, UpsertOneBrings
<1>3. /\ DOMAIN auths' = DOMAIN auths \cup {c}
      /\ meta' = IF c \in DOMAIN auths THEN FreezeMeta(c) ELSE meta
      /\ task'[p] = t
      /\ \A q \in Procs \ {p} : task'[q] = IF c \in DOMAIN auths THEN FreezeTask(task[q], c)
                                           ELSE task[q]
  BY <1>1 DEF Store, With
<1>4. DOMAIN meta' = DOMAIN meta /\ \A d \in DOMAIN meta : meta'[d].supported = meta[d].supported
  <2>1. ASSUME NEW d \in DOMAIN meta
        PROVE  [meta[d] EXCEPT !.ref = Frozen(@, c)].supported = meta[d].supported
    <3>1. meta[d] \in Metas  BY AuthTypes
    <3>. QED  BY <3>1 DEF Metas
  <2>. QED  BY <1>3, <2>1 DEF FreezeMeta
<1>5. ASSUME NEW q \in Procs \ {p}
      PROVE  /\ \A d : Brings(task[q], d) => Brings(task'[q], d)
             /\ TaskLooks(task'[q])
  <2>1. task[q] \in Tasks /\ TaskLooks(task[q])  BY TaskTypes DEF InStep
  <2>2. CASE c \in DOMAIN auths
    <3>1. task'[q] = FreezeTask(task[q], c)  BY <1>3, <2>2
    <3>2. /\ \A d : Brings(FreezeTask(task[q], c), d) <=> Brings(task[q], d)
          /\ TaskLooks(FreezeTask(task[q], c))
      BY <2>1, <2>2, FreezingBrings
    <3>. QED  BY <3>1, <3>2
  <2>3. CASE c \notin DOMAIN auths
    <3>1. task'[q] = task[q]  BY <1>3, <2>3
    <3>. QED  BY <2>1, <3>1
  <2>. QED  BY <2>2, <2>3
<1>6. ASSUME NEW d \in DOMAIN auths' \cap DOMAIN meta'
      PROVE  meta'[d].supported = listed'[d] \/ \E q \in Procs : Brings(task'[q], d)
  <2>1. CASE d = c  BY <1>2, <1>3, <2>1
  <2>2. CASE d # c
    <3>1. d \in DOMAIN auths \cap DOMAIN meta /\ meta'[d].supported = meta[d].supported
      BY <1>3, <1>4, <1>6, <2>2
    <3>2. meta[d].supported = listed[d] \/ \E q \in Procs \ {p} : Brings(task[q], d)
      BY <3>1 DEF InStep
    <3>. QED  BY <1>5, <3>1, <3>2
  <2>. QED  BY <2>1, <2>2
<1>7. ASSUME NEW q \in Procs  PROVE TaskLooks(task'[q])
  BY <1>2, <1>3, <1>5
<1>. QED  BY <1>6, <1>7 DEF InStep

LEMMA InStepByRemove ==
  ASSUME TypeInv, InStep, NEW p \in Procs, Remove(p)
  PROVE  InStep'
<1>1. PICK c : c = task[p].c  OBVIOUS
<1>2. UNCHANGED listed  BY DEF Remove, Registry
<1>3. CASE c \notin DOMAIN auths
  <2>1. PICK t : t = Sync(Idle)  OBVIOUS
  <2>2. Finish(p, t) /\ UNCHANGED <<auths, meta>>
    BY <1>1, <1>3, <2>1 DEF Remove, Scheduler
  <2>3. t \in Tails /\ \A d : Brings(t, d)
    BY <2>1, Following, TailTasks DEF Sync, Brings, BringsNext, BringsTail
  <2>. QED  BY <1>2, <2>2, <2>3, TailsLook, PassesOn
<1>4. CASE c \in DOMAIN auths
  <2>1. PICK t : t = [op |-> "remove", c |-> c, v |-> ver[c] + 1]  OBVIOUS
  <2>2. /\ task'[p] = t
        /\ \A q \in Procs \ {p} : task'[q] = FreezeTask(task[q], c)
    BY <1>1, <1>4, <2>1 DEF Remove
  <2>3. (\A d : Brings(t, d)) /\ TaskLooks(t)
    BY <2>1 DEF Brings, TaskLooks, NextLooks, LooksOnce
  <2>4. ASSUME NEW q \in Procs  PROVE TaskLooks(task'[q])
    <3>1. task[q] \in Tasks /\ TaskLooks(task[q])  BY TaskTypes DEF InStep
    <3>. QED  BY <1>4, <2>2, <2>3, <3>1, FreezingBrings
  <2>. QED  BY <2>2, <2>3, <2>4 DEF InStep
<1>. QED  BY <1>3, <1>4

LEMMA InStepByStart ==
  ASSUME TypeInv, InStep, NEW p \in Procs, Start(p)
  PROVE  InStep'
<1>. HIDE DEF Auths, Tails, ListTasks, Followers
<1>1. \A c \in DOMAIN auths : auths[c] \in Auths /\ c \in Creds  BY AuthTypes
<1>2. Starts(p) => \A d : ~Brings(task[p], d)
  BY BringsNothing DEF Starts, Idle
<1>3. NextLooks(Idle) /\ Idle \in Tails  BY BringsNothing, Following DEF Idle
<1>4. ASSUME NEW c \in Creds, NEW m \in Models, MarkSuccess(p, c, m)  PROVE InStep'
  <2>1. PICK a : a = Succeed(auths[c], m, now)  OBVIOUS
  <2>2. PICK t : t = UpsertOne(c, Clone(a, ver[c] + 1), Resume(c, {m}, Idle))  OBVIOUS
  <2>3. /\ Finish(p, t) /\ DOMAIN auths' = DOMAIN auths /\ UNCHANGED <<meta, listed>>
        /\ Starts(p)
    BY <1>4, <2>1, <2>2 DEF MarkSuccess, Change, Scheduler, Registry
  <2>4. NextLooks(Resume(c, {m}, Idle))  BY BringsNothing DEF Resume
  <2>5. TaskLooks(t)  BY <2>2, <2>4, UpsertOneBrings
  <2>. QED  BY <1>2, <2>3, <2>5, PassesOn
<1>5. ASSUME NEW c \in Creds, NEW m \in Models, NEW kind \in Kinds, NEW ra \in RetryAfters,
             MarkFailure(p, c, m, kind, ra)
      PROVE  InStep'
  <2>1. PICK a : a = Fail(auths[c], m, kind, ra, cool, now)  OBVIOUS
  <2>2. PICK then : then = IF Suspends(kind) THEN Suspend(c, m) ELSE Idle  OBVIOUS
  <2>3. PICK t : t = UpsertOne(c, Clone(a, ver[c] + 1), then)  OBVIOUS
  <2>4. /\ Finish(p, t) /\ DOMAIN auths' = DOMAIN auths /\ UNCHANGED <<meta, listed>>
        /\ Starts(p)
    BY <1>5, <2>1, <2>2, <2>3 DEF MarkFailure, Change, Scheduler, Registry
  <2>5. NextLooks(then)
    <3>1. NextLooks(Suspend(c, m))  BY BringsNothing DEF Suspend
    <3>. QED  BY <1>3, <2>2, <3>1
  <2>6. TaskLooks(t)  BY <2>3, <2>5, UpsertOneBrings
  <2>. QED  BY <1>2, <2>4, <2>6, PassesOn
<1>6. ASSUME NEW c \in Creds, BeginReset(p, c)  PROVE InStep'
  <2>1. PICK t : t = [op |-> "reset", c |-> c, ms |-> listed[c]]  OBVIOUS
  <2>2. Finish(p, t) /\ UNCHANGED <<auths, meta, listed>> /\ Starts(p)
    BY <1>6, <2>1 DEF BeginReset, Scheduler, Registry
  <2>3. TaskLooks(t)  BY <2>1 DEF TaskLooks, NextLooks, LooksOnce
  <2>. QED  BY <1>2, <2>2, <2>3, PassesOn
<1>7. ASSUME NEW c \in Creds, RefreshCatalog(p, c)  PROVE InStep'
  <2>1. PICK t : t = ListOne(c, auths[c], LookUp(c))  OBVIOUS
  <2>2. /\ Finish(p, t) /\ UNCHANGED <<auths, meta, listed>> /\ Starts(p)
        /\ c \in DOMAIN auths
    BY <1>7, <2>1 DEF RefreshCatalog, Scheduler, Registry
  <2>3. /\ t \in ListTasks
        /\ t = [op |-> "list", todo |-> [x \in {c} |-> auths[c].disabled], then |-> LookUp(c)]
    <3>1. LookUp(c) \in Tails  BY TailTasks
    <3>. QED  BY <1>1, <2>1, <2>2, <3>1, ListOneFacts
  <2>4. DOMAIN t.todo = {c} /\ t.then.c = c  BY <2>3 DEF LookUp
  <2>5. NextLooks(t) /\ t \in Followers
    BY <2>3, <2>4, Following DEF NextLooks, LooksOnce
  <2>. QED  BY <1>2, <2>2, <2>5, FollowersLook, PassesOn
<1>8. ASSUME NEW c \in Creds, NEW d \in BOOLEAN, ServiceApply(p, c, d)  PROVE InStep'
  <2>1. PICK new : new = FreshAuth(d)  OBVIOUS
  <2>2. PICK then : then = ListOne(c, new, Sync(Idle))  OBVIOUS
  <2>3. NextLooks(then)
    <3>1. new \in Auths  BY <2>1, Clean
    <3>2. Sync(Idle) \in Tails  BY Following, TailTasks
    <3>3. then = [op |-> "list", todo |-> [x \in {c} |-> new.disabled], then |-> Sync(Idle)]
      BY <2>2, <3>1, <3>2, ListOneFacts
    <3>. QED  BY <3>3 DEF NextLooks, LooksOnce, Sync
  <2>4. Starts(p) /\ UNCHANGED <<auths, meta, listed>>
    BY <1>8 DEF ServiceApply, Scheduler, Registry
  <2>5. \E t : /\ Finish(p, t) /\ t.op \in {"update", "register"} /\ t.then = then
               /\ NextLooks(t)
    <3>1. CASE c \in DOMAIN auths
      <4>1. PICK a : a = IF OutOfService(auths[c]) \/ d THEN new
                         ELSE [new EXCEPT !.states = auths[c].states]
        OBVIOUS
      <4>2. PICK t : t = [op |-> "update", c |-> c, then |-> then, auth |-> a]  OBVIOUS
      <4>3. Finish(p, t)  BY <1>8, <2>1, <2>2, <3>1, <4>1, <4>2 DEF ServiceApply
      <4>4. NextLooks(t)  BY <4>2 DEF NextLooks, LooksOnce
      <4>. QED  BY <4>2, <4>3, <4>4
    <3>2. CASE c \notin DOMAIN auths
      <4>1. PICK t : t = [op |-> "register", c |-> c, auth |-> new, then |-> then]  OBVIOUS
      <4>2. Finish(p, t)  BY <1>8, <2>1, <2>2, <3>2, <4>1 DEF ServiceApply
      <4>3. NextLooks(t)  BY <4>1 DEF NextLooks, LooksOnce
      <4>. QED  BY <4>1, <4>2, <4>3
    <3>. QED  BY <3>1, <3>2
  <2>6. PICK t : /\ Finish(p, t) /\ t.op \in {"update", "register"} /\ t.then = then
                 /\ NextLooks(t)
    BY <2>5
  <2>7. TaskLooks(t)  BY <2>3, <2>6 DEF TaskLooks
  <2>. QED  BY <1>2, <2>4, <2>6, <2>7, PassesOn
<1>9. ASSUME NEW c \in Creds, NEW d \in BOOLEAN, ManagementSetDisabled(p, c, d)
      PROVE  InStep'
  <2>1. PICK a : a = [auths[c] EXCEPT !.disabled = d,
                                      !.status = IF d THEN "disabled" ELSE "active"]
    OBVIOUS
  <2>2. PICK t : t = [op |-> "update", c |-> c, then |-> Idle, auth |-> a]  OBVIOUS
  <2>3. Finish(p, t) /\ Starts(p) /\ UNCHANGED <<auths, meta, listed>>
    BY <1>9, <2>1, <2>2 DEF ManagementSetDisabled, Scheduler, Registry
  <2>4. TaskLooks(t)  BY <1>3, <2>2 DEF TaskLooks, NextLooks, LooksOnce
  <2>. QED  BY <1>2, <2>3, <2>4, PassesOn
<1>10. ASSUME NEW c \in Creds, BeginRefresh(p, c)  PROVE InStep'
  <2>1. PICK t : t = [op |-> "refresh", c |-> c, then |-> Idle, auth |-> auths[c]]  OBVIOUS
  <2>2. Finish(p, t) /\ Starts(p) /\ UNCHANGED <<auths, meta, listed>>
    BY <1>10, <2>1 DEF BeginRefresh, Scheduler, Registry
  <2>3. TaskLooks(t)  BY <1>3, <2>1 DEF TaskLooks, NextLooks, LooksOnce
  <2>. QED  BY <1>2, <2>2, <2>3, PassesOn
<1>11. ASSUME NEW c \in Creds, ServiceRemove(p, c)  PROVE InStep'
  <2>1. PICK t : t = [op |-> "drop", c |-> c]  OBVIOUS
  <2>2. Finish(p, t) /\ Bind(c, {}) /\ UNCHANGED <<auths, meta>>
    BY <1>11, <2>1 DEF ServiceRemove, Scheduler
  <2>3. (\A d : Brings(t, d)) /\ TaskLooks(t)
    BY <2>1 DEF Brings, TaskLooks, NextLooks, LooksOnce
  <2>. QED  BY <2>2, <2>3, PassesOnBinding
<1>12. ASSUME NEW e \in BOOLEAN, SetConfig(p, e)  PROVE InStep'
  <2>1. PICK t : t = [op |-> "sweep"]  OBVIOUS
  <2>2. Finish(p, t) /\ Starts(p) /\ UNCHANGED <<auths, meta, listed>>
    BY <1>12, <2>1 DEF SetConfig, Scheduler, Registry
  <2>3. TaskLooks(t)  BY <2>1 DEF TaskLooks, NextLooks, LooksOnce
  <2>. QED  BY <1>2, <2>2, <2>3, PassesOn
<1>13. CASE SyncScheduler(p)
  <2>1. PICK refs : refs = [c \in DOMAIN auths |-> Clone(auths[c], ver[c])]  OBVIOUS
  <2>2. PICK t : t = [op |-> "rebuild", vers |-> ver, refs |-> refs]  OBVIOUS
  <2>3. Finish(p, t) /\ Starts(p) /\ UNCHANGED <<auths, meta, listed>>
    BY <1>13, <2>1, <2>2 DEF SyncScheduler, Scheduler, Registry
  <2>4. TaskLooks(t)  BY <2>2 DEF TaskLooks, NextLooks, LooksOnce
  <2>. QED  BY <1>2, <2>3, <2>4, PassesOn
<1>. QED  BY <1>4, <1>5, <1>6, <1>7, <1>8, <1>9, <1>10, <1>11, <1>12, <1>13 DEF Start

\* What a reader of the registry goes on to after the registration of c.
LEMMA AfterRegistrationBrings ==
  ASSUME NEW c \in Creds, NEW todo \in Maps(Creds, BOOLEAN), NEW then \in Tails,
         c \in DOMAIN todo, then.op = "lookup" => DOMAIN todo = {then.c}
  PROVE  /\ \A d : d \in DOMAIN todo \/ BringsTail(then, d)
                     => BringsNext(AfterRegistration(c, todo, then), d)
         /\ NextLooks(AfterRegistration(c, todo, then))
<1>. HIDE DEF Tails, ListTasks
<1>1. CASE then.op = "lookup"
  <2>1. DOMAIN todo = {c} /\ then = LookUp(c)  BY <1>1, TailKinds
  <2>2. AfterRegistration(c, todo, then) = then  BY <2>1 DEF AfterRegistration
  <2>3. then.op = "lookup" /\ then.c = c  BY <2>1 DEF LookUp
  <2>. QED  BY <2>1, <2>2, <2>3, TailsLook DEF BringsNext, BringsTail
<1>2. CASE then.op # "lookup"
  <2>1. PICK rest : rest = Without(todo, c)  OBVIOUS
  <2>2. PICK l : l = ListModels(rest, then)  OBVIOUS
  <2>3. rest \in Maps(Creds, BOOLEAN) /\ DOMAIN rest = DOMAIN todo \ {c}
    BY <2>1, WithoutMap DEF Without
  <2>4. l \in Tails \cup ListTasks /\ LooksOnce(l)
        /\ \A d : d \in DOMAIN rest \/ BringsTail(then, d) => BringsTail(l, d) \/ BringsList(l, d)
    BY <1>2, <2>2, <2>3, ListFacts, ListsBring
  <2>5. then # LookUp(c)  BY <1>2 DEF LookUp
  <2>6. AfterRegistration(c, todo, then) = Fetch({c}, l)
    BY <2>1, <2>2, <2>5 DEF AfterRegistration
  <2>7. /\ \A d : d \in {c} \/ BringsTail(l, d) \/ BringsList(l, d) => BringsNext(Fetch({c}, l), d)
        /\ NextLooks(Fetch({c}, l))
    BY <2>4, FetchesBring
  <2>. QED  BY <2>3, <2>4, <2>6, <2>7
<1>. QED  BY <1>1, <1>2

LEMMA NextBrings ==
  ASSUME NEW t \in Followers, NextLooks(t)
  PROVE  TaskLooks(t) /\ \A c : BringsNext(t, c) => Brings(t, c)
BY FollowersLook DEF Brings

LEMMA InStepByRegistration ==
  ASSUME TypeInv, InStep, NEW p \in Procs,
         RegisterModels(p) \/ ReadSupported(p) \/ ReconcileModelStates(p)
  PROVE  InStep'
<1>. HIDE DEF Auths, Tails, ListTasks, Followers, Registrations
<1>1. PICK x : x = task[p]  OBVIOUS
<1>2. x \in Tasks /\ TaskLooks(x)  BY <1>1, TaskTypes DEF InStep
<1>3. CASE RegisterModels(p)
  <2>1. x.op = "list"  BY <1>1, <1>3 DEF RegisterModels, Doing
  <2>2. x.todo \in Maps(Creds, BOOLEAN) /\ x.then \in Tails
    BY <1>2, <2>1, TaskKinds DEF ListTasks
  <2>3. PICK c \in DOMAIN x.todo, S \in SUBSET Models :
          /\ Bind(c, S)
          /\ Finish(p, [op |-> "supported", c |-> c,
                        then |-> AfterRegistration(c, x.todo, x.then)])
    BY <1>1, <1>3 DEF RegisterModels
  <2>4. c \in Creds  BY <2>2, <2>3, MapFacts
  <2>5. PICK then : then = AfterRegistration(c, x.todo, x.then)  OBVIOUS
  <2>6. PICK t : t = [op |-> "supported", c |-> c, then |-> then]  OBVIOUS
  <2>7. x.then.op = "lookup" => DOMAIN x.todo = {x.then.c}
    BY <1>2, <2>1 DEF TaskLooks, NextLooks, LooksOnce
  <2>8. /\ \A d : d \in DOMAIN x.todo \/ BringsTail(x.then, d) => BringsNext(then, d)
        /\ NextLooks(then)
    BY <2>2, <2>3, <2>4, <2>5, <2>7, AfterRegistrationBrings
  <2>9. \A d : Brings(x, d) => d \in DOMAIN x.todo \/ BringsTail(x.then, d)
    BY <2>1 DEF Brings, BringsNext, BringsTail, BringsList, BringsEntry
  <2>10. TaskLooks(t)  BY <2>6, <2>8 DEF TaskLooks, NextLooks, LooksOnce
  <2>11. \A d : BringsNext(then, d) => Brings(t, d)  BY <2>6 DEF Brings
  <2>12. Finish(p, t) /\ UNCHANGED <<meta, auths>>
    BY <1>3, <2>3, <2>5, <2>6 DEF RegisterModels, Scheduler
  <2>13. Brings(t, c) /\ \A d \in DOMAIN auths : Brings(task[p], d) => Brings(t, d)
    BY <1>1, <2>3, <2>8, <2>9, <2>11
  <2>. QED  BY <2>3, <2>4, <2>10, <2>12, <2>13, PassesOnBinding
<1>4. CASE ReadSupported(p)
  <2>1. x.op = "supported"  BY <1>1, <1>4 DEF ReadSupported, Doing
  <2>2. PICK t : t = [op |-> "reconcile", c |-> x.c, ms |-> listed[x.c], then |-> x.then]
    OBVIOUS
  <2>3. Finish(p, t) /\ UNCHANGED <<auths, meta, listed>>
    BY <1>1, <1>4, <2>2 DEF ReadSupported, Scheduler, Registry
  <2>4. t.op = "reconcile" /\ t.then = x.then  BY <2>2
  <2>5. TaskLooks(t)
    BY <1>2, <2>1, <2>4 DEF TaskLooks, NextLooks, LooksOnce
  <2>6. \A d : Brings(x, d) => Brings(t, d)
    BY <2>1, <2>4 DEF Brings, BringsNext, BringsTail, BringsList, BringsEntry
  <2>. QED  BY <1>1, <2>3, <2>5, <2>6, PassesOn
<1>5. CASE ReconcileModelStates(p)
  <2>1. x.op = "reconcile"  BY <1>1, <1>5 DEF ReconcileModelStates, Doing
  <2>2. x.then \in Registrations /\ x.then \in Followers
    BY <1>2, <2>1, TaskKinds, Following DEF ReconcileTasks
  <2>3. PICK c, then : c = x.c /\ then = x.then  OBVIOUS
  <2>4. NextLooks(then)  BY <1>2, <2>1, <2>3 DEF TaskLooks
  <2>5. \A d : Brings(x, d) => BringsNext(then, d)
    BY <2>1, <2>3 DEF Brings, BringsNext, BringsTail, BringsList, BringsEntry
  <2>6. UNCHANGED <<meta, listed>>  BY <1>5 DEF ReconcileModelStates, Scheduler, Registry
  <2>7. CASE c \in DOMAIN auths /\ NeedsReconcile(auths[c], x.ms)
    <3>1. PICK a : a = Reconcile(auths[c], x.ms, now)  OBVIOUS
    <3>2. PICK t : t = UpsertOne(c, Clone(a, ver[c] + 1), then)  OBVIOUS
    <3>3. Finish(p, t) /\ DOMAIN auths' = DOMAIN auths
      BY <1>1, <1>5, <2>3, <2>7, <3>1, <3>2 DEF ReconcileModelStates, Change
    <3>4. TaskLooks(t) /\ \A d : BringsNext(then, d) => Brings(t, d)
      BY <2>4, <3>2, UpsertOneBrings
    <3>. QED  BY <1>1, <2>5, <2>6, <3>3, <3>4, PassesOn
  <2>8. CASE ~(c \in DOMAIN auths /\ NeedsReconcile(auths[c], x.ms))
    <3>1. Finish(p, then) /\ UNCHANGED auths
      BY <1>1, <1>5, <2>3, <2>8 DEF ReconcileModelStates
    <3>2. TaskLooks(then) /\ \A d : BringsNext(then, d) => Brings(then, d)
      BY <2>2, <2>3, <2>4, NextBrings
    <3>. QED  BY <1>1, <2>5, <2>6, <3>1, <3>2, PassesOn
  <2>. QED  BY <2>7, <2>8
<1>. QED  BY <1>3, <1>4, <1>5

\* Looking again, and the fetches of one or of every entry.
LEMMA InStepByFetch ==
  ASSUME TypeInv, InStep, NEW p \in Procs,
         \/ LookUpAgain(p) \/ Unregister(p) \/ SyncPlugins(p) \/ FetchEveryEntry(p)
         \/ FetchEntry(p)
  PROVE  InStep'
<1>. HIDE DEF Auths, Tails, ListTasks, Followers, Registrations
<1>1. PICK x : x = task[p]  OBVIOUS
<1>2. x \in Tasks /\ TaskLooks(x)  BY <1>1, TaskTypes DEF InStep
<1>3. DOMAIN auths \subseteq Creds /\ \A c \in DOMAIN auths : auths[c] \in Auths
  BY AuthTypes
<1>4. CASE LookUpAgain(p)
  <2>1. x.op = "lookup"  BY <1>1, <1>4 DEF LookUpAgain, Doing
  <2>2. x.c \in Creds  BY <1>2, <2>1, TaskKinds
  <2>3. PICK c : c = x.c  OBVIOUS
  <2>4. \A d : Brings(x, d) => d = c
    BY <2>1, <2>3 DEF Brings, BringsNext, BringsTail, BringsList, BringsEntry
  <2>5. UNCHANGED <<auths, meta, listed>>  BY <1>4 DEF LookUpAgain, Scheduler, Registry
  <2>6. CASE c \in DOMAIN auths /\ ~auths[c].disabled
    <3>1. PICK t : t = ListOne(c, auths[c], Idle)  OBVIOUS
    <3>2. Finish(p, t)  BY <1>1, <1>4, <2>3, <2>6, <3>1 DEF LookUpAgain
    <3>3. /\ t \in ListTasks
          /\ t = [op |-> "list", todo |-> [d \in {c} |-> auths[c].disabled], then |-> Idle]
      BY <1>3, <2>2, <2>3, <2>6, <3>1, Following, ListOneFacts
    <3>4. t.op = "list" /\ DOMAIN t.todo = {c} /\ t.then = Idle  BY <3>3
    <3>5. Brings(t, c) /\ TaskLooks(t)
      BY <3>4 DEF Brings, BringsNext, BringsList, TaskLooks, NextLooks, LooksOnce, Idle
    <3>. QED  BY <1>1, <2>4, <2>5, <3>2, <3>5, PassesOn
  <2>7. CASE ~(c \in DOMAIN auths /\ ~auths[c].disabled)
    <3>1. PICK t : t = [op |-> "unregister", c |-> c]  OBVIOUS
    <3>2. Finish(p, t)  BY <1>1, <1>4, <2>3, <2>7, <3>1 DEF LookUpAgain
    <3>3. Brings(t, c) /\ TaskLooks(t)
      BY <3>1 DEF Brings, TaskLooks, NextLooks, LooksOnce
    <3>. QED  BY <1>1, <2>4, <2>5, <3>2, <3>3, PassesOn
  <2>. QED  BY <2>6, <2>7
<1>5. CASE Unregister(p)
  <2>1. x.op = "unregister"  BY <1>1, <1>5 DEF Unregister, Doing
  <2>2. x.c \in Creds  BY <1>2, <2>1, TaskKinds DEF CredTasks
  <2>3. PICK c : c = x.c  OBVIOUS
  <2>4. PICK t : t = Fetch({c}, Idle)  OBVIOUS
  <2>5. Finish(p, t) /\ Bind(c, {}) /\ UNCHANGED <<meta, auths>>
    BY <1>1, <1>5, <2>3, <2>4 DEF Unregister, Scheduler
  <2>6. Idle \in Tails  BY Following
  <2>7. BringsNext(t, c) /\ NextLooks(t)
    BY <2>4, <2>6, TailsLook, FetchesBring
  <2>8. t \in Followers
    <3>1. t \in Registrations  BY <2>2, <2>3, <2>4, <2>6, FetchFacts
    <3>. QED  BY <3>1, Following
  <2>9. Brings(t, c) /\ TaskLooks(t)  BY <2>7, <2>8, NextBrings
  <2>10. \A d : Brings(x, d) => d = c
    BY <2>1, <2>3 DEF Brings, BringsNext, BringsTail, BringsList, BringsEntry
  <2>. QED  BY <1>1, <2>2, <2>3, <2>5, <2>9, <2>10, PassesOnBinding
<1>6. CASE SyncPlugins(p)
  <2>1. x.op = "sync"  BY <1>1, <1>6 DEF SyncPlugins, Doing
  <2>2. PICK todo : todo = [c \in DOMAIN auths |-> auths[c].disabled]  OBVIOUS
  <2>3. PICK then : then = FetchAll(x.then)  OBVIOUS
  <2>4. PICK t : t = ListModels(todo, then)  OBVIOUS
  <2>5. Finish(p, t) /\ UNCHANGED <<auths, meta, listed>>
    BY <1>1, <1>6, <2>2, <2>3, <2>4 DEF SyncPlugins, Scheduler, Registry
  <2>6. x.then \in Ends  BY <1>2, <2>1, TaskKinds
  <2>7. then \in Tails /\ then.op = "all"  BY <2>3, <2>6, TailTasks DEF FetchAll
  <2>8. todo \in Maps(Creds, BOOLEAN)
    <3>1. \A c \in DOMAIN auths : auths[c].disabled \in BOOLEAN  BY <1>3 DEF Auths
    <3>2. todo \in [DOMAIN auths -> BOOLEAN]  BY <2>2, <3>1
    <3>. QED  BY <1>3, <3>2, AMap
  <2>9. \A d : BringsTail(then, d)  BY <2>7 DEF BringsTail
  <2>10. LooksOnce(t) /\ \A d : BringsTail(t, d) \/ BringsList(t, d)
    BY <2>4, <2>7, <2>8, <2>9, ListsBring
  <2>11. t \in Tails \cup ListTasks  BY <2>4, <2>7, <2>8, ListFacts
  <2>12. t \in Followers /\ NextLooks(t)
    <3>1. t \in ListTasks => t.op # "fetch"  BY DEF ListTasks
    <3>. QED  BY <2>10, <2>11, <3>1, Following, TailKinds DEF NextLooks
  <2>13. TaskLooks(t) /\ \A d : Brings(t, d)  BY <2>10, <2>12, NextBrings DEF BringsNext
  <2>. QED  BY <2>5, <2>13, PassesOn
<1>7. CASE FetchEveryEntry(p)
  <2>1. x.op = "all"  BY <1>1, <1>7 DEF FetchEveryEntry, Doing
  <2>2. PICK then, t : then = x.then /\ t = Fetch(DOMAIN auths, then)  OBVIOUS
  <2>3. Finish(p, t) /\ UNCHANGED <<auths, meta, listed>>
    BY <1>1, <1>7, <2>2 DEF FetchEveryEntry, Scheduler, Registry
  <2>4. then \in Tails  BY <1>2, <2>1, <2>2, TaskKinds, Following
  <2>5. NextLooks(t) /\ \A d \in DOMAIN auths : BringsNext(t, d)
    BY <2>2, <2>4, TailsLook, FetchesBring
  <2>6. t \in Followers
    <3>1. t \in Registrations  BY <1>3, <2>2, <2>4, FetchFacts
    <3>. QED  BY <3>1, Following
  <2>7. TaskLooks(t) /\ \A d \in DOMAIN auths : Brings(t, d)  BY <2>5, <2>6, NextBrings
  <2>. QED  BY <2>3, <2>7, PassesOn
<1>8. CASE FetchEntry(p)
  <2>1. x.op = "fetch"  BY <1>1, <1>8 DEF FetchEntry, Doing
  <2>2. x.ids \in SUBSET Creds /\ x.then \in Tails \cup ListTasks
    BY <1>2, <2>1, TaskKinds DEF FetchTasks
  <2>3. PICK c \in x.ids :
          Finish(p, IF c \in DOMAIN auths
                    THEN UpsertOne(c, Clone(auths[c], ver[c]), Fetch(x.ids \ {c}, x.then))
                    ELSE Fetch(x.ids \ {c}, x.then))
    BY <1>1, <1>8 DEF FetchEntry
  <2>4. PICK rest, then : rest = x.ids \ {c} /\ then = Fetch(rest, x.then)  OBVIOUS
  <2>5. LooksOnce(x.then)  BY <1>2, <2>1 DEF TaskLooks, NextLooks
  <2>6. /\ \A d : d \in rest \/ BringsTail(x.then, d) \/ BringsList(x.then, d)
                    => BringsNext(then, d)
        /\ NextLooks(then)
    BY <2>2, <2>4, <2>5, FetchesBring
  <2>7. \A d : Brings(x, d) =>
          d \in x.ids \/ BringsTail(x.then, d) \/ BringsList(x.then, d)
    BY <2>1 DEF Brings, BringsNext, BringsTail, BringsList, BringsEntry
  <2>8. \A d : Brings(x, d) /\ d # c => BringsNext(then, d)  BY <2>4, <2>6, <2>7
  <2>9. UNCHANGED <<auths, meta, listed>>  BY <1>8 DEF FetchEntry, Scheduler, Registry
  <2>10. CASE c \in DOMAIN auths
    <3>1. PICK t : t = UpsertOne(c, Clone(auths[c], ver[c]), then)  OBVIOUS
    <3>2. Finish(p, t)  BY <2>3, <2>4, <2>10, <3>1
    <3>3. TaskLooks(t) /\ \A d : d = c \/ BringsNext(then, d) => Brings(t, d)
      BY <2>6, <3>1, UpsertOneBrings
    <3>. QED  BY <1>1, <2>8, <2>9, <3>2, <3>3, PassesOn
  <2>11. CASE c \notin DOMAIN auths
    <3>1. Finish(p, then)  BY <2>3, <2>4, <2>11
    <3>2. then \in Followers
      <4>1. rest \in SUBSET Creds  BY <2>2, <2>4
      <4>2. then \in Registrations  BY <2>2, <2>4, <4>1, FetchFacts
      <4>. QED  BY <4>2, Following
    <3>3. TaskLooks(then) /\ \A d : BringsNext(then, d) => Brings(then, d)
      BY <2>6, <3>2, NextBrings
    <3>. QED  BY <1>1, <2>8, <2>9, <2>11, <3>1, <3>3, PassesOn
  <2>. QED  BY <2>10, <2>11
<1>. QED  BY <1>4, <1>5, <1>6, <1>7, <1>8

\* The steps that tell the scheduler, and those that bring nothing.
LEMMA InStepByTelling ==
  ASSUME TypeInv, InStep, NEW p \in Procs,
         \/ ApplyUpsert(p) \/ RemoveEntry(p) \/ \E rejected \in BOOLEAN : RefreshFails(p, rejected)
  PROVE  InStep'
<1>. HIDE DEF Auths, Tails, ListTasks, Followers, Registrations, Refs
<1>1. PICK x : x = task[p]  OBVIOUS
<1>2. x \in Tasks /\ TaskLooks(x)  BY <1>1, TaskTypes DEF InStep
<1>3. NextLooks(Idle) /\ TaskLooks(Idle) /\ \A d : ~Brings(Idle, d)
  BY Following, TailsLook, BringsNothing DEF Idle
<1>4. CASE ApplyUpsert(p)
  <2>1. x.op = "upsert"  BY <1>1, <1>4 DEF ApplyUpsert, Doing
  <2>2. x.refs \in Maps(Creds, Refs) /\ x.then \in Followers
    BY <1>2, <2>1, TaskKinds DEF UpsertTasks
  <2>3. PICK c \in DOMAIN x.refs :
          /\ SchedulerUpsert(c, Deref(x.refs[c], c), x.refs[c], RefVer(x.refs[c], c))
          /\ Finish(p, IF Without(x.refs, c) = Empty THEN x.then
                       ELSE Upsert(Without(x.refs, c), x.then))
    BY <1>1, <1>4 DEF ApplyUpsert
  <2>4. c \in Creds  BY <2>2, <2>3, MapFacts
  <2>5. PICK rest : rest = Without(x.refs, c)  OBVIOUS
  <2>6. PICK t : t = IF rest = Empty THEN x.then ELSE Upsert(rest, x.then)  OBVIOUS
  <2>7. Finish(p, t) /\ UNCHANGED <<auths, listed>>
    BY <1>4, <2>3, <2>5, <2>6 DEF ApplyUpsert, Registry
  <2>8. DOMAIN rest = DOMAIN x.refs \ {c} /\ NextLooks(x.then)
    BY <1>2, <2>1, <2>5 DEF Without, TaskLooks
  <2>9. TaskLooks(t) /\ \A d : d \in DOMAIN rest \/ BringsNext(x.then, d) => Brings(t, d)
    <3>1. CASE rest = Empty
      <4>1. DOMAIN rest = {} /\ t = x.then  BY <2>6, <3>1, EmptyMap
      <4>. QED  BY <2>2, <2>8, <4>1, NextBrings
    <3>2. CASE rest # Empty  BY <2>6, <2>8, <3>2, UpsertsBring
    <3>. QED  BY <3>1, <3>2
  <2>10. \A d : Brings(x, d) => d \in DOMAIN x.refs \/ BringsNext(x.then, d)
    BY <2>1 DEF Brings, BringsNext, BringsTail, BringsList, BringsEntry
  <2>11. \A d \in DOMAIN auths \ {c} : Brings(task[p], d) => Brings(t, d)
    BY <1>1, <2>8, <2>9, <2>10
  <2>12. \/ meta' = Without(meta, c)
         \/ \E r : meta' = With(meta, c, [ref |-> r, supported |-> listed[c]])
    BY <2>3 DEF SchedulerUpsert, SchedulerRemove
  <2>. QED  BY <2>4, <2>7, <2>9, <2>11, <2>12, PassesOnTold
<1>5. CASE RemoveEntry(p)
  <2>1. x.op = "remove"  BY <1>1, <1>5 DEF RemoveEntry, Doing
  <2>2. x.c \in Creds  BY <1>2, <2>1, TaskKinds DEF RemoveTasks
  <2>3. PICK c, t : c = x.c /\ t = Sync(Idle)  OBVIOUS
  <2>4. Finish(p, t) /\ UNCHANGED <<auths, listed>> /\ meta' = Without(meta, c)
    BY <1>1, <1>5, <2>3 DEF RemoveEntry, SchedulerRemove, Registry
  <2>5. t \in Tails /\ \A d : Brings(t, d)
    BY <2>3, Following, TailTasks DEF Sync, Brings, BringsNext, BringsTail
  <2>. QED  BY <2>2, <2>3, <2>4, <2>5, TailsLook, PassesOnTold
<1>6. ASSUME NEW rejected \in BOOLEAN, RefreshFails(p, rejected)  PROVE InStep'
  <2>1. x.op = "refresh"  BY <1>1, <1>6 DEF RefreshFails, Doing
  <2>2. \A d : ~Brings(x, d)  BY <2>1, BringsNothing
  <2>3. PICK c : c = x.c  OBVIOUS
  <2>4. UNCHANGED listed  BY <1>6 DEF RefreshFails, Registry
  <2>5. CASE c \in DOMAIN auths
    <3>1. PICK a : a = RefreshFailed(auths[c], rejected)  OBVIOUS
    <3>2. /\ Change(p, c, a, Idle)
          /\ SchedulerUpsert(c, a, Clone(a, ver[c] + 1), ver[c] + 1)
      BY <1>1, <1>6, <2>3, <2>5, <3>1 DEF RefreshFails
    <3>3. Finish(p, Idle) /\ DOMAIN auths' = DOMAIN auths /\ c \in Creds
      BY <2>5, <3>2, AuthTypes DEF Change
    <3>4. \/ meta' = Without(meta, c)
          \/ \E r : meta' = With(meta, c, [ref |-> r, supported |-> listed[c]])
      BY <3>2 DEF SchedulerUpsert, SchedulerRemove
    <3>. QED  BY <1>1, <1>3, <2>2, <2>4, <3>3, <3>4, PassesOnTold
  <2>6. CASE c \notin DOMAIN auths
    <3>1. Finish(p, Idle) /\ UNCHANGED <<auths, meta>>
      BY <1>1, <1>6, <2>3, <2>6 DEF RefreshFails, Scheduler
    <3>. QED  BY <1>1, <1>3, <2>2, <2>4, <3>1, PassesOn
  <2>. QED  BY <2>5, <2>6
<1>. QED  BY <1>4, <1>5, <1>6

LEMMA InStepByRebuild ==
  ASSUME TypeInv, InStep, NEW p \in Procs, Rebuild(p)
  PROVE  InStep'
<1>1. PICK refs : refs = task[p].refs  OBVIOUS
<1>2. PICK S : S = {x \in DOMAIN refs : ~refs[x].auth.disabled}  OBVIOUS
<1>3. /\ meta' = [c \in S |-> [ref |-> refs[c], supported |-> listed[c]]]
      /\ listed' = listed /\ task' = [task EXCEPT ![p] = Idle]
  BY <1>1, <1>2 DEF Rebuild, Registry, Finish
<1>4. \A c \in DOMAIN meta' : meta'[c].supported = listed'[c]  BY <1>3
<1>5. ASSUME NEW q \in Procs  PROVE TaskLooks(task'[q])
  <2>1. TaskLooks(Idle)  BY Following, TailsLook
  <2>. QED  BY <1>3, <2>1 DEF InStep, TypeInv
<1>. QED  BY <1>4, <1>5 DEF InStep

LEMMA InStepByOthers ==
  ASSUME TypeInv, InStep, NEW p \in Procs,
         \/ Update(p) \/ Register(p) \/ RefreshCancelled(p) \/ ResumeModels(p) \/ SuspendModel(p)
         \/ SweepConfig(p) \/ EndConfig(p) \/ \E saved \in BOOLEAN : ResetQuota(p, saved)
  PROVE  InStep'
<1>. HIDE DEF Auths, Tails, ListTasks, Followers, Registrations
<1>1. PICK x : x = task[p]  OBVIOUS
<1>2. x \in Tasks /\ TaskLooks(x)  BY <1>1, TaskTypes DEF InStep
<1>3. x.op \in {"update", "register", "refresh", "resume", "suspend", "sweep", "release", "reset"}
  BY <1>1 DEF Update, Register, RefreshCancelled, ResumeModels, SuspendModel, SweepConfig,
    EndConfig, ResetQuota, Doing
<1>4. \A d : ~Brings(task[p], d)  BY <1>1, <1>3, BringsNothing
<1>5. NextLooks(Idle) /\ TaskLooks(Idle)  BY Following, TailsLook
<1>6. CASE Update(p) \/ Register(p)
  <2>1. x.op \in {"update", "refresh", "register"} /\ UNCHANGED listed
    BY <1>1, <1>6 DEF Update, Register, Doing, Registry
  <2>2. x.c \in Creds /\ x.then \in Followers
    <3>1. x \in StoreTasks  BY <1>2, <2>1, TaskKinds
    <3>2. x.c \in Creds /\ x.then \in {Idle} \cup ListTasks  BY <3>1 DEF StoreTasks
    <3>. QED  BY <3>2, Following
  <2>3. PICK c, then : c = x.c /\ then = x.then  OBVIOUS
  <2>4. NextLooks(then)  BY <1>2, <2>1, <2>3 DEF TaskLooks
  <2>5. \/ \E a : Store(p, c, a, UpsertOne(c, LiveRef, then))
        \/ Finish(p, then) /\ UNCHANGED <<auths, meta>>
    <3>1. CASE Register(p)  BY <1>1, <2>3, <3>1 DEF Register
    <3>2. CASE Update(p) /\ c \in DOMAIN auths  BY <1>1, <2>3, <3>2 DEF Update
    <3>3. CASE Update(p) /\ c \notin DOMAIN auths  BY <1>1, <2>3, <3>3 DEF Update, Scheduler
    <3>. QED  BY <1>6, <3>1, <3>2, <3>3
  <2>6. ASSUME NEW a, Store(p, c, a, UpsertOne(c, LiveRef, then))  PROVE InStep'
    BY <1>4, <2>1, <2>2, <2>3, <2>4, <2>6, InStepByStore
  <2>7. CASE Finish(p, then) /\ UNCHANGED <<auths, meta>>
    <3>1. TaskLooks(then)  BY <2>2, <2>3, <2>4, NextBrings
    <3>. QED  BY <1>4, <2>1, <2>7, <3>1, PassesOn
  <2>. QED  BY <2>5, <2>6, <2>7
<1>7. CASE RefreshCancelled(p) \/ SuspendModel(p) \/ EndConfig(p)
  <2>1. Finish(p, Idle) /\ UNCHANGED <<auths, meta, listed>>
    BY <1>7 DEF RefreshCancelled, SuspendModel, EndConfig, Scheduler, Registry
  <2>. QED  BY <1>4, <1>5, <2>1, PassesOn
<1>8. CASE ResumeModels(p)
  <2>1. x.op = "resume"  BY <1>1, <1>8 DEF ResumeModels, Doing
  <2>2. UNCHANGED <<auths, meta, listed>>  BY <1>8 DEF ResumeModels, Scheduler
  <2>3. \E S : Finish(p, Resume(x.c, S, x.then)) \/ Finish(p, x.then)
    <3>1. CASE x.ms = {}  BY <1>1, <1>8, <3>1 DEF ResumeModels
    <3>2. CASE x.ms # {}  BY <1>1, <1>8, <3>2 DEF ResumeModels
    <3>. QED  BY <3>1, <3>2
  <2>4. ASSUME NEW S  PROVE TaskLooks(Resume(x.c, S, x.then))
    <3>1. PICK t : t = Resume(x.c, S, x.then)  OBVIOUS
    <3>2. t.op = "resume" /\ t.then = x.then  BY <3>1 DEF Resume
    <3>3. TaskLooks(t)  BY <1>2, <2>1, <3>2 DEF TaskLooks, NextLooks, LooksOnce
    <3>. QED  BY <3>1, <3>3
  <2>5. TaskLooks(x.then)
    <3>1. CASE x.then = Idle  BY <1>5, <3>1
    <3>2. CASE x.then.op = "upsert"
      <4>1. NextLooks(x.then.then)  BY <1>2, <2>1, <3>2 DEF TaskLooks
      <4>. QED  BY <3>2, <4>1 DEF TaskLooks, NextLooks, LooksOnce
    <3>3. x.then = Idle \/ x.then.op = "upsert"
      <4>1. CASE x \in ResumeTasks  BY <4>1 DEF ResumeTasks
      <4>2. CASE x \in [op : {"resume"}, c : Creds, ms : SUBSET Models, then : {Idle}]  BY <4>2
      <4>. QED  BY <1>2, <2>1, <4>1, <4>2, TaskKinds
    <3>. QED  BY <3>1, <3>2, <3>3
  <2>6. \E t : Finish(p, t) /\ TaskLooks(t)  BY <2>3, <2>4, <2>5
  <2>. QED  BY <1>4, <2>2, <2>6, PassesOn
<1>9. CASE SweepConfig(p)
  <2>1. PICK S : S = {c \in DOMAIN auths : Sweeps(c)}  OBVIOUS
  <2>2. PICK refs : refs = [c \in S |-> Clone(ClearCooldown(auths[c], now), ver[c] + 1)]  OBVIOUS
  <2>3. PICK t : t = IF S = {} THEN Sync(Release) ELSE Upsert(refs, Sync(Release))  OBVIOUS
  <2>4. DOMAIN auths' = DOMAIN auths /\ UNCHANGED <<meta, listed>>
    BY <1>9 DEF SweepConfig, Scheduler, Registry
  <2>5. Finish(p, t)
    <3>1. CASE S = {}  BY <1>9, <2>1, <2>3, <3>1 DEF SweepConfig
    <3>2. CASE S # {}  BY <1>9, <2>1, <2>2, <2>3, <3>2 DEF SweepConfig
    <3>. QED  BY <3>1, <3>2
  <2>6. NextLooks(Sync(Release)) /\ TaskLooks(Sync(Release))
    BY Following, TailTasks, TailsLook
  <2>7. TaskLooks(t)  BY <2>3, <2>6, UpsertsBring
  <2>. QED  BY <1>4, <2>4, <2>5, <2>7, PassesOn
<1>10. ASSUME NEW saved \in BOOLEAN, ResetQuota(p, saved)  PROVE InStep'
  <2>1. UNCHANGED <<meta, listed>>  BY <1>10 DEF ResetQuota, Scheduler, Registry
  <2>2. PICK c : c = x.c  OBVIOUS
  <2>3. CASE c \in DOMAIN auths
    <3>1. PICK a : a = Reset(auths[c], now)  OBVIOUS
    <3>2. PICK ms : ms = IF Tracked(auths[c]) = {} THEN x.ms ELSE Tracked(auths[c])  OBVIOUS
    <3>3. PICK u : u = UpsertOne(c, Clone(a, ver[c] + 1), Idle)  OBVIOUS
    <3>4. PICK t : t = IF saved THEN Resume(c, ms, u) ELSE Idle  OBVIOUS
    <3>5. Finish(p, t) /\ DOMAIN auths' = DOMAIN auths
      BY <1>1, <1>10, <2>2, <2>3, <3>1, <3>2, <3>3, <3>4 DEF ResetQuota, Change
    <3>6. TaskLooks(Resume(c, ms, u))
      <4>1. u.then = Idle  BY <3>3 DEF UpsertOne, Upsert
      <4>2. PICK r : r = Resume(c, ms, u)  OBVIOUS
      <4>3. r.op = "resume" /\ r.then = u  BY <4>2 DEF Resume
      <4>4. TaskLooks(r)  BY <1>5, <4>1, <4>3 DEF TaskLooks, NextLooks, LooksOnce
      <4>. QED  BY <4>2, <4>4
    <3>. QED  BY <1>4, <1>5, <2>1, <3>4, <3>5, <3>6, PassesOn
  <2>4. CASE c \notin DOMAIN auths
    <3>1. Finish(p, Idle) /\ UNCHANGED auths  BY <1>1, <1>10, <2>2, <2>4 DEF ResetQuota
    <3>. QED  BY <1>4, <1>5, <2>1, <3>1, PassesOn
  <2>. QED  BY <2>3, <2>4
<1>. QED  BY <1>6, <1>7, <1>8, <1>9, <1>10

LEMMA InStepNext ==
  ASSUME IInv, InStep, [Next]_vars
  PROVE  InStep'
<1>1. TypeInv  BY DEF IInv
<1>2. CASE Tick \/ (\E m \in Models : Pick(m)) \/ UNCHANGED vars
  <2>1. UNCHANGED <<auths, meta, listed, task>>  BY <1>2 DEF Tick, Pick, vars
  <2>. QED  BY <2>1 DEF InStep
<1>3. ASSUME NEW p \in Procs, Start(p) \/ Continue(p)  PROVE InStep'
  <2>1. CASE Start(p)  BY <1>1, <2>1, InStepByStart
  <2>2. CASE Continue(p)
    BY <1>1, <2>2, InStepByRemove, InStepByRegistration, InStepByFetch, InStepByTelling,
       InStepByRebuild, InStepByOthers
    DEF Continue
  <2>. QED  BY <1>3, <2>1, <2>2
<1>. QED  BY <1>2, <1>3 DEF Next

\* Update and Register show a credential to the scheduler before its models are registered,
\* and a registration can overtake the other: once no goroutine has anything left to do,
\* the scheduler knows every credential it holds by the models the registry lists.
THEOREM SupportIsSettled == Spec => []SupportSettles
<1>1. Init => InStep
  <2>1. TaskLooks(Idle)  BY Following, TailsLook
  <2>. QED  BY <2>1, EmptyMap DEF Init, InStep
<1>2. (IInv /\ InStep) /\ [Next]_vars => InStep'  BY InStepNext
<1>3. InStep => SupportSettles
  <2>1. \A d : ~Brings(Idle, d)  BY BringsNothing DEF Idle
  <2>. QED  BY <2>1 DEF InStep, SupportSettles, Settled
<1>. QED  BY <1>1, <1>2, <1>3, InvariantHolds, PTL DEF Spec

=============================================================================
