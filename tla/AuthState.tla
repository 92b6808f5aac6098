------------------------------ MODULE AuthState ------------------------------
(***************************************************************************)
(* The availability state of one credential (sdk/cliproxy/auth) and the    *)
(* pure functions the Manager applies to it while it holds m.mu: what a    *)
(* result does to a model's state, how the credential-level aggregate is   *)
(* derived, what a reset, a reconciliation or an update keeps, and whether *)
(* the selection path may use the credential for a model.                  *)
(*                                                                         *)
(* Time is a natural number of ticks; 0 is Go's zero time.Time, and the    *)
(* clock of every module that uses this one starts at 1.                   *)
(***************************************************************************)
EXTENDS Integers, FiniteSets

CONSTANTS
  Models,        \* the upstream models whose state a credential may track
  QuotaBase,     \* quotaBackoffBase, in ticks
  QuotaMax,      \* quotaBackoffMax
  MaxLevel,      \* the largest backoff level the cap lets a credential reach
  ChallengeMin,  \* the floor nextCloudflareCooldown puts under a cooldown
  TransientWait, \* nextTransientErrorRetryAfter; 0 when the operator turned it off
  HalfHour,      \* the cooldown after 401, 402 and 403
  HalfDay        \* the cooldown after 404 and an unsupported model

ASSUME DurationsAssumption ==
  /\ {QuotaBase, QuotaMax, ChallengeMin, HalfHour, HalfDay} \subseteq Nat \ {0}
  /\ TransientWait \in Nat
  /\ MaxLevel \in Nat
  /\ QuotaBase * 2^MaxLevel >= QuotaMax

-----------------------------------------------------------------------------
(* The state of a model (ModelState) and of a credential (Auth). A failed    *)
(* model is one with Status error and a LastError: every writer sets and     *)
(* clears the two together. ModelStates is a function whose domain is the    *)
(* set of models the credential tracks.                                      *)

Quota      == [exceeded: BOOLEAN, recover: Nat, level: 0..MaxLevel]
ModelState == [failed: BOOLEAN, unavail: BOOLEAN, next: Nat, quota: Quota]
Statuses   == {"active", "error", "disabled"}

IsPartial(f, S) == DOMAIN f \subseteq S /\ f = [x \in DOMAIN f |-> f[x]]

IsAuth(a) ==
  /\ a \in [disabled: BOOLEAN, status: Statuses, unavail: BOOLEAN, next: Nat,
            quota: Quota, states: {a.states}]
  /\ IsPartial(a.states, Models)
  /\ \A m \in DOMAIN a.states : a.states[m] \in ModelState

NoQuota    == [exceeded |-> FALSE, recover |-> 0, level |-> 0]
CleanState == [failed |-> FALSE, unavail |-> FALSE, next |-> 0, quota |-> NoQuota]
NoStates   == [m \in {} |-> CleanState]

\* A credential as the watcher's synthesizer or the token store hands it over.
FreshAuth(disabled) ==
  [disabled |-> disabled, status |-> IF disabled THEN "disabled" ELSE "active",
   unavail |-> FALSE, next |-> 0, quota |-> NoQuota, states |-> NoStates]

Tracked(a) == DOMAIN a.states

\* ensureModelState followed by an assignment to the state it returns.
WithState(a, m, s) ==
  [a EXCEPT !.states = [k \in Tracked(a) \cup {m} |-> IF k = m THEN s ELSE a.states[k]]]

StateOf(a, m) == IF m \in Tracked(a) THEN a.states[m] ELSE CleanState

AtLeast(min, d) == IF d < min THEN min ELSE d

\* The earliest of a set of times and the largest of a set of levels; 0 if none.
Earliest(S) == IF S = {} THEN 0 ELSE CHOOSE t \in S : \A u \in S : t <= u
Largest(S)  == IF S = {} THEN 0 ELSE CHOOSE t \in S : \A u \in S : u <= t

-----------------------------------------------------------------------------
(* Selection: isAuthBlockedForModel with a model.                            *)

Cooling(s, now) == s.unavail /\ s.next > now

OutOfService(a) == a.disabled \/ a.status = "disabled"

Blocked(a, m, now) == OutOfService(a) \/ Cooling(StateOf(a, m), now)

\* The time the selection path reports for a blocked model.
BlockedUntil(a, m, now) ==
  LET s == StateOf(a, m)
  IN IF s.quota.recover > now THEN s.quota.recover ELSE s.next

-----------------------------------------------------------------------------
(* nextQuotaCooldown: 1 << level times the base, capped; the level stops     *)
(* growing at the cap. MaxLevel keeps the shift far from the width of an int. *)

Doubled(level) ==
  LET d == QuotaBase * 2^level IN IF d < QuotaBase THEN QuotaBase ELSE d

AtCap(level) == Doubled(level) >= QuotaMax

QuotaCooldown(level) == IF AtCap(level) THEN QuotaMax ELSE Doubled(level)

\* Mutant: the level keeps growing at the cap.
NextLevelUncapped(level) == level + 1
NextLevel(level)     == IF AtCap(level) THEN level ELSE level + 1

-----------------------------------------------------------------------------
(* What a failed result does. A failure is classified by the branches of     *)
(* MarkResult: "denied" is 401, 402 or 403, "transient" is 408, 500, 502,     *)
(* 503 or 504, "scoped404" the item-not-found miss of a store=false request.  *)
(* ra is the upstream's Retry-After, 0 when it sent none.                     *)

Kinds == {"unsupported", "challenge", "denied", "notfound", "quota", "transient",
          "other", "scoped404"}

RetryAt(kind, level, ra, cool, now) ==
  CASE kind = "unsupported" -> now + HalfDay
    [] kind = "denied"    /\ cool -> now + HalfHour
    [] kind = "notfound"  /\ cool -> now + HalfDay
    [] kind = "challenge" /\ cool -> now + AtLeast(ChallengeMin, QuotaCooldown(level))
    [] kind = "quota"     /\ cool -> now + (IF ra > 0 THEN ra ELSE QuotaCooldown(level))
    [] kind = "transient" /\ cool /\ TransientWait > 0 -> now + TransientWait
    [] OTHER -> 0

QuotaAfter(q, kind, ra, cool, next) ==
  IF kind \notin {"challenge", "quota"} THEN q
  ELSE [exceeded |-> TRUE, recover |-> next,
        level |-> IF cool /\ (kind = "challenge" \/ ra = 0) THEN NextLevel(q.level) ELSE q.level]

FailState(s, kind, ra, cool, now) ==
  LET next == RetryAt(kind, s.quota.level, ra, cool, now)
  IN [failed |-> TRUE, unavail |-> TRUE, next |-> next,
      quota |-> QuotaAfter(s.quota, kind, ra, cool, next)]

-----------------------------------------------------------------------------
(* updateAggregatedAvailability: an expired model state is released, then the *)
(* credential is unavailable iff every model it tracks is still cooling.      *)

Expire(s, now) ==
  IF s.unavail /\ s.next # 0 /\ s.next <= now
  THEN [s EXCEPT !.unavail = FALSE, !.next = 0] ELSE s

AggregateQuota(states) ==
  LET over == {m \in DOMAIN states : states[m].quota.exceeded}
  IN IF over = {} THEN NoQuota
     ELSE [exceeded |-> TRUE,
           recover  |-> Earliest({states[m].quota.recover : m \in over} \ {0}),
           level    |-> Largest({states[m].quota.level : m \in over})]

Aggregate(a, now) ==
  LET states == [m \in Tracked(a) |-> Expire(a.states[m], now)]
      all    == Tracked(a) # {} /\ \A m \in Tracked(a) : Cooling(states[m], now)
  IN [a EXCEPT !.states  = states,
               !.unavail = all,
               !.next    = IF all THEN Earliest({states[m].next : m \in Tracked(a)}) ELSE 0,
               !.quota   = AggregateQuota(states)]

HasModelError(a) == \E m \in Tracked(a) : a.states[m].failed

\* The tail every cleaning operation shares: no model in error, credential active.
Settle(a) == IF HasModelError(a) THEN a ELSE [a EXCEPT !.status = "active"]

-----------------------------------------------------------------------------
(* The operations. cool is the negation of cooldownDisabledForAuth.          *)

\* MarkResult, success on a model.
Succeed(a, m, now) == Settle(Aggregate(WithState(a, m, CleanState), now))

\* MarkResult, failure on a model.
Fail(a, m, kind, ra, cool, now) ==
  IF kind = "scoped404" THEN a
  ELSE Aggregate(
         [WithState(a, m, FailState(StateOf(a, m), kind, ra, cool, now))
            EXCEPT !.status = "error"], now)

\* clearCooldownStateForAuth: what is held, and what is left once it is dropped.
Holds(x) == x.unavail \/ x.next # 0 \/ x.quota.exceeded \/ x.quota.recover # 0

\* Mutant: only the credential's own fields, which an update starts afresh.
HoldsInAggregate(a) == Holds(a)

HoldsCooldown(a) == Holds(a) \/ \E m \in Tracked(a) : Holds(a.states[m])

DropHold(x) ==
  IF Holds(x) THEN [x EXCEPT !.unavail = FALSE, !.next = 0, !.quota = NoQuota] ELSE x

ClearCooldown(a, now) ==
  LET b == [DropHold(a) EXCEPT !.states = [m \in Tracked(a) |-> DropHold(a.states[m])]]
  IN IF Tracked(a) = {} THEN b ELSE Aggregate(b, now)

\* ResetQuota.
Reset(a, now) ==
  LET b == ClearCooldown([a EXCEPT !.states = [m \in Tracked(a) |-> CleanState]], now)
  IN IF OutOfService(a) THEN b ELSE Settle(b)

\* ReconcileRegistryModelStates: models the registry no longer lists are
\* forgotten, the others are reset; nothing happens when nothing would change.
NeedsReconcile(a, supported) ==
  \E m \in Tracked(a) : m \notin supported \/ a.states[m] # CleanState

Reconcile(a, supported, now) ==
  IF NeedsReconcile(a, supported)
  THEN Settle(Aggregate(
         [a EXCEPT !.states = [m \in Tracked(a) \cap supported |-> CleanState]], now))
  ELSE a

\* Update: what the stored credential keeps of the one it replaces.
Merge(existing, new, cool, now) ==
  LET keep == /\ ~OutOfService(existing)
              /\ ~OutOfService(new)
              /\ Tracked(new) = {}
      a    == [new EXCEPT !.states = IF keep THEN existing.states ELSE new.states]
  IN IF ~cool \/ OutOfService(a) THEN ClearCooldown(a, now) ELSE a

\* Register: nothing to inherit.
Admit(new, cool, now) ==
  IF ~cool \/ OutOfService(new) THEN ClearCooldown(new, now) ELSE new

\* refreshAuth, a failed token refresh; rejected when the upstream said 401.
RefreshFailed(a, rejected) ==
  IF rejected THEN [a EXCEPT !.unavail = TRUE, !.status = "error"] ELSE a
=============================================================================
