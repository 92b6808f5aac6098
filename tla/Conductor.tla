------------------------------ MODULE Conductor ------------------------------
(***************************************************************************)
(* The credential conductor: the Manager's map of credentials (m.auths,    *)
(* under m.mu), the scheduler's incremental copy of it (authScheduler,     *)
(* under s.mu), the model registry's view of each credential, and the      *)
(* goroutines that carry a change from the first to the others.            *)
(*                                                                         *)
(* Every Manager operation changes m.auths under m.mu, takes a snapshot,   *)
(* unlocks, and only then applies the snapshot to the scheduler and the    *)
(* registry. What a goroutine still has to do after it unlocked is its     *)
(* task; a step of a task takes one lock. Any number of requests, token    *)
(* refreshes, management calls and the service's update consumer run these *)
(* operations concurrently.                                                *)
(*                                                                         *)
(* The scheduler is modelled for one provider; which of the ready          *)
(* credentials a pick returns is the subject of module ReadyShard. No      *)
(* cooldown store is configured (save-cooldown-status off, the default).   *)
(***************************************************************************)
EXTENDS AuthState

CONSTANTS
  Creds,      \* credential ids
  Procs,      \* goroutines that run Manager operations
  RetryAfters,\* the Retry-After hints an upstream may send, 0 for none
  MaxTime,    \* bound of the clock
  MaxVer      \* bound of the changes made to one credential

ASSUME ConductorAssumption ==
  /\ RetryAfters \subseteq Nat
  /\ MaxTime \in Nat
  /\ MaxVer \in Nat

VARIABLES
  now,      \* the clock
  cool,     \* runtimeConfig: cooling is enabled
  auths,    \* m.auths: a function whose domain is the set of registered ids
  listed,   \* registry: the models each client is registered for
  marked,   \* registry: the models each client is suspended for
  meta,     \* providerScheduler.auths: the snapshot each scheduled id is known by
  shard,    \* providerScheduler.modelShards: the entries of each shard built so far
  task,     \* what each goroutine still has to do
  config,   \* configUpdateMu: the goroutine that holds it, if any
  ver,      \* history: the number of changes made to each credential
  applied   \* history: the change of each credential the scheduler last applied

vars == <<now, cool, auths, listed, marked, meta, shard, task, config, ver, applied>>

-----------------------------------------------------------------------------
(* Partial functions.                                                        *)

With(f, k, v)  == [x \in DOMAIN f \cup {k} |-> IF x = k THEN v ELSE f[x]]
Without(f, k)  == [x \in DOMAIN f \ {k} |-> f[x]]
Empty          == [x \in {} |-> 0]

(* An *Auth held outside m.auths. Register and Update hand the scheduler the *)
(* very object they store, so later in-place changes show through it (live)  *)
(* until the object is replaced; everything else is a Clone.                 *)
LiveRef       == [live |-> TRUE, auth |-> FreshAuth(FALSE), ver |-> 0]
Clone(a, v)   == [live |-> FALSE, auth |-> a, ver |-> v]

Deref(r, c)   == IF r.live THEN auths[c] ELSE r.auth
RefVer(r, c)  == IF r.live THEN ver[c] ELSE r.ver
Frozen(r, c)  == IF r.live THEN Clone(auths[c], ver[c]) ELSE r

(* Tasks. upsert applies the snapshots it holds one by one, then goes on.    *)
Idle                == [op |-> "idle"]
Upsert(refs, then)  == [op |-> "upsert", refs |-> refs, then |-> then]
UpsertOne(c, r, then) == Upsert([x \in {c} |-> r], then)
Resume(c, ms, then) == [op |-> "resume", c |-> c, ms |-> ms, then |-> then]
Suspend(c, m)       == [op |-> "suspend", c |-> c, m |-> m]
LookUp(c)           == [op |-> "lookup", c |-> c]
Sync(then)          == [op |-> "sync", then |-> then]
FetchAll(then)      == [op |-> "all", then |-> then]
Release             == [op |-> "release"]
\* Fetching the scheduler entries of some credentials, one after the other.
Fetch(ids, then)    == IF ids = {} THEN then ELSE [op |-> "fetch", ids |-> ids, then |-> then]
\* Registering the models of some credentials, each with the disabled flag it had
\* when it was looked up.
ListModels(todo, then) ==
  IF todo = Empty THEN then ELSE [op |-> "list", todo |-> todo, then |-> then]
ListOne(c, a, then) == ListModels([x \in {c} |-> a.disabled], then)

Entry     == [state: {"ready", "cooldown", "blocked", "disabled"}, at: Nat]

Finish(p, t)  == task' = [task EXCEPT ![p] = t]
Room(c)       == ver[c] < MaxVer
Bump(c)       == ver' = [ver EXCEPT ![c] = @ + 1]
Scheduler     == <<meta, shard, applied>>
Registry      == <<listed, marked>>

-----------------------------------------------------------------------------
(* The scheduler's critical sections.                                        *)

\* upsertEntryLocked and promoteExpiredLocked: the state an entry is given.
Classify(a, m) ==
  IF ~Blocked(a, m, now) THEN [state |-> "ready", at |-> 0]
  ELSE IF OutOfService(a) THEN [state |-> "disabled", at |-> 0]
  ELSE [state |-> IF StateOf(a, m).quota.exceeded THEN "cooldown" ELSE "blocked",
        at    |-> BlockedUntil(a, m, now)]

SchedulerRemove(c, v) ==
  /\ meta'    = Without(meta, c)
  /\ shard'   = [m \in DOMAIN shard |-> Without(shard[m], c)]
  /\ applied' = [applied EXCEPT ![c] = v]

\* Mutant: a credential that lost a model keeps its entry in that model's shard.
SchedulerUpsertLeavesEntry(c, a, r, v) ==
  IF a.disabled THEN SchedulerRemove(c, v)
  ELSE /\ meta'  = With(meta, c, [ref |-> r, supported |-> listed[c]])
       /\ shard' = [m \in DOMAIN shard |->
                      IF m \in listed[c] THEN With(shard[m], c, Classify(a, m)) ELSE shard[m]]
       /\ applied' = [applied EXCEPT ![c] = v]

\* authScheduler.upsertAuthLocked: a disabled snapshot removes the entry.
\* The supported models are read from the registry at this moment.
SchedulerUpsert(c, a, r, v) ==
  IF a.disabled THEN SchedulerRemove(c, v)
  ELSE /\ meta'  = With(meta, c, [ref |-> r, supported |-> listed[c]])
       /\ shard' = [m \in DOMAIN shard |->
                      IF m \in listed[c] THEN With(shard[m], c, Classify(a, m))
                                         ELSE Without(shard[m], c)]
       /\ applied' = [applied EXCEPT ![c] = v]

\* ensureModelLocked: the shard is built on first use, else its expired
\* entries are looked at again.
BuildShard(m) ==
  [c \in {x \in DOMAIN meta : m \in meta[x].supported} |->
     Classify(Deref(meta[c].ref, c), m)]

Expired(e)    == e.state \in {"cooldown", "blocked"} /\ e.at # 0 /\ e.at <= now
\* Mutant: every waiting entry is promoted, its retry time elapsed or not.
PromoteWaiting(m) ==
  [c \in DOMAIN shard[m] |->
     IF shard[m][c].state \in {"cooldown", "blocked"} THEN [state |-> "ready", at |-> 0]
                                                       ELSE shard[m][c]]
Promote(m)    ==
  [c \in DOMAIN shard[m] |->
     IF Expired(shard[m][c]) THEN Classify(Deref(meta[c].ref, c), m) ELSE shard[m][c]]

\* pickSingle up to the choice: the entries it may choose from are the ready
\* ones of the shard it leaves behind.
Pick(m) ==
  /\ shard' = With(shard, m, IF m \in DOMAIN shard THEN Promote(m) ELSE BuildShard(m))
  /\ UNCHANGED <<now, config, cool, auths, listed, marked, meta, task, ver, applied>>

Offered(c, m) ==
  m \in DOMAIN shard /\ c \in DOMAIN shard[m] /\ shard[m][c].state = "ready"

-----------------------------------------------------------------------------
(* The Manager's critical sections. A change made in place leaves live       *)
(* references live; storing another object or deleting the id freezes them.  *)

Change(p, c, a, t) ==
  /\ Room(c)
  /\ auths' = [auths EXCEPT ![c] = a]
  /\ Bump(c)
  /\ Finish(p, t)

FreezeTask(t, c) ==
  IF t.op # "upsert" THEN t
  ELSE [t EXCEPT !.refs = [x \in DOMAIN t.refs |->
          IF x = c THEN Frozen(t.refs[x], c) ELSE t.refs[x]]]

FreezeMeta(c) ==
  [x \in DOMAIN meta |-> IF x = c THEN [meta[x] EXCEPT !.ref = Frozen(@, c)] ELSE meta[x]]

Store(p, c, a, t) ==
  /\ Room(c)
  /\ auths' = With(auths, c, a)
  /\ Bump(c)
  /\ meta'  = IF c \in DOMAIN auths THEN FreezeMeta(c) ELSE meta
  /\ task'  = [q \in Procs |-> IF q = p THEN t
                 ELSE IF c \in DOMAIN auths THEN FreezeTask(task[q], c) ELSE task[q]]
  /\ UNCHANGED <<shard, applied>>

-----------------------------------------------------------------------------
(* The registry. RegisterClient with the models of S, UnregisterClient when S *)
(* is empty: the suspensions of a client bound before are cleared, those made *)
(* while it was not bound stay, and a model nobody lists is forgotten with    *)
(* every suspension of it.                                                    *)

Bind(c, S) ==
  LET after == [listed EXCEPT ![c] = S]
      known == UNION {after[x] : x \in Creds}
      kept  == IF listed[c] = {} THEN marked[c] ELSE marked[c] \ (listed[c] \cup S)
  IN /\ listed' = after
     /\ marked' = [x \in Creds |-> (IF x = c THEN kept ELSE marked[x]) \cap known]

-----------------------------------------------------------------------------
(* Starting an operation.                                                    *)

Starts(p) == task[p] = Idle

Tick ==
  /\ now < MaxTime
  /\ now' = now + 1
  /\ UNCHANGED <<config, cool, auths, listed, marked, meta, shard, task, ver, applied>>

\* MarkResult, a request on model m succeeded.
MarkSuccess(p, c, m) ==
  /\ Starts(p) /\ c \in DOMAIN auths
  /\ LET a == Succeed(auths[c], m, now)
     IN Change(p, c, a, UpsertOne(c, Clone(a, ver[c] + 1), Resume(c, {m}, Idle)))
  /\ UNCHANGED <<now, config, cool, Scheduler, Registry>>

Suspends(kind) == kind = "unsupported" \/ (cool /\ kind \in {"denied", "notfound", "quota"})

\* MarkResult, a request on model m failed.
MarkFailure(p, c, m, kind, ra) ==
  /\ Starts(p) /\ c \in DOMAIN auths
  /\ ra > 0 => kind = "quota"
  /\ LET a == Fail(auths[c], m, kind, ra, cool, now)
     IN Change(p, c, a, UpsertOne(c, Clone(a, ver[c] + 1),
                          IF Suspends(kind) THEN Suspend(c, m) ELSE Idle))
  /\ UNCHANGED <<now, config, cool, Scheduler, Registry>>

\* ResetQuota, before m.mu: the models the registry lists for the credential.
BeginReset(p, c) ==
  /\ Starts(p) /\ c \in DOMAIN auths
  /\ Finish(p, [op |-> "reset", c |-> c, ms |-> listed[c]])
  /\ UNCHANGED <<now, config, cool, auths, Scheduler, Registry, ver>>

\* applyCoreAuthAddOrUpdate, first part: the service looks the id up and
\* decides between Update and Register, carrying the model states over. The models
\* are registered next, then the plugin runtime is synchronised.
ServiceApply(p, c, disabled) ==
  /\ Starts(p)
  /\ LET new  == FreshAuth(disabled)
         then == ListOne(c, new, Sync(Idle))
     IN IF c \in DOMAIN auths
        THEN Finish(p, [op |-> "update", c |-> c, then |-> then,
               auth |-> IF OutOfService(auths[c]) \/ disabled THEN new
                        ELSE [new EXCEPT !.states = auths[c].states]])
        ELSE Finish(p, [op |-> "register", c |-> c, auth |-> new, then |-> then])
  /\ UNCHANGED <<now, config, cool, auths, Scheduler, Registry, ver>>

\* The model catalog changed: the models of an enabled credential are registered
\* again, and once more if it is still there and enabled afterwards.
RefreshCatalog(p, c) ==
  /\ Starts(p) /\ c \in DOMAIN auths /\ ~auths[c].disabled
  /\ Finish(p, ListOne(c, auths[c], LookUp(c)))
  /\ UNCHANGED <<now, config, cool, auths, Scheduler, Registry, ver>>

\* The management API reads a credential, flips its disabled flag and updates it.
ManagementSetDisabled(p, c, disabled) ==
  /\ Starts(p) /\ c \in DOMAIN auths
  /\ Finish(p, [op |-> "update", c |-> c, then |-> Idle,
       auth |-> [auths[c] EXCEPT !.disabled = disabled,
                                 !.status = IF disabled THEN "disabled" ELSE "active"]])
  /\ UNCHANGED <<now, config, cool, auths, Scheduler, Registry, ver>>

\* refreshAuth: the credential is cloned and the token refresh runs unlocked.
BeginRefresh(p, c) ==
  /\ Starts(p) /\ c \in DOMAIN auths
  /\ Finish(p, [op |-> "refresh", c |-> c, then |-> Idle, auth |-> auths[c]])
  /\ UNCHANGED <<now, config, cool, auths, Scheduler, Registry, ver>>

\* applyCoreAuthRemoval: the registry forgets the client first.
ServiceRemove(p, c) ==
  /\ Starts(p)
  /\ Bind(c, {})
  /\ Finish(p, [op |-> "drop", c |-> c])
  /\ UNCHANGED <<now, config, cool, auths, Scheduler, ver>>

\* A configuration reload takes configUpdateMu. SetConfig publishes the new
\* configuration and sweeps the credentials; the plugin runtime is synchronised last.
SetConfig(p, enabled) ==
  /\ Starts(p) /\ config = {}
  /\ cool' = enabled
  /\ config' = {p}
  /\ Finish(p, [op |-> "sweep"])
  /\ UNCHANGED <<now, auths, Scheduler, Registry, ver>>

\* syncScheduler, run by a pick that found nothing: a snapshot of every credential.
SyncScheduler(p) ==
  /\ Starts(p)
  /\ Finish(p, [op |-> "rebuild", vers |-> ver,
                refs |-> [c \in DOMAIN auths |-> Clone(auths[c], ver[c])]])
  /\ UNCHANGED <<now, config, cool, auths, Scheduler, Registry, ver>>

-----------------------------------------------------------------------------
(* Going on with a task.                                                     *)

Doing(p, op) == task[p].op = op

\* scheduler.upsertAuth.
ApplyUpsert(p) ==
  /\ Doing(p, "upsert")
  /\ \E c \in DOMAIN task[p].refs :
       LET r == task[p].refs[c]
           rest == Without(task[p].refs, c)
       IN /\ SchedulerUpsert(c, Deref(r, c), r, RefVer(r, c))
          /\ Finish(p, IF rest = Empty THEN task[p].then ELSE Upsert(rest, task[p].then))
  /\ UNCHANGED <<now, config, cool, auths, Registry, ver>>

\* scheduler.rebuild: every shard is dropped, disabled credentials are skipped.
Rebuild(p) ==
  /\ Doing(p, "rebuild")
  /\ LET refs == task[p].refs
     IN meta' = [c \in {x \in DOMAIN refs : ~refs[x].auth.disabled} |->
                   [ref |-> refs[c], supported |-> listed[c]]]
  /\ shard'   = Empty
  /\ applied' = task[p].vers
  /\ Finish(p, Idle)
  /\ UNCHANGED <<now, config, cool, auths, Registry, ver>>

\* Mutant: Update stores the credential without looking for it first.
UpdateRevives(p) ==
  /\ task[p].op \in {"update", "refresh"}
  /\ LET c == task[p].c
     IN Store(p, c, task[p].auth, UpsertOne(c, LiveRef, task[p].then))
  /\ UNCHANGED <<now, config, cool, Registry>>

\* Update: a credential removed meanwhile stays removed.
Update(p) ==
  /\ task[p].op \in {"update", "refresh"}
  /\ LET c == task[p].c
     IN IF c \in DOMAIN auths
        THEN Store(p, c, Merge(auths[c], task[p].auth, cool, now),
                   UpsertOne(c, LiveRef, task[p].then))
        ELSE Finish(p, task[p].then) /\ UNCHANGED <<auths, ver, Scheduler>>
  /\ UNCHANGED <<now, config, cool, Registry>>

\* Register: the id is stored whatever was there before.
Register(p) ==
  /\ Doing(p, "register")
  /\ LET c == task[p].c
     IN Store(p, c, Admit(task[p].auth, cool, now), UpsertOne(c, LiveRef, task[p].then))
  /\ UNCHANGED <<now, config, cool, Registry>>

\* refreshAuth, the refresh failed: the scheduler is told before m.mu is released.
RefreshFails(p, rejected) ==
  /\ Doing(p, "refresh")
  /\ LET c == task[p].c
     IN IF c \in DOMAIN auths
        THEN LET a == RefreshFailed(auths[c], rejected)
             IN /\ Change(p, c, a, Idle)
                /\ SchedulerUpsert(c, a, Clone(a, ver[c] + 1), ver[c] + 1)
        ELSE Finish(p, Idle) /\ UNCHANGED <<auths, ver, Scheduler>>
  /\ UNCHANGED <<now, config, cool, Registry>>

\* refreshAuth, the refresh was cancelled.
RefreshCancelled(p) ==
  /\ Doing(p, "refresh")
  /\ Finish(p, Idle)
  /\ UNCHANGED <<now, config, cool, auths, Scheduler, Registry, ver>>

\* ResetQuota, under m.mu. The registry is resumed before the scheduler is told;
\* when the credential cannot be persisted the change stays and nobody is told.
ResetQuota(p, saved) ==
  /\ Doing(p, "reset")
  /\ LET c  == task[p].c
         a  == Reset(auths[c], now)
         ms == IF Tracked(auths[c]) = {} THEN task[p].ms ELSE Tracked(auths[c])
     IN IF c \in DOMAIN auths
        THEN Change(p, c, a, IF saved THEN Resume(c, ms, UpsertOne(c, Clone(a, ver[c] + 1), Idle))
                                      ELSE Idle)
        ELSE Finish(p, Idle) /\ UNCHANGED <<auths, ver>>
  /\ UNCHANGED <<now, config, cool, Scheduler, Registry>>

\* syncPluginModelRuntime, first part: every credential is listed. It then registers
\* their models and fetches every scheduler entry again.
SyncPlugins(p) ==
  /\ Doing(p, "sync")
  /\ Finish(p, ListModels([c \in DOMAIN auths |-> auths[c].disabled], FetchAll(task[p].then)))
  /\ UNCHANGED <<now, config, cool, auths, Scheduler, Registry, ver>>

\* Mutant: the scheduler entry is not fetched again.
AfterRegistrationFetchless(c, todo, then) ==
  IF then = LookUp(c) THEN then ELSE ListModels(Without(todo, c), then)

\* What follows the registration of a credential's models: its scheduler entry is
\* fetched, and the next one's turn comes; a catalog refresh looks it up first.
AfterRegistration(c, todo, then) ==
  IF then = LookUp(c) THEN then ELSE Fetch({c}, ListModels(Without(todo, c), then))

\* registerModelsForAuth: the models of a disabled credential are unregistered.
RegisterModels(p) ==
  /\ Doing(p, "list")
  /\ \E c \in DOMAIN task[p].todo :
       /\ \E S \in SUBSET Models : (task[p].todo[c] => S = {}) /\ Bind(c, S)
       /\ Finish(p, [op |-> "supported", c |-> c,
                     then |-> AfterRegistration(c, task[p].todo, task[p].then)])
  /\ UNCHANGED <<now, config, cool, auths, Scheduler, ver>>

\* ReconcileRegistryModelStates, before m.mu: what the registry lists.
ReadSupported(p) ==
  /\ Doing(p, "supported")
  /\ LET c == task[p].c
     IN Finish(p, [op |-> "reconcile", c |-> c, ms |-> listed[c], then |-> task[p].then])
  /\ UNCHANGED <<now, config, cool, auths, Scheduler, Registry, ver>>

\* ReconcileRegistryModelStates, under m.mu.
ReconcileModelStates(p) ==
  /\ Doing(p, "reconcile")
  /\ LET c == task[p].c
     IN IF c \in DOMAIN auths /\ NeedsReconcile(auths[c], task[p].ms)
        THEN LET a == Reconcile(auths[c], task[p].ms, now)
             IN Change(p, c, a, UpsertOne(c, Clone(a, ver[c] + 1), task[p].then))
        ELSE Finish(p, task[p].then) /\ UNCHANGED <<auths, ver>>
  /\ UNCHANGED <<now, config, cool, Scheduler, Registry>>

\* refreshModelRegistrationForAuth looks the credential up again: a removed or
\* disabled one is unregistered, the models of any other are registered once more.
LookUpAgain(p) ==
  /\ Doing(p, "lookup")
  /\ LET c == task[p].c
     IN Finish(p, IF c \in DOMAIN auths /\ ~auths[c].disabled
                  THEN ListOne(c, auths[c], Idle) ELSE [op |-> "unregister", c |-> c])
  /\ UNCHANGED <<now, config, cool, auths, Scheduler, Registry, ver>>

Unregister(p) ==
  /\ Doing(p, "unregister")
  /\ Bind(task[p].c, {})
  /\ Finish(p, Fetch({task[p].c}, Idle))
  /\ UNCHANGED <<now, config, cool, auths, Scheduler, ver>>

\* RefreshSchedulerAll: the ids.
FetchEveryEntry(p) ==
  /\ Doing(p, "all")
  /\ Finish(p, Fetch(DOMAIN auths, task[p].then))
  /\ UNCHANGED <<now, config, cool, auths, Scheduler, Registry, ver>>

\* RefreshSchedulerEntry: the snapshot.
FetchEntry(p) ==
  /\ Doing(p, "fetch")
  /\ \E c \in task[p].ids :
       LET then == Fetch(task[p].ids \ {c}, task[p].then)
       IN Finish(p, IF c \in DOMAIN auths THEN UpsertOne(c, Clone(auths[c], ver[c]), then)
                                          ELSE then)
  /\ UNCHANGED <<now, config, cool, auths, Scheduler, Registry, ver>>

\* Remove, under m.mu.
Remove(p) ==
  /\ Doing(p, "drop")
  /\ LET c == task[p].c
     IN IF c \in DOMAIN auths
        THEN /\ Room(c)
             /\ auths' = Without(auths, c)
             /\ Bump(c)
             /\ meta'  = FreezeMeta(c)
             /\ task'  = [q \in Procs |->
                            IF q = p THEN [op |-> "remove", c |-> c, v |-> ver[c] + 1]
                            ELSE FreezeTask(task[q], c)]
             /\ UNCHANGED <<shard, applied>>
        ELSE Finish(p, Sync(Idle)) /\ UNCHANGED <<auths, ver, Scheduler>>
  /\ UNCHANGED <<now, config, cool, Registry>>

\* Remove, scheduler.removeAuth; applyCoreAuthRemoval then synchronises the plugins.
RemoveEntry(p) ==
  /\ Doing(p, "remove")
  /\ SchedulerRemove(task[p].c, task[p].v)
  /\ Finish(p, Sync(Idle))
  /\ UNCHANGED <<now, config, cool, auths, Registry, ver>>

\* ClearModelQuotaExceeded and ResumeClientModel, one model after the other.
ResumeModels(p) ==
  /\ Doing(p, "resume")
  /\ LET c == task[p].c
     IN IF task[p].ms = {}
        THEN Finish(p, task[p].then) /\ UNCHANGED marked
        ELSE \E m \in task[p].ms :
               /\ marked' = [marked EXCEPT ![c] = @ \ {m}]
               /\ Finish(p, Resume(c, task[p].ms \ {m}, task[p].then))
  /\ UNCHANGED <<now, config, cool, auths, listed, Scheduler, ver>>

\* SetModelQuotaExceeded and SuspendClientModel: ignored for a model no client lists.
SuspendModel(p) ==
  /\ Doing(p, "suspend")
  /\ LET c == task[p].c
         m == task[p].m
     IN marked' = IF \E x \in Creds : m \in listed[x]
                  THEN [marked EXCEPT ![c] = @ \cup {m}] ELSE marked
  /\ Finish(p, Idle)
  /\ UNCHANGED <<now, config, cool, auths, listed, Scheduler, ver>>

\* clearDisabledCooldownStates, under m.mu, over every credential.
Sweeps(c) == (~cool \/ OutOfService(auths[c])) /\ HoldsCooldown(auths[c])
SweepConfig(p) ==
  /\ Doing(p, "sweep")
  /\ LET swept == {c \in DOMAIN auths : Sweeps(c)}
         after(c) == ClearCooldown(auths[c], now)
     IN /\ \A c \in swept : Room(c)
        /\ auths' = [c \in DOMAIN auths |-> IF c \in swept THEN after(c) ELSE auths[c]]
        /\ ver'   = [c \in Creds |-> IF c \in swept THEN ver[c] + 1 ELSE ver[c]]
        /\ Finish(p, IF swept = {} THEN Sync(Release)
                     ELSE Upsert([c \in swept |-> Clone(after(c), ver[c] + 1)], Sync(Release)))
  /\ UNCHANGED <<now, config, cool, Scheduler, Registry>>

\* configUpdateMu is released.
EndConfig(p) ==
  /\ Doing(p, "release")
  /\ config' = {}
  /\ Finish(p, Idle)
  /\ UNCHANGED <<now, cool, auths, Scheduler, Registry, ver>>

-----------------------------------------------------------------------------
Init ==
  /\ now = 1
  /\ cool = TRUE
  /\ auths = Empty
  /\ listed = [c \in Creds |-> {}]
  /\ marked = [c \in Creds |-> {}]
  /\ meta = Empty
  /\ shard = Empty
  /\ task = [p \in Procs |-> Idle]
  /\ config = {}
  /\ ver = [c \in Creds |-> 0]
  /\ applied = [c \in Creds |-> 0]

Start(p) ==
  \/ \E c \in Creds, m \in Models : MarkSuccess(p, c, m)
  \/ \E c \in Creds, m \in Models, k \in Kinds, ra \in RetryAfters : MarkFailure(p, c, m, k, ra)
  \/ \E c \in Creds : BeginReset(p, c) \/ RefreshCatalog(p, c)
  \/ \E c \in Creds, d \in BOOLEAN : ServiceApply(p, c, d)
  \/ \E c \in Creds, d \in BOOLEAN : ManagementSetDisabled(p, c, d)
  \/ \E c \in Creds : BeginRefresh(p, c)
  \/ \E c \in Creds : ServiceRemove(p, c)
  \/ \E e \in BOOLEAN : SetConfig(p, e)
  \/ SyncScheduler(p)

Continue(p) ==
  \/ ApplyUpsert(p)
  \/ Rebuild(p)
  \/ Update(p)
  \/ Register(p)
  \/ \E rejected \in BOOLEAN : RefreshFails(p, rejected)
  \/ \E saved \in BOOLEAN : ResetQuota(p, saved)
  \/ RefreshCancelled(p)
  \/ SyncPlugins(p)
  \/ RegisterModels(p)
  \/ ReadSupported(p)
  \/ LookUpAgain(p)
  \/ Unregister(p)
  \/ ReconcileModelStates(p)
  \/ FetchEveryEntry(p)
  \/ FetchEntry(p)
  \/ Remove(p)
  \/ RemoveEntry(p)
  \/ ResumeModels(p)
  \/ SuspendModel(p)
  \/ SweepConfig(p)
  \/ EndConfig(p)

Next ==
  \/ Tick
  \/ \E m \in Models : Pick(m)
  \/ \E p \in Procs : Start(p) \/ Continue(p)

Spec == Init /\ [][Next]_vars

-----------------------------------------------------------------------------
(* The type invariant: the shape of every variable, in particular of the      *)
(* snapshots in flight (conductor.go:218 Manager, scheduler.go:34).           *)

IsRef(r) == r \in [live: BOOLEAN, auth: {r.auth}, ver: Nat] /\ IsAuth(r.auth)

AreRefs(refs) == IsPartial(refs, Creds) /\ \A c \in DOMAIN refs : IsRef(refs[c])

\* What may follow a registration, a fetch, an upsert.
Ends  == {Idle, Release}
Tails == Ends \cup [op: {"sync", "all"}, then: Ends] \cup [op: {"lookup"}, c: Creds]

IsList(t) ==
  /\ t.op = "list"
  /\ t \in [op: {"list"}, todo: {t.todo}, then: Tails]
  /\ IsPartial(t.todo, Creds) /\ \A c \in DOMAIN t.todo : t.todo[c] \in BOOLEAN

IsFetch(t) ==
  /\ t.op = "fetch"
  /\ t \in [op: {"fetch"}, ids: SUBSET Creds, then: {t.then}]
  /\ t.then \in Tails \/ IsList(t.then)

Follows(t) ==
  \/ t \in Tails \cup [op: {"suspend"}, c: Creds, m: Models]
               \cup [op: {"resume"}, c: Creds, ms: SUBSET Models, then: {Idle}]
  \/ IsList(t)
  \/ IsFetch(t)

IsUpsert(t) ==
  t.op = "upsert" /\ t = Upsert(t.refs, t.then) /\ AreRefs(t.refs) /\ Follows(t.then)

IsTask(t) ==
  \/ Follows(t)
  \/ t \in [op: {"drop", "unregister"}, c: Creds] \cup [op: {"sweep"}]
  \/ /\ t.op \in {"supported", "reconcile"}
     /\ \/ t \in [op: {"supported"}, c: Creds, then: {t.then}]
        \/ t \in [op: {"reconcile"}, c: Creds, ms: SUBSET Models, then: {t.then}]
     /\ Follows(t.then)
  \/ t \in [op: {"reset"}, c: Creds, ms: SUBSET Models]
  \/ t \in [op: {"remove"}, c: Creds, v: Nat]
  \/ IsUpsert(t)
  \/ /\ t.op = "resume"
     /\ t \in [op: {"resume"}, c: Creds, ms: SUBSET Models, then: {t.then}]
     /\ IsUpsert(t.then)
  \/ /\ t.op \in {"update", "refresh", "register"}
     /\ t \in [op: {t.op}, c: Creds, auth: {t.auth}, then: {t.then}]
     /\ IsAuth(t.auth) /\ (t.then = Idle \/ IsList(t.then))
  \/ /\ t.op = "rebuild"
     /\ t \in [op: {"rebuild"}, vers: [Creds -> Nat], refs: {t.refs}]
     /\ AreRefs(t.refs)

TypeOK ==
  /\ now \in Nat
  /\ cool \in BOOLEAN
  /\ IsPartial(auths, Creds) /\ \A c \in DOMAIN auths : IsAuth(auths[c])
  /\ listed \in [Creds -> SUBSET Models]
  /\ marked \in [Creds -> SUBSET Models]
  /\ IsPartial(meta, Creds)
  /\ \A c \in DOMAIN meta :
       /\ meta[c] \in [ref: {meta[c].ref}, supported: SUBSET Models]
       /\ IsRef(meta[c].ref)
  /\ IsPartial(shard, Models)
  /\ \A m \in DOMAIN shard :
       IsPartial(shard[m], Creds) /\ \A c \in DOMAIN shard[m] : shard[m][c] \in Entry
  /\ task = [p \in Procs |-> task[p]] /\ \A p \in Procs : IsTask(task[p])
  /\ config \in SUBSET Procs
  /\ ver \in [Creds -> Nat]
  /\ applied \in [Creds -> Nat]

-----------------------------------------------------------------------------
(* What the scheduler knows.                                                 *)

Settled == \A p \in Procs : task[p] = Idle

\* Snapshots are applied after m.mu is released, in any order, so the scheduler
\* may lag (upsertAuth after Unlock in MarkResult, Update, Register, Remove).
\* Whenever the change it applied last is the credential's last change, its
\* entries say what the Manager's state says: the id is scheduled iff it is
\* registered and enabled, and a ready entry is one selection may use.
VersionAgreement ==
  \A c \in Creds : applied[c] = ver[c] =>
    /\ c \in DOMAIN meta <=> (c \in DOMAIN auths /\ ~auths[c].disabled)
    /\ \A m \in DOMAIN shard :
         /\ c \in DOMAIN shard[m] <=> (c \in DOMAIN meta /\ m \in meta[c].supported)
         /\ c \in DOMAIN shard[m] /\ shard[m][c].state = "ready"
              => ~Blocked(auths[c], m, now)

\* Update and Register put a credential into the scheduler before its models are
\* registered; completeModelRegistrationForAuth fetches the entry again. Once
\* nothing is in flight, a scheduled credential is known by the registry's models.
SupportSettles ==
  Settled => \A c \in DOMAIN auths \cap DOMAIN meta : meta[c].supported = listed[c]

\* SetConfig publishes the configuration before it sweeps, and MarkResult and
\* Update read it under m.mu: once a reload that turned cooling off has swept, no
\* quota cooldown is pending anywhere, whatever was in flight when it began.
CoolingOffSweeps ==
  ~cool /\ (\A p \in Procs : ~Doing(p, "sweep"))
    => \A c \in DOMAIN auths : \A m \in Tracked(auths[c]) :
         auths[c].states[m].quota.recover = 0

\* A late token refresh or management update of a removed id is a no-op: only
\* Register brings an id back (conductor_remove_test.go:30).
RemovedStaysRemoved ==
  [][\A c \in Creds : c \notin DOMAIN auths /\ c \in DOMAIN auths'
       => \E p \in Procs : Doing(p, "register") /\ task[p].c = c]_vars

-----------------------------------------------------------------------------
(* What the code's comments promise and the interleavings refute.            *)

\* Auth selection refuses to pick disabled credentials (conductor.go:3309).
DisabledNotOffered ==
  Settled => \A c \in DOMAIN auths, m \in Models : auths[c].disabled => ~Offered(c, m)

\* Disabled: intentionally disabled by operator (types.go:66). A token refresh
\* never enables a credential.
RefreshKeepsDisabled ==
  [][\A c \in DOMAIN auths \cap DOMAIN auths' :
       auths[c].disabled /\ ~auths'[c].disabled
         => \A p \in Procs : Doing(p, "refresh") => task'[p] = task[p]]_vars

\* promoteExpiredLocked reevaluates blocked auths whose retry time has elapsed
\* (scheduler.go:698): an up-to-date entry never waits for longer than its model.
WaitEndsWithRetryTime ==
  \A c \in Creds : applied[c] = ver[c] =>
    \A m \in DOMAIN shard : c \in DOMAIN shard[m] =>
      (shard[m][c].state \in {"cooldown", "blocked"} /\ shard[m][c].at > now
         => Blocked(auths[c], m, now))

\* Model states are reset together with the registry's suspensions, which a
\* re-registration clears (conductor.go:387): a credential whose model is clean
\* is not suspended for it.
SuspensionHasCause ==
  Settled => \A c \in DOMAIN auths : \A m \in marked[c] : StateOf(auths[c], m).failed

\* Concurrent updates cannot leave stale model registrations behind
\* (service.go:2160): the registry lists models of registered credentials only.
NoStaleRegistration ==
  Settled => \A c \in Creds \ DOMAIN auths : listed[c] = {}

=============================================================================
