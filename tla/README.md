# A verification development for better-cpa

better-cpa is a proxy in front of AI providers. It holds many credentials
("auths"), chooses one for every request, learns from every result which
credential must rest, and keeps tokens fresh in the background. This directory
holds TLA+ modules of its credential core and of what surrounds it, TLC
configurations that check them and TLAPS proofs about them. Paths are relative to the repository.

Status words in the inventory are those of `PROJECT.json`, which also maps each
definition to its source lines and lists the hazards line by line.

## 1. The system

| Component | State | Operations | Interacts with | Correct when |
|---|---|---|---|---|
| **Conductor**, `Manager` (`sdk/cliproxy/auth/conductor.go`) | `m.auths` under `m.mu`; runtime configuration; per credential: disabled, status, cooldown, quota back-off, state per model (`types.go`) | Register, Update, Remove, MarkResult, ResetQuota, ReconcileRegistryModelStates, refreshAuth, SetConfig, Execute and its retry loop | scheduler, registry, stores and hooks, all called after `m.mu` is released | what it told the others agrees with `m.auths`; a removal, a disable, a reset is not undone by something older |
| **Auth scheduler** (`scheduler.go`) | a copy of each credential's metadata, a shard of entries per provider and model with indexes and cursors, mixed-request cursors, all under `s.mu` | upsertAuth, removeAuth, rebuild, setSelector, pickSingle, pickMixed | reads supported models from the registry, credential objects from the Manager | indexes exact; picks available and best; failures justified; rotations fair |
| **Service** (`sdk/cliproxy/service.go`) | update queue, executors, configuration | applies auth updates one at a time, registers models, refreshes catalogs, reloads configuration | Manager, registry, watcher, plugins | registry and Manager end up describing the same credentials |
| **Model registry** (`internal/registry/model_registry.go`) | models per client, reference counts, suspensions, quota marks, availability cache | RegisterClient, UnregisterClient, Suspend/Resume, Set/ClearModelQuotaExceeded, GetModelCount | called by service and Manager | counts match registrations; a suspension has a cause and an end |
| Request execution (`conductor.go`, `sdk/api/handlers`) | rounds, tried credentials, a stream's goroutines and channels | Execute, ExecuteStream, wrapStreamResult, the handler's peek and ForwardStream | Manager, executors, the client's connection | every attempt recorded once; a client never gets two attempts' answers mixed, nor half of one as a whole; nobody waits for ever |
| Auto-refresh loop (`auto_refresh_loop.go`) | heap of due times, dirty set, worker queue | queueReschedule, rebuild, handleDue, worker | Manager | every due credential is refreshed eventually and by one worker at a time |
| Cooldown store (`cooldown_state.go`) | one file per credential, a mutex | Save, Load, restore | Manager, service (start, reload) | a cooldown that was saved stays in the files until something ends it |
| Watcher (`internal/watcher`) | file hashes, current auths, pending updates | event handlers, config reload, dispatch loop | service's update queue | the last state of each file is what the service gets last |
| Websocket relay (`internal/wsrelay`) | sessions, pending requests | request, dispatch, cleanup, replace | HTTP API | every request ends: answered, failed, or cancelled |
| Usage queue (`internal/redisqueue`, `internal/api/redis_queue_protocol.go`), usage manager (`sdk/cliproxy/usage`) | queue with retention, subscribers; worker queue | Enqueue, Pop, Subscribe; Publish, Stop | executors, management API | records delivered once, in order |
| Codex websocket sessions (`internal/runtime/executor/codex_websockets_executor.go`) | per session: a connection, the active request's channel, a reader goroutine per connection | Execute, ExecuteStream, readUpstreamLoop, invalidate, CloseExecutionSession | Manager (calls it), websocket handlers (close it) | a request gets its own answer and is heard while it waits; exchanges on a connection do not overlap; no connection is left behind |
| Streaming translators into Claude's format (`internal/translator/{openai,gemini,antigravity,codex}/claude`) | per answer: open blocks and their indexes, pending tool calls, what of the end was told | Convert...ResponseToClaude, once per chunk; [DONE] | executors (feed them chunks), the client (reads the events) | a client can place every event; a finished answer ends with its stop reason |
| Other executors and translators, thinking, signatures, stores, API, TUI, plugin host, home client, logging, access | mostly none shared with the core | I/O and JSON rewriting | Manager (results) | unit tests; outside this development |

What is hard here: every Manager operation changes `m.auths` under `m.mu`, takes
a snapshot, unlocks, and only then tells the scheduler, the store and the
registry. Several goroutines (requests, management calls, refresh workers, the
service's consumer, the catalog updater) do so at once, snapshots carry no
version, and the scheduler keeps copies and indexes incrementally. Around it the
same shape returns: a lock protects a picture, what follows from it travels
through channels, coalescing maps, bounded queues and selects, and goroutines
that serve somebody must notice when that somebody has gone. Most of the
hazards in `PROJECT.json` are consequences of one of the two.

## 2. Modules

    AuthState            pure: what an operation does to one credential
       |
    Conductor            Manager + registry + scheduler copy + goroutines
       |          \
    MCConductor    Conductor_proofs      MCChanges.cfg, MCClock.cfg, five counterexamples

    ReadyShard           pure: one shard of the scheduler, indexes and choice
       |
    Scheduler            authScheduler: each function that takes s.mu an action
       |          \
    MCScheduler    Scheduler_proofs

    ModelListing <-- ModelRegistry       (refinement)
                         |
                     MCRegistry   UsagePipeline  CooldownStore  Execution  UpstreamSession   AuthSync
                         |              |              |            |            |               |
                     MCStores ----------+--------------+------------+------------+---------------+
                         |
                    ClaudeStream
                   /     |      \
    OpenAIToClaude  GeminiToClaude  CodexToClaude      each EXTENDS ClaudeEvents

    AutoRefresh    RelaySession          MCRefresh (AutoRefresh), MCExecution (Execution):
         |              |                counterexamples
    MCHandover ---------+

`ModelRegistry`, `UsagePipeline` and `UpstreamSession` have their theorems in a module
`<name>_proofs` that extends them, as Conductor and Scheduler have; those of CooldownStore
and AuthSync are in `Files_proofs`, those of Execution and ClaudeStream in
`Answers_proofs`, those of AutoRefresh and RelaySession in `Handover_proofs`.

**AuthState** translates the functions the Manager applies under its lock:
`Fail` and `Succeed` (MarkResult), `Aggregate` (updateAggregatedAvailability),
`Reset`, `Reconcile`, `Merge` (Update), `ClearCooldown`, `RefreshFailed`, and the
test `Blocked` / `BlockedUntil` (isAuthBlockedForModel). Times are naturals, 0
the zero `time.Time`. Failures are classes: the branches of MarkResult. The
back-off keeps its level, its cap and the rule that the level stops at the cap.

**Conductor** has one action per critical section. `task[p]` is what goroutine
`p` still has to do after it unlocked: an operation that starts in
`MarkFailure` continues with `ApplyUpsert` (the scheduler's lock) and
`SuspendModel` (the registry's). The longest chain is the service's: look the id up,
Update or Register, upsert, register the models, reconcile, fetch the scheduler
entry, and then synchronise the plugin runtime, which registers the models of
every credential and fetches every entry once more (`SyncPlugins`,
`FetchEveryEntry`); a configuration reload ends with the same, `config` being
`configUpdateMu`. An `upsert` task holds the snapshot it will
apply. Register and Update give the scheduler the object they store, not a
clone, so such a reference stays `live`: in-place changes show through it until
the object is replaced (`FreezeMeta`, `FreezeTask`). `listed` and `marked` are
the registry's registrations and suspensions; `Bind` is RegisterClient and
UnregisterClient. `ver` and `applied` are history variables: how many changes a
credential has seen and which of them the scheduler last applied. In this module
the scheduler's shard keeps entries only; the indexes beside them, and the choice
among the ready ones, are the subject of the next two.

**ReadyShard** and **Scheduler**, one model and any number of providers. A
`readyView` is a set of ids with a cursor, and the position of an id in the
code's sorted slice is its `Rank`. `PickSingle`, `PickMixed` and
`PickMixedPinned` are the three paths of the picks, with tried sets, both
strategies, the websocket preference and the weighted rotation over providers.
The two modules do not share an instance: Conductor decides which snapshots reach
the scheduler and when, Scheduler lets any snapshot arrive at any time, so what
it shows holds for any order Conductor produces. Its snapshots do not change by
themselves: what Scheduler says of a credential's snapshot is said of the moment
it was upserted, and the aliasing of a live object in between is Conductor's
subject only.

**ModelRegistry** has every method of the registry that changes it: a
registration adjusts counts per model and provider by the difference between the
old and the new list (`Reconciled`), marks live inside the counted entries and go
with them, expired quota marks are dropped on the way, and `GetAvailableModels`
looks at the cache under the read lock before it takes the write lock (`Ask`,
`Answer`). **ModelListing** is what callers may rely on, without counters and
without cache: the listing is a function of registrations, marks and time, taken
at some moment of the call. ModelRegistry implements it (`AnswersAsPromised`,
`INSTANCE ModelListing WITH` the marks read out of the entries).

**AutoRefresh** is the loop: heap, dirty set, wake channel, timer, bounded job
channel, workers. Times are ticks still to go, so the clock runs for ever in
finitely many states. Manager operations change the credential in one step and
tell the loop in a later one (`Notify`), as the code does after the unlock.

**RelaySession**: a request stores its channel, sends, waits; the reader pushes
without ever blocking; a context watcher and `cleanup` close channels, and both
race with `dispatch`, which sends on them.

**UsagePipeline** joins the usage manager (queue, worker, Stop) and the queue
plugin behind it (subscribers with bounded channels, or a kept queue with head
index, pruning and compaction).

**CooldownStore**: snapshot, the store's mutex, one rename per file, removal of
stale files; start and reload read, restore, save and register; the process may
end between any two steps and every write may fail. **AuthSync**: event handler,
debounced removals, reload and websocket clients change the watcher's picture;
pending map, batch, bounded queue and the service's consumer carry it to the
Manager.

**Execution** follows one request: rounds over credentials (`Pick`, `Attempt`),
waits for a cooldown (`WaitAllowed`, `NextRound`), the first chunk of a stream,
the goroutine that passes chunks on and records the result (`wrap`), the one that
feeds the handler and may start over (`pump`), the handler's peek and forwarding
(`front`). Unbuffered channels are joint steps. When all its goroutines have
ended the next request begins.

**UpstreamSession** is one execution session of the Codex websocket executor:
requests take `reqMu`, take over or dial a connection, put their channel into
`activeCh` and write; each connection has a reader that looks up the active
channel for every message, and at a failure tells it, clears it and closes it.
`invalidateUpstreamConn` is called from both sides. After a panic or when the
session is closed everything starts over (`Restart`).

**ClaudeStream** is one translated answer: the upstream says its next chunk, the
executor passes it to the translator with the state `param` it keeps, and the
client reads the events written (`Read` of **ClaudeEvents**: which blocks are
open, which were stopped, the stop reason, and `odd`, the events that fit nowhere).
What the client has read is the field `reading` of `param`, so that a translator's
function is one operator from a state to a state, events included. The loops over the
parts of a chunk, the calls of a delta and the calls to be stopped are a recursive
function (`Trail`), whose n-th value is the state after n rounds.
**OpenAIToClaude**, **GeminiToClaude** (with Antigravity, whose translator has the
same shape plus web search and a finish that waits for the token counts) and
**CodexToClaude** translate the translators function by function; a chunk says only
what it brings (a piece of a call with or without its id, name and arguments; a part
with text, empty text, a thought, a signature, a call), and a delta only where it
goes. Each has an operator for what its upstream may say at a place of an answer
(`OpenAIUpstream`, `GeminiUpstream`, `CodexUpstream`), the part that is not code of
this repository.

**MCStores** and **MCHandover** put several components beside each other that
share no state. A variable `part` is chosen at the start and only that component
moves, so a run explores the sum of their states and not the product; nothing is
lost, as no step of one reads a variable of another. They extend the components
they have theorems about, so the definition a run checks is the one the theorem
states. MCStores holds those whose
properties are invariants or action properties, MCHandover the two that need
fairness.

## 3. Properties and runs

| Run | Instance | Shows |
|---|---|---|
| `conductor_changes` | 1 credential, 1 model, 2 goroutines, 3 changes, no clock, two back-off levels | `VersionAgreement`, `SupportSettles`, `CoolingOffSweeps`, `RemovedStaysRemoved` |
| `conductor_clock` | the same, 2 changes, clock to 3, hints {0, 2} | `TypeOK`, `VersionAgreement` |
| `scheduler` | 3 credentials, 2 providers, 2 priorities, clock to 3, at most 1 tried id | `TypeOK`, `ShardsExact`, `PicksTheBest`, `FailsOnlyWhenAllWait`, `EveryoneInTurn` |
| `stores` | *registry*: 2 clients, 2 models, 2 providers, 2 readers, clock to 2 | `CountsExact`, `CacheFresh`, `FreeClientKeepsListed`, `AnswersAsPromised` (refinement) |
| | *usage*: 3 records, 1 subscriber with a channel of 2, retention 1 | `AccountedFor`, `OrderKept`, `StopDrains` |
| | *cooldown*: 2 credentials, 1 caller and the loader, 2 failures | `SavedStays` |
| | *sync*: 1 file with 2 contents, 1 websocket client, queue of 1 | `LastWordWins`, `FilesReachManager` |
| | *request*: a stream with 1 credential, or an answer with 2 | `OneVoice`, `MarkedOnce`, `DoneMeansComplete`, `AttemptsBounded`, `WaitPaysOff`, `NobodyLeftBehind` |
| | *session*: 1 streamed and 1 plain request, channels of 1, 2 connections | `OwnAnswer`, `WaiterIsHeard`, `OneExchangeAtATime`, `PanicsOnlyWhenMixed`, `NoConnLeaks` |
| | *stream*: an OpenAI, Gemini, Antigravity or Codex answer, 2 tool calls, 2 parts per chunk, 2 or 3 blocks | `ProperSequence`, `EndsComplete` |
| `handover` | *refresh*: 2 credentials, one of which comes, goes and changes while the other is not there; or both, left alone (`Crowd`); 1 worker, 1 job slot | `ScheduledInTime`, `NoLostWakeup`, `DueIsRefreshed` (liveness) |
| | *relay*: 1 request whose caller may give up, channel of 1, 3 messages | `TruncatedForCause`, `PanicsOnlyWhenClosing`, `RequestsEnd` (liveness) |
| `disabled_offered`, `refresh_enables`, `wait_outlives_retry`, `suspension_without_cause`, `stale_registration` | 1 credential, 1 model, 2 goroutines, 3 changes, `Races` | one counterexample each, see section 4 |
| `refresh_forgotten` | 1 credential, results "ok" and 401 | a counterexample under fairness, section 4 |
| `error_lost_at_peek` | 1 credential, no retries, a handler that does not look again | a counterexample, section 4 |

**Conductor and scheduler.** `VersionAgreement` is the heart of Conductor. The scheduler may lag, but whenever
the change it applied last is the credential's last change, its entries must say
what `m.auths` says: scheduled iff registered and enabled, in exactly the shards
of its supported models, and `ready` only if selection may use it.
`SupportSettles` says that the order "scheduler first, models later" of the
service leaves no scheduled credential with an outdated set of models once
everything is done. `CoolingOffSweeps` says that publish-then-sweep is enough:
a result in flight during the reload cannot leave a quota cooldown behind. It is
about the quota's recovery time: a failure for an unsupported model sets a retry time
12 hours ahead with cooling off, too (conductor.go:3556-3560).

`ShardsExact` relates the incremental indexes to the snapshots; `PicksTheBest`
and `FailsOnlyWhenAllWait` are the two halves of what a pick promises.
`EveryoneInTurn`: between two picks that take a ready credential, fewer mixed picks
pass it over than there are slots, counted while the ready set does not change and
requests neither retry nor are pinned (`passed`). A pick for one provider that takes
another credential does not delay it, although it moves the cursor of a view; one that
takes it begins a new count. What mixed requests alone are given is in section 4.

**Registry.** `CountsExact`: the counters are those of the registrations, per
model and per provider, after any order of overlapping lists. `CacheFresh`: a
cached listing that has not expired is the listing now. `FreeClientKeepsListed`
is the comment at model_registry.go:763, in the form that holds: a client without
a mark keeps its model listed as long as nobody is in both sets that are
subtracted.

**Usage.** Each record ends in exactly one place (`AccountedFor`), nobody sees
them out of order (`OrderKept`), and a worker that has left has drained the queue
(`StopDrains`), whatever Stop, pops, expiry, subscriptions and clears do between.

**Cooldown and sync.** `SavedStays` is stated only while no two saves have
overlapped and none has failed (`blurred`), and behaviours are not followed past
that (constraint `Sharp`): the older of two snapshots may be written last.
`LastWordWins` and `FilesReachManager` except ids the code makes no promise for
(`excused`, section 4). Changes, reloads and connections come in budgets that
begin again when everything is quiet, so a second round meets what the first left.

**Requests.** `OneVoice`, `MarkedOnce` and `DoneMeansComplete` relate what the
client got to what the Manager recorded, across three goroutines;
`AttemptsBounded` multiplies the three limits; `WaitPaysOff` says that a wait is
long enough. `NobodyLeftBehind` stands for the end of all goroutines: in every
state one of them has what it waits for (`NobodyStuck`), and who has that takes a
step (`CanGoOn => ENABLED GoesOn`); their steps are finite in number.

**Sessions.** `WaiterIsHeard` is why no request hangs: the reader of its
connection still reads and finds its channel, or is about to close it.
`OwnAnswer` is the filter on the connection in `readCodexWebsocketMessage`.
`OneExchangeAtATime` is what the session's lock is for, which one goroutine takes and
another releases: a connection that is still read owes no answer ahead of another's,
unless its request abandoned it. Each property names the cases where the code does not keep it; section 4 lists them.

**Streams.** `ProperSequence` reads every answer with a client's eyes: deltas and
stops address an open block of the right kind, indexes are never reused, the stop
reason comes once, after every block is stopped, and nothing follows the end -
wherever the upstream is cut. `EndsComplete` is about answers the upstream finished:
no block is left open, and the reason is "tool_use" exactly when a call was
announced, or the upstream itself said so in its finish (`AsksForCall`, section 4). Both depend on what came many chunks before: a name after its id, usage
before or after the finish, a search after the text it explains. They are stated of
upstreams that keep their protocol; `KeepsItsPlace` and the observations of section
4 name the chunks that are excepted.

**Bounds.** `MaxVer` bounds the changes to one credential and `MaxTime` the
clock. Three changes are enough for an operation to begin before, a second to
overtake it and a third to follow; two goroutines are enough for a stale snapshot
because a goroutine may hold one for as long as it likes. When every goroutine
needs a change beyond `MaxVer` the instance stops, hence `CHECK_DEADLOCK FALSE`
in the Conductor runs and in `handover`, whose relay ends; all other runs check
deadlock. One credential is
enough for the properties of Conductor, which relate a credential to its own
copies: the only operations over several (`SweepConfig`, `Rebuild`, and the
registry forgetting a model nobody lists) treat each one alone or together.
Durations are small numbers that keep the order of the code's (base below
maximum, half an hour below half a day where the clock runs, and the level at
which the back-off is capped can be reached where three changes fit); only comparisons
matter. Three ids over two providers give unequal weights, so that segments of
the rotation move. Capacities (update queue, job channel, a request's channel, a
subscriber's buffer, compaction) are 1 or 2 so that they are met. Two clients with
lists that overlap, repeat an id and end are enough for the counters, which add
up per client; two credentials for files, which are written one by one; two
connections for a reader to outlive its connection while the next one is read.
An answer of two or three blocks (`MaxBlocks`) has every pair of neighbouring kinds,
and two calls (`Calls`) can be announced in either order, or at the end; after the
bound an upstream says only what finishes its answer. Chunks have at most two parts
(`MaxParts`), as a translator has no state between the parts of a chunk that it has not
between chunks, except Antigravity's look at the finish.

**Symmetry** over `Procs` in the two passing Conductor runs, and over clients,
readers and providers of the registry in `stores`: they are
interchangeable, and the properties are invariants and action
properties that quantify over all of them. `handover` has liveness properties
and uses no symmetry.

**Fairness** is stated in AutoRefresh and MCHandover. Goroutines that can go on
do (weak fairness of the loop, each worker, a notifying call, the session's
reader, `cleanup`, a caller and its watcher): the Go scheduler runs them. The
clock and the timer have strong fairness together, because the loop's `select`
chooses at random among ready channels: endless wake-ups cannot keep the timer
from being served. The clock stands while the loop has work it can do, as its
steps take no time next to its periods, except where it may block, on the full
job channel. Nothing is assumed of upstreams, of clients that could give up, or of
callers that change credentials. In the relay the request's caller and its watcher
share one condition, which assumes less than one each. The Conductor
counterexamples are stated at states where nothing is in flight, so that "it would
be corrected later" is not a way out.

**Mutants.** Each property has a wrong version of a mapped definition that
breaks it, next to the right one and marked `Mutant of`.

## 4. Where the code and its comments disagree

Each is a run that TLC must find violated; those of Conductor run under `Races`, a
subset of the steps of `Spec` in which one goroutine is the service's.

- **disabled_offered** - conductor.go:3309 says selection refuses disabled
  credentials. An older snapshot applied after the disable puts a ready entry
  back, and nothing is left that would remove it.
- **refresh_enables** - types.go:66 says Disabled is the operator's intent. A
  token refresh stores the clone it took before the operator disabled it.
- **wait_outlives_retry** - scheduler.go:698 and types.go:187 say a wait ends at
  the retry time. An entry waits for the quota recovery of an earlier 429.
- **suspension_without_cause** - conductor.go:387 says the registry's suspensions
  are cleared when model states are reset. The suspension of a result recorded
  before can land afterwards.
- **stale_registration** - service.go:2160 says a concurrent update leaves no
  stale registration. A removal between the lookup and the registration does.
- **refresh_forgotten** - conductor.go:5236 says the loop evaluates credentials
  and refreshes them "when required". A 401 takes a credential out of the heap; a
  later success clears the error (3530) without telling the loop, which then never
  refreshes the credential again, although it is due.
- **error_lost_at_peek** - openai_handlers.go:481 peeks "to determine success or
  failure before setting headers". With the error waiting in one channel and the
  other closed, the `select` chooses at random; the end of the data answers 200
  with `[DONE]`. Three more handlers have the same peek; the Claude handler looks
  again, which is why `stores` (`Recheck`) satisfies the same property.

Observations without a run, met while modelling; the properties except them:

- *Scheduler*: mixed and single-provider requests share a view's cursor. With
  credentials 1 and 2 of one provider and 3 of another, mixed requests and requests for
  the first provider can alternate so that the first never get 2 and the second always do.
- *Registry*: a client that is over quota and also suspended for another reason is
  subtracted twice (model_registry.go:801-835) and can hide a model that a free client
  serves. `GetModelCount` (1031), which is not modelled, repeats the arithmetic.
- *Cooldown store*: overlapping saves may write the older snapshot last
  (conductor.go:809). Cooldowns restored at a start or reload are reset by the
  registration that follows (390-459), and the files keep them.
- *Watcher*: a second removal of a file inside the debounce window is dropped
  (events.go:96); a reload reads the directory without the lock and does not update
  the hashes (dispatcher.go:131); updates are dispatched after the lock is
  released, so two may go in the other order (142).
- *Relay*: `dispatch` and `cleanup` can send on a channel the context watcher has
  closed, and a request stored while `cleanup` replaces the map fails its type
  assertion (session.go:149); both panic. `Stop` may report a disconnect before
  the connect.
- *Requests*: `max-retry-credentials` (config.example.yaml:119) counts per round;
  `request-retry` (116) applies only while a cooldown short enough is found, or a
  429 names a time; the Retry-After of a stream's 429 is lost when it arrives
  before the first chunk (conductor.go:3908-3925); a stream of empty chunks that
  closes counts as a success (1793).
- *Codex websocket sessions* (`codex_websockets_executor.go`): a stream whose
  upgrade is refused returns without unlocking `reqMu` (492-497; the xAI twin
  unlocks), so every later request of the session waits for ever. After a failed
  send the old connection's reader takes the current channel, clears and closes
  it, so the retry "with a fresh websocket connection" usually fails with "session
  read channel closed", and its answer goes on for the next request. Two readers at
  a time may close or send on a closed channel. A request that becomes active after a failing
  reader has looked, and writes before that reader closes the connection, waits
  until its context ends. A canceled request leaves its answer on the connection, and
  the next request on it receives those parts. A connection is reused whatever
  credential is asked for. A request that dials after the session was closed
  leaves a connection that only the idle timeout ends.

- *OpenAI translator*: usage in the finishing chunk and again in a later one gives a
  second `message_delta`, after `message_stop` (openai_claude_response.go:339-357);
  [DONE] without any delta before it, which the executor sends too, gives a
  `message_stop` without a `message_start` (413); an answer cut before its finish is
  stopped without a stop reason. Blocks of parallel calls stay open together. The
  finish_reason "function_call" is told as "tool_use" (501-502) although no call was
  announced: only "tool_calls" is demoted then (282-289).
- *Gemini translator*: the finish is told only in a chunk that has it and usage; an
  answer cut before, or whose usage comes elsewhere, ends with an open block and no
  stop reason (gemini_claude_response.go:250-275).
- *Antigravity translator*: an empty text after a thought or a call stops the block
  and moves to the next index but keeps `ResponseType`
  (antigravity_claude_response.go:277-298), so what follows of the same kind is
  written to a block that was never started. `KeepsItsPlace` excludes that chunk;
  without it TLC finds `ProperSequence` violated within two chunks.
- *Codex translator*: a call that never gets a name leaves a gap in the indexes and
  the reason "tool_use" (codex_claude_response.go:221-228); a stop_reason "tool_use",
  "tool_calls" or "function_call" is told as "tool_use" without a call (484-485); items that overlap would
  share one index. The model's upstream names its calls and sends one item at a time.

## 5. Proofs

A run shows a property on its instance; a theorem shows it for every value of the
constants that satisfies the assumptions named below. Nothing else is assumed. Each
proof has the same plan: an invariant that implies the property and is kept by every
action, one step per action, checked with TLC before it was proved.

| Module | Theorem | Shows |
|---|---|---|
| `Conductor_proofs` | `TypesHold` | `TypeOK` |
| | `SchedulerAgrees` | `VersionAgreement` |
| | `SupportIsSettled` | `SupportSettles` |
| | `CoolingOffHolds` | `CoolingOffSweeps` |
| | `OnlyRegisterRevives` | `RemovedStaysRemoved` (an action property) |
| `Scheduler_proofs` | `TypeCorrect`, `ShardsStayExact` | `TypeOK`, `ShardsExact` |
| | `PicksAreBest`, `FailuresAreJustified` | `PicksTheBest`, `FailsOnlyWhenAllWait` |
| | `TurnsComeRound` | `EveryoneInTurn` |
| `ModelRegistry_proofs` | `CountersAreExact` | `CountsExact` |
| | `CacheIsFresh`, `FreeClientsCount` | `CacheFresh`, `FreeClientKeepsListed` |
| | `RegistryImplementsListing` | `AnswersAsPromised` (the refinement) |
| `Answers_proofs` | `ClientHearsOneVoice`, `AttemptsAreMarkedOnce` | `OneVoice`, `MarkedOnce` |
| | `RetriesAreBounded`, `WaitsPayOff` | `AttemptsBounded`, `WaitPaysOff` |
| | `DoneIsTrue` (assuming `Recheck`) | `DoneMeansComplete` |
| | `SomebodyGoesOn` | `NobodyStuck`, the first half of `NobodyLeftBehind` |
| | `EventsInOrder`, `AnswersComplete` | `ProperSequence`, `EndsComplete` (ClaudeStream) |
| `UsagePipeline_proofs` | `NothingLostOrDoubled`, `ConsumersSeeOrder`, `StopIsHeard` | `AccountedFor`, `OrderKept`, `StopDrains` |
| `Files_proofs` | `SavedCooldownsStay` | `SavedStays` (CooldownStore) |
| | `LastWordIsKept`, `ManagerHasFiles` | `LastWordWins`, `FilesReachManager` (AuthSync) |
| `UpstreamSession_proofs` | `WaitersAreHeard`, `ExchangesAlternate` | `WaiterIsHeard`, `OneExchangeAtATime` |
| | `ConnsAreClosed`, `PanicsNeedTwoReaders` | `NoConnLeaks`, `PanicsOnlyWhenMixed` |
| | `AnswersAreOwn` | `OwnAnswer` |
| `Handover_proofs` | `WakeupsAreKept` | `NoLostWakeup` |
| | `ChecksAreScheduled` (assuming `Results \subseteq {"401"}`) | `ScheduledInTime` |
| | `TimerIsSet` | `TimerInTime` of the proof module |
| | `TruncationHasCause`, `NoPanicWhileOpen` | `TruncatedForCause`, `PanicsOnlyWhenClosing` |

**Assumptions.** Each is named in the module that declares the constants, and TLC
evaluates it in a run. `DurationsAssumption`, `ConductorAssumption`: durations and
bounds are naturals, cooldowns are positive, and the last level of the back-off reaches
its maximum.
`ShardAssumption`, `SchedulerAssumption`: finitely many natural ids, priorities with a
greatest element, at least two distinct providers, snapshots of the right shape.
`RegistryAssumption`: finitely many clients, a list names some model, "quota" is a
reason, the quota window is positive. `RefreshAssumption`: a positive number of job
slots, positive periods. `ExecutionAssumption`, `UsageAssumption`: limits are
naturals. `SyncAssumption`: no websocket client has the id of a file, and 0 is no
content. `CallsAssumption`: the number of tool calls is a natural; `MaxParts` and
`MaxBlocks` may be anything. `CooldownStore`, `UpstreamSession` and `RelaySession` need none.

Two theorems have a hypothesis more, because the code keeps the property only then.
`DoneIsTrue` is about handlers that look for an error once more before they say
"done" (`Recheck`, the Claude handler; the others are the finding
`error_lost_at_peek`). `ChecksAreScheduled` is about a loop beside which results are
refusals only; where a success clears a refusal the loop forgets the credential, the
finding `refresh_forgotten`.

**Conductor.** `VersionAgreement` speaks of states in which the scheduler has applied
a credential's last change; what makes it inductive is the same of everything that is
still on its way (`TaskOK`): a snapshot in flight names a change no later than the
last, and one that names the last is the credential as it is. That holds of plain
upserts, of those that wait behind a registry call (`resume`), of whole rebuilds with
the changes they had seen, and of late removals. A live reference is an exception
that needs `LiveMeta`: it agrees by itself as long as the credential is registered,
which is why freezing it at a removal or replacement matters. `ShardsFit` ties the
entries to the metadata. `CoolingOffSweeps` rests on `Swept` (once nobody is to sweep,
no credential has a pending quota cooldown) and on lemmas about each operator of
AuthState: none of them makes one while cooling is off. `SupportSettles` rests on
`InStep`: a credential whose models the scheduler knows wrongly has somebody on the
way who will read them again (`Brings`). Credentials, models and goroutines need not
be finitely many.

**Scheduler.** The invariant is `Inv`: `TypeOK`, and for every shard `ShardInv`:
indexes exact, entries those of its provider's credentials that serve the model, and
every entry `Sound`: ready entries belong to a snapshot that is not blocked now, a
waiting one waits for a time its snapshot names. A pick reads indexes and not
snapshots, so `Sound` must carry "ready entries are usable" from the moment an entry
was written, through `Tick`, to the pick. `TurnsComeRound` adds `Turns`: a credential
that n mixed picks have passed is ready at the best priority, and its turn comes
before all slots of the round are used. Its turn is a number, `PicksUntil`, of two
nested rotations: how far the slot counter is from the segment of its provider
(`Until`), and how far the cursor of the view is from its rank (`Distance`). A mixed
pick of another credential brings it nearer by one; a pick for one provider moves the
cursor of a view and brings it no farther; everything else that touches the ready set
sets `passed` back. Slots are no more than credentials, by an injection. No step of
this is an induction: distances are differences and remainders.

**ModelRegistry.** `CountsExact` follows from `EntriesExact`, which says it of every
entry, those that no client lists any more included. A count is the cardinality of
the pairs of a client and an occurrence in its list, so that a step of one client adds
or removes pairs of that client only, and lemmas on finite sets take the place of
induction over clients. `CacheBuilt`: a cached listing is what would be built from the
present counters with a clock that was right at some time. The refinement maps the
marks in the counted entries and the answer of a call to ModelListing; `PromisedStep`
has one step per action; the clock with which a cached listing was built lies between the
question and its answer, which is what ModelListing allows.

**Execution.** Eight parts. `ExecShape`, `Phases`: which goroutines run together.
`Settled`: the Manager works only when the last stream is out of the way, so an
attempt has one place in which it is recorded. `RoundsCounted`: executions that are
over have used at most their full share, the current one what its rounds and tried
credentials account for. `Voices`: once the client has a part of an answer nothing is
executing and nothing may start. `Truth` follows the recorded success backwards from
the client: through the handler, the error channel, the pump and the stream.
`WaitReasons`: the cooldown a wait was computed from is over when the wait is.
`SomebodyGoesOn` adds `Linked`: a pump has a stream, a handler that listens has a
pump or the error that takes its place, and a pump that has ended has closed the data.
From there it asks who waits for whom, first the Manager, then the handler by its
phase: each chain ends at one who need not wait.

**ClaudeStream.** `StreamInv` says, for each format and each place the upstream can have
reached, that what the translator remembers is what the client has read. *Codex*
(`CodexInv`): at most one block is open, at the translator's index and of the kind its
flags name (`CodexIn`); a call whose name has not come is held back with nothing open.
*Gemini and Antigravity* (`GeminiIn`): the open block is of the type the translator takes
it for, `content` covers every block there is, the tool flag is there exactly when a tool
block was; Antigravity holds text back only before a search (`Holds`), and may still owe
the end when the finish came without counts (`GeminiOver`). *OpenAI* (`OpenAIIn`): the
open blocks are exactly those of the thinking, text and call indexes, all below the next
index and at indexes of their own; `StoppedTo(k)` is the loop that stops the calls half
way, so that the loop's state is between "announced calls are open" and "none is". The
proofs go the way of the code: one lemma for each event read, one for each helper of a
translator, one for the body of each loop, one for each chunk (`CodexKeeps`,
`GeminiKeeps`, `AntigravityKeeps`, `OpenAIKeeps`). A loop is a recursive function, whose
existence is shown for a body that stays in a set (`LoopExists`) and whose values are
reached `StepByStep`; both go by the least number at which they would fail. The properties
follow at once: whatever is read is in `Placed`, which has nothing odd, and at the end the
client was `Told`, or `ToldCall` where the upstream named a call itself.

**UsagePipeline.** A record accepted is in the queue, in the worker's hand, kept, or
done with, and never in two of them (`Accounted`); every place is in order and behind
what comes after it (`QueueInTurn`, `KeptInTurn`, `SubsInTurn`); a worker that waits
although it should not is about to be woken (`Awake`). The order is a fact about the
sequences before and after pruning and compaction, whose lemmas come first.

**CooldownStore.** While saves neither overlapped nor failed (`~blurred`): one
goroutine saves at a time (`Single`); what it carries contains every cooldown kept and
agrees with what it has written so far (`AllFaithful`); what is kept is in the files
(`InFiles`) and in memory, except between the end of the process and the restore
(`Remembered`), when the records read so far contain it (`Collected`); a cooldown in
memory is in the files, or somebody is about to take or carries its record, or the
loader is about to reset it (`AllCovered`). Blurring is monotone, so the invariant is
`~blurred => ...` next to the types and phases.

**AuthSync.** Two halves, which meet in what the Manager will have of an id once
everything handed over has arrived (`OutcomeOf`: pending, else in the batch, else last
in the queue, else in the consumer's hand, else in the Manager). No step behind the
pending map changes it, whatever the capacity and whichever order the map is drained
in (`PipelineKeeps`), and a hand-over sets it (`MergedReplaces`). The rest relates it
to the watcher. The last event of a file tells whether the file is there
(`EventsTell`), so what the event goroutine goes by is right unless another event of
the file waits behind it (`HandlerKnows`); a file no change of which is on its way has
been read (`HashesFresh`), and a hash is known of exactly the files the watcher owns
(`Known`). What `FileWord` says of a file depends on the reload: while none runs the
picture is the hash and the outcome is the picture (`Calm`); after a changed
configuration has made the watcher forget files, a picture that is there is still the
outcome, and one that is not leaves a hash from which the reload finds it
(`Compared`); once the reload has compared, the outcome is the picture or is in its
updates (`Reloaded`), and no change of the file is on its way (`SnapFresh`).

**UpstreamSession.** `Owned`, who is between its lock and its end holds `reqMu` alone
and dials only while the session has no connection (so a dial cannot leave a second
one open); `Kept`, the session's connection is the only open one and has a reader;
`AllHeard`, which extends the promise to a waiter back to the moment it becomes
active, through a failed send and the second dial; `AllFresh`, a request no reader
knows yet has an open channel, and who is active has one; `ClosersDone`, a reader
closes the channel of one who is no longer active; `Alone`, while no connection was
dialed beside a running reader, one reader runs and the channel it is about to use is
open. `AllFresh` and `ClosersDone` support each other, and `Alone` rests on both: the
channel a reader takes from `activeCh` is open because nobody active has been told
yet. `AnswersAreOwn` follows the messages: a request sends once and on one connection
(`SentOnce`); what the wire of a connection that serves somebody still owes is owed to
the one who waits or to one who has abandoned it (`LeftBehind`); and the messages in
a reader's hand and in a channel carry nothing else (`Answers`). `ExchangesAlternate`
uses the same `LeftBehind` and `Owned`: a request that writes holds the lock, so whatever
is still owed on its connection is owed to requests that have abandoned it.

**AutoRefresh and RelaySession.** A dirty id has a token in the channel or somebody
who is about to offer one (`Woke`). `Covered`: a credential that is to be checked is
still to be read by the loop (`ToBeRead`), or was read in time, wherever the reading is
on its way (`ReadInTime`), in the heap, in a heap being built or before `upsert`;
`Gone`, a late notice of a removal never meets an id that is back. In the relay,
`TakenOnce`, `StaysPending` and `EndedInOrder`: while the session is open a channel is
closed only after its id was taken out of the map for good, and whoever closes it has
put the end of the answer into it before.

**Only model-checked.** The second half of `NobodyLeftBehind`, which uses ENABLED
(that whoever can go on has a step to take), and the liveness properties
`DueIsRefreshed` and `RequestsEnd` are out of the prover's reach. Every other invariant
and action property of a passing run is a theorem.

## 6. What is abstracted or left out

- Results without a model, antigravity credits, canonical model suffixes and
  name aliases: the Manager treats a model it knows by name.
- A custom or legacy selector, plugin schedulers and home mode, which bypass or
  replace `authScheduler`.
- Conductor has no restart; CooldownStore has, for the cooldowns.
- Update shares the old object's state map with the new one before it clones it;
  with cooling off the clearing also empties the replaced object's states. The
  model freezes the replaced object as it was.
- Reads of a live object by the scheduler while MarkResult changes it in place
  are a data race; the model makes each critical section atomic, so a reader sees
  the object before or after a change, never half of it.
- The registrations of one batch run one credential at a time, in any order; the
  code runs some in parallel. Configuration reloads are the watcher's, which do not
  re-apply API-key credentials (only home mode does).
- A registration lists any set of models; which ones a provider offers is
  configuration.
- `Load`, which fills the credential map at start-up: the instances begin with an
  empty map, as a first start does.
- *ModelRegistry*: what a listing looks like, metadata, hooks, other handler types
  (copies of the same listing in another layout).
- *AutoRefresh*: a runtime that is a `RefreshEvaluator`, which decides itself when it is due
  (auto_refresh_loop.go:354-359), a missing executor (249-251), and a registration and removal of one id that
  overlap (the management API's deletion can race with the consumer).
- *RelaySession*: the heartbeat, the replacement of a session by a new connection,
  the second channel of `Stream`.
- *UsagePipeline*: the home forwarder, changes of the retention, registration of
  plugins, the error channel.
- *CooldownStore*: saves of Remove, Register, Update and SetConfig (like those of a
  result), disabled credentials, records per model, `save-cooldown-status` off.
- *AuthSync*: updates of a credential that was just persisted, the inline
  application of an update when the queue is full (only without a watcher), contents
  that are empty or do not parse, overlapping reloads, persisting to git or a
  database, API keys from the configuration, stopping.
- *Execution*: model pools, request-retry of a single credential, pinned
  credentials, home mode, the credits fallback, rewriting of responses, chunks
  without payload, interceptors, the converter goroutine of completions, the
  websocket responses handler. A credential's state is one number, the ticks until
  it may be picked.
- *UpstreamSession*: the notice of a disconnect to the handler, whose credential a
  connection was dialed with, binary messages (a read that failed), requests
  without a session, the branches that cannot be reached (`sess.conn` set by
  another after a dial, a connection without its reader). The HTTP fallback of a
  plain request after a refused upgrade runs inside the lock and counts as
  `DialFails`.

- *ClaudeStream*: what deltas carry (text, arguments, signatures, counts, names and
  ids), chunks that do not parse, providers that break the protocol in the ways of
  section 4, the whole answers of the same translators.

**Not modelled**: the legacy selectors and session affinity (used only when
configured), model aliases and response rewriting, the credential stores, the HTTP
executors, the request translators and the translators into other formats than
Claude's (most of 31,000 lines of JSON rewriting; those of streams into the
Responses and Gemini formats keep a state of the same kind), the plugin host and store, the home client, access, logging, configuration and the
TUI. Their correctness is that of single functions on data, for which tests are
the better tool; where they report to the core, what they report is an input of
the modules above.

## 7. Plan

Done: the modules and runs above. Next, in this order:

1. **Session affinity** (session_cache.go, selector.go:368-505): a binding of a
   session to a credential against removal, cooldown and expiry.
2. The second channel of the relay's `Stream`, and the replacement of a session.
3. Two sessions of the websocket executor and two credentials: the disconnect
   notice, and closing the sessions of a credential.
4. The streaming translators into the Responses format, with a reader of its events
   beside ClaudeEvents.
5. The home client's queue and heartbeat, if it becomes part of a usual set-up.
