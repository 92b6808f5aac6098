------------------------------ MODULE AuthSync ------------------------------
(***************************************************************************)
(* From the credential files to the Manager: the watcher's event goroutine   *)
(* handles one file event at a time, a reload compares the whole directory,   *)
(* websocket clients add and drop credentials that live without a file; all   *)
(* three change the watcher's picture (currentAuths) under its lock, and      *)
(* after it hand their updates to a map of pending ones, from which a         *)
(* dispatcher fills the bounded queue that the service's consumer drains. A   *)
(* credential is the version of its file, 0 is none; a write is atomic.       *)
(***************************************************************************)
EXTENDS Integers, Sequences, Functions

CONSTANTS
  Files,     \* credential files, each the source of one credential
  Sockets,   \* websocket clients; each connects and disconnects at most once
  Versions,  \* contents a file may have
  Backlog,   \* capacity of the update queue
  Budgets    \* bounds: the [changes, reloads, connects] that may overlap

\* What the proofs take the constants to be; TLC evaluates it where the module is used.
SyncAssumption == Files \cap Sockets = {} /\ Versions \subseteq Nat \ {0}

VARIABLES
  disk,      \* per file its content
  events,    \* file events: [file, gone]
  recent,    \* files whose last removal is inside the debounce window
  hashes,    \* lastAuthHashes, as contents
  owned,     \* files that have an entry in fileAuthsByPath
  current,   \* currentAuths
  live,      \* runtimeAuths: 0 or 1 per client
  handler,   \* the event goroutine: [at, file, data, upd]
  reload,    \* the reload: [at, snap, upd]
  client,    \* per client: "new", "on", "off", or what is to be dispatched
  pending,   \* pendingUpdates; the order between credentials is left out
  batch,     \* the dispatcher's batch
  authUpdates, \* the service's queue of updates
  consumer,  \* consumeAuthUpdates: [at, got]
  manager,   \* the credentials the Manager has
  excused,   \* those of which the properties promise nothing now (history)
  budget,    \* the behaviour's bound, and
  left       \* what is left of it

watchVars == <<disk, events, recent, hashes, owned, current, live, handler, reload, client,
               excused, budget, left>>
pipeVars  == <<batch, authUpdates, consumer, manager>>
syncVars  == <<watchVars, pending, pipeVars>>

-----------------------------------------------------------------------------
Ids        == Files \cup Sockets
None       == [i \in {} |-> 0]
Waiting    == [at |-> "idle", file |-> {}, data |-> 0, upd |-> None]
Resting    == [at |-> "idle", snap |-> None, upd |-> None]
Drop(f, S) == Restrict(f, DOMAIN f \ S)
Only(i, v) == [j \in {i} |-> v]
Override(f, g) == [j \in DOMAIN f \cup DOMAIN g |-> IF j \in DOMAIN f THEN f[j] ELSE g[j]]
FreeMutex  == handler.at = "idle"           \* authRescanMu

\* A change of f is on its way to the watcher's picture or past it to the pending ones.
OnItsWay(f) == f \in handler.file \/ \E i \in DOMAIN events : events[i].file = f

SyncInit ==
  /\ disk \in [Files -> {0} \cup Versions]
  /\ events = <<>> /\ recent = {}
  /\ hashes = [f \in Files |-> 0] /\ owned = {}
  /\ current = [i \in Ids |-> 0] /\ live = [c \in Sockets |-> 0]
  /\ handler = Waiting
  /\ reload = [Resting EXCEPT !.at = "rescan"]
  /\ client = [c \in Sockets |-> "new"]
  /\ pending = None /\ batch = None /\ authUpdates = <<>>
  /\ consumer = [at |-> "idle", got |-> None]
  /\ manager = [i \in Ids |-> 0]
  /\ excused = {}
  /\ budget \in Budgets /\ left = budget

-----------------------------------------------------------------------------
(* Files and their events.                                                   *)

\* A removal is one event; a replacement may surface as a removal first.
Change(f, v) ==
  /\ disk[f] # v
  /\ left.changes > 0
  /\ left' = [left EXCEPT !.changes = @ - 1]
  /\ disk' = [disk EXCEPT ![f] = v]
  /\ \E kinds \in (IF v = 0 THEN {<<TRUE>>} ELSE {<<FALSE>>, <<TRUE, FALSE>>}) :
       events' = events \o [i \in DOMAIN kinds |-> [file |-> f, gone |-> kinds[i]]]
  /\ excused' = IF reload.at \in {"snapshot", "prepare", "dispatch"} THEN excused \cup {f} ELSE excused
  /\ UNCHANGED <<recent, hashes, owned, current, live, handler, reload, client, budget, pending, pipeVars>>

WindowEnds(f) ==
  /\ f \in recent
  /\ recent' = recent \ {f}
  /\ UNCHANGED <<disk, events, hashes, owned, current, live, handler, reload, client, excused>>
  /\ UNCHANGED <<budget, left, pending, pipeVars>>

HandlerOnly == UNCHANGED <<disk, live, reload, client, budget, left, pipeVars>>

\* handleEvent. A second removal inside the window is dropped, whatever it removes.
HandleEvent ==
  /\ FreeMutex
  /\ events # <<>>
  /\ events' = Tail(events)
  /\ LET e == Head(events) IN
     IF e.gone /\ e.file \in recent
     THEN /\ excused' = IF disk[e.file] = 0 THEN excused \cup {e.file} ELSE excused
          /\ UNCHANGED <<recent, handler>>
     ELSE /\ handler' = [Waiting EXCEPT !.at = IF e.gone THEN "stat" ELSE "read", !.file = {e.file}]
          /\ recent' = IF e.gone THEN recent \cup {e.file} ELSE recent
          /\ UNCHANGED excused
  /\ HandlerOnly /\ UNCHANGED <<hashes, owned, current, pending>>

\* After a pause: a file that is there again was replaced, an unknown one is ignored.
Stat(f) ==
  /\ handler.at = "stat"
  /\ handler.file = {f}
  /\ handler' = IF disk[f] # 0 THEN [handler EXCEPT !.at = "read"]
                ELSE IF hashes[f] # 0 THEN [handler EXCEPT !.at = "remove"]
                ELSE Waiting
  /\ HandlerOnly /\ UNCHANGED <<events, recent, hashes, owned, current, pending, excused>>

\* authFileUnchanged, and addOrUpdateClientLocked up to its first unlock: the file is
\* read and its hash stored, unless it is gone or has the hash already.
ReadFile(f) ==
  /\ handler.at = "read"
  /\ handler.file = {f}
  /\ IF disk[f] \in {0, hashes[f]} THEN handler' = Waiting /\ UNCHANGED hashes
     ELSE /\ hashes' = [hashes EXCEPT ![f] = disk[f]]
          /\ handler' = [handler EXCEPT !.at = "update", !.data = disk[f]]
  /\ HandlerOnly /\ UNCHANGED <<events, recent, owned, current, pending, excused>>

\* computePerPathUpdatesLocked changes the picture and prepares the update: while no
\* reload runs a fresh start for the file.
TellUpdate(f, v) ==
  /\ current' = [current EXCEPT ![f] = v]
  /\ handler' = [handler EXCEPT !.at = "dispatch", !.upd = Only(f, v)]
  /\ excused' = IF reload.at \in {"idle", "rescan"} THEN excused \ {f} ELSE excused

\* The second half for a file that has content ...
UpdateClient(f) ==
  /\ handler.at = "update"
  /\ handler.file = {f}
  /\ owned' = owned \cup {f}
  /\ IF current[f] = handler.data THEN handler' = Waiting /\ UNCHANGED <<current, excused>>
     ELSE TellUpdate(f, handler.data)
  /\ HandlerOnly /\ UNCHANGED <<events, recent, hashes, pending>>

\* Mutant of RemoveClient: the hash of the removed file stays.
RemoveClientKeepsHash(f) ==
  /\ handler.at = "remove"
  /\ handler.file = {f}
  /\ owned' = owned \ {f}
  /\ IF f \in owned THEN TellUpdate(f, 0)
     ELSE handler' = Waiting /\ UNCHANGED <<current, excused>>
  /\ HandlerOnly /\ UNCHANGED <<events, recent, hashes, pending>>

\* ... and removeClientLocked for one that is gone.
RemoveClient(f) ==
  /\ handler.at = "remove"
  /\ handler.file = {f}
  /\ hashes' = [hashes EXCEPT ![f] = 0]
  /\ owned' = owned \ {f}
  /\ IF f \in owned THEN TellUpdate(f, 0)
     ELSE handler' = Waiting /\ UNCHANGED <<current, excused>>
  /\ HandlerOnly /\ UNCHANGED <<events, recent, pending>>

\* Mutant of Merged: an update that is pending already stays.
MergedKeepsOld(upd) == Override(pending, upd)

\* dispatchAuthUpdates: a later update of a credential replaces the pending one.
Merged(upd) == Override(upd, pending)

HandlerDispatch ==
  /\ handler.at = "dispatch"
  /\ pending' = Merged(handler.upd)
  /\ handler' = Waiting
  /\ HandlerOnly /\ UNCHANGED <<events, recent, hashes, owned, current, excused>>

-----------------------------------------------------------------------------
(* The reload of all credentials.                                            *)

ReloadOnly == UNCHANGED <<disk, events, recent, live, handler, client, budget, pipeVars>>

\* The start reads the hashes of the directory, under authRescanMu.
Rescan ==
  /\ reload.at = "rescan"
  /\ FreeMutex
  /\ hashes' = disk
  /\ owned' = {f \in Files : disk[f] # 0}
  /\ reload' = [reload EXCEPT !.at = "snapshot"]
  /\ ReloadOnly /\ UNCHANGED <<current, pending, excused, left>>

\* A changed configuration starts over; models newly excluded for a kind of
\* credential make the watcher forget those.
BeginReload ==
  /\ reload.at = "idle"
  /\ left.reloads > 0
  /\ left' = [left EXCEPT !.reloads = @ - 1]
  /\ \E forget \in SUBSET Files :
       current' = [i \in Ids |-> IF i \in forget THEN 0 ELSE current[i]]
  /\ reload' = [Resting EXCEPT !.at = "snapshot"]
  /\ ReloadOnly /\ UNCHANGED <<hashes, owned, pending, excused>>

\* refreshAuthState reads the directory without a lock, ...
Snapshot ==
  /\ reload.at = "snapshot"
  /\ reload' = [reload EXCEPT !.at = "prepare", !.snap = disk]
  /\ excused' = excused \cup {f \in Files : OnItsWay(f)}
  /\ ReloadOnly /\ UNCHANGED <<hashes, owned, current, pending, left>>

\* ... compares what it read, and the clients connected, with the picture under the
\* lock (force: what is there is updated in any case), ...
Prepare(force) ==
  LET state   == Override(reload.snap, live)
      changed == {i \in Ids : state[i] # current[i] \/ (force /\ state[i] # 0)}
  IN /\ reload.at = "prepare"
     /\ current' = state
     /\ reload' = [reload EXCEPT !.at = "dispatch", !.upd = Restrict(state, changed)]
     /\ excused' = excused \cup {c \in Sockets : client[c] \in {"added", "dropped"}}
     /\ ReloadOnly /\ UNCHANGED <<hashes, owned, pending, left>>

\* ... and hands the updates over after it.
ReloadDispatch ==
  /\ reload.at = "dispatch"
  /\ pending' = Merged(reload.upd)
  /\ reload' = Resting
  /\ ReloadOnly /\ UNCHANGED <<hashes, owned, current, excused, left>>

-----------------------------------------------------------------------------
(* wsOnConnected, wsOnDisconnected and dispatchRuntimeAuthUpdate.             *)

ClientOnly == UNCHANGED <<disk, events, recent, hashes, owned, handler, reload, budget, pipeVars>>

ClientChange(c, from, to, v) ==
  /\ client[c] = from
  /\ client' = [client EXCEPT ![c] = to]
  /\ live' = [live EXCEPT ![c] = v]
  /\ current' = [current EXCEPT ![c] = v]
  /\ excused' = IF reload.at = "dispatch" THEN excused \cup {c} ELSE excused
  /\ ClientOnly /\ UNCHANGED pending

Connect(c) ==
  /\ left.connects > 0
  /\ left' = [left EXCEPT !.connects = @ - 1]
  /\ ClientChange(c, "new", "added", 1)

Disconnect(c) == ClientChange(c, "on", "dropped", 0) /\ UNCHANGED left

ClientDispatch(c) ==
  /\ client[c] \in {"added", "dropped"}
  /\ pending' = Merged(Only(c, live[c]))
  /\ client' = [client EXCEPT ![c] = IF @ = "added" THEN "on" ELSE "off"]
  /\ ClientOnly /\ UNCHANGED <<live, current, excused, left>>

-----------------------------------------------------------------------------
(* The dispatcher and the consumer.                                          *)

\* nextPendingBatch takes all that is pending; ...
NextBatch ==
  /\ batch = None
  /\ pending # None
  /\ batch' = pending
  /\ pending' = None
  /\ UNCHANGED <<watchVars, authUpdates, consumer, manager>>

\* ... the queue blocks while it is full.
Send(i) ==
  /\ i \in DOMAIN batch
  /\ Len(authUpdates) < Backlog
  /\ authUpdates' = Append(authUpdates, Only(i, batch[i]))
  /\ batch' = Drop(batch, {i})
  /\ UNCHANGED <<watchVars, pending, consumer, manager>>

\* Mutant of Coalesced: the first update of a credential is kept.
CoalescedFirst(got, update) == Override(got, update)

\* coalesceAuthUpdates: of the updates drained together the last of a credential.
Coalesced(got, update) == Override(update, got)

TakeUpdate ==
  /\ consumer.at \in {"idle", "drain"}
  /\ authUpdates # <<>>
  /\ consumer' = [at |-> "drain", got |-> Coalesced(consumer.got, Head(authUpdates))]
  /\ authUpdates' = Tail(authUpdates)
  /\ UNCHANGED <<watchVars, pending, batch, manager>>

Drained ==
  /\ consumer.at = "drain"
  /\ authUpdates = <<>>
  /\ consumer' = [consumer EXCEPT !.at = "apply"]
  /\ UNCHANGED <<watchVars, pending, batch, authUpdates, manager>>

\* prepareCoreAuthForModelRegistration or applyCoreAuthRemoval.
Apply(i) ==
  /\ consumer.at = "apply"
  /\ i \in DOMAIN consumer.got
  /\ manager' = [manager EXCEPT ![i] = consumer.got[i]]
  /\ LET others == Drop(consumer.got, {i})
     IN consumer' = [at |-> IF others = None THEN "idle" ELSE "apply", got |-> others]
  /\ UNCHANGED <<watchVars, pending, batch, authUpdates>>

-----------------------------------------------------------------------------
\* No event waits and nothing is under way.
Quiet ==
  /\ events = <<>> /\ handler = Waiting /\ reload = Resting
  /\ pending = None /\ batch = None /\ authUpdates = <<>> /\ consumer.at = "idle"
  /\ \A c \in Sockets : client[c] \notin {"added", "dropped"}

\* Then the budget starts over (a bound: more may happen, but not at once).
Renew ==
  /\ Quiet
  /\ left # budget
  /\ left' = budget
  /\ UNCHANGED <<disk, events, recent, hashes, owned, current, live, handler, reload, client, excused>>
  /\ UNCHANGED <<budget, pending, pipeVars>>

SyncNext ==
  \/ \E f \in Files :
       \/ \E v \in {0} \cup Versions : Change(f, v)
       \/ WindowEnds(f) \/ Stat(f) \/ ReadFile(f) \/ UpdateClient(f) \/ RemoveClient(f)
  \/ HandleEvent \/ HandlerDispatch
  \/ Rescan \/ BeginReload \/ Snapshot \/ ReloadDispatch
  \/ \E force \in BOOLEAN : Prepare(force)
  \/ \E c \in Sockets : Connect(c) \/ Disconnect(c) \/ ClientDispatch(c)
  \/ NextBatch \/ TakeUpdate \/ Drained \/ Renew
  \/ \E i \in Ids : Send(i) \/ Apply(i)

SyncSpec == SyncInit /\ [][SyncNext]_syncVars

-----------------------------------------------------------------------------
\* What the Manager will have of i once the updates on their way have arrived.
InQueue(i) == {n \in DOMAIN authUpdates : i \in DOMAIN authUpdates[n]}
LastFor(i) == CHOOSE n \in InQueue(i) : \A k \in InQueue(i) : k <= n
OutcomeOf(i) ==
  IF i \in DOMAIN pending THEN pending[i]
  ELSE IF i \in DOMAIN batch THEN batch[i]
  ELSE IF InQueue(i) # {} THEN authUpdates[LastFor(i)][i]
  ELSE IF i \in DOMAIN consumer.got THEN consumer.got[i]
  ELSE manager[i]

AboutToDispatch(i) ==
  \/ i \in handler.file /\ handler.at = "dispatch"
  \/ reload.at # "idle"
  \/ i \in Sockets /\ client[i] \in {"added", "dropped"}

\* The watcher's picture of a credential is what the Manager ends up with: batches,
\* the full authUpdates, and two places that keep only the last of several updates, put no
\* older update over a newer one.
LastWordWins == \A i \in Ids \ excused : AboutToDispatch(i) \/ OutcomeOf(i) = current[i]

\* When no event waits and nothing is under way, the Manager has the credentials of
\* the files and of the connected clients, in their last version. Excused are files
\* that changed while a reload was reading, and removals the debounce window drops.
FilesReachManager ==
  Quiet => \A i \in Ids \ excused : manager[i] = Override(disk, live)[i]
=============================================================================
