---------------------------- MODULE CooldownStore ----------------------------
(***************************************************************************)
(* Cooldowns in memory and in the .cds files that keep them over a restart: *)
(* whoever changes a cooldown takes a snapshot of all of them after it has   *)
(* unlocked m.mu, waits for the store's mutex and then writes one file per   *)
(* credential and removes the others; a start and a reload of the            *)
(* configuration read the files, put the records into memory, save and       *)
(* register every credential again; the process may end at any step. A       *)
(* cooldown is the number of the failure it began with, 0 is none.           *)
(***************************************************************************)
EXTENDS Integers, Functions

CONSTANTS
  Auths,       \* credentials, registered from their own files at every start
  Callers,     \* goroutines that report results
  Loader,      \* the one that starts the service and reloads its configuration
  MaxFailures  \* bound: failures that begin a cooldown

VARIABLES
  up,        \* "down", "starting" (nothing is served yet), "serving"
  cool,      \* per credential: its cooldown in memory
  failures,  \* cooldowns begun so far
  over,      \* those whose NextRetryAfter has passed
  files,     \* per credential: the cooldown in its .cds file, 0 = no file
  store,     \* m.cooldownStore, 0 or 1: a reload replaces it
  task,      \* per goroutine: [at, recs (records carried), todo, store]
  kept,      \* per credential: a cooldown some save has written and nothing ended (history)
  blurred    \* two saves have overlapped, or one failed (history)

cooldownVars == <<up, cool, failures, over, files, store, task, kept, blurred>>

-----------------------------------------------------------------------------
Actors  == Callers \cup {Loader}
NoRecs  == [c \in {} |-> 0]
AtRest  == [at |-> "idle", recs |-> NoRecs, todo |-> {}, store |-> 0]

Pending(c, rec)  == rec[c] # 0 /\ rec[c] \notin over
Stands(a, place) == task[a].at = place
Goes(a, t)       == task' = [task EXCEPT ![a] = t]
Holds(a)         == task[a].at \in {"write", "clean"}
Saving(a)        == Holds(a) \/ Stands(a, "lock")

CooldownInit ==
  /\ up = "down"
  /\ cool = [c \in Auths |-> 0] /\ files = [c \in Auths |-> 0] /\ kept = [c \in Auths |-> 0]
  /\ failures = 0 /\ over = {} /\ store = 0
  /\ task = [a \in Actors |-> AtRest]
  /\ blurred = FALSE

Expire ==
  /\ \E n \in 1..failures \ over : over' = over \cup {n}
  /\ UNCHANGED <<up, cool, failures, files, store, task, kept, blurred>>

-----------------------------------------------------------------------------
(* MarkResult and ResetQuota: the change under m.mu, then a save if the       *)
(* unexpired records have changed.                                            *)

Settle(c, n) ==
  /\ cool' = [cool EXCEPT ![c] = n]
  /\ kept' = [kept EXCEPT ![c] = 0]
  /\ UNCHANGED <<up, over, files, store, blurred>>

\* Mutant of Fail: a change is only noticed when there was no record before.
FailUnnoticed(a, c) ==
  /\ up = "serving" /\ Stands(a, "idle") /\ a # Loader
  /\ failures < MaxFailures
  /\ failures' = failures + 1
  /\ Settle(c, failures')
  /\ Goes(a, IF Pending(c, cool) THEN AtRest ELSE [AtRest EXCEPT !.at = "snapshot"])

Fail(a, c) ==
  /\ up = "serving" /\ Stands(a, "idle") /\ a # Loader
  /\ failures < MaxFailures
  /\ failures' = failures + 1
  /\ Settle(c, failures')
  /\ Goes(a, [AtRest EXCEPT !.at = "snapshot"])

Succeed(a, c) ==
  /\ up = "serving" /\ Stands(a, "idle") /\ a # Loader
  /\ cool[c] # 0
  /\ Settle(c, 0)
  /\ Goes(a, IF Pending(c, cool) THEN [AtRest EXCEPT !.at = "snapshot"] ELSE AtRest)
  /\ UNCHANGED failures

-----------------------------------------------------------------------------
(* persistCooldownStates and FileCooldownStateStore.Save.                     *)

SaveOnly == UNCHANGED <<up, cool, failures, over, store>>

\* The unexpired records and the store of that moment, under m.mu.
TakeRecords(a) ==
  /\ Stands(a, "snapshot")
  /\ Goes(a, [at |-> "lock", recs |-> Restrict(cool, {c \in Auths : Pending(c, cool)}),
                todo |-> {}, store |-> store])
  /\ blurred' = (blurred \/ \E b \in Actors : Saving(b))
  /\ SaveOnly /\ UNCHANGED <<files, kept>>

\* A store has a mutex of its own; the files are shared.
LockStore(a) ==
  /\ Stands(a, "lock")
  /\ \A b \in Actors : Holds(b) => task[b].store # task[a].store
  /\ Goes(a, [task[a] EXCEPT !.at = "write", !.todo = DOMAIN task[a].recs])
  /\ SaveOnly /\ UNCHANGED <<files, kept, blurred>>

\* A temporary file is renamed over the credential's file.
WriteFile(a, c) ==
  /\ Stands(a, "write") /\ c \in task[a].todo
  /\ files' = [files EXCEPT ![c] = task[a].recs[c]]
  /\ Goes(a, [task[a] EXCEPT !.todo = @ \ {c}])
  /\ SaveOnly /\ UNCHANGED <<kept, blurred>>

Written(a) ==
  /\ Stands(a, "write") /\ task[a].todo = {}
  /\ Goes(a, [task[a] EXCEPT !.at = "clean", !.todo = Auths \ DOMAIN task[a].recs])
  /\ SaveOnly /\ UNCHANGED <<files, kept, blurred>>

\* removeStaleStateFiles.
RemoveStale(a, c) ==
  /\ Stands(a, "clean") /\ c \in task[a].todo
  /\ files' = [files EXCEPT ![c] = 0]
  /\ Goes(a, [task[a] EXCEPT !.todo = @ \ {c}])
  /\ SaveOnly /\ UNCHANGED <<kept, blurred>>

\* What follows a save: a caller is done; after a restore everything is registered.
After(a) == IF a = Loader THEN [AtRest EXCEPT !.at = "register", !.todo = Auths] ELSE AtRest

SaveDone(a) ==
  /\ Stands(a, "clean") /\ task[a].todo = {}
  /\ kept' = [c \in Auths |->
       IF c \in DOMAIN task[a].recs /\ task[a].recs[c] = cool[c] THEN cool[c] ELSE kept[c]]
  /\ Goes(a, After(a))
  /\ SaveOnly /\ UNCHANGED <<files, blurred>>

\* A file that cannot be read, written or removed ends the Load or the Save.
Fault(a) ==
  /\ task[a].at \in {"read", "write", "clean"} /\ task[a].todo # {}
  /\ blurred' = TRUE
  /\ Goes(a, After(a))
  /\ SaveOnly /\ UNCHANGED <<files, kept>>

-----------------------------------------------------------------------------
(* The service: start, reload, registration, and the end of the process.      *)

Load == [AtRest EXCEPT !.at = "read", !.todo = Auths]

Start ==
  /\ up = "down"
  /\ up' = "starting"
  /\ Goes(Loader, Load)
  /\ UNCHANGED <<cool, failures, over, files, store, kept, blurred>>

\* A reload makes a new store; at most two are in use (a bound).
Reload ==
  /\ up = "serving" /\ Stands(Loader, "idle")
  /\ \A a \in Actors : Saving(a) => task[a].store = store
  /\ store' = 1 - store
  /\ Goes(Loader, Load)
  /\ UNCHANGED <<up, cool, failures, over, files, kept, blurred>>

\* Load reads file after file, without the store's mutex.
ReadState(c) ==
  /\ Stands(Loader, "read") /\ c \in task[Loader].todo
  /\ Goes(Loader, [task[Loader] EXCEPT !.todo = @ \ {c},
       !.recs = IF files[c] = 0 THEN @
                ELSE [d \in DOMAIN @ \cup {c} |-> IF d = c THEN files[c] ELSE @[d]]])
  /\ UNCHANGED <<up, cool, failures, over, files, store, kept, blurred>>

\* Mutant of Restore: the memory starts empty, the save is made all the same.
RestoreNothing ==
  /\ Stands(Loader, "read") /\ task[Loader].todo = {}
  /\ UNCHANGED <<cool, kept>>
  /\ Goes(Loader, [AtRest EXCEPT !.at = "snapshot"])
  /\ UNCHANGED <<up, failures, over, files, store, blurred>>

\* Unexpired records replace what memory holds, be it newer; then a save.
Restore ==
  /\ Stands(Loader, "read") /\ task[Loader].todo = {}
  /\ LET recs == task[Loader].recs
         back == {c \in DOMAIN recs : Pending(c, recs)}
     IN /\ cool' = [c \in Auths |-> IF c \in back THEN recs[c] ELSE cool[c]]
        /\ kept' = [c \in Auths |-> IF c \in back /\ recs[c] # kept[c] THEN 0 ELSE kept[c]]
        /\ Goes(Loader, IF recs = NoRecs THEN After(Loader) ELSE [AtRest EXCEPT !.at = "snapshot"])
  /\ UNCHANGED <<up, failures, over, files, store, blurred>>

\* Registering the models of a credential resets its cooldown
\* (ReconcileRegistryModelStates) and saves nothing.
RegisterModels(c) ==
  /\ Stands(Loader, "register") /\ c \in task[Loader].todo
  /\ up' = "serving"
  /\ cool' = [cool EXCEPT ![c] = 0]
  /\ kept' = [kept EXCEPT ![c] = 0]
  /\ Goes(Loader, LET left == task[Loader].todo \ {c}
                  IN IF left = {} THEN AtRest ELSE [task[Loader] EXCEPT !.todo = left])
  /\ UNCHANGED <<failures, over, files, store, blurred>>

\* The process ends: by a signal or a crash, between any two steps.
ProcessEnds ==
  /\ up # "down"
  /\ up' = "down"
  /\ cool' = [c \in Auths |-> 0]
  /\ task' = [a \in Actors |-> AtRest]
  /\ UNCHANGED <<failures, over, files, store, kept, blurred>>

-----------------------------------------------------------------------------
CooldownNext ==
  \/ Expire
  \/ \E a \in Callers, c \in Auths : Fail(a, c) \/ Succeed(a, c)
  \/ \E a \in Actors :
       \/ TakeRecords(a) \/ LockStore(a) \/ Written(a) \/ SaveDone(a) \/ Fault(a)
       \/ \E c \in Auths : WriteFile(a, c) \/ RemoveStale(a, c)
  \/ Start \/ Reload \/ Restore \/ ProcessEnds
  \/ \E c \in Auths : ReadState(c) \/ RegisterModels(c)

CooldownSpec == CooldownInit /\ [][CooldownNext]_cooldownVars

-----------------------------------------------------------------------------
\* A cooldown that a save has written stays in the files, whatever saves for other
\* credentials, reloads, the end of the process in the middle of a save, and the
\* start after it do, until it expires, a result or a registration ends it; and when
\* nothing is under way every cooldown in force is in the files. Unless two saves
\* overlapped, of which the later may write the older snapshot, or one failed.
SavedStays ==
  ~blurred =>
    \A c \in Auths :
      /\ Pending(c, kept) => files[c] = kept[c]
      /\ (\A a \in Actors : Stands(a, "idle")) /\ Pending(c, cool) => files[c] = cool[c]
=============================================================================
