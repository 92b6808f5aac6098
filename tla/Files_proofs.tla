---------------------------- MODULE Files_proofs ----------------------------
(***************************************************************************)
(* What is kept in files. For any credentials, goroutines and number of      *)
(* failures: a cooldown that a save has written stays in the files, over      *)
(* crashes, reloads and saves for other credentials. For any credential       *)
(* files, websocket clients and queue capacity: what the watcher has seen of  *)
(* the files is what the Manager ends up with.                                *)
(***************************************************************************)
EXTENDS CooldownStore, AuthSync, TLAPS, WellFoundedInduction, SequenceTheorems

Places == {"idle", "snapshot", "lock", "write", "clean", "read", "register"}
Recs   == UNION {[S -> Nat] : S \in SUBSET Auths}
Task   == [at: Places, recs: Recs, todo: SUBSET Auths, store: {0, 1}]

CooldownTypes ==
  /\ up \in {"down", "starting", "serving"}
  /\ cool \in [Auths -> Nat] /\ files \in [Auths -> Nat] /\ kept \in [Auths -> Nat]
  /\ failures \in Nat /\ over \subseteq Nat /\ store \in {0, 1} /\ blurred \in BOOLEAN
  /\ task \in [Actors -> Task]

\* Nothing runs while the process is down, nobody is served before the start is over,
\* only the loader reads and registers, and a save writes the records it carries.
Phases ==
  /\ up = "down" => \A a \in Actors : Stands(a, "idle")
  /\ \A a \in Actors \ {Loader} : /\ task[a].at \notin {"read", "register"}
                                  /\ up = "starting" => Stands(a, "idle")
  /\ \A a \in Actors : Stands(a, "write") => task[a].todo \subseteq DOMAIN task[a].recs

\* One save at a time.
Single == \A a, b \in Actors : Saving(a) /\ Saving(b) => a = b

\* A record of t is the cooldown kept.
HasKept(t, c) == c \in DOMAIN t.recs /\ t.recs[c] = kept[c]

\* A save carries every cooldown that is kept, and has done what it has done.
HasWritten(t) ==
  /\ t.at = "write" => \A c \in DOMAIN t.recs \ t.todo : files[c] = t.recs[c]
  /\ t.at = "clean" => /\ t.todo \cap DOMAIN t.recs = {}
                       /\ \A c \in DOMAIN t.recs : files[c] = t.recs[c]
Faithful(a) == HasWritten(task[a]) /\ \A c \in Auths : Pending(c, kept) => HasKept(task[a], c)

InFiles == \A c \in Auths : Pending(c, kept) => files[c] = kept[c]

\* A cooldown kept is in memory, except between the end of the process and the restore.
Reading    == up = "starting" /\ Stands(Loader, "read")
Remembered == up = "down" \/ Reading \/ \A c \in Auths : Pending(c, kept) => cool[c] = kept[c]
Collected  ==
  Reading => \A c \in Auths \ task[Loader].todo : Pending(c, kept) => HasKept(task[Loader], c)

\* A cooldown in memory is in the files and nobody saves, or somebody is about to take
\* or has taken its record, or it is about to be reset.
Carried(c) == \E a \in Actors : Saving(a) /\ c \in DOMAIN task[a].recs /\ task[a].recs[c] = cool[c]
Covered(c) ==
  \/ files[c] = cool[c] /\ \A a \in Actors : ~Saving(a)
  \/ \E a \in Actors : Stands(a, "snapshot")
  \/ Carried(c)
  \/ Stands(Loader, "register") /\ c \in task[Loader].todo

AllFaithful == \A a \in Actors : Saving(a) => Faithful(a)
AllCovered  == \A c \in Auths : Pending(c, cool) => Covered(c)

Good == Single /\ InFiles /\ Remembered /\ Collected /\ AllFaithful /\ AllCovered

CooldownInv == CooldownTypes /\ Phases /\ (~blurred => Good)

-----------------------------------------------------------------------------
(* Types and phases.                                                         *)

LEMMA RecsTypes ==
  /\ NoRecs \in Recs /\ DOMAIN NoRecs = {}
  /\ \A r \in Recs : DOMAIN r \subseteq Auths /\ \A c \in DOMAIN r : r[c] \in Nat
  /\ \A f \in [Auths -> Nat], S \in SUBSET Auths :
       Restrict(f, S) \in Recs /\ DOMAIN Restrict(f, S) = S /\ \A c \in S : Restrict(f, S)[c] = f[c]
<1>1. NoRecs \in [{} -> Nat] /\ DOMAIN NoRecs = {}  BY DEF NoRecs
<1>2. ASSUME NEW f \in [Auths -> Nat], NEW S \in SUBSET Auths
      PROVE  Restrict(f, S) \in [S -> Nat] /\ \A c \in S : Restrict(f, S)[c] = f[c]
  BY <1>2 DEF Restrict
<1>. QED  BY <1>1, <1>2 DEF Recs

LEMMA RestTypes == AtRest \in Task /\ \A a \in Actors : After(a) \in Task
BY RecsTypes DEF AtRest, After, Task, Places

\* One goroutine moves.
LEMMA OneGoes ==
  ASSUME CooldownTypes, NEW a \in Actors, NEW t \in Task, Goes(a, t)
  PROVE  /\ task' \in [Actors -> Task] /\ task'[a] = t
         /\ \A b \in Actors \ {a} : task'[b] = task[b]
BY DEF Goes, CooldownTypes

LEMMA TaskFields ==
  ASSUME CooldownTypes, NEW a \in Actors
  PROVE  /\ task[a] \in Task /\ task[a].at \in Places /\ task[a].recs \in Recs
         /\ task[a].todo \in SUBSET Auths /\ task[a].store \in {0, 1}
BY DEF CooldownTypes, Task

LEMMA LoaderActs == Loader \in Actors /\ Callers \subseteq Actors
BY DEF Actors

-----------------------------------------------------------------------------
(* The actions.                                                              *)

LEMMA ExpireKeeps == CooldownInv /\ Expire => CooldownInv'
<1>. SUFFICES ASSUME CooldownInv, Expire PROVE CooldownInv'  OBVIOUS
<1>1. /\ UNCHANGED <<up, cool, failures, files, store, task, kept, blurred>>
      /\ over \subseteq over' /\ over' \subseteq Nat
  BY DEF Expire, CooldownInv, CooldownTypes
<1>2. CooldownTypes' /\ Phases'
  BY <1>1 DEF CooldownInv, CooldownTypes, Phases, Stands
<1>3. ASSUME ~blurred  PROVE Good'
  <2>1. Good  BY <1>3 DEF CooldownInv
  <2>2. \A c \in Auths : /\ Pending(c, kept)' => Pending(c, kept)
                         /\ Pending(c, cool)' => Pending(c, cool)
    BY <1>1 DEF Pending
  <2>3. Single' /\ InFiles' /\ Remembered' /\ Collected'
    BY <1>1, <2>1, <2>2 DEF Good, Single, Saving, Holds, Stands, InFiles, Remembered, Collected,
                            Reading, HasKept
  <2>4. AllFaithful'
    BY <1>1, <2>1, <2>2 DEF Good, AllFaithful, Faithful, HasWritten, Saving, Holds, Stands, HasKept
  <2>5. AllCovered'
    BY <1>1, <2>1, <2>2 DEF Good, AllCovered, Covered, Carried, Saving, Holds, Stands
  <2>. QED  BY <2>3, <2>4, <2>5 DEF Good
<1>. QED  BY <1>1, <1>2, <1>3 DEF CooldownInv

\* A new value of a cooldown, for which a save follows when it has to be recorded.
LEMMA SettleKeeps ==
  ASSUME CooldownInv, NEW a \in Actors, NEW c \in Auths, NEW n \in Nat,
         up = "serving", Stands(a, "idle"), a # Loader, Settle(c, n), failures' \in Nat,
         NEW t \in Task, Goes(a, t), t.at = "snapshot" \/ (n = 0 /\ t.at = "idle")
  PROVE  CooldownInv'
<1>3. /\ task' \in [Actors -> Task] /\ task'[a] = t
      /\ \A b \in Actors \ {a} : task'[b] = task[b]
  BY OneGoes DEF CooldownInv
<1>4. /\ UNCHANGED <<up, over, files, store, blurred>>
      /\ cool' = [cool EXCEPT ![c] = n] /\ kept' = [kept EXCEPT ![c] = 0]
      /\ cool' \in [Auths -> Nat] /\ kept' \in [Auths -> Nat]
      /\ cool'[c] = n /\ kept'[c] = 0
      /\ \A d \in Auths \ {c} : cool'[d] = cool[d] /\ kept'[d] = kept[d]
  BY DEF Settle, CooldownInv, CooldownTypes
<1>5. CooldownTypes' /\ Phases'
  BY <1>3, <1>4, LoaderActs DEF CooldownInv, CooldownTypes, Phases, Stands
<1>6. ASSUME ~blurred  PROVE Good'
  <2>1. Good  BY <1>6 DEF CooldownInv
  <2>2. \A b \in Actors : /\ Saving(b)' <=> Saving(b)
                          /\ Saving(b) => b # a /\ task'[b] = task[b]
    BY <1>3 DEF Saving, Holds, Stands
  <2>3. \A d \in Auths : /\ Pending(d, kept)' => Pending(d, kept) /\ d # c
                         /\ d # c /\ Pending(d, cool)' => Pending(d, cool)
    BY <1>4 DEF Pending
  <2>4. Single' /\ InFiles' /\ Remembered' /\ Collected'
    BY <1>3, <1>4, <2>1, <2>2, <2>3, LoaderActs
    DEF Good, Single, InFiles, Remembered, Collected, Reading, Stands, HasKept
  <2>5. AllFaithful'
    <3>1. SUFFICES ASSUME NEW b \in Actors, Saving(b)'  PROVE Faithful(b)'  BY DEF AllFaithful
    <3>2. Faithful(b) /\ task'[b] = task[b]  BY <2>1, <2>2, <3>1 DEF Good, AllFaithful
    <3>3. \A d \in Auths : Pending(d, kept)' => HasKept(task[b], d) /\ kept'[d] = kept[d]
      BY <1>4, <2>3, <3>2 DEF Faithful
    <3>. QED  BY <1>4, <3>2, <3>3 DEF Faithful, HasWritten, HasKept
  <2>6. AllCovered'
    <3>1. SUFFICES ASSUME NEW d \in Auths, Pending(d, cool)'  PROVE Covered(d)'
      BY DEF AllCovered
    <3>2. CASE t.at = "snapshot"  BY <1>3, <3>2 DEF Covered, Stands
    <3>3. CASE n = 0 /\ t.at = "idle"
      <4>1. d # c  BY <1>4, <3>1, <3>3 DEF Pending
      <4>2. Covered(d)  BY <2>1, <2>3, <3>1, <4>1 DEF Good, AllCovered
      <4>. QED  BY <1>3, <1>4, <2>2, <4>1, <4>2, LoaderActs DEF Covered, Carried, Stands
    <3>. QED  BY <3>2, <3>3
  <2>. QED  BY <2>4, <2>5, <2>6 DEF Good
<1>. QED  BY <1>4, <1>5, <1>6 DEF CooldownInv

\* About to take a snapshot.
LEMMA SnapshotNext ==
  LET t == [AtRest EXCEPT !.at = "snapshot"] IN t \in Task /\ t.at = "snapshot"
BY RestTypes DEF AtRest, Task, Places

LEMMA FailKeeps ==
  ASSUME CooldownInv, NEW a \in Callers, NEW c \in Auths, Fail(a, c)  PROVE CooldownInv'
<1>1. failures' \in Nat  BY DEF Fail, CooldownInv, CooldownTypes
<1>2. PICK n \in Nat : n = failures'  BY <1>1
<1>3. PICK t \in Task : t = [AtRest EXCEPT !.at = "snapshot"] /\ t.at = "snapshot"  BY SnapshotNext
<1>4. Goes(a, t) /\ Settle(c, n) /\ up = "serving" /\ Stands(a, "idle") /\ a # Loader
  BY <1>2, <1>3 DEF Fail, Goes
<1>5. /\ a \in Actors /\ failures' \in Nat /\ t \in Task
      /\ t.at = "snapshot" \/ (n = 0 /\ t.at = "idle")
  BY <1>1, <1>3, LoaderActs
<1>. QED  BY ONLY CooldownInv, <1>4, <1>5, SettleKeeps

LEMMA SucceedKeeps ==
  ASSUME CooldownInv, NEW a \in Callers, NEW c \in Auths, Succeed(a, c)  PROVE CooldownInv'
<1>1. failures' \in Nat  BY DEF Succeed, CooldownInv, CooldownTypes
<1>2. PICK t \in Task : /\ t = IF Pending(c, cool) THEN [AtRest EXCEPT !.at = "snapshot"] ELSE AtRest
                        /\ t.at \in {"snapshot", "idle"}
  BY SnapshotNext, RestTypes DEF AtRest
<1>3. Goes(a, t) /\ Settle(c, 0) /\ up = "serving" /\ Stands(a, "idle") /\ a # Loader
  BY <1>2 DEF Succeed, Goes
<1>4. /\ a \in Actors /\ failures' \in Nat /\ t \in Task /\ 0 \in Nat
      /\ t.at = "snapshot" \/ (0 = 0 /\ t.at = "idle")
  BY <1>1, <1>2, LoaderActs
<1>. QED  BY ONLY CooldownInv, <1>3, <1>4, SettleKeeps

\* A save that goes on: it carries what it carried, and what it writes it carries.
LEMMA StepKeeps ==
  ASSUME CooldownInv, NEW a \in Actors, NEW t \in Task, Goes(a, t),
         UNCHANGED <<up, cool, failures, over, store, kept, blurred>>, files' \in [Auths -> Nat],
         Saving(a), t.at \in {"lock", "write", "clean"}, t.recs = task[a].recs,
         t.at = "write" => t.todo \subseteq DOMAIN t.recs,
         ~blurred => HasWritten(t)' /\ InFiles'
  PROVE  CooldownInv'
<1>1. /\ task' \in [Actors -> Task] /\ task'[a] = t
      /\ \A b \in Actors \ {a} : task'[b] = task[b]
  BY OneGoes DEF CooldownInv
<1>2. up # "down" /\ task[a].at \in {"lock", "write", "clean"}
  BY DEF Saving, Holds, Stands, CooldownInv, Phases
<1>3. CooldownTypes' /\ Phases'
  BY <1>1, <1>2, LoaderActs DEF CooldownInv, CooldownTypes, Phases, Stands
<1>4. ASSUME ~blurred  PROVE Good'
  <2>1. Good  BY <1>4 DEF CooldownInv
  <2>2. \A b \in Actors : /\ Saving(b)' <=> Saving(b)
                          /\ task'[b].recs = task[b].recs
                          /\ \A x : x \in {"snapshot", "read", "register"} =>
                               (task'[b].at = x <=> task[b].at = x) /\ (task[b].at = x => task'[b] = task[b])
    BY <1>1, <1>2 DEF Saving, Holds, Stands
  <2>3. Single' /\ InFiles'  BY <1>4, <2>1, <2>2 DEF Good, Single
  <2>4. Remembered' /\ Collected'
    BY <2>1, <2>2, LoaderActs DEF Good, Remembered, Collected, Reading, Stands, HasKept, Pending
  <2>5. AllFaithful'
    <3>1. SUFFICES ASSUME NEW b \in Actors, Saving(b)'  PROVE Faithful(b)'  BY DEF AllFaithful
    <3>2. Faithful(b) /\ b = a  BY <2>1, <2>2, <3>1 DEF Good, AllFaithful, Single
    <3>3. HasWritten(task[b])'  BY <1>1, <1>4, <3>2 DEF HasWritten
    <3>. QED  BY <2>2, <3>2, <3>3 DEF Faithful, HasKept, Pending
  <2>6. AllCovered'
    <3>1. SUFFICES ASSUME NEW c \in Auths, Pending(c, cool)'  PROVE Covered(c)'  BY DEF AllCovered
    <3>2. Covered(c)  BY <2>1, <3>1 DEF Good, AllCovered, Pending
    <3>3. CASE Carried(c)  BY <2>2, <3>3 DEF Covered, Carried
    <3>4. CASE ~Carried(c)  BY <2>2, <3>2, <3>4, LoaderActs DEF Covered, Stands
    <3>. QED  BY <3>3, <3>4
  <2>. QED  BY <2>3, <2>4, <2>5, <2>6 DEF Good
<1>. QED  BY <1>3, <1>4 DEF CooldownInv

LEMMA LockKeeps ==
  ASSUME CooldownInv, NEW a \in Actors, LockStore(a)  PROVE CooldownInv'
<1>1. task[a] \in Task /\ DOMAIN task[a].recs \in SUBSET Auths
  BY TaskFields, RecsTypes DEF CooldownInv
<1>2. PICK t : t = [task[a] EXCEPT !.at = "write", !.todo = DOMAIN task[a].recs]  OBVIOUS
<1>3. /\ t \in Task /\ t.at = "write" /\ t.recs = task[a].recs /\ t.todo = DOMAIN t.recs
  BY <1>1, <1>2 DEF Task, Places
<1>4. Goes(a, t) /\ Saving(a) /\ HasWritten(t)'  BY <1>2, <1>3 DEF LockStore, Goes, Saving, HasWritten
<1>5. UNCHANGED <<up, cool, failures, over, files, store, kept, blurred>>
  BY DEF LockStore, SaveOnly
<1>6. files' \in [Auths -> Nat] /\ (~blurred => InFiles')
  BY <1>5 DEF CooldownInv, CooldownTypes, Good, InFiles, Pending
<1>. QED  BY <1>3, <1>4, <1>5, <1>6, StepKeeps

LEMMA WrittenKeeps ==
  ASSUME CooldownInv, NEW a \in Actors, Written(a)  PROVE CooldownInv'
<1>1. task[a] \in Task /\ Saving(a)  BY TaskFields DEF CooldownInv, Written, Saving, Holds, Stands
<1>2. PICK t : t = [task[a] EXCEPT !.at = "clean", !.todo = Auths \ DOMAIN task[a].recs]  OBVIOUS
<1>3. t \in Task /\ t.at = "clean" /\ t.recs = task[a].recs /\ t.todo = Auths \ DOMAIN t.recs
  BY <1>1, <1>2 DEF Task, Places
<1>4. Goes(a, t) /\ UNCHANGED <<up, cool, failures, over, files, store, kept, blurred>>
  BY <1>2 DEF Written, SaveOnly, Goes
<1>5. files' \in [Auths -> Nat] /\ (~blurred => InFiles')
  BY <1>4 DEF CooldownInv, CooldownTypes, Good, InFiles, Pending
<1>6. ~blurred => HasWritten(t)'
  BY <1>1, <1>3, <1>4 DEF CooldownInv, Good, AllFaithful, Faithful, HasWritten, Written, Stands
<1>. QED  BY <1>1, <1>3, <1>4, <1>5, <1>6, StepKeeps

LEMMA WriteKeeps ==
  ASSUME CooldownInv, NEW a \in Actors, NEW c \in Auths, WriteFile(a, c)  PROVE CooldownInv'
<1>1. task[a] \in Task /\ Saving(a) /\ task[a].at = "write" /\ c \in task[a].todo
  BY TaskFields DEF CooldownInv, WriteFile, Saving, Holds, Stands
<1>2. PICK t : t = [task[a] EXCEPT !.todo = @ \ {c}]  OBVIOUS
<1>3. t \in Task /\ t.at = "write" /\ t.recs = task[a].recs /\ t.todo = task[a].todo \ {c}
  BY <1>1, <1>2 DEF Task
<1>4. Goes(a, t) /\ UNCHANGED <<up, cool, failures, over, store, kept, blurred>>
  BY <1>2 DEF WriteFile, SaveOnly, Goes
<1>5. /\ files' \in [Auths -> Nat]
      /\ files'[c] = task[a].recs[c] /\ \A d \in Auths \ {c} : files'[d] = files[d]
  <2>1. task[a].recs[c] \in Nat \/ c \notin DOMAIN task[a].recs
    BY TaskFields, RecsTypes DEF CooldownInv
  <2>2. c \in DOMAIN task[a].recs
    BY <1>1 DEF CooldownInv, Phases, Stands
  <2>. QED  BY <2>1, <2>2 DEF WriteFile, CooldownInv, CooldownTypes
<1>6. ASSUME ~blurred  PROVE HasWritten(t)' /\ InFiles'
  <2>1. Faithful(a) /\ InFiles  BY <1>1, <1>6 DEF CooldownInv, Good, AllFaithful
  <2>2. task[a].todo \subseteq DOMAIN task[a].recs /\ DOMAIN task[a].recs \subseteq Auths
    BY <1>1, TaskFields, RecsTypes DEF CooldownInv, Phases, Stands
  <2>3. HasWritten(t)'  BY <1>1, <1>3, <1>5, <2>1, <2>2 DEF Faithful, HasWritten
  <2>4. InFiles'  BY <1>4, <1>5, <2>1 DEF Faithful, HasKept, InFiles, Pending
  <2>. QED  BY <2>3, <2>4
<1>7. t.todo \subseteq DOMAIN t.recs  BY <1>1, <1>3 DEF CooldownInv, Phases, Stands
<1>. QED  BY <1>1, <1>3, <1>4, <1>5, <1>6, <1>7, StepKeeps

LEMMA RemoveKeeps ==
  ASSUME CooldownInv, NEW a \in Actors, NEW c \in Auths, RemoveStale(a, c)  PROVE CooldownInv'
<1>1. task[a] \in Task /\ Saving(a) /\ task[a].at = "clean" /\ c \in task[a].todo
  BY TaskFields DEF CooldownInv, RemoveStale, Saving, Holds, Stands
<1>2. PICK t : t = [task[a] EXCEPT !.todo = @ \ {c}]  OBVIOUS
<1>3. t \in Task /\ t.at = "clean" /\ t.recs = task[a].recs /\ t.todo = task[a].todo \ {c}
  BY <1>1, <1>2 DEF Task
<1>4. Goes(a, t) /\ UNCHANGED <<up, cool, failures, over, store, kept, blurred>>
  BY <1>2 DEF RemoveStale, SaveOnly, Goes
<1>5. /\ files' \in [Auths -> Nat] /\ \A d \in Auths \ {c} : files'[d] = files[d]
  BY DEF RemoveStale, CooldownInv, CooldownTypes
<1>6. ASSUME ~blurred  PROVE HasWritten(t)' /\ InFiles'
  <2>1. Faithful(a) /\ InFiles  BY <1>1, <1>6 DEF CooldownInv, Good, AllFaithful
  <2>2. c \notin DOMAIN task[a].recs /\ DOMAIN task[a].recs \subseteq Auths
    BY <1>1, <2>1, TaskFields, RecsTypes DEF Faithful, HasWritten, CooldownInv
  <2>3. HasWritten(t)'  BY <1>1, <1>3, <1>5, <2>1, <2>2 DEF Faithful, HasWritten
  <2>4. InFiles'  BY <1>4, <1>5, <2>1, <2>2 DEF Faithful, HasKept, InFiles, Pending
  <2>. QED  BY <2>3, <2>4
<1>. QED  BY <1>1, <1>3, <1>4, <1>5, <1>6, StepKeeps

\* The snapshot holds what is kept: memory does.
LEMMA TakeKeeps ==
  ASSUME CooldownInv, NEW a \in Actors, TakeRecords(a)  PROVE CooldownInv'
<1>1. PICK S \in SUBSET Auths : S = {c \in Auths : Pending(c, cool)}  OBVIOUS
<1>2. PICK r \in Recs : /\ r = Restrict(cool, S)
                        /\ DOMAIN r = S /\ \A c \in S : r[c] = cool[c]
  <2>1. cool \in [Auths -> Nat]  BY DEF CooldownInv, CooldownTypes
  <2>. HIDE <1>1
  <2>2. /\ Restrict(cool, S) \in Recs /\ DOMAIN Restrict(cool, S) = S
        /\ \A c \in S : Restrict(cool, S)[c] = cool[c]
    BY <2>1, RecsTypes
  <2>. QED  BY <2>2
<1>3. PICK t \in Task : /\ t = [at |-> "lock", recs |-> r, todo |-> {}, store |-> store]
                        /\ t.at = "lock" /\ t.recs = r
  <2>1. store \in {0, 1} /\ r \in Recs  BY <1>2 DEF CooldownInv, CooldownTypes
  <2>2. [at |-> "lock", recs |-> r, todo |-> {}, store |-> store] \in Task
    BY <2>1 DEF Task, Places
  <2>. QED  BY <2>2
<1>4. Goes(a, t)  BY <1>1, <1>2, <1>3 DEF TakeRecords, Goes
<1>5. /\ task' \in [Actors -> Task] /\ task'[a] = t
      /\ \A b \in Actors \ {a} : task'[b] = task[b]
  BY <1>4, OneGoes DEF CooldownInv
<1>6. /\ UNCHANGED <<up, cool, failures, over, store, files, kept>>
      /\ task[a].at = "snapshot" /\ blurred' = (blurred \/ \E b \in Actors : Saving(b))
  BY DEF TakeRecords, SaveOnly, Stands
<1>7. CooldownTypes' /\ Phases'
  BY <1>3, <1>5, <1>6, LoaderActs DEF CooldownInv, CooldownTypes, Phases, Stands
<1>8. ASSUME ~blurred'  PROVE Good'
  <2>1. Good /\ \A b \in Actors : ~Saving(b)  BY <1>6, <1>8 DEF CooldownInv
  <2>2. \A b \in Actors : Saving(b)' => b = a  BY <1>5, <2>1 DEF Saving, Holds, Stands
  <2>3. up # "down" /\ ~Reading /\ ~Reading'
    BY <1>3, <1>5, <1>6, LoaderActs DEF CooldownInv, Phases, Reading, Stands
  <2>4. Single' /\ InFiles' /\ Remembered' /\ Collected'
    BY <1>6, <2>1, <2>2, <2>3 DEF Good, Single, InFiles, Remembered, Collected, Pending
  <2>5. Faithful(a)'
    <3>1. \A c \in Auths : Pending(c, kept) => c \in S /\ r[c] = kept[c]
      BY <1>1, <1>2, <2>1, <2>3 DEF Good, Remembered, Pending
    <3>. QED  BY <1>3, <1>5, <1>6, <1>2, <3>1 DEF Faithful, HasWritten, HasKept, Pending
  <2>6. \A c \in Auths : Pending(c, cool)' => Carried(c)'
    BY <1>1, <1>2, <1>3, <1>5, <1>6 DEF Carried, Saving, Stands, Pending
  <2>. QED  BY <2>2, <2>4, <2>5, <2>6 DEF Good, AllFaithful, AllCovered, Covered
<1>. QED  BY <1>7, <1>8 DEF CooldownInv

\* What follows a save or a restore.
LEMMA AfterIs ==
  ASSUME NEW a \in Actors
  PROVE  /\ After(a) \in Task /\ After(a).at \in {"idle", "register"}
         /\ a = Loader => After(a).at = "register" /\ After(a).todo = Auths
         /\ a # Loader => After(a).at = "idle"
BY RestTypes DEF After, AtRest

\* A save that has come to its end: what it carried is in the files.
LEMMA DoneKeeps ==
  ASSUME CooldownInv, NEW a \in Actors, SaveDone(a)  PROVE CooldownInv'
<1>1. PICK t \in Task : t = After(a)  BY AfterIs
<1>2. /\ t.at \in {"idle", "register"} /\ (a # Loader => t.at = "idle")  BY <1>1, AfterIs
<1>3. Goes(a, t)  BY <1>1 DEF SaveDone, Goes
<1>4. /\ task' \in [Actors -> Task] /\ task'[a] = t
      /\ \A b \in Actors \ {a} : task'[b] = task[b]
  BY <1>3, OneGoes DEF CooldownInv
<1>5. /\ UNCHANGED <<up, cool, failures, over, store, files, blurred>>
      /\ task[a].at = "clean" /\ task[a].todo = {} /\ Saving(a)
      /\ kept' \in [Auths -> Nat]
      /\ \A c \in Auths : kept'[c] = kept[c] \/ /\ c \in DOMAIN task[a].recs
                                                /\ task[a].recs[c] = cool[c] /\ kept'[c] = cool[c]
  BY DEF SaveDone, SaveOnly, Stands, Saving, Holds, CooldownInv, CooldownTypes
<1>6. CooldownTypes' /\ Phases'
  BY <1>2, <1>4, <1>5, LoaderActs DEF CooldownInv, CooldownTypes, Phases, Stands
<1>7. ASSUME ~blurred  PROVE Good'
  <2>1. Good /\ HasWritten(task[a])  BY <1>5, <1>7 DEF CooldownInv, Good, AllFaithful, Faithful
  <2>2. \A b \in Actors : (Saving(b) => b = a) /\ ~Saving(b)'
    BY <1>2, <1>4, <1>5, <2>1 DEF Good, Single, Saving, Holds, Stands
  <2>3. \A c \in DOMAIN task[a].recs : files[c] = task[a].recs[c]  BY <1>5, <2>1 DEF HasWritten
  <2>4. up # "down" /\ ~Reading /\ ~Reading'
    BY <1>2, <1>4, <1>5, LoaderActs DEF CooldownInv, Phases, Reading, Stands
  <2>5. Single' /\ InFiles' /\ Remembered' /\ Collected' /\ AllFaithful'
    BY <1>5, <2>1, <2>2, <2>3, <2>4
    DEF Good, Single, InFiles, Remembered, Collected, AllFaithful, Pending
  <2>6. AllCovered'
    <3>1. SUFFICES ASSUME NEW c \in Auths, Pending(c, cool)'  PROVE Covered(c)'  BY DEF AllCovered
    <3>2. Covered(c)  BY <1>5, <2>1, <3>1 DEF Good, AllCovered, Pending
    <3>3. CASE Carried(c)
      <4>1. files[c] = cool[c]  BY <2>2, <2>3, <3>3 DEF Carried
      <4>. QED  BY <1>5, <2>2, <4>1 DEF Covered
    <3>4. CASE ~Carried(c)  BY <1>4, <1>5, <3>2, <3>4, LoaderActs DEF Covered, Stands
    <3>. QED  BY <3>3, <3>4
  <2>. QED  BY <2>5, <2>6 DEF Good
<1>. QED  BY <1>5, <1>6, <1>7 DEF CooldownInv

LEMMA FaultKeeps ==
  ASSUME CooldownInv, NEW a \in Actors, Fault(a)  PROVE CooldownInv'
<1>1. PICK t \in Task : t = After(a)  BY AfterIs
<1>2. /\ t.at \in {"idle", "register"} /\ (a # Loader => t.at = "idle")  BY <1>1, AfterIs
<1>3. Goes(a, t)  BY <1>1 DEF Fault, Goes
<1>4. /\ task' \in [Actors -> Task] /\ task'[a] = t
      /\ \A b \in Actors \ {a} : task'[b] = task[b]
  BY <1>3, OneGoes DEF CooldownInv
<1>5. /\ UNCHANGED <<up, cool, failures, over, store, files, kept>> /\ blurred' = TRUE
      /\ task[a].at \in {"read", "write", "clean"}
  BY DEF Fault, SaveOnly
<1>6. CooldownTypes' /\ Phases'
  BY <1>2, <1>4, <1>5, LoaderActs DEF CooldownInv, CooldownTypes, Phases, Stands
<1>. QED  BY <1>5, <1>6 DEF CooldownInv

-----------------------------------------------------------------------------
(* The service.                                                              *)

\* A load begins.
LEMMA LoadIs == Load \in Task /\ Load.at = "read" /\ Load.todo = Auths
BY RestTypes DEF Load, AtRest, Task, Places

LEMMA StartKeeps == CooldownInv /\ Start => CooldownInv'
<1>. SUFFICES ASSUME CooldownInv, Start PROVE CooldownInv'  OBVIOUS
<1>1. PICK t \in Task : t = Load /\ t.at = "read" /\ t.todo = Auths  BY LoadIs
<1>2. Goes(Loader, t)  BY <1>1 DEF Start, Goes
<1>3. /\ task' \in [Actors -> Task] /\ task'[Loader] = t
      /\ \A b \in Actors \ {Loader} : task'[b] = task[b]
  BY <1>2, OneGoes, LoaderActs DEF CooldownInv
<1>4. /\ UNCHANGED <<cool, failures, over, files, store, kept, blurred>>
      /\ up = "down" /\ up' = "starting"
      /\ \A b \in Actors : Stands(b, "idle")
  BY DEF Start, CooldownInv, Phases
<1>5. CooldownTypes' /\ Phases'
  BY <1>1, <1>3, <1>4 DEF CooldownInv, CooldownTypes, Phases, Stands
<1>6. ASSUME ~blurred  PROVE Good'
  <2>1. Good  BY <1>6 DEF CooldownInv
  <2>2. \A b \in Actors : ~Saving(b) /\ ~Saving(b)'
    BY <1>1, <1>3, <1>4 DEF Saving, Holds, Stands
  <2>3. Reading'  BY <1>1, <1>3, <1>4 DEF Reading, Stands
  <2>4. Single' /\ InFiles' /\ Remembered' /\ Collected' /\ AllFaithful'
    BY <1>1, <1>3, <1>4, <2>1, <2>2, <2>3
    DEF Good, Single, InFiles, Remembered, Collected, AllFaithful, Pending
  <2>5. AllCovered'
    <3>1. SUFFICES ASSUME NEW c \in Auths, Pending(c, cool)'  PROVE Covered(c)'  BY DEF AllCovered
    <3>2. Covered(c)  BY <1>4, <2>1, <3>1 DEF Good, AllCovered, Pending
    <3>3. files[c] = cool[c]
      BY <1>4, <2>2, <3>2, LoaderActs DEF Covered, Carried, Stands
    <3>. QED  BY <1>4, <2>2, <3>3 DEF Covered
  <2>. QED  BY <2>4, <2>5 DEF Good
<1>. QED  BY <1>4, <1>5, <1>6 DEF CooldownInv

\* A load begins beside what is served.
LEMMA LoaderKeeps ==
  ASSUME CooldownInv, up = "serving", Stands(Loader, "idle"), NEW t \in Task, Goes(Loader, t),
         t.at = "read", store' \in {0, 1}, UNCHANGED <<up, cool, failures, over, files, kept, blurred>>
  PROVE  CooldownInv'
<1>1. /\ task' \in [Actors -> Task] /\ task'[Loader] = t
      /\ \A b \in Actors \ {Loader} : task'[b] = task[b]
  BY OneGoes, LoaderActs DEF CooldownInv
<1>2. CooldownTypes' /\ Phases'
  BY <1>1 DEF CooldownInv, CooldownTypes, Phases, Stands
<1>3. ASSUME ~blurred  PROVE Good'
  <2>1. Good  BY <1>3 DEF CooldownInv
  <2>2. \A b \in Actors : /\ Saving(b)' <=> Saving(b)
                          /\ Saving(b) \/ Stands(b, "snapshot") => b # Loader /\ task'[b] = task[b]
    BY <1>1 DEF Saving, Holds, Stands
  <2>3. ~Reading /\ ~Reading'  BY DEF Reading
  <2>4. Single' /\ InFiles' /\ Remembered' /\ Collected'
    BY <2>1, <2>2, <2>3 DEF Good, Single, InFiles, Remembered, Collected, Pending
  <2>5. AllFaithful'
    <3>1. SUFFICES ASSUME NEW b \in Actors, Saving(b)'  PROVE Faithful(b)'  BY DEF AllFaithful
    <3>2. Faithful(b) /\ task'[b] = task[b]  BY <2>1, <2>2, <3>1 DEF Good, AllFaithful
    <3>. QED  BY <3>2 DEF Faithful, HasWritten, HasKept, Pending
  <2>6. AllCovered'
    <3>1. SUFFICES ASSUME NEW c \in Auths, Pending(c, cool)'  PROVE Covered(c)'  BY DEF AllCovered
    <3>2. Covered(c)  BY <2>1, <3>1 DEF Good, AllCovered, Pending
    <3>. QED  BY <2>2, <3>2 DEF Covered, Carried, Stands
  <2>. QED  BY <2>4, <2>5, <2>6 DEF Good
<1>. QED  BY <1>2, <1>3 DEF CooldownInv

LEMMA ReloadKeeps == CooldownInv /\ Reload => CooldownInv'
<1>. SUFFICES ASSUME CooldownInv, Reload PROVE CooldownInv'  OBVIOUS
<1>1. PICK t \in Task : t = Load /\ t.at = "read"  BY LoadIs
<1>2. Goes(Loader, t)  BY <1>1 DEF Reload, Goes
<1>3. /\ up = "serving" /\ Stands(Loader, "idle") /\ store' \in {0, 1}
      /\ UNCHANGED <<up, cool, failures, over, files, kept, blurred>>
  BY DEF Reload, CooldownInv, CooldownTypes
<1>. QED  BY <1>1, <1>2, <1>3, LoaderKeeps

\* A file read is a record that is kept, if it is one.
LEMMA ReadKeeps ==
  ASSUME CooldownInv, NEW c \in Auths, ReadState(c)  PROVE CooldownInv'
<1>1. PICK u \in Task : u = task[Loader]  BY TaskFields, LoaderActs DEF CooldownInv
<1>2. PICK r \in Recs : /\ r = IF files[c] = 0 THEN u.recs
                               ELSE [d \in DOMAIN u.recs \cup {c} |-> IF d = c THEN files[c] ELSE u.recs[d]]
                        /\ \A d \in DOMAIN u.recs \ {c} : d \in DOMAIN r /\ r[d] = u.recs[d]
                        /\ files[c] # 0 => c \in DOMAIN r /\ r[c] = files[c]
  <2>1. u.recs \in Recs /\ DOMAIN u.recs \subseteq Auths /\ \A d \in DOMAIN u.recs : u.recs[d] \in Nat
    BY <1>1, RecsTypes DEF Task
  <2>2. files[c] \in Nat  BY DEF CooldownInv, CooldownTypes
  <2>3. PICK D \in SUBSET Auths : D = DOMAIN u.recs \cup {c}  BY <2>1
  <2>4. [d \in D |-> IF d = c THEN files[c] ELSE u.recs[d]] \in [D -> Nat]  BY <2>1, <2>2, <2>3
  <2>5. [d \in D |-> IF d = c THEN files[c] ELSE u.recs[d]] \in Recs  BY <2>4 DEF Recs
  <2>6. CASE files[c] = 0  BY <2>1, <2>6
  <2>7. CASE files[c] # 0
    <3>1. PICK r \in Recs : r = [d \in D |-> IF d = c THEN files[c] ELSE u.recs[d]]  BY <2>5
    <3>. QED  BY <2>3, <2>7, <3>1
  <2>. QED  BY <2>6, <2>7
<1>3. PICK t \in Task : /\ t = [u EXCEPT !.todo = @ \ {c}, !.recs = r]
                        /\ t.at = u.at /\ t.todo = u.todo \ {c} /\ t.recs = r
  <2>1. [u EXCEPT !.todo = @ \ {c}, !.recs = r] \in Task  BY DEF Task
  <2>. QED  BY <2>1 DEF Task
<1>4. Goes(Loader, t)  BY <1>1, <1>2, <1>3 DEF ReadState, Goes
<1>5. /\ task' \in [Actors -> Task] /\ task'[Loader] = t
      /\ \A b \in Actors \ {Loader} : task'[b] = task[b]
  BY <1>4, OneGoes, LoaderActs DEF CooldownInv
<1>6. /\ UNCHANGED <<up, cool, failures, over, files, store, kept, blurred>>
      /\ u.at = "read" /\ t.at = "read"
  BY <1>1, <1>3 DEF ReadState, Stands
<1>7. CooldownTypes' /\ Phases'
  BY <1>1, <1>5, <1>6, LoaderActs DEF CooldownInv, CooldownTypes, Phases, Stands
<1>8. ASSUME ~blurred  PROVE Good'
  <2>1. Good  BY <1>8 DEF CooldownInv
  <2>2. \A b \in Actors : /\ Saving(b)' <=> Saving(b)
                          /\ Saving(b) \/ Stands(b, "snapshot") => b # Loader /\ task'[b] = task[b]
    BY <1>1, <1>5, <1>6 DEF Saving, Holds, Stands
  <2>3. Reading' <=> Reading  BY <1>1, <1>5, <1>6 DEF Reading, Stands
  <2>4. Single' /\ InFiles' /\ Remembered'
    BY <1>6, <2>1, <2>2, <2>3 DEF Good, Single, InFiles, Remembered, Pending
  <2>5. Collected'
    <3>1. SUFFICES ASSUME Reading, NEW d \in Auths \ t.todo, Pending(d, kept)  PROVE HasKept(t, d)
      BY <1>5, <1>6, <2>3 DEF Collected, HasKept, Pending
    <3>2. files[d] = kept[d] /\ kept[d] # 0  BY <2>1, <3>1 DEF Good, InFiles, Pending
    <3>3. CASE d = c  BY <1>2, <1>3, <3>2, <3>3 DEF HasKept
    <3>4. CASE d # c
      <4>1. HasKept(u, d)  BY <1>1, <1>3, <2>1, <3>1, <3>4 DEF Good, Collected
      <4>. QED  BY <1>2, <1>3, <3>4, <4>1 DEF HasKept
    <3>. QED  BY <3>3, <3>4
  <2>6. AllFaithful'
    <3>1. SUFFICES ASSUME NEW b \in Actors, Saving(b)'  PROVE Faithful(b)'  BY DEF AllFaithful
    <3>2. Faithful(b) /\ task'[b] = task[b]  BY <2>1, <2>2, <3>1 DEF Good, AllFaithful
    <3>. QED  BY <1>6, <3>2 DEF Faithful, HasWritten, HasKept, Pending
  <2>7. AllCovered'
    <3>1. SUFFICES ASSUME NEW d \in Auths, Pending(d, cool)'  PROVE Covered(d)'  BY DEF AllCovered
    <3>2. Covered(d)  BY <1>6, <2>1, <3>1 DEF Good, AllCovered, Pending
    <3>. QED  BY <1>1, <1>6, <2>2, <3>2 DEF Covered, Carried, Stands
  <2>. QED  BY <2>4, <2>5, <2>6, <2>7 DEF Good
<1>. QED  BY <1>6, <1>7, <1>8 DEF CooldownInv

\* What was read replaces what memory holds, and memory then holds what is kept.
LEMMA RestoreKeeps == CooldownInv /\ Restore => CooldownInv'
<1>. SUFFICES ASSUME CooldownInv, Restore PROVE CooldownInv'  OBVIOUS
<1>1. PICK r \in Recs : r = task[Loader].recs  BY TaskFields, LoaderActs DEF CooldownInv
<1>2. PICK back \in SUBSET DOMAIN r : back = {c \in DOMAIN r : Pending(c, r)}  OBVIOUS
<1>3. PICK t \in Task : /\ t = IF r = NoRecs THEN After(Loader) ELSE [AtRest EXCEPT !.at = "snapshot"]
                        /\ \/ t.at = "snapshot"
                           \/ t.at = "register" /\ t.todo = Auths
  BY SnapshotNext, AfterIs, LoaderActs
<1>4. Goes(Loader, t)  BY <1>1, <1>3 DEF Restore, Goes
<1>5. /\ task' \in [Actors -> Task] /\ task'[Loader] = t
      /\ \A b \in Actors \ {Loader} : task'[b] = task[b]
  BY <1>4, OneGoes, LoaderActs DEF CooldownInv
<1>6. /\ cool' = [c \in Auths |-> IF c \in back THEN r[c] ELSE cool[c]]
      /\ kept' = [c \in Auths |-> IF c \in back /\ r[c] # kept[c] THEN 0 ELSE kept[c]]
      /\ UNCHANGED <<up, failures, over, files, store, blurred>>
      /\ task[Loader].at = "read" /\ task[Loader].todo = {}
  BY <1>1, <1>2 DEF Restore, Stands
<1>7. \A c \in back : r[c] \in Nat  BY RecsTypes, <1>2
<1>8. cool' \in [Auths -> Nat] /\ kept' \in [Auths -> Nat]
  BY <1>6, <1>7 DEF CooldownInv, CooldownTypes
<1>9. CooldownTypes' /\ Phases'
  BY <1>3, <1>5, <1>6, <1>8, LoaderActs DEF CooldownInv, CooldownTypes, Phases, Stands
<1>10. ASSUME ~blurred  PROVE Good'
  <2>1. Good  BY <1>10 DEF CooldownInv
  <2>2. \A b \in Actors : /\ Saving(b)' <=> Saving(b)
                          /\ Saving(b) => task'[b] = task[b]
    BY <1>3, <1>5, <1>6 DEF Saving, Holds, Stands
  <2>3. \A c \in Auths : Pending(c, kept)' => Pending(c, kept) /\ kept'[c] = kept[c]
    BY <1>6, <1>8 DEF Pending
  <2>4. up # "down" /\ ~Reading'
    BY <1>3, <1>5, <1>6, LoaderActs DEF CooldownInv, Phases, Reading, Stands
  <2>5. \A c \in Auths : Pending(c, kept)' => cool'[c] = kept'[c]
    <3>1. SUFFICES ASSUME NEW c \in Auths, Pending(c, kept)'  PROVE cool'[c] = kept'[c]  OBVIOUS
    <3>2. Pending(c, kept) /\ kept'[c] = kept[c] /\ kept[c] # 0  BY <2>3, <3>1 DEF Pending
    <3>3. c \in back => r[c] = kept[c]  BY <1>6, <3>2
    <3>4. CASE c \in back  BY <1>6, <3>2, <3>3, <3>4
    <3>5. CASE c \notin back
      <4>1. ~HasKept(task[Loader], c)  BY <1>1, <1>2, <3>2, <3>5 DEF HasKept, Pending
      <4>2. ~Reading  BY <1>6, <2>1, <3>2, <4>1 DEF Good, Collected
      <4>. QED  BY <1>6, <2>1, <2>4, <3>2, <3>5, <4>2 DEF Good, Remembered
    <3>. QED  BY <3>4, <3>5
  <2>6. Single' /\ InFiles' /\ Remembered' /\ Collected'
    BY <1>6, <2>1, <2>2, <2>3, <2>4, <2>5 DEF Good, Single, InFiles, Remembered, Collected
  <2>7. AllFaithful'
    <3>1. SUFFICES ASSUME NEW b \in Actors, Saving(b)'  PROVE Faithful(b)'  BY DEF AllFaithful
    <3>2. Faithful(b) /\ task'[b] = task[b]  BY <2>1, <2>2, <3>1 DEF Good, AllFaithful
    <3>. QED  BY <1>6, <2>3, <3>2 DEF Faithful, HasWritten, HasKept
  <2>8. AllCovered'  BY <1>3, <1>5, LoaderActs DEF AllCovered, Covered, Stands
  <2>. QED  BY <2>6, <2>7, <2>8 DEF Good
<1>. QED  BY <1>6, <1>9, <1>10 DEF CooldownInv

\* A registration ends a cooldown and what is kept of it.
LEMMA RegisterKeeps ==
  ASSUME CooldownInv, NEW c \in Auths, RegisterModels(c)  PROVE CooldownInv'
<1>1. PICK u \in Task : u = task[Loader]  BY TaskFields, LoaderActs DEF CooldownInv
<1>2. PICK rest \in SUBSET Auths : rest = u.todo \ {c}  BY DEF Task
<1>3. PICK t \in Task : /\ t = IF rest = {} THEN AtRest ELSE [u EXCEPT !.todo = rest]
                        /\ \/ rest = {} /\ t.at = "idle"
                           \/ t.at = u.at /\ t.todo = rest
  <2>1. [u EXCEPT !.todo = rest] \in Task  BY DEF Task
  <2>2. AtRest \in Task /\ AtRest.at = "idle"  BY RestTypes DEF AtRest
  <2>. QED  BY <2>1, <2>2 DEF Task
<1>4. Goes(Loader, t)  BY <1>1, <1>2, <1>3 DEF RegisterModels, Goes
<1>5. /\ task' \in [Actors -> Task] /\ task'[Loader] = t
      /\ \A b \in Actors \ {Loader} : task'[b] = task[b]
  BY <1>4, OneGoes, LoaderActs DEF CooldownInv
<1>6. /\ cool' = [cool EXCEPT ![c] = 0] /\ kept' = [kept EXCEPT ![c] = 0]
      /\ cool' \in [Auths -> Nat] /\ kept' \in [Auths -> Nat]
      /\ cool'[c] = 0 /\ kept'[c] = 0
      /\ \A d \in Auths \ {c} : cool'[d] = cool[d] /\ kept'[d] = kept[d]
      /\ UNCHANGED <<failures, over, files, store, blurred>>
      /\ up' = "serving" /\ u.at = "register"
  BY <1>1 DEF RegisterModels, Stands, CooldownInv, CooldownTypes
<1>7. CooldownTypes' /\ Phases'
  BY <1>1, <1>3, <1>5, <1>6, LoaderActs DEF CooldownInv, CooldownTypes, Phases, Stands
<1>8. ASSUME ~blurred  PROVE Good'
  <2>1. Good  BY <1>8 DEF CooldownInv
  <2>2. \A b \in Actors : /\ Saving(b)' <=> Saving(b)
                          /\ Saving(b) \/ Stands(b, "snapshot") => task'[b] = task[b]
    BY <1>1, <1>3, <1>5, <1>6 DEF Saving, Holds, Stands
  <2>3. \A d \in Auths : /\ Pending(d, kept)' => Pending(d, kept) /\ d # c
                         /\ Pending(d, cool)' => Pending(d, cool) /\ d # c
    BY <1>6 DEF Pending
  <2>4. up # "down" /\ ~Reading /\ ~Reading'
    BY <1>1, <1>6, LoaderActs DEF CooldownInv, Phases, Reading, Stands
  <2>5. Single' /\ InFiles' /\ Remembered' /\ Collected'
    BY <1>6, <2>1, <2>2, <2>3, <2>4 DEF Good, Single, InFiles, Remembered, Collected
  <2>6. AllFaithful'
    <3>1. SUFFICES ASSUME NEW b \in Actors, Saving(b)'  PROVE Faithful(b)'  BY DEF AllFaithful
    <3>2. Faithful(b) /\ task'[b] = task[b]  BY <2>1, <2>2, <3>1 DEF Good, AllFaithful
    <3>. QED  BY <1>6, <2>3, <3>2 DEF Faithful, HasWritten, HasKept
  <2>7. AllCovered'
    <3>1. SUFFICES ASSUME NEW d \in Auths, Pending(d, cool)'  PROVE Covered(d)'  BY DEF AllCovered
    <3>2. Covered(d) /\ d # c /\ cool'[d] = cool[d]  BY <1>6, <2>1, <2>3, <3>1 DEF Good, AllCovered
    <3>3. CASE Stands(Loader, "register") /\ d \in task[Loader].todo
      <4>1. d \in rest  BY <1>1, <1>2, <3>2, <3>3
      <4>. QED  BY <1>3, <1>5, <1>6, <4>1 DEF Covered, Stands
    <3>4. CASE ~(Stands(Loader, "register") /\ d \in task[Loader].todo)
      BY <1>6, <2>2, <3>2, <3>4 DEF Covered, Carried, Stands
    <3>. QED  BY <3>3, <3>4
  <2>. QED  BY <2>5, <2>6, <2>7 DEF Good
<1>. QED  BY <1>6, <1>7, <1>8 DEF CooldownInv

LEMMA EndKeeps == CooldownInv /\ ProcessEnds => CooldownInv'
<1>. SUFFICES ASSUME CooldownInv, ProcessEnds PROVE CooldownInv'  OBVIOUS
<1>1. /\ up' = "down" /\ UNCHANGED <<failures, over, files, store, kept, blurred>>
      /\ cool' \in [Auths -> Nat] /\ \A c \in Auths : cool'[c] = 0
      /\ task' \in [Actors -> Task] /\ \A a \in Actors : task'[a].at = "idle"
  BY RestTypes DEF ProcessEnds, AtRest
<1>2. CooldownTypes' /\ Phases'  BY <1>1 DEF CooldownInv, CooldownTypes, Phases, Stands
<1>3. ASSUME ~blurred  PROVE Good'
  <2>1. Good  BY <1>3 DEF CooldownInv
  <2>2. \A a \in Actors : ~Saving(a)'  BY <1>1 DEF Saving, Holds, Stands
  <2>. QED
    BY <1>1, <2>1, <2>2
    DEF Good, Single, InFiles, Remembered, Collected, Reading, AllFaithful, AllCovered, Pending
<1>. QED  BY <1>1, <1>2, <1>3 DEF CooldownInv

-----------------------------------------------------------------------------
(* The invariant and the property.                                           *)

LEMMA InitHolds == CooldownInit => CooldownInv
<1>. SUFFICES ASSUME CooldownInit PROVE CooldownInv  OBVIOUS
<1>1. task \in [Actors -> Task] /\ \A a \in Actors : task[a].at = "idle"
  BY RestTypes DEF CooldownInit, AtRest
<1>2. CooldownTypes /\ Phases  BY <1>1 DEF CooldownInit, CooldownTypes, Phases, Stands
<1>3. Good
  BY <1>1 DEF CooldownInit, Good, Single, InFiles, Remembered, Collected, Reading, AllFaithful,
              AllCovered, Pending, Saving, Holds, Stands
<1>. QED  BY <1>2, <1>3 DEF CooldownInv

LEMMA NextKeeps == CooldownInv /\ [CooldownNext]_cooldownVars => CooldownInv'
<1>. SUFFICES ASSUME CooldownInv, [CooldownNext]_cooldownVars PROVE CooldownInv'  OBVIOUS
<1>1. CASE UNCHANGED cooldownVars
  BY <1>1 DEF cooldownVars, CooldownInv, CooldownTypes, Phases, Good, Single, InFiles, Remembered,
              Collected, Reading, AllFaithful, AllCovered, Faithful, HasWritten, HasKept, Covered,
              Carried, Pending, Saving, Holds, Stands
<1>2. ASSUME NEW a \in Callers, NEW c \in Auths, Fail(a, c) \/ Succeed(a, c)  PROVE CooldownInv'
  BY <1>2, FailKeeps, SucceedKeeps
<1>3. ASSUME NEW a \in Actors,
             TakeRecords(a) \/ LockStore(a) \/ Written(a) \/ SaveDone(a) \/ Fault(a)
      PROVE  CooldownInv'
  BY <1>3, TakeKeeps, LockKeeps, WrittenKeeps, DoneKeeps, FaultKeeps
<1>4. ASSUME NEW a \in Actors, NEW c \in Auths, WriteFile(a, c) \/ RemoveStale(a, c)
      PROVE  CooldownInv'
  BY <1>4, WriteKeeps, RemoveKeeps
<1>5. CASE Expire \/ Start \/ Reload \/ Restore \/ ProcessEnds
  BY <1>5, ExpireKeeps, StartKeeps, ReloadKeeps, RestoreKeeps, EndKeeps
<1>6. ASSUME NEW c \in Auths, ReadState(c) \/ RegisterModels(c)  PROVE CooldownInv'
  BY <1>6, ReadKeeps, RegisterKeeps
<1>. QED  BY <1>1, <1>2, <1>3, <1>4, <1>5, <1>6 DEF CooldownNext

\* At rest nobody is on the way to the files: what covers a cooldown is its file.
LEMMA InvImplies == CooldownInv => SavedStays
<1>. SUFFICES ASSUME CooldownInv, ~blurred, NEW c \in Auths
     PROVE  /\ Pending(c, kept) => files[c] = kept[c]
            /\ (\A a \in Actors : Stands(a, "idle")) /\ Pending(c, cool) => files[c] = cool[c]
  BY DEF SavedStays
<1>1. Good  BY DEF CooldownInv
<1>2. Pending(c, kept) => files[c] = kept[c]  BY <1>1 DEF Good, InFiles
<1>3. ASSUME \A a \in Actors : Stands(a, "idle"), Pending(c, cool)  PROVE files[c] = cool[c]
  <2>1. Covered(c)  BY <1>1, <1>3 DEF Good, AllCovered
  <2>. QED  BY <1>3, <2>1, LoaderActs DEF Covered, Carried, Saving, Holds, Stands
<1>. QED  BY <1>2, <1>3

\* A cooldown that a save has written stays in the files until it expires, a result or a
\* registration ends it, and at rest every cooldown in force is in the files, over
\* crashes, reloads and saves for others: FileCooldownStateStore.Save,
\* persistCooldownStates and restoreCooldownStates together.
THEOREM SavedCooldownsStay == CooldownSpec => []SavedStays
<1>1. CooldownInv /\ [CooldownNext]_cooldownVars => CooldownInv'  BY NextKeeps
<1>. QED  BY InitHolds, <1>1, InvImplies, PTL DEF CooldownSpec

-----------------------------------------------------------------------------
(* The watcher's picture of the credential files.                            *)

Updates == UNION {[S -> Nat] : S \in SUBSET Ids}
Picture == [Ids -> Nat]
Event   == [file: Files, gone: BOOLEAN]
Phase   == {"idle", "rescan", "snapshot", "prepare", "dispatch"}
Job     == [at: {"idle", "stat", "read", "update", "remove", "dispatch"},
            file: SUBSET Files, data: Nat, upd: Updates]

SyncTypes ==
  /\ disk \in [Files -> Nat] /\ hashes \in [Files -> Nat]
  /\ owned \subseteq Files
  /\ events \in Seq(Event)
  /\ current \in Picture /\ live \in [Sockets -> Nat] /\ manager \in Picture
  /\ handler \in Job
  /\ handler.at = "idle" <=> handler.file = {}
  /\ \A f, g \in handler.file : f = g
  /\ reload \in [at: Phase, snap: Updates, upd: Updates]
  /\ reload.at = "prepare" => reload.snap \in [Files -> Nat]
  /\ client \in [Sockets -> {"new", "added", "on", "dropped", "off"}]
  /\ pending \in Updates /\ batch \in Updates /\ authUpdates \in Seq(Updates)
  /\ consumer \in [at: {"idle", "drain", "apply"}, got: Updates]
  /\ consumer.at = "idle" => consumer.got = None

\* An event of f waits; the last one tells whether f is there.
Queued(f) == \E n \in DOMAIN events : events[n].file = f
LastOf(f, n) == events[n].file = f /\ \A k \in DOMAIN events : events[k].file = f => k <= n
EventsTell == \A f \in Files : \A n \in DOMAIN events : LastOf(f, n) => (events[n].gone <=> disk[f] = 0)

\* The files known have a hash, except between the two halves of an update.
Updating(f) == handler.at = "update" /\ f \in handler.file
Known == \A f \in Files : Updating(f) \/ (f \in owned <=> hashes[f] # 0)

\* What the event goroutine goes by is right, unless another event of the file waits.
StepOf(f) ==
  /\ handler.at = "remove" => hashes[f] # 0
  /\ handler.at = "update" => handler.data = hashes[f] /\ hashes[f] # 0
  /\ handler.at = "dispatch" => handler.upd = Only(f, hashes[f])
RightAbout(f) ==
  CASE handler.at \in {"stat", "remove"} -> disk[f] = 0
    [] handler.at = "read" -> disk[f] # 0
    [] OTHER -> hashes[f] = disk[f]
HandlerKnows ==
  \A f \in handler.file : StepOf(f) /\ (Queued(f) \/ RightAbout(f))

\* A file no change of which is on its way has been read.
HashesFresh ==
  \A f \in Files \ excused : reload.at = "rescan" \/ OnItsWay(f) \/ hashes[f] = disk[f]

\* What a reload has read is still so.
SnapFresh ==
  reload.at \in {"prepare", "dispatch"} =>
    \A f \in Files \ excused : /\ ~OnItsWay(f)
                               /\ reload.at = "prepare" => reload.snap[f] = disk[f]

\* The picture of a file while no reload runs, ...
Dispatches(f) == handler.at = "dispatch" /\ f \in handler.file
Calm(f) ==
  /\ Updating(f) \/ current[f] = hashes[f]
  /\ Dispatches(f) \/ OutcomeOf(f) = current[f]

\* ... before it compares, ...
Compared(f) ==
  IF Dispatches(f) THEN current[f] \in {0, hashes[f]}
  ELSE /\ current[f] # 0 => OutcomeOf(f) = current[f]
       /\ current[f] = 0 /\ OutcomeOf(f) # 0 => hashes[f] # 0

\* ... and before it dispatches.
Reloaded(f) ==
  /\ current[f] = disk[f]
  /\ IF f \in DOMAIN reload.upd THEN reload.upd[f] = current[f] ELSE OutcomeOf(f) = current[f]

FileWord(f) ==
  /\ reload.at \in {"idle", "rescan"} => Calm(f)
  /\ reload.at \in {"snapshot", "prepare"} => Compared(f)
  /\ reload.at = "dispatch" => Reloaded(f)

Announced(c) == client[c] \in {"added", "dropped"}
SocketWord(c) ==
  /\ Announced(c) \/ (reload.at = "dispatch" /\ c \in DOMAIN reload.upd) \/ OutcomeOf(c) = live[c]
  /\ reload.at = "dispatch" =>
       /\ ~Announced(c)
       /\ c \in DOMAIN reload.upd => reload.upd[c] = live[c]

SocketsSeen == \A c \in Sockets : current[c] = live[c]
FileWords   == \A f \in Files \ excused : FileWord(f)
SocketWords == \A c \in Sockets \ excused : SocketWord(c)

SyncInv ==
  /\ SyncTypes /\ EventsTell /\ Known /\ HandlerKnows /\ HashesFresh /\ SnapFresh
  /\ SocketsSeen /\ FileWords /\ SocketWords

-----------------------------------------------------------------------------
\* Updates are put over one another, one alone is one, and some are left out.
LEMMA UpdatesAreFunctions ==
  ASSUME NEW u \in Updates
  PROVE  DOMAIN u \subseteq Ids /\ u = [i \in DOMAIN u |-> u[i]] /\ \A i \in DOMAIN u : u[i] \in Nat
BY DEF Updates

LEMMA MakesUpdates ==
  ASSUME NEW D \in SUBSET Ids, NEW u, DOMAIN u = D, u = [i \in D |-> u[i]], \A i \in D : u[i] \in Nat
  PROVE  u \in Updates
BY DEF Updates

LEMMA OverrideIsUpdates ==
  ASSUME NEW u \in Updates, NEW w \in Updates
  PROVE  Override(u, w) \in Updates
<1>1. \A i \in DOMAIN u \cup DOMAIN w : i \in Ids  BY UpdatesAreFunctions
<1>2. \A i \in DOMAIN u \cup DOMAIN w : Override(u, w)[i] \in Nat
  BY UpdatesAreFunctions DEF Override
<1>. QED  BY <1>1, <1>2, MakesUpdates DEF Override

LEMMA OnlyIsUpdates ==
  ASSUME NEW i \in Ids, NEW v \in Nat
  PROVE  Only(i, v) \in Updates
BY MakesUpdates DEF Only

LEMMA RestrictIsUpdates ==
  ASSUME NEW u \in Updates, NEW S \in SUBSET DOMAIN u
  PROVE  Restrict(u, S) \in Updates
<1>1. S \subseteq Ids /\ \A i \in S : u[i] \in Nat  BY UpdatesAreFunctions
<1>. QED  BY <1>1 DEF Restrict, Updates

LEMMA NoneIsUpdates == None \in Updates
BY DEF None, Updates

\* A set of positions has a last one.
LEMMA LastPosition ==
  ASSUME NEW n \in Nat, NEW T \in SUBSET (1..n), T # {}
  PROVE  \E x \in T : \A y \in T : y <= x
<1>. DEFINE R == {n - x : x \in T}
<1>1. R \subseteq Nat /\ R # {}
  <2>1. \A x \in T : n - x \in Nat  OBVIOUS
  <2>. QED  BY <2>1
<1>2. PICK r \in R : \A y \in R : ~ (<<y, r>> \in OpToRel(<, Nat))
  BY <1>1, NatLessThanWellFounded, WFMin, Zenon
<1>3. PICK x \in T : r = n - x  OBVIOUS
<1>4. ASSUME NEW y \in T  PROVE y <= x
  <2>1. n - y \in R /\ n - y \in Nat /\ r \in Nat  OBVIOUS
  <2>2. ~ (n - y < r)  BY <1>2, <2>1 DEF OpToRel
  <2>. QED  BY <1>3, <2>1, <2>2
<1>. QED  BY <1>4

-----------------------------------------------------------------------------
(* What the Manager will have changes only where updates are handed over.     *)

LEMMA NothingMoves ==
  ASSUME NEW i, UNCHANGED <<pending, pipeVars>>
  PROVE  OutcomeOf(i)' = OutcomeOf(i)
BY DEF OutcomeOf, LastFor, InQueue, pipeVars

LEMMA MergedReplaces ==
  ASSUME NEW i, NEW u, pending' = Merged(u), UNCHANGED pipeVars
  PROVE  OutcomeOf(i)' = IF i \in DOMAIN u THEN u[i] ELSE OutcomeOf(i)
BY DEF OutcomeOf, LastFor, InQueue, pipeVars, Merged, Override

LEMMA NextBatchKeeps ==
  ASSUME NEW i, NextBatch
  PROVE  OutcomeOf(i)' = OutcomeOf(i)
BY DEF NextBatch, OutcomeOf, LastFor, InQueue, None

LEMMA SendKeeps ==
  ASSUME NEW i, NEW j, SyncTypes, Send(j)
  PROVE  OutcomeOf(i)' = OutcomeOf(i)
<1>. DEFINE q == authUpdates
            n == Len(authUpdates) + 1
<1>1. /\ q \in Seq(Updates) /\ q' = Append(q, Only(j, batch[j])) /\ j \in DOMAIN batch
      /\ batch' = Drop(batch, {j}) /\ UNCHANGED <<pending, consumer, manager>>
  BY DEF Send, SyncTypes
<1>2. /\ n \in Nat /\ DOMAIN q = 1..(n - 1) /\ DOMAIN q' = 1..n /\ q'[n] = Only(j, batch[j])
      /\ \A k \in 1..(n - 1) : q'[k] = q[k]
  BY <1>1
<1>3. DOMAIN batch' = DOMAIN batch \ {j} /\ \A k \in DOMAIN batch' : batch'[k] = batch[k]
  BY <1>1 DEF Drop, Restrict
<1>4. CASE i = j
  <2>1. n \in InQueue(i)' /\ \A k \in InQueue(i)' : k <= n  BY <1>2, <1>4 DEF InQueue, Only
  <2>2. LastFor(i)' = n
    <3>1. \A m \in InQueue(i)' : (\A k \in InQueue(i)' : k <= m) => m = n
      BY <1>2, <2>1 DEF InQueue
    <3>. QED  BY <2>1, <3>1 DEF LastFor
  <2>3. q'[n][i] = batch[i]  BY <1>2, <1>4 DEF Only
  <2>. QED  BY <1>1, <1>3, <1>4, <2>1, <2>2, <2>3 DEF OutcomeOf
<1>5. CASE i # j
  <2>1. InQueue(i)' = InQueue(i)  BY <1>2, <1>5 DEF InQueue, Only
  <2>2. \A m \in InQueue(i) : q'[m] = q[m]  BY <1>2 DEF InQueue
  <2>3. LastFor(i)' = LastFor(i)  BY <2>1 DEF LastFor
  <2>4. InQueue(i) # {} => LastFor(i) \in InQueue(i)
    <3>1. InQueue(i) \subseteq 1..(n - 1) /\ n - 1 \in Nat  BY <1>1, <1>2 DEF InQueue
    <3>2. InQueue(i) # {} => \E m \in InQueue(i) : \A k \in InQueue(i) : k <= m
      BY <3>1, LastPosition
    <3>. QED  BY <3>2 DEF LastFor
  <2>. QED  BY <1>1, <1>3, <1>5, <2>1, <2>2, <2>3, <2>4 DEF OutcomeOf
<1>. QED  BY <1>4, <1>5

LEMMA TakeUpdateKeeps ==
  ASSUME NEW i, SyncTypes, TakeUpdate
  PROVE  OutcomeOf(i)' = OutcomeOf(i)
<1>. DEFINE q == authUpdates
            n == Len(authUpdates) - 1
            head == Head(authUpdates)
<1>1. /\ q \in Seq(Updates) /\ q # <<>> /\ q' = Tail(q)
      /\ consumer'.got = Override(head, consumer.got)
      /\ UNCHANGED <<pending, batch, manager>>
  BY DEF TakeUpdate, SyncTypes, Coalesced
<1>2. /\ n \in Nat /\ DOMAIN q = 1..(n + 1) /\ DOMAIN q' = 1..n /\ q[1] = head
      /\ \A k \in 1..n : q'[k] = q[k + 1]
  BY <1>1
<1>3. /\ \A k \in InQueue(i)' : k \in 1..n /\ k + 1 \in InQueue(i)
      /\ \A k \in InQueue(i) : k = 1 \/ (k - 1 \in 1..n /\ k - 1 \in InQueue(i)')
  BY <1>2 DEF InQueue
<1>4. CASE InQueue(i)' = {}
  <2>1. InQueue(i) # {} => InQueue(i) = {1} /\ LastFor(i) = 1 /\ i \in DOMAIN head
    <3>1. \A k \in InQueue(i) : k = 1 /\ i \in DOMAIN head  BY <1>2, <1>3, <1>4 DEF InQueue
    <3>2. InQueue(i) # {} => InQueue(i) = {1}  BY <3>1
    <3>. QED  BY <3>1, <3>2 DEF LastFor
  <2>2. InQueue(i) = {} => i \notin DOMAIN head  BY <1>2 DEF InQueue
  <2>. QED  BY <1>1, <1>2, <1>4, <2>1, <2>2 DEF OutcomeOf, Override
<1>5. CASE InQueue(i)' # {}
  <2>1. InQueue(i)' \subseteq 1..n  BY <1>3
  <2>2. PICK m \in InQueue(i)' : \A k \in InQueue(i)' : k <= m
    BY <1>2, <1>5, <2>1, LastPosition
  <2>3. LastFor(i)' = m
    <3>. DEFINE S == InQueue(i)'
                c == CHOOSE k \in S : \A l \in S : l <= k
    <3>1. \E k \in S : \A l \in S : l <= k  BY <2>2
    <3>2. c \in S /\ \A l \in S : l <= c  BY <3>1
    <3>3. c = m  BY <2>1, <2>2, <3>2
    <3>. QED  BY <3>3 DEF LastFor
  <2>4. m + 1 \in InQueue(i) /\ \A k \in InQueue(i) : k <= m + 1
    <3>1. m \in 1..n /\ m + 1 \in InQueue(i)  BY <1>3, <2>1, <2>2
    <3>2. ASSUME NEW k \in InQueue(i)  PROVE k <= m + 1
      <4>1. k \in 1..(n + 1)  BY <1>2 DEF InQueue
      <4>2. k = 1 \/ k - 1 <= m  BY <1>3, <2>2
      <4>. QED  BY <1>2, <3>1, <4>1, <4>2
    <3>. QED  BY <3>1, <3>2
  <2>5. LastFor(i) = m + 1
    <3>1. \A k \in InQueue(i) : (\A l \in InQueue(i) : l <= k) => k = m + 1
      BY <1>2, <2>1, <2>4 DEF InQueue
    <3>. QED  BY <2>4, <3>1 DEF LastFor
  <2>6. q'[m] = q[m + 1]  BY <1>2, <2>1
  <2>. QED  BY <1>1, <1>5, <2>3, <2>4, <2>5, <2>6 DEF OutcomeOf
<1>. QED  BY <1>4, <1>5

LEMMA ConsumerKeeps ==
  ASSUME NEW i, NEW j, SyncTypes, Drained \/ Apply(j)
  PROVE  OutcomeOf(i)' = OutcomeOf(i)
<1>1. UNCHANGED <<pending, batch, authUpdates>> /\ InQueue(i)' = InQueue(i) /\ LastFor(i)' = LastFor(i)
  BY DEF Drained, Apply, InQueue, LastFor
<1>2. CASE Drained
  <2>1. consumer'.got = consumer.got /\ manager' = manager  BY <1>2 DEF Drained, SyncTypes
  <2>. QED  BY <1>1, <2>1 DEF OutcomeOf
<1>3. CASE Apply(j)
  <2>1. /\ consumer'.got = Drop(consumer.got, {j}) /\ j \in DOMAIN consumer.got
        /\ manager' = [manager EXCEPT ![j] = consumer.got[j]] /\ j \in Ids
    BY <1>3, UpdatesAreFunctions DEF Apply, SyncTypes
  <2>2. /\ DOMAIN consumer'.got = DOMAIN consumer.got \ {j}
        /\ \A k \in DOMAIN consumer'.got : consumer'.got[k] = consumer.got[k]
    BY <2>1 DEF Drop, Restrict
  <2>3. manager'[j] = consumer.got[j] /\ \A k \in Ids \ {j} : manager'[k] = manager[k]
    BY <2>1 DEF SyncTypes, Picture
  <2>4. i # j => manager'[i] = manager[i]  BY <2>1 DEF SyncTypes, Picture
  <2>. QED  BY <1>1, <2>1, <2>2, <2>3, <2>4 DEF OutcomeOf
<1>. QED  BY <1>2, <1>3

LEMMA PipelineKeeps ==
  ASSUME NEW i, NEW j, SyncTypes, NextBatch \/ Send(j) \/ TakeUpdate \/ Drained \/ Apply(j)
  PROVE  OutcomeOf(i)' = OutcomeOf(i)
BY NextBatchKeeps, SendKeeps, TakeUpdateKeeps, ConsumerKeeps

-----------------------------------------------------------------------------
(* Types.                                                                    *)

LEMMA FunctionsOfIds ==
  ASSUME SyncAssumption, NEW u \in [Files -> Nat], NEW w \in [Sockets -> Nat]
  PROVE  /\ u \in Updates /\ w \in Updates /\ Override(u, w) \in Picture
         /\ \A f \in Files : Override(u, w)[f] = u[f]
         /\ \A c \in Sockets : Override(u, w)[c] = w[c]
<1>1. u \in Updates /\ w \in Updates  BY DEF Updates, Ids
<1>2. Override(u, w) \in Picture  BY DEF Override, Picture, Ids
<1>. QED  BY <1>1, <1>2 DEF Override, SyncAssumption

LEMMA WatchTypes ==
  ASSUME SyncAssumption, SyncTypes, NEW f \in Files,
         \/ \E v \in {0} \cup Versions : Change(f, v)
         \/ WindowEnds(f) \/ HandleEvent \/ Stat(f) \/ ReadFile(f) \/ UpdateClient(f)
         \/ RemoveClient(f) \/ HandlerDispatch
  PROVE  SyncTypes'
<1>1. ASSUME NEW v \in {0} \cup Versions, Change(f, v)  PROVE SyncTypes'
  <2>1. disk' \in [Files -> Nat]
    BY <1>1 DEF Change, SyncTypes, SyncAssumption
  <2>2. events' \in Seq(Event)
    <3>1. PICK kinds \in (IF v = 0 THEN {<<TRUE>>} ELSE {<<FALSE>>, <<TRUE, FALSE>>}) :
            events' = events \o [i \in DOMAIN kinds |-> [file |-> f, gone |-> kinds[i]]]
      BY <1>1 DEF Change
    <3>2. PICK n \in Nat : kinds \in [1..n -> BOOLEAN]
      <4>1. kinds \in {<<TRUE>>, <<FALSE>>, <<TRUE, FALSE>>}  OBVIOUS
      <4>2. /\ <<TRUE>> \in Seq(BOOLEAN) /\ <<FALSE>> \in Seq(BOOLEAN)
            /\ <<TRUE, FALSE>> \in Seq(BOOLEAN)
        OBVIOUS
      <4>3. kinds \in Seq(BOOLEAN)  BY <4>1, <4>2
      <4>. QED  BY <4>3, SeqDef
    <3>3. [i \in DOMAIN kinds |-> [file |-> f, gone |-> kinds[i]]] \in [1..n -> Event]
      BY <3>2 DEF Event
    <3>4. [i \in DOMAIN kinds |-> [file |-> f, gone |-> kinds[i]]] \in Seq(Event)
      BY <3>3, SeqDef
    <3>. QED  BY <3>1, <3>4 DEF SyncTypes
  <2>. QED  BY <1>1, <2>1, <2>2 DEF Change, SyncTypes, pipeVars
<1>2. CASE WindowEnds(f)  BY <1>2 DEF WindowEnds, SyncTypes, pipeVars
<1>3. CASE HandleEvent
  <2>1. events' \in Seq(Event) /\ Head(events) \in Event
    BY <1>3 DEF HandleEvent, SyncTypes
  <2>2. Head(events).file \in Files  BY <2>1 DEF Event
  <2>3. /\ handler' \in Job /\ (handler'.at = "idle" <=> handler'.file = {})
        /\ \A g, h \in handler'.file : g = h
    <3>1. CASE UNCHANGED handler  BY <3>1 DEF SyncTypes
    <3>2. CASE ~UNCHANGED handler
      <4>1. PICK a \in {"stat", "read"} :
              handler' = [at |-> a, file |-> {Head(events).file}, data |-> 0, upd |-> None]
        BY <1>3, <3>2 DEF HandleEvent, Waiting
      <4>. QED  BY <2>2, <4>1, NoneIsUpdates DEF Job
    <3>. QED  BY <3>1, <3>2
  <2>. QED  BY <1>3, <2>1, <2>3 DEF HandleEvent, HandlerOnly, SyncTypes, pipeVars
<1>4. CASE Stat(f)
  <2>1. handler' \in Job /\ (handler'.at = "idle" <=> handler'.file = {})
        /\ \A g, h \in handler'.file : g = h
    BY <1>4, NoneIsUpdates DEF Stat, SyncTypes, Job, Waiting
  <2>. QED  BY <1>4, <2>1 DEF Stat, HandlerOnly, SyncTypes, pipeVars
<1>5. CASE ReadFile(f)
  <2>1. handler' \in Job /\ (handler'.at = "idle" <=> handler'.file = {})
        /\ \A g, h \in handler'.file : g = h
    <3>1. disk[f] \in Nat  BY DEF SyncTypes
    <3>2. \/ handler' = Waiting
          \/ handler' = [handler EXCEPT !.at = "update", !.data = disk[f]]
      BY <1>5 DEF ReadFile
    <3>3. CASE handler' = Waiting  BY <3>3, NoneIsUpdates DEF Job, Waiting
    <3>4. CASE handler' = [handler EXCEPT !.at = "update", !.data = disk[f]]
      BY <1>5, <3>1, <3>4 DEF ReadFile, SyncTypes, Job
    <3>. QED  BY <3>2, <3>3, <3>4
  <2>2. hashes' \in [Files -> Nat]  BY <1>5 DEF ReadFile, SyncTypes
  <2>. QED  BY <1>5, <2>1, <2>2 DEF ReadFile, HandlerOnly, SyncTypes, pipeVars
<1>6. ASSUME NEW v \in Nat, TellUpdate(f, v), handler.at # "idle"
      PROVE  handler' \in Job /\ (handler'.at = "idle" <=> handler'.file = {})
             /\ (\A g, h \in handler'.file : g = h) /\ current' \in Picture
  <2>1. f \in Ids /\ Only(f, v) \in Updates  BY OnlyIsUpdates DEF Ids
  <2>. QED  BY <1>6, <2>1 DEF TellUpdate, SyncTypes, Job, Picture
<1>7. CASE UpdateClient(f)
  <2>1. handler.data \in Nat /\ handler.at # "idle" /\ owned' \subseteq Files
    BY <1>7 DEF UpdateClient, SyncTypes, Job
  <2>2. handler' \in Job /\ (handler'.at = "idle" <=> handler'.file = {})
        /\ (\A g, h \in handler'.file : g = h) /\ current' \in Picture
    BY <1>6, <1>7, <2>1, NoneIsUpdates DEF UpdateClient, SyncTypes, Job, Waiting
  <2>. QED  BY <1>7, <2>1, <2>2 DEF UpdateClient, HandlerOnly, SyncTypes, pipeVars
<1>8. CASE RemoveClient(f)
  <2>1. handler.at # "idle" /\ owned' \subseteq Files /\ hashes' \in [Files -> Nat]
    BY <1>8 DEF RemoveClient, SyncTypes
  <2>2. handler' \in Job /\ (handler'.at = "idle" <=> handler'.file = {})
        /\ (\A g, h \in handler'.file : g = h) /\ current' \in Picture
    <3>1. CASE f \in owned
      <4>1. TellUpdate(f, 0)  BY <1>8, <3>1 DEF RemoveClient
      <4>. QED  BY <1>6, <2>1, <4>1
    <3>2. CASE f \notin owned
      BY <1>8, <3>2, NoneIsUpdates DEF RemoveClient, SyncTypes, Job, Waiting
    <3>. QED  BY <3>1, <3>2
  <2>. QED  BY <1>8, <2>1, <2>2 DEF RemoveClient, HandlerOnly, SyncTypes, pipeVars
<1>9. CASE HandlerDispatch
  <2>1. pending' \in Updates
    BY <1>9, OverrideIsUpdates DEF HandlerDispatch, Merged, SyncTypes, Job
  <2>2. handler' \in Job /\ (handler'.at = "idle" <=> handler'.file = {})
        /\ \A g, h \in handler'.file : g = h
    BY <1>9, NoneIsUpdates DEF HandlerDispatch, SyncTypes, Job, Waiting
  <2>. QED  BY <1>9, <2>1, <2>2 DEF HandlerDispatch, HandlerOnly, SyncTypes, pipeVars
<1>. QED  BY <1>1, <1>2, <1>3, <1>4, <1>5, <1>7, <1>8, <1>9

LEMMA ReloadTypes ==
  ASSUME SyncAssumption, SyncTypes,
         \/ Rescan \/ BeginReload \/ Snapshot \/ (\E force \in BOOLEAN : Prepare(force))
         \/ ReloadDispatch
  PROVE  SyncTypes'
<1>1. CASE Rescan
  <2>1. hashes' \in [Files -> Nat] /\ owned' \subseteq Files  BY <1>1 DEF Rescan, SyncTypes
  <2>2. reload' \in [at: Phase, snap: Updates, upd: Updates] /\ reload'.at = "snapshot"
    BY <1>1 DEF Rescan, SyncTypes, Phase
  <2>. QED  BY <1>1, <2>1, <2>2 DEF Rescan, ReloadOnly, SyncTypes, pipeVars
<1>2. CASE BeginReload
  <2>1. current' \in Picture  BY <1>2 DEF BeginReload, SyncTypes, Picture
  <2>. QED  BY <1>2, <2>1, NoneIsUpdates DEF BeginReload, ReloadOnly, Resting, Phase, SyncTypes, pipeVars
<1>3. CASE Snapshot
  <2>1. disk \in Updates  BY DEF Updates, Ids, SyncTypes
  <2>. QED  BY <1>3, <2>1 DEF Snapshot, ReloadOnly, Phase, SyncTypes, pipeVars
<1>4. ASSUME NEW force \in BOOLEAN, Prepare(force)  PROVE SyncTypes'
  <2>1. current' \in Picture /\ current' \in Updates
    <3>1. current' = Override(reload.snap, live) /\ reload.snap \in [Files -> Nat]
      BY <1>4 DEF Prepare, SyncTypes
    <3>2. current' \in Picture  BY <3>1, FunctionsOfIds DEF SyncTypes
    <3>. QED  BY <3>2 DEF Picture, Updates
  <2>2. PICK S \in SUBSET Ids : reload' = [reload EXCEPT !.at = "dispatch", !.upd = Restrict(current', S)]
    BY <1>4 DEF Prepare
  <2>3. Restrict(current', S) \in Updates  BY <2>1, RestrictIsUpdates DEF Picture
  <2>. QED  BY <1>4, <2>1, <2>2, <2>3 DEF Prepare, ReloadOnly, Phase, SyncTypes, pipeVars
<1>5. CASE ReloadDispatch
  <2>1. pending' \in Updates
    BY <1>5, OverrideIsUpdates DEF ReloadDispatch, Merged, SyncTypes
  <2>. QED  BY <1>5, <2>1, NoneIsUpdates DEF ReloadDispatch, ReloadOnly, Resting, Phase, SyncTypes, pipeVars
<1>. QED  BY <1>1, <1>2, <1>3, <1>4, <1>5

LEMMA SocketTypes ==
  ASSUME SyncTypes, NEW c \in Sockets, Connect(c) \/ Disconnect(c) \/ ClientDispatch(c)
  PROVE  SyncTypes'
<1>1. ASSUME NEW from, NEW to \in {"added", "dropped"}, NEW v \in Nat,
             ClientChange(c, from, to, v)
      PROVE  SyncTypes'
  <2>1. client' \in [Sockets -> {"new", "added", "on", "dropped", "off"}]
        /\ live' \in [Sockets -> Nat] /\ current' \in Picture
    BY <1>1 DEF ClientChange, SyncTypes, Picture
  <2>. QED  BY <1>1, <2>1 DEF ClientChange, ClientOnly, SyncTypes, pipeVars
<1>2. CASE ClientDispatch(c)
  <2>1. c \in Ids /\ live[c] \in Nat  BY DEF Ids, SyncTypes
  <2>2. pending' \in Updates
    BY <1>2, <2>1, OnlyIsUpdates, OverrideIsUpdates DEF ClientDispatch, Merged, SyncTypes
  <2>3. client' \in [Sockets -> {"new", "added", "on", "dropped", "off"}]
    BY <1>2 DEF ClientDispatch, SyncTypes
  <2>. QED  BY <1>2, <2>2, <2>3 DEF ClientDispatch, ClientOnly, SyncTypes, pipeVars
<1>. QED  BY <1>1, <1>2 DEF Connect, Disconnect

LEMMA PipelineTypes ==
  ASSUME SyncTypes, NEW i,
         NextBatch \/ Send(i) \/ TakeUpdate \/ Drained \/ Apply(i) \/ Renew \/ UNCHANGED syncVars
  PROVE  SyncTypes'
<1>1. CASE NextBatch
  BY <1>1, NoneIsUpdates DEF NextBatch, watchVars, SyncTypes
<1>2. CASE Send(i)
  <2>1. Only(i, batch[i]) \in Updates /\ Drop(batch, {i}) \in Updates
    BY <1>2, UpdatesAreFunctions, OnlyIsUpdates, RestrictIsUpdates DEF Send, SyncTypes, Drop
  <2>. QED  BY <1>2, <2>1 DEF Send, watchVars, SyncTypes
<1>3. CASE TakeUpdate
  <2>1. Head(authUpdates) \in Updates /\ Tail(authUpdates) \in Seq(Updates)
    BY <1>3 DEF TakeUpdate, SyncTypes
  <2>2. Override(Head(authUpdates), consumer.got) \in Updates
    BY <2>1, OverrideIsUpdates DEF SyncTypes
  <2>. QED  BY <1>3, <2>1, <2>2 DEF TakeUpdate, Coalesced, watchVars, SyncTypes
<1>4. CASE Drained
  BY <1>4 DEF Drained, watchVars, SyncTypes
<1>5. CASE Apply(i)
  <2>1. Drop(consumer.got, {i}) \in Updates
    BY RestrictIsUpdates DEF Drop, SyncTypes
  <2>2. manager' \in Picture
    BY <1>5, UpdatesAreFunctions DEF Apply, SyncTypes, Picture
  <2>. QED  BY <1>5, <2>1, <2>2 DEF Apply, watchVars, SyncTypes
<1>6. CASE Renew
  BY <1>6 DEF Renew, pipeVars, SyncTypes
<1>7. CASE UNCHANGED syncVars
  BY <1>7 DEF syncVars, watchVars, pipeVars, SyncTypes
<1>. QED  BY <1>1, <1>2, <1>3, <1>4, <1>5, <1>6, <1>7

-----------------------------------------------------------------------------
(* A step keeps what is known of a credential when it touches nothing of it.   *)

LEMMA SameFile ==
  ASSUME NEW f, FileWord(f), OutcomeOf(f)' = OutcomeOf(f), current'[f] = current[f],
         hashes'[f] = hashes[f], reload.at = "dispatch" => disk'[f] = disk[f], reload' = reload,
         Dispatches(f)' <=> Dispatches(f), Updating(f)' <=> Updating(f)
  PROVE  FileWord(f)'
BY DEF FileWord, Calm, Compared, Reloaded

LEMMA SameSocket ==
  ASSUME NEW c, SocketWord(c), OutcomeOf(c)' = OutcomeOf(c), live'[c] = live[c],
         client'[c] = client[c], reload' = reload
  PROVE  SocketWord(c)'
BY DEF SocketWord, Announced

LEMMA SameSockets ==
  ASSUME SocketWords, UNCHANGED <<live, client, reload>>,
         \A c \in Sockets : c \in excused' \/ c \notin excused,
         \A c \in Sockets : OutcomeOf(c)' = OutcomeOf(c)
  PROVE  SocketWords'
<1>1. ASSUME NEW c \in Sockets \ excused'  PROVE SocketWord(c)'
  <2>1. SocketWord(c) /\ OutcomeOf(c)' = OutcomeOf(c)  BY DEF SocketWords
  <2>. QED  BY <2>1, SameSocket
<1>. QED  BY <1>1 DEF SocketWords

LEMMA PictureUntouched ==
  ASSUME SyncInv, SyncTypes',
         UNCHANGED <<disk, events, hashes, owned, current, live, handler, reload, client, excused>>,
         \A i \in Ids : OutcomeOf(i)' = OutcomeOf(i)
  PROVE  SyncInv'
<1>1. EventsTell'  BY DEF SyncInv, EventsTell, LastOf
<1>2. Known' /\ SocketsSeen'  BY DEF SyncInv, Known, Updating, SocketsSeen
<1>3. HandlerKnows'  BY DEF SyncInv, HandlerKnows, StepOf, RightAbout, Queued
<1>4. HashesFresh' /\ SnapFresh'  BY DEF SyncInv, HashesFresh, SnapFresh, OnItsWay
<1>5. FileWords'
  <2>1. ASSUME NEW f \in Files \ excused  PROVE FileWord(f)'
    <3>1. FileWord(f) /\ OutcomeOf(f)' = OutcomeOf(f)  BY DEF SyncInv, FileWords, Ids
    <3>. QED  BY <3>1, SameFile DEF Dispatches, Updating
  <2>. QED  BY <2>1 DEF FileWords
<1>6. SocketWords'  BY SameSockets DEF SyncInv, Ids
<1>. QED  BY <1>1, <1>2, <1>3, <1>4, <1>5, <1>6 DEF SyncInv

-----------------------------------------------------------------------------
(* Files and their events.                                                   *)

LEMMA NewEvents ==
  ASSUME SyncTypes, NEW f \in Files, NEW v, Change(f, v)
  PROVE  /\ \A n \in DOMAIN events : n \in DOMAIN events' /\ events'[n] = events[n]
         /\ \A n \in DOMAIN events' : n \in DOMAIN events \/ events'[n].file = f
         /\ \A n \in DOMAIN events' : n <= Len(events')
         /\ \A n \in DOMAIN events : n < Len(events')
         /\ Len(events') \in DOMAIN events' /\ events'[Len(events')].file = f
         /\ events'[Len(events')].gone <=> v = 0
<1>1. PICK kinds \in (IF v = 0 THEN {<<TRUE>>} ELSE {<<FALSE>>, <<TRUE, FALSE>>}) :
        events' = events \o [i \in DOMAIN kinds |-> [file |-> f, gone |-> kinds[i]]]
  BY DEF Change
<1>. DEFINE more == [i \in DOMAIN kinds |-> [file |-> f, gone |-> kinds[i]]]
<1>2. PICK n \in Nat \ {0} :
        kinds \in Seq(BOOLEAN) /\ Len(kinds) = n /\ DOMAIN kinds = 1..n /\ (kinds[n] <=> v = 0)
  <2>1. CASE kinds = <<TRUE>>
    <3>1. v = 0  BY <2>1
    <3>2. kinds \in Seq(BOOLEAN) /\ Len(kinds) = 1 /\ kinds[1]  BY <2>1
    <3>. QED  BY <3>1, <3>2
  <2>2. CASE kinds = <<FALSE>>
    <3>1. v # 0  BY <2>2
    <3>2. kinds \in Seq(BOOLEAN) /\ Len(kinds) = 1 /\ ~kinds[1]  BY <2>2
    <3>. QED  BY <3>1, <3>2
  <2>3. CASE kinds = <<TRUE, FALSE>>
    <3>1. v # 0  BY <2>3
    <3>2. kinds \in Seq(BOOLEAN) /\ Len(kinds) = 2 /\ ~kinds[2]  BY <2>3
    <3>. QED  BY <3>1, <3>2
  <2>. QED  BY <2>1, <2>2, <2>3
<1>3. /\ more \in [1..n -> Event] /\ DOMAIN more = 1..n /\ (more[n].gone <=> v = 0)
      /\ \A k \in 1..n : more[k].file = f
  BY <1>2 DEF Event
<1>4. more \in Seq(Event) /\ Len(more) = n  BY <1>3, SeqDef
<1>5. events \in Seq(Event) /\ events' = events \o more  BY <1>1 DEF SyncTypes
<1>. HIDE DEF more
<1>6. /\ Len(events) \in Nat /\ Len(events') = Len(events) + n /\ DOMAIN events = 1..Len(events)
      /\ DOMAIN events' = 1..Len(events')
      /\ \A k \in 1..Len(events) : events'[k] = events[k]
      /\ \A k \in 1..n : events'[Len(events) + k] = more[k]
  <2>1. /\ events \o more \in Seq(Event) /\ Len(events \o more) = Len(events) + Len(more)
        /\ \A k \in 1..(Len(events) + Len(more)) :
             (events \o more)[k] = IF k <= Len(events) THEN events[k] ELSE more[k - Len(events)]
    BY <1>4, <1>5, ConcatProperties
  <2>2. Len(events) \in Nat /\ DOMAIN events = 1..Len(events)  BY <1>5
  <2>3. DOMAIN events' = 1..Len(events')  BY <1>5, <2>1
  <2>. QED  BY <1>4, <1>5, <2>1, <2>2, <2>3
<1>8. ASSUME NEW k \in DOMAIN events', k \notin DOMAIN events  PROVE events'[k].file = f
  <2>1. k - Len(events) \in 1..n /\ k = Len(events) + (k - Len(events))  BY <1>6, <1>8
  <2>. QED  BY <1>3, <1>6, <2>1
<1>9. events'[Len(events')] = more[n]  BY <1>6
<1>10. Len(events') \in DOMAIN events'  BY <1>6
<1>. QED  BY <1>3, <1>6, <1>8, <1>9, <1>10

LEMMA ChangeKeeps ==
  ASSUME SyncAssumption, SyncInv, NEW f \in Files, NEW v \in {0} \cup Versions, Change(f, v)
  PROVE  SyncInv'
<1>1. SyncTypes /\ SyncTypes'  BY WatchTypes DEF SyncInv
<1>2. /\ disk'[f] = v /\ \A g \in Files \ {f} : disk'[g] = disk[g]
      /\ excused \subseteq excused' /\ \A g \in Sockets : g \in excused => g \in excused'
      /\ reload.at \in {"snapshot", "prepare", "dispatch"} => f \in excused'
      /\ UNCHANGED <<hashes, owned, current, live, handler, reload, client, pending, pipeVars>>
  BY <1>1 DEF Change, SyncTypes
<1>3. /\ Queued(f)' /\ \A g \in Files : Queued(g) => Queued(g)'
      /\ \A g \in Files \ {f} : Queued(g)' => Queued(g)
  BY <1>1, NewEvents DEF Queued
<1>4. EventsTell'
  <2>1. ASSUME NEW g \in Files, NEW n \in DOMAIN events', LastOf(g, n)'
        PROVE  events'[n].gone <=> disk'[g] = 0
    <3>1. CASE g = f
      <4>1. n = Len(events')
        <5>1. Len(events') <= n /\ n <= Len(events')  BY <1>1, <2>1, <3>1, NewEvents DEF LastOf
        <5>2. n \in Nat /\ Len(events') \in Nat  BY <1>1 DEF SyncTypes
        <5>. QED  BY <5>1, <5>2
      <4>. QED  BY <1>1, <1>2, <3>1, <4>1, NewEvents
    <3>2. CASE g # f
      <4>1. n \in DOMAIN events /\ events'[n] = events[n] /\ LastOf(g, n)
        BY <1>1, <2>1, <3>2, NewEvents DEF LastOf
      <4>. QED  BY <1>2, <3>2, <4>1 DEF SyncInv, EventsTell
    <3>. QED  BY <3>1, <3>2
  <2>. QED  BY <2>1 DEF EventsTell
<1>5. Known' /\ SocketsSeen'  BY <1>2 DEF SyncInv, Known, Updating, SocketsSeen
<1>6. HandlerKnows'
  <2>1. handler.file \subseteq Files  BY <1>1 DEF SyncTypes, Job
  <2>. QED  BY <1>2, <1>3, <2>1 DEF SyncInv, HandlerKnows, StepOf, RightAbout
<1>7. HashesFresh'
  BY <1>2, <1>3 DEF SyncInv, HashesFresh, OnItsWay, Queued
<1>8. SnapFresh'
  BY <1>2, <1>3 DEF SyncInv, SnapFresh, OnItsWay, Queued
<1>9. FileWords'
  <2>1. ASSUME NEW g \in Files \ excused'  PROVE FileWord(g)'
    <3>1. FileWord(g) /\ OutcomeOf(g)' = OutcomeOf(g)
      BY <1>2, NothingMoves DEF SyncInv, FileWords
    <3>2. reload.at = "dispatch" => disk'[g] = disk[g]  BY <1>2
    <3>. QED  BY <1>2, <3>1, <3>2, SameFile DEF Dispatches, Updating
  <2>. QED  BY <2>1 DEF FileWords
<1>10. SocketWords'  BY <1>2, SameSockets, NothingMoves DEF SyncInv
<1>. QED  BY <1>1, <1>4, <1>5, <1>6, <1>7, <1>8, <1>9, <1>10 DEF SyncInv

LEMMA HandleEventKeeps ==
  ASSUME SyncAssumption, SyncInv, HandleEvent, NEW h \in Files
  PROVE  SyncInv'
<1>. DEFINE e == Head(events)
<1>1. SyncTypes /\ SyncTypes'  BY WatchTypes DEF SyncInv
<1>2. /\ events \in Seq(Event) /\ events' = Tail(events) /\ Len(events) \in Nat \ {0} /\ e = events[1]
      /\ handler.at = "idle" /\ handler.file = {}
      /\ UNCHANGED <<disk, hashes, owned, current, live, reload, client, pending, pipeVars>>
  BY <1>1 DEF HandleEvent, FreeMutex, HandlerOnly, SyncTypes
<1>3. \/ /\ e.gone /\ UNCHANGED handler
         /\ excused' = IF disk[e.file] = 0 THEN excused \cup {e.file} ELSE excused
      \/ /\ handler'.at = IF e.gone THEN "stat" ELSE "read"
         /\ handler'.file = {e.file} /\ UNCHANGED excused
  BY DEF HandleEvent, Waiting
<1>4. /\ DOMAIN events = 1..Len(events)
      /\ \A n \in DOMAIN events' : n + 1 \in DOMAIN events /\ events'[n] = events[n + 1]
      /\ \A n \in DOMAIN events : n = 1 \/ (n - 1 \in DOMAIN events' /\ events'[n - 1] = events[n])
  BY <1>2
<1>5. \A g : Queued(g) <=> Queued(g)' \/ e.file = g
  <2>1. 1 \in DOMAIN events /\ events[1].file = e.file  BY <1>2, <1>4
  <2>2. ASSUME NEW g, Queued(g)'  PROVE Queued(g)  BY <1>4, <2>2 DEF Queued
  <2>3. ASSUME NEW g, Queued(g), e.file # g  PROVE Queued(g)'
    <3>1. PICK n \in DOMAIN events : events[n].file = g  BY <2>3 DEF Queued
    <3>2. n # 1  BY <2>1, <2>3, <3>1
    <3>. QED  BY <1>4, <3>1, <3>2 DEF Queued
  <2>4. ASSUME NEW g, e.file = g  PROVE Queued(g)  BY <2>1, <2>4 DEF Queued
  <2>. QED  BY <2>2, <2>3, <2>4
<1>6. \A g \in Files : e.file = g /\ ~Queued(g)' => (e.gone <=> disk[g] = 0)
  <2>1. ASSUME NEW g \in Files, e.file = g, ~Queued(g)'  PROVE LastOf(g, 1)
    <3>1. 1 \in DOMAIN events /\ events[1].file = g  BY <1>2, <1>4, <2>1
    <3>2. \A k \in DOMAIN events : events[k].file = g => k = 1  BY <1>4, <2>1 DEF Queued
    <3>. QED  BY <3>1, <3>2 DEF LastOf
  <2>2. 1 \in DOMAIN events  BY <1>2, <1>4
  <2>. QED  BY <1>2, <2>1, <2>2 DEF SyncInv, EventsTell
<1>7. EventsTell'
  <2>1. ASSUME NEW g \in Files, NEW n \in DOMAIN events', LastOf(g, n)'
        PROVE  events'[n].gone <=> disk'[g] = 0
    <3>1. n + 1 \in DOMAIN events /\ events[n + 1] = events'[n] /\ n \in Nat  BY <1>2, <1>4
    <3>2. LastOf(g, n + 1)
      <4>1. ASSUME NEW k \in DOMAIN events, events[k].file = g  PROVE k <= n + 1
        <5>1. k \in Nat /\ (k = 1 \/ k - 1 <= n)  BY <1>4, <2>1, <4>1 DEF LastOf
        <5>. QED  BY <3>1, <5>1
      <4>. QED  BY <2>1, <3>1, <4>1 DEF LastOf
    <3>. QED  BY <1>2, <3>1, <3>2 DEF SyncInv, EventsTell
  <2>. QED  BY <2>1 DEF EventsTell
<1>8. /\ \A g : ~Dispatches(g) /\ ~Updating(g)
      /\ \A g : ~Dispatches(g)' /\ ~Updating(g)'
  BY <1>2, <1>3 DEF Dispatches, Updating
<1>9. Known' /\ SocketsSeen'  BY <1>2, <1>8 DEF SyncInv, Known, SocketsSeen
<1>10. HandlerKnows'
  <2>1. ASSUME NEW g \in handler'.file  PROVE StepOf(g)' /\ (Queued(g)' \/ RightAbout(g)')
    <3>1. /\ g = e.file /\ handler'.at = IF e.gone THEN "stat" ELSE "read"
          /\ g \in Files
      BY <1>1, <1>2, <1>3, <2>1 DEF SyncTypes, Job
    <3>. QED  BY <1>2, <1>6, <3>1 DEF StepOf, RightAbout
  <2>. QED  BY <2>1 DEF HandlerKnows
<1>11. HashesFresh'
  <2>1. ASSUME NEW g \in Files \ excused', reload'.at # "rescan", ~OnItsWay(g)'
        PROVE  hashes'[g] = disk'[g]
    <3>1. g \notin excused  BY <1>3
    <3>2. ~Queued(g)'  BY <2>1 DEF OnItsWay, Queued
    <3>3. CASE e.file = g
      <4>1. e.gone /\ g \in excused'  BY <1>3, <1>6, <2>1, <3>2, <3>3 DEF OnItsWay
      <4>. QED  BY <4>1
    <3>4. CASE e.file # g
      <4>1. ~OnItsWay(g)  BY <1>2, <1>5, <3>2, <3>4 DEF OnItsWay, Queued
      <4>. QED  BY <1>2, <2>1, <3>1, <4>1 DEF SyncInv, HashesFresh
    <3>. QED  BY <3>3, <3>4
  <2>. QED  BY <2>1 DEF HashesFresh
<1>12. SnapFresh'
  <2>1. \A g : OnItsWay(g)' => OnItsWay(g)  BY <1>2, <1>3, <1>5 DEF OnItsWay, Queued
  <2>2. excused \subseteq excused'  BY <1>3
  <2>. QED  BY <1>2, <2>1, <2>2 DEF SyncInv, SnapFresh
<1>13. FileWords'
  <2>1. ASSUME NEW g \in Files \ excused'  PROVE FileWord(g)'
    <3>1. FileWord(g) /\ OutcomeOf(g)' = OutcomeOf(g)
      BY <1>2, <1>3, NothingMoves DEF SyncInv, FileWords
    <3>. QED  BY <1>2, <1>8, <3>1, SameFile
  <2>. QED  BY <2>1 DEF FileWords
<1>14. SocketWords'
  <2>1. excused \subseteq excused'  BY <1>3
  <2>. QED  BY <1>2, <2>1, SameSockets, NothingMoves DEF SyncInv
<1>. QED  BY <1>1, <1>7, <1>9, <1>10, <1>11, <1>12, <1>13, <1>14 DEF SyncInv

LEMMA StatKeeps ==
  ASSUME SyncAssumption, SyncInv, NEW f \in Files, Stat(f)
  PROVE  SyncInv'
<1>1. SyncTypes /\ SyncTypes'  BY WatchTypes DEF SyncInv
<1>2. /\ handler.at = "stat" /\ handler.file = {f}
      /\ UNCHANGED <<disk, events, hashes, owned, current, live, reload, client, pending, pipeVars>>
      /\ UNCHANGED excused
  BY DEF Stat, HandlerOnly
<1>3. \/ disk[f] # 0 /\ handler'.at = "read" /\ handler'.file = {f}
      \/ disk[f] = 0 /\ hashes[f] # 0 /\ handler'.at = "remove" /\ handler'.file = {f}
      \/ disk[f] = 0 /\ hashes[f] = 0 /\ handler'.at = "idle" /\ handler'.file = {}
  BY <1>1, <1>2 DEF Stat, SyncTypes, Job, Waiting
<1>4. EventsTell'  BY <1>2 DEF SyncInv, EventsTell, LastOf
<1>5. /\ \A g : ~Dispatches(g) /\ ~Updating(g)
      /\ \A g : ~Dispatches(g)' /\ ~Updating(g)'
  BY <1>2, <1>3 DEF Dispatches, Updating
<1>6. Known' /\ SocketsSeen'  BY <1>2, <1>5 DEF SyncInv, Known, SocketsSeen
<1>7. HandlerKnows'  BY <1>2, <1>3 DEF HandlerKnows, StepOf, RightAbout
<1>8. HashesFresh'
  BY <1>2, <1>3 DEF SyncInv, HashesFresh, OnItsWay
<1>9. SnapFresh'  BY <1>2, <1>3 DEF SyncInv, SnapFresh, OnItsWay
<1>10. FileWords'
  <2>1. ASSUME NEW g \in Files \ excused'  PROVE FileWord(g)'
    <3>1. FileWord(g) /\ OutcomeOf(g)' = OutcomeOf(g)
      BY <1>2, NothingMoves DEF SyncInv, FileWords
    <3>. QED  BY <1>2, <1>5, <3>1, SameFile
  <2>. QED  BY <2>1 DEF FileWords
<1>11. SocketWords'  BY <1>2, SameSockets, NothingMoves DEF SyncInv
<1>. QED  BY <1>1, <1>4, <1>6, <1>7, <1>8, <1>9, <1>10, <1>11 DEF SyncInv

LEMMA ReadFileKeeps ==
  ASSUME SyncAssumption, SyncInv, NEW f \in Files, ReadFile(f)
  PROVE  SyncInv'
<1>1. SyncTypes /\ SyncTypes'  BY WatchTypes DEF SyncInv
<1>2. /\ handler.at = "read" /\ handler.file = {f}
      /\ UNCHANGED <<disk, events, owned, current, live, reload, client, pending, pipeVars>>
      /\ UNCHANGED excused
  BY DEF ReadFile, HandlerOnly
<1>3. \/ /\ disk[f] \in {0, hashes[f]} /\ handler'.at = "idle" /\ handler'.file = {}
         /\ hashes' = hashes
      \/ /\ disk[f] # 0 /\ handler'.at = "update" /\ handler'.file = {f} /\ handler'.data = disk[f]
         /\ hashes'[f] = disk[f]
  <2>1. CASE disk[f] \in {0, hashes[f]}  BY <2>1 DEF ReadFile, Waiting
  <2>2. CASE disk[f] \notin {0, hashes[f]}
    <3>1. /\ handler' = [handler EXCEPT !.at = "update", !.data = disk[f]]
          /\ hashes' = [hashes EXCEPT ![f] = disk[f]]
      BY <2>2 DEF ReadFile
    <3>. QED  BY <1>1, <1>2, <2>2, <3>1 DEF SyncTypes, Job
  <2>. QED  BY <2>1, <2>2
<1>4. \A g \in Files \ {f} : hashes'[g] = hashes[g]  BY <1>1 DEF ReadFile, SyncTypes
<1>5. EventsTell'  BY <1>2 DEF SyncInv, EventsTell, LastOf
<1>6. /\ \A g : ~Dispatches(g) /\ ~Updating(g)
      /\ \A g : ~Dispatches(g)' /\ (g # f => ~Updating(g)')
      /\ Updating(f)' \/ hashes' = hashes
      /\ Updating(f)' => hashes'[f] # 0
  BY <1>2, <1>3 DEF Dispatches, Updating
<1>7. Known'  BY <1>2, <1>4, <1>6 DEF SyncInv, Known
<1>8. SocketsSeen'  BY <1>2 DEF SyncInv, SocketsSeen
<1>9. HandlerKnows'  BY <1>2, <1>3 DEF HandlerKnows, StepOf, RightAbout
<1>10. HashesFresh'
  <2>1. ASSUME NEW g \in Files \ excused, reload.at # "rescan", ~OnItsWay(g)'
        PROVE  hashes'[g] = disk[g]
    <3>1. CASE g # f
      BY <1>2, <1>4, <2>1, <3>1 DEF SyncInv, HashesFresh, OnItsWay
    <3>2. CASE g = f
      <4>1. handler'.file = {} /\ ~Queued(f)  BY <1>2, <1>3, <2>1, <3>2 DEF OnItsWay, Queued
      <4>2. disk[f] # 0  BY <1>2, <4>1 DEF SyncInv, HandlerKnows, RightAbout
      <4>. QED  BY <1>3, <3>2, <4>1, <4>2
    <3>. QED  BY <3>1, <3>2
  <2>. QED  BY <1>2, <2>1 DEF HashesFresh
<1>11. SnapFresh'  BY <1>2, <1>3 DEF SyncInv, SnapFresh, OnItsWay
<1>12. FileWords'
  <2>1. ASSUME NEW g \in Files \ excused'  PROVE FileWord(g)'
    <3>1. FileWord(g) /\ OutcomeOf(g)' = OutcomeOf(g)
      BY <1>2, NothingMoves DEF SyncInv, FileWords
    <3>2. CASE ~Updating(g)'
      <4>1. hashes'[g] = hashes[g]  BY <1>4, <1>6, <3>2
      <4>. QED  BY <1>2, <1>6, <3>1, <3>2, <4>1, SameFile
    <3>3. CASE Updating(g)'
      <4>1. g = f /\ hashes'[f] # 0  BY <1>6, <3>3
      <4>2. reload.at # "dispatch"
        BY <1>1, <1>2, <2>1, <4>1 DEF SyncInv, SnapFresh, OnItsWay
      <4>. QED  BY <1>2, <1>6, <3>1, <3>3, <4>1, <4>2 DEF FileWord, Calm, Compared
    <3>. QED  BY <3>2, <3>3
  <2>. QED  BY <2>1 DEF FileWords
<1>13. SocketWords'  BY <1>2, SameSockets, NothingMoves DEF SyncInv
<1>. QED  BY <1>1, <1>5, <1>7, <1>8, <1>9, <1>10, <1>11, <1>12, <1>13 DEF SyncInv

\* The picture of f becomes v, which is what the files had when they were read.
LEMMA TellUpdateKeeps ==
  ASSUME SyncAssumption, SyncInv, SyncTypes', NEW f \in Files, NEW v \in Nat, TellUpdate(f, v),
         handler.at \in {"update", "remove"}, handler.file = {f},
         hashes'[f] = v, \A g \in Files \ {f} : hashes'[g] = hashes[g],
         f \in owned' <=> v # 0, \A g \in Files \ {f} : g \in owned' <=> g \in owned,
         Queued(f) \/ disk[f] = v,
         UNCHANGED <<disk, events, live, reload, client, pending, pipeVars>>
  PROVE  SyncInv'
<1>1. SyncTypes  BY DEF SyncInv
<1>2. /\ handler'.at = "dispatch" /\ handler'.file = {f} /\ handler'.upd = Only(f, v)
      /\ f \in Ids /\ current'[f] = v /\ \A i \in Ids \ {f} : current'[i] = current[i]
      /\ \A i : i # f => (i \in excused' <=> i \in excused)
      /\ reload.at \notin {"idle", "rescan"} => excused' = excused
  BY <1>1 DEF TellUpdate, SyncTypes, Job, Picture, Ids
<1>3. EventsTell'  BY DEF SyncInv, EventsTell, LastOf
<1>4. /\ \A g : ~Updating(g)'
      /\ Dispatches(f)' /\ \A g : g # f => /\ ~Dispatches(g)' /\ ~Dispatches(g) /\ ~Updating(g)
  BY <1>2 DEF Dispatches, Updating
<1>5. Known'  BY <1>4 DEF SyncInv, Known
<1>6. SocketsSeen'
  <2>1. \A c \in Sockets : c \in Ids /\ c # f  BY DEF SyncAssumption, Ids
  <2>. QED  BY <1>2, <2>1 DEF SyncInv, SocketsSeen
<1>7. HandlerKnows'  BY <1>2 DEF HandlerKnows, StepOf, RightAbout, Queued
<1>8. HashesFresh'
  BY <1>2 DEF SyncInv, HashesFresh, OnItsWay
<1>9. SnapFresh'  BY <1>2 DEF SyncInv, SnapFresh, OnItsWay
<1>10. FileWords'
  <2>1. ASSUME NEW g \in Files \ excused', g # f  PROVE FileWord(g)'
    <3>1. g \in Ids /\ FileWord(g) /\ OutcomeOf(g)' = OutcomeOf(g)
      BY <1>2, <2>1, NothingMoves DEF SyncInv, FileWords, Ids
    <3>. QED  BY <1>2, <1>4, <2>1, <3>1, SameFile
  <2>2. ASSUME f \notin excused'  PROVE FileWord(f)'
    <3>1. reload.at # "dispatch"
      BY <1>2, <2>2 DEF SyncInv, SnapFresh, OnItsWay
    <3>. QED  BY <1>2, <1>4, <3>1 DEF FileWord, Calm, Compared
  <2>. QED  BY <2>1, <2>2 DEF FileWords
<1>11. SocketWords'
  <2>1. \A c \in Sockets : c \in excused' \/ c \notin excused  BY <1>2 DEF SyncAssumption
  <2>. QED  BY <2>1, SameSockets, NothingMoves DEF SyncInv
<1>. QED  BY <1>3, <1>5, <1>6, <1>7, <1>8, <1>9, <1>10, <1>11 DEF SyncInv

LEMMA UpdateClientKeeps ==
  ASSUME SyncAssumption, SyncInv, NEW f \in Files, UpdateClient(f)
  PROVE  SyncInv'
<1>1. SyncTypes /\ SyncTypes'  BY WatchTypes DEF SyncInv
<1>2. /\ handler.at = "update" /\ handler.file = {f} /\ handler.data \in Nat
      /\ owned' = owned \cup {f}
      /\ UNCHANGED <<disk, events, hashes, live, reload, client, pending, pipeVars>>
  BY <1>1 DEF UpdateClient, HandlerOnly, SyncTypes, Job
<1>3. handler.data = hashes[f] /\ hashes[f] # 0 /\ (Queued(f) \/ disk[f] = hashes[f])
  BY <1>2 DEF SyncInv, HandlerKnows, StepOf, RightAbout
<1>4. CASE current[f] # handler.data
  <2>1. TellUpdate(f, handler.data)  BY <1>4 DEF UpdateClient
  <2>. QED  BY <1>1, <1>2, <1>3, <2>1, TellUpdateKeeps
<1>5. CASE current[f] = handler.data
  <2>1. handler'.at = "idle" /\ handler'.file = {} /\ UNCHANGED <<current, excused>>
    BY <1>5 DEF UpdateClient, Waiting
  <2>2. EventsTell'  BY <1>2 DEF SyncInv, EventsTell, LastOf
  <2>3. /\ \A g : ~Updating(g)' /\ ~Dispatches(g)' /\ ~Dispatches(g)
        /\ \A g : g # f => ~Updating(g)
    BY <1>2, <2>1 DEF Updating, Dispatches
  <2>4. Known'  BY <1>2, <1>3, <2>3 DEF SyncInv, Known
  <2>5. SocketsSeen'  BY <1>2, <2>1 DEF SyncInv, SocketsSeen
  <2>6. HandlerKnows'  BY <2>1 DEF HandlerKnows
  <2>7. HashesFresh'
    <3>1. ASSUME NEW g \in Files \ excused, reload.at # "rescan", ~OnItsWay(g)'
          PROVE  hashes[g] = disk[g]
      <4>1. CASE g # f  BY <1>2, <3>1, <4>1 DEF SyncInv, HashesFresh, OnItsWay
      <4>2. CASE g = f  BY <1>2, <1>3, <3>1, <4>2 DEF OnItsWay, Queued
      <4>. QED  BY <4>1, <4>2
    <3>. QED  BY <1>2, <2>1, <3>1 DEF HashesFresh
  <2>8. SnapFresh'  BY <1>2, <2>1 DEF SyncInv, SnapFresh, OnItsWay
  <2>9. FileWords'
    <3>1. ASSUME NEW g \in Files \ excused'  PROVE FileWord(g)'
      <4>1. FileWord(g) /\ OutcomeOf(g)' = OutcomeOf(g)
        BY <1>2, <2>1, NothingMoves DEF SyncInv, FileWords
      <4>2. CASE g # f  BY <1>2, <2>1, <2>3, <4>1, <4>2, SameFile
      <4>3. CASE g = f
        BY <1>2, <1>3, <1>5, <2>1, <2>3, <4>1, <4>3 DEF FileWord, Calm, Compared, Reloaded
      <4>. QED  BY <4>2, <4>3
    <3>. QED  BY <3>1 DEF FileWords
  <2>10. SocketWords'  BY <1>2, <2>1, SameSockets, NothingMoves DEF SyncInv
  <2>. QED  BY <1>1, <2>2, <2>4, <2>5, <2>6, <2>7, <2>8, <2>9, <2>10 DEF SyncInv
<1>. QED  BY <1>4, <1>5

LEMMA RemoveClientKeeps ==
  ASSUME SyncAssumption, SyncInv, NEW f \in Files, RemoveClient(f)
  PROVE  SyncInv'
<1>1. SyncTypes /\ SyncTypes'  BY WatchTypes DEF SyncInv
<1>2. /\ handler.at = "remove" /\ handler.file = {f} /\ owned' = owned \ {f}
      /\ hashes'[f] = 0 /\ \A g \in Files \ {f} : hashes'[g] = hashes[g]
      /\ UNCHANGED <<disk, events, live, reload, client, pending, pipeVars>>
  BY <1>1 DEF RemoveClient, HandlerOnly, SyncTypes
<1>3. hashes[f] # 0 /\ (Queued(f) \/ disk[f] = 0)
  BY <1>2 DEF SyncInv, HandlerKnows, StepOf, RightAbout
<1>4. f \in owned  BY <1>2, <1>3 DEF SyncInv, Known, Updating
<1>5. TellUpdate(f, 0)  BY <1>4 DEF RemoveClient
<1>. QED  BY <1>1, <1>2, <1>3, <1>5, TellUpdateKeeps

LEMMA HandlerDispatchKeeps ==
  ASSUME SyncAssumption, SyncInv, HandlerDispatch, NEW h \in Files
  PROVE  SyncInv'
<1>1. SyncTypes /\ SyncTypes'  BY WatchTypes DEF SyncInv
<1>2. PICK f \in Files : handler.file = {f}
  <2>1. handler.file # {} /\ handler.file \subseteq Files /\ \A g, k \in handler.file : g = k
    BY <1>1 DEF HandlerDispatch, SyncTypes, Job
  <2>. QED  BY <2>1
<1>3. /\ handler.at = "dispatch" /\ handler'.at = "idle" /\ handler'.file = {}
      /\ pending' = Merged(handler.upd) /\ UNCHANGED pipeVars
      /\ UNCHANGED <<disk, events, hashes, owned, current, live, reload, client, excused>>
  BY DEF HandlerDispatch, HandlerOnly, Waiting
<1>4. handler.upd = Only(f, hashes[f]) /\ (Queued(f) \/ disk[f] = hashes[f])
  BY <1>2, <1>3 DEF SyncInv, HandlerKnows, StepOf, RightAbout
<1>5. /\ OutcomeOf(f)' = hashes[f]
      /\ \A i : i # f => OutcomeOf(i)' = OutcomeOf(i)
  <2>1. \A i : OutcomeOf(i)' = IF i \in DOMAIN handler.upd THEN handler.upd[i] ELSE OutcomeOf(i)
    BY <1>3, MergedReplaces
  <2>. QED  BY <1>4, <2>1 DEF Only
<1>6. EventsTell'  BY <1>3 DEF SyncInv, EventsTell, LastOf
<1>7. /\ \A g : ~Updating(g) /\ ~Updating(g)' /\ ~Dispatches(g)'
      /\ \A g : Dispatches(g) <=> g = f
  BY <1>2, <1>3 DEF Updating, Dispatches
<1>8. Known' /\ SocketsSeen'  BY <1>3, <1>7 DEF SyncInv, Known, SocketsSeen
<1>9. HandlerKnows'  BY <1>3 DEF HandlerKnows
<1>10. HashesFresh'
  <2>1. ASSUME NEW g \in Files \ excused, reload.at # "rescan", ~OnItsWay(g)'
        PROVE  hashes[g] = disk[g]
    <3>1. CASE g # f  BY <1>2, <1>3, <2>1, <3>1 DEF SyncInv, HashesFresh, OnItsWay
    <3>2. CASE g = f  BY <1>3, <1>4, <2>1, <3>2 DEF OnItsWay, Queued
    <3>. QED  BY <3>1, <3>2
  <2>. QED  BY <1>3, <2>1 DEF HashesFresh
<1>11. SnapFresh'  BY <1>3 DEF SyncInv, SnapFresh, OnItsWay
<1>12. FileWords'
  <2>1. ASSUME NEW g \in Files \ excused'  PROVE FileWord(g)'
    <3>1. FileWord(g)  BY <1>3, <2>1 DEF SyncInv, FileWords
    <3>2. CASE g # f  BY <1>3, <1>5, <1>7, <3>1, <3>2, SameFile
    <3>3. CASE g = f
      <4>1. reload.at # "dispatch"
        BY <1>2, <1>3, <2>1, <3>3 DEF SyncInv, SnapFresh, OnItsWay
      <4>. QED  BY <1>3, <1>5, <1>7, <3>1, <3>3, <4>1 DEF FileWord, Calm, Compared
    <3>. QED  BY <3>2, <3>3
  <2>. QED  BY <2>1 DEF FileWords
<1>13. SocketWords'
  <2>1. \A c \in Sockets : c # f  BY DEF SyncAssumption
  <2>. QED  BY <1>3, <1>5, <2>1, SameSockets DEF SyncInv
<1>. QED  BY <1>1, <1>6, <1>8, <1>9, <1>10, <1>11, <1>12, <1>13 DEF SyncInv

-----------------------------------------------------------------------------
(* The reload.                                                               *)

LEMMA RescanKeeps ==
  ASSUME SyncAssumption, SyncInv, Rescan
  PROVE  SyncInv'
<1>1. SyncTypes /\ SyncTypes'  BY ReloadTypes DEF SyncInv
<1>2. /\ reload.at = "rescan" /\ reload'.at = "snapshot" /\ handler.at = "idle" /\ handler.file = {}
      /\ hashes' = disk /\ owned' = {f \in Files : disk[f] # 0}
      /\ UNCHANGED <<disk, events, current, live, handler, client, excused, pending, pipeVars>>
  BY <1>1 DEF Rescan, FreeMutex, ReloadOnly, SyncTypes
<1>3. EventsTell'  BY <1>2 DEF SyncInv, EventsTell, LastOf
<1>4. Known' /\ SocketsSeen'  BY <1>2 DEF SyncInv, Known, SocketsSeen
<1>5. HandlerKnows' /\ HashesFresh' /\ SnapFresh'
  BY <1>2 DEF HandlerKnows, HashesFresh, SnapFresh
<1>6. FileWords'
  <2>1. ASSUME NEW f \in Files \ excused'  PROVE FileWord(f)'
    <3>1. FileWord(f) /\ OutcomeOf(f)' = OutcomeOf(f)
      BY <1>2, NothingMoves DEF SyncInv, FileWords
    <3>2. ~Dispatches(f) /\ ~Dispatches(f)'  BY <1>2 DEF Dispatches
    <3>. QED  BY <1>2, <3>1, <3>2 DEF FileWord, Calm, Compared
  <2>. QED  BY <2>1 DEF FileWords
<1>7. SocketWords'
  <2>1. ASSUME NEW c \in Sockets \ excused'  PROVE SocketWord(c)'
    <3>1. SocketWord(c) /\ OutcomeOf(c)' = OutcomeOf(c)
      BY <1>2, NothingMoves DEF SyncInv, SocketWords
    <3>. QED  BY <1>2, <3>1 DEF SocketWord, Announced
  <2>. QED  BY <2>1 DEF SocketWords
<1>. QED  BY <1>1, <1>3, <1>4, <1>5, <1>6, <1>7 DEF SyncInv

LEMMA BeginReloadKeeps ==
  ASSUME SyncAssumption, SyncInv, BeginReload
  PROVE  SyncInv'
<1>1. SyncTypes /\ SyncTypes'  BY ReloadTypes DEF SyncInv
<1>2. /\ reload.at = "idle" /\ reload'.at = "snapshot"
      /\ UNCHANGED <<disk, events, hashes, owned, live, handler, client, excused, pending, pipeVars>>
  BY DEF BeginReload, ReloadOnly, Resting
<1>3. /\ \A f \in Files : current'[f] \in {0, current[f]}
      /\ \A c \in Sockets : current'[c] = current[c]
  BY DEF BeginReload, Ids, SyncAssumption
<1>4. EventsTell'  BY <1>2 DEF SyncInv, EventsTell, LastOf
<1>5. Known'  BY <1>2 DEF SyncInv, Known, Updating
<1>6. SocketsSeen'  BY <1>2, <1>3 DEF SyncInv, SocketsSeen
<1>7. HandlerKnows'  BY <1>2 DEF SyncInv, HandlerKnows, StepOf, RightAbout, Queued
<1>8. HashesFresh' /\ SnapFresh'  BY <1>2 DEF SyncInv, HashesFresh, SnapFresh, OnItsWay
<1>9. FileWords'
  <2>1. ASSUME NEW f \in Files \ excused'  PROVE FileWord(f)'
    <3>1. Calm(f) /\ OutcomeOf(f)' = OutcomeOf(f)
      BY <1>2, NothingMoves DEF SyncInv, FileWords, FileWord
    <3>2. Dispatches(f)' <=> Dispatches(f)  BY <1>2 DEF Dispatches
    <3>3. Updating(f) => hashes[f] # 0  BY DEF SyncInv, HandlerKnows, StepOf, Updating
    <3>4. Dispatches(f) => ~Updating(f)  BY DEF Dispatches, Updating
    <3>5. Compared(f)'  BY <1>2, <1>3, <3>1, <3>2, <3>3, <3>4 DEF Calm, Compared
    <3>. QED  BY <1>2, <3>5 DEF FileWord
  <2>. QED  BY <2>1 DEF FileWords
<1>10. SocketWords'
  <2>1. ASSUME NEW c \in Sockets \ excused'  PROVE SocketWord(c)'
    <3>1. SocketWord(c) /\ OutcomeOf(c)' = OutcomeOf(c)
      BY <1>2, NothingMoves DEF SyncInv, SocketWords
    <3>. QED  BY <1>2, <3>1 DEF SocketWord, Announced
  <2>. QED  BY <2>1 DEF SocketWords
<1>. QED  BY <1>1, <1>4, <1>5, <1>6, <1>7, <1>8, <1>9, <1>10 DEF SyncInv

LEMMA SnapshotKeeps ==
  ASSUME SyncAssumption, SyncInv, Snapshot
  PROVE  SyncInv'
<1>1. SyncTypes /\ SyncTypes'  BY ReloadTypes DEF SyncInv
<1>2. /\ reload.at = "snapshot" /\ reload'.at = "prepare" /\ reload'.snap = disk
      /\ excused' = excused \cup {f \in Files : OnItsWay(f)}
      /\ UNCHANGED <<disk, events, hashes, owned, current, live, handler, client, pending, pipeVars>>
  BY <1>1 DEF Snapshot, ReloadOnly, SyncTypes
<1>3. EventsTell'  BY <1>2 DEF SyncInv, EventsTell, LastOf
<1>4. Known' /\ SocketsSeen'  BY <1>2 DEF SyncInv, Known, Updating, SocketsSeen
<1>5. HandlerKnows'  BY <1>2 DEF SyncInv, HandlerKnows, StepOf, RightAbout, Queued
<1>6. HashesFresh'  BY <1>2 DEF SyncInv, HashesFresh, OnItsWay
<1>7. SnapFresh'  BY <1>2 DEF SnapFresh, OnItsWay
<1>8. FileWords'
  <2>1. ASSUME NEW f \in Files \ excused'  PROVE FileWord(f)'
    <3>1. Compared(f) /\ OutcomeOf(f)' = OutcomeOf(f)
      BY <1>2, NothingMoves DEF SyncInv, FileWords, FileWord
    <3>2. Dispatches(f)' <=> Dispatches(f)  BY <1>2 DEF Dispatches
    <3>. QED  BY <1>2, <3>1, <3>2 DEF FileWord, Compared
  <2>. QED  BY <2>1 DEF FileWords
<1>9. SocketWords'
  <2>1. ASSUME NEW c \in Sockets \ excused'  PROVE SocketWord(c)'
    <3>1. SocketWord(c) /\ OutcomeOf(c)' = OutcomeOf(c)
      BY <1>2, NothingMoves DEF SyncInv, SocketWords
    <3>. QED  BY <1>2, <3>1 DEF SocketWord, Announced
  <2>. QED  BY <2>1 DEF SocketWords
<1>. QED  BY <1>1, <1>3, <1>4, <1>5, <1>6, <1>7, <1>8, <1>9 DEF SyncInv

LEMMA PrepareKeeps ==
  ASSUME SyncAssumption, SyncInv, NEW force \in BOOLEAN, Prepare(force)
  PROVE  SyncInv'
<1>. DEFINE changed == {i \in Ids : current'[i] # current[i] \/ (force /\ current'[i] # 0)}
<1>1. SyncTypes /\ SyncTypes'  BY ReloadTypes DEF SyncInv
<1>2. /\ reload.at = "prepare" /\ reload'.at = "dispatch"
      /\ reload'.upd = Restrict(current', changed)
      /\ current' = Override(reload.snap, live)
      /\ excused' = excused \cup {c \in Sockets : Announced(c)}
      /\ UNCHANGED <<disk, events, hashes, owned, live, handler, client, pending, pipeVars>>
  BY <1>1 DEF Prepare, ReloadOnly, SyncTypes, Announced
<1>3. /\ \A f \in Files : current'[f] = reload.snap[f]
      /\ \A c \in Sockets : current'[c] = live[c]
  <2>1. reload.snap \in [Files -> Nat] /\ live \in [Sockets -> Nat]  BY <1>1, <1>2 DEF SyncTypes
  <2>. QED  BY <1>2, <2>1, FunctionsOfIds
<1>4. DOMAIN reload'.upd = changed /\ \A i \in changed : reload'.upd[i] = current'[i]
  BY <1>2 DEF Restrict
<1>5. EventsTell'  BY <1>2 DEF SyncInv, EventsTell, LastOf
<1>6. Known' /\ SocketsSeen'  BY <1>2, <1>3 DEF SyncInv, Known, Updating, SocketsSeen
<1>7. HandlerKnows'  BY <1>2 DEF SyncInv, HandlerKnows, StepOf, RightAbout, Queued
<1>8. HashesFresh' /\ SnapFresh'  BY <1>2 DEF SyncInv, HashesFresh, SnapFresh, OnItsWay
<1>9. FileWords'
  <2>1. ASSUME NEW f \in Files \ excused'  PROVE FileWord(f)'
    <3>1. /\ f \in Ids /\ Compared(f) /\ OutcomeOf(f)' = OutcomeOf(f)
          /\ ~OnItsWay(f) /\ reload.snap[f] = disk[f]
      BY <1>2, NothingMoves DEF SyncInv, FileWords, FileWord, SnapFresh, Ids
    <3>2. hashes[f] = disk[f] /\ ~Dispatches(f)
      BY <1>2, <2>1, <3>1 DEF SyncInv, HashesFresh, OnItsWay, Dispatches
    <3>3. current'[f] = disk[f]  BY <1>3, <3>1
    <3>4. f \notin changed => OutcomeOf(f) = current'[f]
      BY <3>1, <3>2, <3>3 DEF Compared
    <3>5. Reloaded(f)'  BY <1>2, <1>4, <3>1, <3>3, <3>4 DEF Reloaded
    <3>. QED  BY <1>2, <3>5 DEF FileWord
  <2>. QED  BY <2>1 DEF FileWords
<1>10. SocketWords'
  <2>1. ASSUME NEW c \in Sockets \ excused'  PROVE SocketWord(c)'
    <3>1. SocketWord(c) /\ OutcomeOf(c)' = OutcomeOf(c) /\ ~Announced(c)
      BY <1>2, NothingMoves DEF SyncInv, SocketWords
    <3>2. c \in DOMAIN reload'.upd => reload'.upd[c] = live[c]  BY <1>3, <1>4
    <3>. QED  BY <1>2, <3>1, <3>2 DEF SocketWord, Announced
  <2>. QED  BY <2>1 DEF SocketWords
<1>. QED  BY <1>1, <1>5, <1>6, <1>7, <1>8, <1>9, <1>10 DEF SyncInv

LEMMA ReloadDispatchKeeps ==
  ASSUME SyncAssumption, SyncInv, ReloadDispatch
  PROVE  SyncInv'
<1>1. SyncTypes /\ SyncTypes'  BY ReloadTypes DEF SyncInv
<1>2. /\ reload.at = "dispatch" /\ reload'.at = "idle"
      /\ pending' = Merged(reload.upd) /\ UNCHANGED pipeVars
      /\ UNCHANGED <<disk, events, hashes, owned, current, live, handler, client, excused>>
  BY DEF ReloadDispatch, ReloadOnly, Resting
<1>3. \A i : OutcomeOf(i)' = IF i \in DOMAIN reload.upd THEN reload.upd[i] ELSE OutcomeOf(i)
  BY <1>2, MergedReplaces
<1>4. EventsTell'  BY <1>2 DEF SyncInv, EventsTell, LastOf
<1>5. Known' /\ SocketsSeen'  BY <1>2 DEF SyncInv, Known, Updating, SocketsSeen
<1>6. HandlerKnows'  BY <1>2 DEF SyncInv, HandlerKnows, StepOf, RightAbout, Queued
<1>7. HashesFresh' /\ SnapFresh'  BY <1>2 DEF SyncInv, HashesFresh, SnapFresh, OnItsWay
<1>8. FileWords'
  <2>1. ASSUME NEW f \in Files \ excused'  PROVE FileWord(f)'
    <3>1. Reloaded(f) /\ ~OnItsWay(f)
      BY <1>2 DEF SyncInv, FileWords, FileWord, SnapFresh
    <3>2. hashes[f] = disk[f]  BY <1>2, <2>1, <3>1 DEF SyncInv, HashesFresh
    <3>3. Calm(f)'  BY <1>2, <1>3, <3>1, <3>2 DEF Reloaded, Calm
    <3>. QED  BY <1>2, <3>3 DEF FileWord
  <2>. QED  BY <2>1 DEF FileWords
<1>9. SocketWords'
  <2>1. ASSUME NEW c \in Sockets \ excused'  PROVE SocketWord(c)'
    <3>1. SocketWord(c)  BY <1>2 DEF SyncInv, SocketWords
    <3>. QED  BY <1>2, <1>3, <3>1 DEF SocketWord, Announced
  <2>. QED  BY <2>1 DEF SocketWords
<1>. QED  BY <1>1, <1>4, <1>5, <1>6, <1>7, <1>8, <1>9 DEF SyncInv

-----------------------------------------------------------------------------
(* Websocket clients.                                                        *)

LEMMA ClientChangeKeeps ==
  ASSUME SyncAssumption, SyncInv, SyncTypes', NEW c \in Sockets, NEW from,
         NEW to \in {"added", "dropped"}, NEW v \in Nat, ClientChange(c, from, to, v)
  PROVE  SyncInv'
<1>1. SyncTypes  BY DEF SyncInv
<1>2. /\ c \in Ids /\ client'[c] = to /\ live'[c] = v /\ current'[c] = v
      /\ \A d \in Sockets \ {c} : client'[d] = client[d] /\ live'[d] = live[d]
      /\ \A i \in Ids \ {c} : current'[i] = current[i]
      /\ \A i : i # c => (i \in excused' <=> i \in excused)
      /\ excused \subseteq excused' /\ (reload.at = "dispatch" => c \in excused')
      /\ UNCHANGED <<disk, events, hashes, owned, handler, reload, pending, pipeVars>>
  BY <1>1 DEF ClientChange, ClientOnly, SyncTypes, Picture, Ids
<1>3. \A f \in Files : f \in Ids \ {c} /\ (f \in excused' <=> f \in excused)
  BY <1>2 DEF SyncAssumption, Ids
<1>4. EventsTell'  BY <1>2 DEF SyncInv, EventsTell, LastOf
<1>5. Known'  BY <1>2 DEF SyncInv, Known, Updating
<1>6. SocketsSeen'
  <2>1. \A d \in Sockets : d \in Ids  BY DEF Ids
  <2>. QED  BY <1>2, <2>1 DEF SyncInv, SocketsSeen
<1>7. HandlerKnows'  BY <1>2 DEF SyncInv, HandlerKnows, StepOf, RightAbout, Queued
<1>8. HashesFresh' /\ SnapFresh'  BY <1>2, <1>3 DEF SyncInv, HashesFresh, SnapFresh, OnItsWay
<1>9. FileWords'
  <2>1. ASSUME NEW f \in Files \ excused'  PROVE FileWord(f)'
    <3>1. FileWord(f) /\ OutcomeOf(f)' = OutcomeOf(f) /\ current'[f] = current[f]
      BY <1>2, <1>3, NothingMoves DEF SyncInv, FileWords
    <3>. QED  BY <1>2, <3>1, SameFile DEF Dispatches, Updating
  <2>. QED  BY <2>1 DEF FileWords
<1>10. SocketWords'
  <2>1. ASSUME NEW d \in Sockets \ excused', d # c  PROVE SocketWord(d)'
    <3>1. SocketWord(d) /\ OutcomeOf(d)' = OutcomeOf(d)
      BY <1>2, NothingMoves DEF SyncInv, SocketWords
    <3>. QED  BY <1>2, <2>1, <3>1, SameSocket
  <2>2. ASSUME c \notin excused'  PROVE SocketWord(c)'
    BY <1>2, <2>2 DEF SocketWord, Announced
  <2>. QED  BY <2>1, <2>2 DEF SocketWords
<1>. QED  BY <1>4, <1>5, <1>6, <1>7, <1>8, <1>9, <1>10 DEF SyncInv

LEMMA ClientDispatchKeeps ==
  ASSUME SyncAssumption, SyncInv, NEW c \in Sockets, ClientDispatch(c)
  PROVE  SyncInv'
<1>1. SyncTypes /\ SyncTypes'  BY SocketTypes DEF SyncInv
<1>2. /\ Announced(c) /\ client'[c] \in {"on", "off"}
      /\ \A d \in Sockets \ {c} : client'[d] = client[d]
      /\ pending' = Merged(Only(c, live[c])) /\ UNCHANGED pipeVars
      /\ UNCHANGED <<disk, events, hashes, owned, current, live, handler, reload, excused>>
  BY <1>1 DEF ClientDispatch, ClientOnly, SyncTypes, Announced
<1>3. OutcomeOf(c)' = live[c] /\ \A i : i # c => OutcomeOf(i)' = OutcomeOf(i)
  <2>1. DOMAIN Only(c, live[c]) = {c} /\ Only(c, live[c])[c] = live[c]  BY DEF Only
  <2>. QED  BY <1>2, <2>1, MergedReplaces
<1>4. EventsTell'  BY <1>2 DEF SyncInv, EventsTell, LastOf
<1>5. Known' /\ SocketsSeen'  BY <1>2 DEF SyncInv, Known, Updating, SocketsSeen
<1>6. HandlerKnows'  BY <1>2 DEF SyncInv, HandlerKnows, StepOf, RightAbout, Queued
<1>7. HashesFresh' /\ SnapFresh'  BY <1>2 DEF SyncInv, HashesFresh, SnapFresh, OnItsWay
<1>8. FileWords'
  <2>1. ASSUME NEW f \in Files \ excused'  PROVE FileWord(f)'
    <3>1. f # c /\ FileWord(f) /\ OutcomeOf(f)' = OutcomeOf(f)
      BY <1>2, <1>3 DEF SyncInv, FileWords, SyncAssumption
    <3>. QED  BY <1>2, <3>1, SameFile DEF Dispatches, Updating
  <2>. QED  BY <2>1 DEF FileWords
<1>9. SocketWords'
  <2>1. ASSUME NEW d \in Sockets \ excused'  PROVE SocketWord(d)'
    <3>1. SocketWord(d)  BY <1>2 DEF SyncInv, SocketWords
    <3>2. CASE d # c  BY <1>2, <1>3, <3>1, <3>2, SameSocket
    <3>3. CASE d = c  BY <1>2, <1>3, <3>1, <3>3 DEF SocketWord, Announced
    <3>. QED  BY <3>2, <3>3
  <2>. QED  BY <2>1 DEF SocketWords
<1>. QED  BY <1>1, <1>4, <1>5, <1>6, <1>7, <1>8, <1>9 DEF SyncInv

-----------------------------------------------------------------------------
(* The inductive invariant, and what it gives.                               *)

LEMMA SyncStarts ==
  ASSUME SyncAssumption, SyncInit
  PROVE  SyncInv
<1>1. SyncTypes
  <2>1. disk \in [Files -> Nat]  BY DEF SyncInit, SyncAssumption
  <2>2. handler \in Job /\ (handler.at = "idle" <=> handler.file = {})
        /\ \A f, g \in handler.file : f = g
    BY NoneIsUpdates DEF SyncInit, Waiting, Job
  <2>3. reload \in [at: Phase, snap: Updates, upd: Updates] /\ reload.at = "rescan"
    BY NoneIsUpdates DEF SyncInit, Resting, Phase
  <2>4. events \in Seq(Event) /\ authUpdates \in Seq(Updates)  BY DEF SyncInit
  <2>5. current \in Picture /\ live \in [Sockets -> Nat] /\ manager \in Picture
    BY DEF SyncInit, Picture
  <2>. QED  BY <2>1, <2>2, <2>3, <2>4, <2>5, NoneIsUpdates DEF SyncInit, SyncTypes
<1>2. EventsTell /\ Known /\ HandlerKnows /\ HashesFresh /\ SnapFresh
  BY DEF SyncInit, EventsTell, Known, HandlerKnows, HashesFresh, SnapFresh, Waiting, Resting
<1>3. \A i \in Ids : current[i] = 0 /\ OutcomeOf(i) = 0
  BY DEF SyncInit, OutcomeOf, InQueue, None
<1>4. SocketsSeen  BY <1>3 DEF SyncInit, SocketsSeen, Ids
<1>5. FileWords
  <2>1. ASSUME NEW f \in Files  PROVE FileWord(f)
    <3>1. Calm(f)  BY <1>3 DEF SyncInit, Calm, Ids
    <3>. QED  BY <3>1 DEF SyncInit, Resting, FileWord
  <2>. QED  BY <2>1 DEF FileWords
<1>6. SocketWords  BY <1>3 DEF SyncInit, SocketWords, SocketWord, Resting, Ids
<1>. QED  BY <1>1, <1>2, <1>4, <1>5, <1>6 DEF SyncInv

LEMMA SyncKeeps ==
  ASSUME SyncAssumption, SyncInv, [SyncNext]_syncVars
  PROVE  SyncInv'
<1>1. SyncTypes  BY DEF SyncInv
<1>2. ASSUME NEW f \in Files,
             \/ \E v \in {0} \cup Versions : Change(f, v)
             \/ WindowEnds(f) \/ Stat(f) \/ ReadFile(f) \/ UpdateClient(f) \/ RemoveClient(f)
      PROVE  SyncInv'
  <2>1. CASE WindowEnds(f)
    <3>1. UNCHANGED <<pending, pipeVars, disk, events, hashes, owned, current, live, handler, reload,
                      client, excused>>
      BY <2>1 DEF WindowEnds
    <3>. QED  BY <1>1, <2>1, <3>1, WatchTypes, NothingMoves, PictureUntouched
  <2>. QED
    BY <1>2, <2>1, ChangeKeeps, StatKeeps, ReadFileKeeps, UpdateClientKeeps, RemoveClientKeeps
<1>3. ASSUME HandleEvent \/ HandlerDispatch  PROVE SyncInv'
  <2>1. \E f : f \in Files
    <3>1. CASE HandleEvent
      <4>1. Head(events) \in Event  BY <1>1, <3>1 DEF HandleEvent, SyncTypes
      <4>. QED  BY <4>1 DEF Event
    <3>2. CASE HandlerDispatch
      BY <1>1, <3>2 DEF HandlerDispatch, SyncTypes, Job
    <3>. QED  BY <1>3, <3>1, <3>2
  <2>. QED  BY <1>3, <2>1, HandleEventKeeps, HandlerDispatchKeeps
<1>4. ASSUME NEW c \in Sockets, Connect(c) \/ Disconnect(c) \/ ClientDispatch(c)
      PROVE  SyncInv'
  <2>1. SyncTypes'  BY <1>1, <1>4, SocketTypes
  <2>. QED  BY <1>4, <2>1, ClientChangeKeeps, ClientDispatchKeeps DEF Connect, Disconnect
<1>5. ASSUME NEW j, NextBatch \/ Send(j) \/ TakeUpdate \/ Drained \/ Apply(j)
      PROVE  SyncInv'
  <2>1. SyncTypes' /\ \A i \in Ids : OutcomeOf(i)' = OutcomeOf(i)
    BY <1>1, <1>5, PipelineTypes, PipelineKeeps
  <2>2. UNCHANGED watchVars  BY <1>5 DEF NextBatch, Send, TakeUpdate, Drained, Apply
  <2>. QED  BY <2>1, <2>2, PictureUntouched DEF watchVars
<1>6. ASSUME Renew \/ UNCHANGED syncVars  PROVE SyncInv'
  <2>1. SyncTypes'  BY <1>1, <1>6, PipelineTypes
  <2>2. UNCHANGED <<disk, events, hashes, owned, current, live, handler, reload, client, excused>>
        /\ UNCHANGED <<pending, pipeVars>>
    BY <1>6 DEF Renew, syncVars, watchVars
  <2>. QED  BY <2>1, <2>2, NothingMoves, PictureUntouched
<1>7. ASSUME \/ Rescan \/ BeginReload \/ Snapshot \/ ReloadDispatch
             \/ \E force \in BOOLEAN : Prepare(force)
      PROVE  SyncInv'
  BY <1>7, RescanKeeps, BeginReloadKeeps, SnapshotKeeps, PrepareKeeps, ReloadDispatchKeeps
<1>. QED  BY <1>2, <1>3, <1>4, <1>5, <1>6, <1>7 DEF SyncNext

LEMMA PictureArrives ==
  ASSUME SyncAssumption, SyncInv
  PROVE  LastWordWins
<1>1. ASSUME NEW i \in Ids \ excused, ~AboutToDispatch(i)  PROVE OutcomeOf(i) = current[i]
  <2>1. reload.at = "idle"  BY <1>1 DEF AboutToDispatch
  <2>2. CASE i \in Files
    <3>1. Calm(i) /\ ~Dispatches(i)
      BY <1>1, <2>1, <2>2 DEF SyncInv, FileWords, FileWord, AboutToDispatch, Dispatches
    <3>. QED  BY <3>1 DEF Calm
  <2>3. CASE i \in Sockets
    <3>1. SocketWord(i) /\ ~Announced(i) /\ current[i] = live[i]
      BY <1>1, <2>3 DEF SyncInv, SocketWords, SocketsSeen, AboutToDispatch, Announced
    <3>. QED  BY <2>1, <3>1 DEF SocketWord
  <2>. QED  BY <2>2, <2>3 DEF Ids
<1>. QED  BY <1>1 DEF LastWordWins

LEMMA QuietIsSynced ==
  ASSUME SyncAssumption, SyncInv
  PROVE  FilesReachManager
<1>1. ASSUME Quiet, NEW i \in Ids \ excused  PROVE manager[i] = Override(disk, live)[i]
  <2>1. /\ events = <<>> /\ handler.at = "idle" /\ handler.file = {} /\ reload.at = "idle"
        /\ \A c \in Sockets : ~Announced(c)
    BY <1>1 DEF Quiet, Waiting, Resting, Announced
  <2>2. OutcomeOf(i) = manager[i]
    <3>1. consumer.got = None  BY <1>1 DEF Quiet, SyncInv, SyncTypes
    <3>. QED  BY <1>1, <3>1 DEF Quiet, OutcomeOf, InQueue, None
  <2>3. OutcomeOf(i) = current[i]
    <3>1. ~AboutToDispatch(i)  BY <2>1 DEF AboutToDispatch, Announced
    <3>. QED  BY <3>1, PictureArrives DEF LastWordWins
  <2>4. disk \in [Files -> Nat] /\ live \in [Sockets -> Nat]  BY DEF SyncInv, SyncTypes
  <2>5. CASE i \in Files
    <3>1. Calm(i) /\ ~Updating(i)
      BY <2>1, <2>5 DEF SyncInv, FileWords, FileWord, Updating
    <3>2. ~OnItsWay(i)  BY <2>1 DEF OnItsWay
    <3>3. hashes[i] = disk[i]  BY <2>1, <2>5, <3>2 DEF SyncInv, HashesFresh
    <3>. QED  BY <2>2, <2>3, <2>4, <2>5, <3>1, <3>3, FunctionsOfIds DEF Calm
  <2>6. CASE i \in Sockets
    <3>1. current[i] = live[i]  BY <2>6 DEF SyncInv, SocketsSeen
    <3>. QED  BY <2>2, <2>3, <2>4, <2>6, <3>1, FunctionsOfIds
  <2>. QED  BY <2>5, <2>6 DEF Ids
<1>. QED  BY <1>1 DEF FilesReachManager

LEMMA SyncInvariant == ASSUME SyncAssumption PROVE SyncSpec => []SyncInv
<1>1. SyncInv /\ [SyncNext]_syncVars => SyncInv'  BY SyncKeeps
<1>2. SyncInit => SyncInv  BY SyncStarts
<1>. QED  BY <1>1, <1>2, PTL DEF SyncSpec

\* LastWordWins: batches, the bounded queue and the two places that keep only the last
\* of several updates never put an older update of a credential over a newer one, for
\* any files and websocket clients, any capacity of the queue, and while file events,
\* a reload and connections overlap.
THEOREM LastWordIsKept ==
  ASSUME SyncAssumption PROVE SyncSpec => []LastWordWins
<1>1. SyncInv => LastWordWins  BY PictureArrives
<1>. QED  BY <1>1, SyncInvariant, PTL

\* FilesReachManager: whenever nothing is under way the Manager has what the files and
\* the connected clients say, but for the files that the model excuses.
THEOREM ManagerHasFiles ==
  ASSUME SyncAssumption PROVE SyncSpec => []FilesReachManager
<1>1. SyncInv => FilesReachManager  BY QuietIsSynced
<1>. QED  BY <1>1, SyncInvariant, PTL
=============================================================================
