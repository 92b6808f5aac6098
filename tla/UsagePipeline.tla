---------------------------- MODULE UsagePipeline ----------------------------
(***************************************************************************)
(* Usage records on their way out: requests publish them to the usage        *)
(* manager's queue, its one worker hands each to the plugins, and the queue  *)
(* plugin gives it to the subscribers of the Redis-protocol channel or, when *)
(* there are none, keeps it for a while for whoever pops it. A record is its *)
(* number in the order of publication; 0 is a control message.               *)
(***************************************************************************)
EXTENDS Integers, Sequences, SequencesExt

CONSTANTS
  MaxRecords,  \* bound: records published
  Subscribers, \* subscriptions that may come and go, once each (a bound)
  Buffer,      \* capacity of a subscriber's channel (usageSubscriberBuffer)
  Retention,   \* how long a kept record may be popped
  CompactAt    \* the consumed part that is always compacted (1024 in the code)

\* What the proofs take the constants to be; TLC evaluates it where the module is used.
UsageAssumption == Retention \in Nat

VARIABLES
  queue,       \* Manager.queue
  closed,      \* Manager.closed
  calls,       \* wake-up calls still to be made, of {"Signal", "Broadcast"}
  worker,      \* the dispatcher: [at, rec]
  published,   \* how many records were accepted
  enabled, clearing,  \* redisqueue's switch, and a SetEnabled(false) before its clear
  items, head, \* the kept records with their ages, and the consumed part's length
  subs,        \* per open subscription its channel
  seen,        \* per subscription that has begun: the last record it took (history)
  last,        \* the last record popped (history)
  done         \* records popped, given to some subscriber, or given up: expired,
               \* cleared, refused or dropped with a slow subscriber (history)

managerVars == <<queue, closed, calls, worker, published>>
storeVars   == <<enabled, clearing, items, head, subs, seen, last, done>>
usageVars   == <<managerVars, storeVars>>

-----------------------------------------------------------------------------
Nobody     == [s \in {} |-> <<>>]
LeftOut(f, S) == [x \in DOMAIN f \ S |-> f[x]]
At(place, r)  == worker' = [at |-> place, rec |-> r]
Kept       == SubSeq(items, head + 1, Len(items))
RecordsOf(seq) == {seq[i].rec : i \in DOMAIN seq}

UsageInit ==
  /\ queue = <<>> /\ closed = FALSE /\ published = 0
  /\ calls = {}
  /\ worker = [at |-> "check", rec |-> 0]
  /\ enabled = TRUE /\ clearing = FALSE
  /\ items = <<>> /\ head = 0
  /\ subs = Nobody /\ seen = Nobody
  /\ last = 0 /\ done = {}

-----------------------------------------------------------------------------
(* The usage manager.                                                        *)

\* Publish appends under the lock (nothing once closed) and signals after it. Two
\* signals due are one: the other would only make the worker look once more.
Publish ==
  /\ ~closed
  /\ published < MaxRecords
  /\ published' = published + 1
  /\ queue' = Append(queue, published')
  /\ calls' = calls \cup {"Signal"}
  /\ UNCHANGED <<closed, worker, storeVars>>

WakeUp(call) ==
  /\ call \in calls
  /\ calls' = calls \ {call}
  /\ IF worker.at = "waiting" THEN At("check", 0) ELSE UNCHANGED worker
  /\ UNCHANGED <<queue, closed, published, storeVars>>

Signal    == WakeUp("Signal")
Broadcast == WakeUp("Broadcast")

Stop ==
  /\ ~closed
  /\ closed' = TRUE
  /\ calls' = calls \cup {"Broadcast"}
  /\ UNCHANGED <<queue, worker, published, storeVars>>

\* Mutant of Check: the worker leaves as soon as the manager is closed.
CheckLeavesEarly ==
  /\ worker.at = "check"
  /\ IF closed THEN At("ended", 0) /\ UNCHANGED queue
     ELSE IF queue = <<>> THEN At("waiting", 0) /\ UNCHANGED queue
     ELSE At("handle", Head(queue)) /\ queue' = Tail(queue)
  /\ UNCHANGED <<closed, calls, published, storeVars>>

\* Mutant of Check: the newest record first.
CheckTakesNewest ==
  /\ worker.at = "check"
  /\ IF queue # <<>> THEN At("handle", Last(queue)) /\ queue' = Front(queue)
     ELSE At(IF closed THEN "ended" ELSE "waiting", 0) /\ UNCHANGED queue
  /\ UNCHANGED <<closed, calls, published, storeVars>>

\* The worker's loop up to the unlock: wait, leave or take a record.
Check ==
  /\ worker.at = "check"
  /\ IF queue # <<>> THEN At("handle", Head(queue)) /\ queue' = Tail(queue)
     ELSE At(IF closed THEN "ended" ELSE "waiting", 0) /\ UNCHANGED queue
  /\ UNCHANGED <<closed, calls, published, storeVars>>

-----------------------------------------------------------------------------
(* The queue plugin, in the worker.                                          *)

ManagerRest == UNCHANGED <<queue, closed, calls, published>>

\* HandleUsage and Enqueue look at the switch.
Handle ==
  /\ worker.at = "handle"
  /\ IF enabled THEN At("publish", worker.rec) /\ UNCHANGED done
     ELSE At("check", 0) /\ done' = done \cup {worker.rec}
  /\ ManagerRest
  /\ UNCHANGED <<enabled, clearing, items, head, subs, seen, last>>

\* publishToSubscribers offers it to every subscriber; those with a full channel are closed.
TooSlow == {s \in DOMAIN subs : Len(subs[s]) = Buffer}
Offered(r) == [s \in DOMAIN subs \ TooSlow |-> Append(subs[s], r)]

PublishToSubscribers ==
  /\ worker.at = "publish"
  /\ IF DOMAIN subs = {} THEN At("enqueue", worker.rec) /\ UNCHANGED <<subs, done>>
     ELSE /\ At("check", 0)
          /\ subs' = Offered(worker.rec)
          /\ done' = done \cup {worker.rec}
  /\ ManagerRest /\ UNCHANGED <<enabled, clearing, items, head, seen, last>>

\* pruneLocked: what is too old counts as consumed.
Pruned ==
  IF head >= Len(items) THEN [items |-> <<>>, head |-> 0]
  ELSE LET fresh == {i \in (head + 1)..Len(items) : items[i].age <= Retention}
       IN [items |-> items,
           head |-> IF fresh = {} THEN Len(items) ELSE (CHOOSE i \in fresh : \A j \in fresh : i <= j) - 1]

\* Mutant of Compacted: the first record still kept goes with the consumed ones.
CompactedTooFar(q) ==
  IF q.head = 0 THEN q
  ELSE IF q.head >= Len(q.items) THEN [items |-> <<>>, head |-> 0]
  ELSE IF q.head < CompactAt /\ q.head * 2 < Len(q.items) THEN q
  ELSE [items |-> SubSeq(q.items, q.head + 2, Len(q.items)), head |-> 0]

\* maybeCompactLocked.
Compacted(q) ==
  IF q.head = 0 THEN q
  ELSE IF q.head >= Len(q.items) THEN [items |-> <<>>, head |-> 0]
  ELSE IF q.head < CompactAt /\ q.head * 2 < Len(q.items) THEN q
  ELSE [items |-> SubSeq(q.items, q.head + 1, Len(q.items)), head |-> 0]

Become(q) == items' = q.items /\ head' = q.head

\* What pruning gives up.
Expired == {Kept[i].rec : i \in {j \in DOMAIN Kept : Kept[j].age > Retention}}

\* enqueue, in a critical section of its own.
Enqueue ==
  /\ worker.at = "enqueue"
  /\ Become(Compacted([Pruned EXCEPT !.items = Append(@, [rec |-> worker.rec, age |-> 0])]))
  /\ done' = done \cup Expired
  /\ At("check", 0)
  /\ ManagerRest /\ UNCHANGED <<enabled, clearing, subs, seen, last>>

-----------------------------------------------------------------------------
(* The consumers, the switch and the clock.                                  *)

PopOldest(n) ==
  /\ enabled
  /\ LET q         == Pruned
         available == Len(q.items) - q.head
         count     == IF n < available THEN n ELSE available
         given     == SubSeq(q.items, q.head + 1, q.head + count)
     IN /\ last' = IF given = <<>> THEN last ELSE Last(given).rec
        /\ done' = done \cup Expired \cup RecordsOf(given)
        /\ Become(IF available = 0 THEN [items |-> <<>>, head |-> 0]
                  ELSE Compacted([q EXCEPT !.head = @ + count]))
  /\ UNCHANGED <<managerVars, enabled, clearing, subs, seen>>

\* The channel begins with a control message.
Subscribe(s) ==
  /\ s \notin DOMAIN seen
  /\ subs' = [x \in DOMAIN subs \cup {s} |-> IF x = s THEN <<0>> ELSE subs[x]]
  /\ seen' = [x \in DOMAIN seen \cup {s} |-> IF x = s THEN 0 ELSE seen[x]]
  /\ UNCHANGED <<managerVars, enabled, clearing, items, head, last, done>>

Unsubscribe(s) ==
  /\ s \in DOMAIN subs
  /\ subs' = LeftOut(subs, {s})
  /\ UNCHANGED <<managerVars, enabled, clearing, items, head, seen, last, done>>

TakeUsage(s) ==
  /\ s \in DOMAIN subs
  /\ subs[s] # <<>>
  /\ subs' = [subs EXCEPT ![s] = Tail(@)]
  /\ seen' = [seen EXCEPT ![s] = IF Head(subs[s]) = 0 THEN @ ELSE Head(subs[s])]
  /\ UNCHANGED <<managerVars, enabled, clearing, items, head, last, done>>

NotifyUsageRefresh ==
  /\ DOMAIN subs # {}
  /\ subs' = Offered(0)
  /\ UNCHANGED <<managerVars, enabled, clearing, items, head, seen, last, done>>

\* SetEnabled stores the switch, and clears when it is off.
SetEnabled(value) ==
  /\ ~clearing
  /\ enabled' = value
  /\ clearing' = ~value
  /\ UNCHANGED <<managerVars, items, head, subs, seen, last, done>>

Clear ==
  /\ clearing
  /\ clearing' = FALSE
  /\ done' = done \cup RecordsOf(Kept)
  /\ items' = <<>> /\ head' = 0 /\ subs' = Nobody
  /\ UNCHANGED <<managerVars, enabled, seen, last>>

\* Kept records age; past the retention their age no longer matters.
RecordsAge ==
  /\ \E i \in DOMAIN items : items[i].age <= Retention
  /\ items' = [i \in DOMAIN items |->
                [items[i] EXCEPT !.age = IF @ <= Retention THEN @ + 1 ELSE @]]
  /\ UNCHANGED <<managerVars, enabled, clearing, head, subs, seen, last, done>>

-----------------------------------------------------------------------------
Worker == Check \/ Handle \/ PublishToSubscribers \/ Enqueue

UsageNext ==
  \/ Publish \/ Signal \/ Stop \/ Broadcast
  \/ Worker
  \/ \E n \in 1..2 : PopOldest(n)
  \/ \E s \in Subscribers : Subscribe(s) \/ Unsubscribe(s) \/ TakeUsage(s)
  \/ NotifyUsageRefresh
  \/ \E value \in BOOLEAN : SetEnabled(value)
  \/ Clear
  \/ RecordsAge

UsageSpec == UsageInit /\ [][UsageNext]_usageVars

-----------------------------------------------------------------------------
\* Every accepted record is in exactly one place: waiting for the worker, in its
\* hands, kept, or done with: popped, given to subscribers or given up for a reason
\* the code names. None is lost or delivered both ways, however pops, pruning,
\* compaction, subscriptions and the switch interleave.
AccountedFor ==
  LET places == << ToSet(queue), IF worker.rec = 0 THEN {} ELSE {worker.rec},
                   RecordsOf(Kept), done >>
  IN /\ UNION ToSet(places) = 1..published
     /\ \A i, j \in DOMAIN places : i # j => places[i] \cap places[j] = {}

\* 0 is no record and may come anywhere.
Increasing(seq) == \A i, j \in DOMAIN seq : i < j /\ seq[j] # 0 => seq[i] < seq[j]

\* Whoever consumes sees records in the order they were published: what was popped
\* and what is kept, and what each subscriber took and will take.
OrderKept ==
  /\ Increasing(<<last>> \o [i \in DOMAIN Kept |-> Kept[i].rec] \o <<worker.rec>> \o queue)
  /\ \A s \in DOMAIN subs : Increasing(<<seen[s]>> \o subs[s])

\* "Stop stops the dispatcher and drains the queue" (usage/manager.go:203): once every
\* wake-up due has been given, a dispatcher at rest after Stop has ended, and nothing
\* accepted before is left in its queue.
StopDrains ==
  closed /\ calls = {} /\ worker.at \in {"waiting", "ended"}
    => worker.at = "ended" /\ queue = <<>>
=============================================================================
