----------------------------- MODULE AutoRefresh -----------------------------
(***************************************************************************)
(* The auto-refresh loop (authAutoRefreshLoop): a heap of check times, a     *)
(* dirty set with a wake channel of one slot, a bounded job channel and its  *)
(* workers, against the Manager operations that change credentials and then  *)
(* notify the loop. Times are ticks still to go (0 = reached): a clock that  *)
(* runs for ever in finitely many states. The clock stands while the loop    *)
(* has work, except where it can block: on the full job channel.             *)
(***************************************************************************)
EXTENDS Integers, FiniteSets, FiniteSetsExt, Functions, Sequences

CONSTANTS
  Creds,       \* credential ids
  Changing,    \* those that others register, update and remove, and how many may
  Crowd,       \* be known while they do (two bounds)
  Workers,     \* the loop's workers
  JobSlots,    \* capacity of the job channel
  Period,      \* from a refresh to the next time one is due
  Pending,     \* refreshPendingBackoff
  Failure,     \* refreshFailureBackoff
  Ineffective, \* refreshIneffectiveBackoff
  MaxLag,      \* bound of how far the loop's clock is behind
  Results      \* request results that touch LastError: a subset of {"401", "ok"}

ASSUME RefreshAssumption ==
  /\ Changing \subseteq Creds /\ JobSlots \in Nat \ {0} /\ MaxLag \in Nat
  /\ {Period, Pending, Failure, Ineffective} \subseteq Nat \ {0}
  /\ Results \subseteq {"401", "ok"}

VARIABLES
  auths,   \* Manager.auths: [due, hold (NextRefreshAfter), denied (LastError is a 401)]
  calls,   \* Manager calls that have changed auths and not yet told the loop
  heap,    \* l.queue and l.index: the check time of each scheduled id
  dirty,   \* l.dirty
  wake,    \* l.wakeCh holds its token
  timer,   \* ticks until the timer fires, -1 = stopped
  loop,    \* the loop goroutine: [at, todo, cred, next, back]
  lag,     \* ticks since the loop read its clock
  jobs,    \* l.jobs
  workers  \* per worker: idle, or [at, cred, copy]

vars == <<auths, calls, heap, dirty, wake, timer, loop, lag, jobs, workers>>

-----------------------------------------------------------------------------
Never == -1
Fresh(due) == [due |-> due, hold |-> 0, denied |-> FALSE]
Idle  == [at |-> "idle"]
Known == DOMAIN auths

Put(f, c, v) == [d \in DOMAIN f \cup {c} |-> IF d = c THEN v ELSE f[d]]
Drop(f, c)   == Restrict(f, DOMAIN f \ {c})
AtLeast0(n)  == IF n < 0 THEN 0 ELSE n

\* nextRefreshCheckAt: when the credential is to be looked at again, if at all.
NextCheck(c) ==
  IF c \notin Known \/ auths[c].denied THEN Never
  ELSE IF auths[c].hold > 0 THEN auths[c].hold ELSE auths[c].due

\* shouldRefresh.
ShouldRefresh(a) == ~a.denied /\ a.hold = 0 /\ a.due = 0

\* What the loop does next, with the id and check time it carries.
Goto(at, todo)       == [at |-> at, todo |-> todo, cred |-> {}, next |-> Never, back |-> at]
Carry(at, c, next)   == [loop EXCEPT !.at = at, !.todo = @ \ {c}, !.cred = {c}, !.next = next]
Back                 == [loop EXCEPT !.at = loop.back, !.cred = {}, !.next = Never]

-----------------------------------------------------------------------------
\* StartAutoRefresh has published the loop; rebuild has not read the auths yet.
Init ==
  /\ \E S \in (SUBSET Changing) \cup {Creds} : auths \in [S -> {Fresh(0), Fresh(Period)}]
  /\ calls = {}
  /\ heap = [c \in {} |-> 0]
  /\ dirty = {}
  /\ wake = FALSE
  /\ timer = Never
  /\ loop = Goto("rebuild", {})
  /\ lag = 0
  /\ jobs = <<>>
  /\ workers = [w \in Workers |-> Idle]

Tick ==
  /\ \/ loop.at = "idle" /\ timer # 0
     \/ loop.at = "send" /\ Len(jobs) = JobSlots
  /\ auths' = [c \in Known |-> [auths[c] EXCEPT !.due = AtLeast0(@ - 1), !.hold = AtLeast0(@ - 1)]]
  /\ heap' = [c \in DOMAIN heap |-> AtLeast0(heap[c] - 1)]
  /\ timer' = IF timer > 0 THEN timer - 1 ELSE timer
  /\ lag' = IF loop.at = "idle" THEN 0 ELSE IF lag < MaxLag THEN lag + 1 ELSE lag
  /\ UNCHANGED <<calls, dirty, wake, loop, jobs, workers>>

-----------------------------------------------------------------------------
(* The Manager: a change of auths under m.mu, then the notice to the loop.   *)

Busy(c) == \E call \in calls : call[2] = c

Change(c, a, notice) ==
  /\ ~Busy(c)
  /\ auths' = IF a = {} THEN Drop(auths, c) ELSE Put(auths, c, CHOOSE x \in a : TRUE)
  /\ calls' = calls \cup {<<notice, c>>}
  /\ UNCHANGED <<heap, dirty, wake, timer, loop, lag, jobs, workers>>

\* Register and Remove of one id do not overlap: one consumer calls them.
Register(c) == c \notin Known /\ \E due \in {0, Period} : Change(c, {Fresh(due)}, "mark")
Remove(c)   == c \in Known /\ Change(c, {}, "unschedule")

\* An Update from a file keeps NextRefreshAfter and starts without an error.
Update(c) ==
  /\ c \in Known
  /\ \E due \in {0, Period} :
       Change(c, {[due |-> due, hold |-> auths[c].hold, denied |-> FALSE]}, "mark")

\* MarkResult stores or clears LastError and tells the loop nothing.
MarkResult(c) ==
  /\ c \in Known
  /\ \E r \in Results : auths' = [auths EXCEPT ![c].denied = (r = "401")]
  /\ UNCHANGED <<calls, heap, dirty, wake, timer, loop, lag, jobs, workers>>

\* Mutant of Notify: the token is offered before the id is marked.
NotifyWakesFirst(call) ==
  /\ call \in calls
  /\ wake' = (wake \/ call[1] = "mark")
  /\ dirty' = IF call[1] = "wake" THEN dirty \cup {call[2]} ELSE dirty
  /\ heap' = IF call[1] = "unschedule" THEN Drop(heap, call[2]) ELSE heap
  /\ calls' = (calls \ {call}) \cup (IF call[1] = "mark" THEN {<<"wake", call[2]>>} ELSE {})
  /\ UNCHANGED <<auths, timer, loop, lag, jobs, workers>>

\* queueReschedule marks under l.mu and then offers the wake token.
Notify(call) ==
  /\ call \in calls
  /\ LET c == call[2] IN
     CASE call[1] = "mark" ->
            /\ dirty' = dirty \cup {c}
            /\ calls' = (calls \ {call}) \cup {<<"wake", c>>}
            /\ UNCHANGED <<wake, heap>>
       [] call[1] = "wake" ->
            /\ wake' = TRUE
            /\ calls' = calls \ {call}
            /\ UNCHANGED <<dirty, heap>>
       [] OTHER -> \* queueRefreshUnschedule
            /\ heap' = Drop(heap, c)
            /\ calls' = calls \ {call}
            /\ UNCHANGED <<dirty, wake>>
  /\ UNCHANGED <<auths, timer, loop, lag, jobs, workers>>

-----------------------------------------------------------------------------
(* The loop goroutine.                                                      *)

LoopOnly == UNCHANGED <<auths, calls, jobs, workers>>

\* rebuild reads the auths under one lock and replaces the heap under another.
RebuildRead ==
  /\ loop.at = "rebuild"
  /\ loop' = [Goto("replace", {c \in Known : NextCheck(c) # Never})
              EXCEPT !.next = [c \in {d \in Known : NextCheck(d) # Never} |-> NextCheck(c)]]
  /\ LoopOnly /\ UNCHANGED <<heap, dirty, wake, timer, lag>>

RebuildReplace ==
  /\ loop.at = "replace"
  /\ heap' = loop.next
  /\ loop' = Goto("dirty", {})
  /\ LoopOnly /\ UNCHANGED <<dirty, wake, timer, lag>>

\* The select: the wake channel, or the timer.
Woken ==
  /\ loop.at = "idle"
  /\ wake
  /\ wake' = FALSE
  /\ loop' = Goto("dirty", dirty)
  /\ dirty' = {}
  /\ LoopOnly /\ UNCHANGED <<heap, timer, lag>>

\* popDue.
TimerFires ==
  /\ loop.at = "idle"
  /\ timer = 0
  /\ LET due == {c \in DOMAIN heap : heap[c] = 0}
     IN heap' = Restrict(heap, DOMAIN heap \ due) /\ loop' = Goto("due", due)
  /\ timer' = Never
  /\ LoopOnly /\ UNCHANGED <<dirty, wake, lag>>

\* handleDueAuth up to the unlock. A time reached while the loop was blocked counts
\* as reached (the code may need another round to see it).
HandleDue(c) ==
  /\ loop.at = "due"
  /\ c \in loop.todo
  /\ IF c \notin Known THEN loop' = [loop EXCEPT !.todo = @ \ {c}]
     ELSE IF ShouldRefresh(auths[c]) THEN loop' = Carry("mark", c, Never)
     ELSE loop' = Carry("upsert", c, NextCheck(c))
  /\ LoopOnly /\ UNCHANGED <<heap, dirty, wake, timer, lag>>

\* markRefreshPending, which also marks the id dirty and offers the token.
MarkPending ==
  /\ loop.at = "mark"
  /\ \E c \in loop.cred :
       IF c \in Known /\ auths[c].hold = 0
       THEN /\ auths' = [auths EXCEPT ![c].hold = AtLeast0(Pending - lag)]
            /\ dirty' = dirty \cup {c}
            /\ wake' = TRUE
            /\ loop' = [loop EXCEPT !.at = "send"]
       ELSE /\ loop' = [loop EXCEPT !.at = "reread"]
            /\ UNCHANGED <<auths, dirty, wake>>
  /\ UNCHANGED <<calls, heap, timer, lag, jobs, workers>>

Reread ==
  /\ loop.at = "reread"
  /\ \E c \in loop.cred : loop' = Carry("upsert", c, NextCheck(c))
  /\ LoopOnly /\ UNCHANGED <<heap, dirty, wake, timer, lag>>

\* The job channel blocks while it is full.
SendJob ==
  /\ loop.at = "send"
  /\ Len(jobs) < JobSlots
  /\ \E c \in loop.cred : jobs' = Append(jobs, c)
  /\ loop' = Back
  /\ UNCHANGED <<auths, calls, heap, dirty, wake, timer, lag, workers>>

\* After the due ones, and after a wake-up, the dirty ones.
DueDone ==
  /\ loop.at = "due"
  /\ loop.todo = {}
  /\ loop' = Goto("dirty", dirty)
  /\ dirty' = {}
  /\ LoopOnly /\ UNCHANGED <<heap, wake, timer, lag>>

ApplyDirty(c) ==
  /\ loop.at = "dirty"
  /\ c \in loop.todo
  /\ loop' = Carry("upsert", c, NextCheck(c))
  /\ LoopOnly /\ UNCHANGED <<heap, dirty, wake, timer, lag>>

\* Mutant of Upsert: an id that is scheduled already keeps its time.
UpsertNewOnly ==
  /\ loop.at = "upsert"
  /\ \E c \in loop.cred :
       heap' = IF loop.next = Never THEN Drop(heap, c)
               ELSE IF c \in DOMAIN heap THEN heap ELSE Put(heap, c, loop.next)
  /\ loop' = Back
  /\ LoopOnly /\ UNCHANGED <<dirty, wake, timer, lag>>

\* upsert, or remove when there is nothing to schedule.
Upsert ==
  /\ loop.at = "upsert"
  /\ \E c \in loop.cred :
       heap' = IF loop.next = Never THEN Drop(heap, c) ELSE Put(heap, c, loop.next)
  /\ loop' = Back
  /\ LoopOnly /\ UNCHANGED <<dirty, wake, timer, lag>>

\* Mutant of ResetTimer: a check time already reached leaves the timer stopped.
ResetTimerAhead ==
  /\ loop.at = "dirty"
  /\ loop.todo = {}
  /\ timer' = IF DOMAIN heap = {} \/ Min(Range(heap)) = 0 THEN Never ELSE Min(Range(heap))
  /\ loop' = Goto("idle", {})
  /\ lag' = 0
  /\ LoopOnly /\ UNCHANGED <<heap, dirty, wake>>

\* resetTimer: the wait is counted from the loop's clock, so it is late by the lag.
ResetTimer ==
  /\ loop.at = "dirty"
  /\ loop.todo = {}
  /\ IF DOMAIN heap = {} THEN timer' = Never
     ELSE LET next == Min(Range(heap))
          IN \E late \in (IF next = 0 THEN 0 ELSE lag)..lag : timer' = next + late
  /\ loop' = Goto("idle", {})
  /\ lag' = 0
  /\ LoopOnly /\ UNCHANGED <<heap, dirty, wake>>

-----------------------------------------------------------------------------
(* The workers.                                                             *)

WorkerOnly == UNCHANGED <<heap, timer, loop, lag>>

\* refreshAuth up to the call of the executor; an id removed meanwhile is only
\* rescheduled.
TakeJob(w) ==
  /\ workers[w] = Idle
  /\ jobs # <<>>
  /\ LET c == Head(jobs)
     IN workers' = [workers EXCEPT ![w] = [at |-> IF c \in Known THEN "refresh" ELSE "mark", cred |-> c]]
  /\ jobs' = Tail(jobs)
  /\ WorkerOnly /\ UNCHANGED <<auths, calls, dirty, wake>>

\* How a refresh ends, for the credential as it is then.
Ends(a) ==
  { [due |-> Period, hold |-> 0, denied |-> FALSE],        \* refreshed
    [due |-> 0, hold |-> Ineffective, denied |-> FALSE],   \* refreshed to no effect
    [a EXCEPT !.hold = Failure, !.denied = FALSE],         \* failed
    [a EXCEPT !.hold = 0, !.denied = TRUE],                \* refused: unauthorized
    a }                                                    \* canceled

\* refreshAuth stores the result (unless the id is gone); the loop is told, once
\* by the Manager and once more by the worker: one notice stands for both.
EndRefresh(w) ==
  /\ workers[w].at = "refresh"
  /\ LET c == workers[w].cred
     IN IF c \in Known THEN \E a \in Ends(auths[c]) : auths' = [auths EXCEPT ![c] = a]
        ELSE UNCHANGED auths
  /\ workers' = [workers EXCEPT ![w].at = "mark"]
  /\ WorkerOnly /\ UNCHANGED <<calls, dirty, wake, jobs>>

WorkerMarks(w) ==
  /\ workers[w].at = "mark"
  /\ dirty' = dirty \cup {workers[w].cred}
  /\ workers' = [workers EXCEPT ![w].at = "wake"]
  /\ WorkerOnly /\ UNCHANGED <<auths, calls, wake, jobs>>

WorkerWakes(w) ==
  /\ workers[w].at = "wake"
  /\ wake' = TRUE
  /\ workers' = [workers EXCEPT ![w] = Idle]
  /\ WorkerOnly /\ UNCHANGED <<auths, calls, dirty, jobs>>

-----------------------------------------------------------------------------
Worker(w) == TakeJob(w) \/ EndRefresh(w) \/ WorkerMarks(w) \/ WorkerWakes(w)

LoopWorks ==
  \/ RebuildRead \/ RebuildReplace \/ Woken \/ DueDone \/ MarkPending \/ Reread
  \/ SendJob \/ Upsert \/ ResetTimer
  \/ \E c \in Creds : HandleDue(c) \/ ApplyDirty(c)

Next ==
  \/ Tick
  \/ Cardinality(Known) < Crowd /\ \E c \in Changing : Register(c) \/ Remove(c) \/ Update(c) \/ MarkResult(c)
  \/ \E call \in calls : Notify(call)
  \/ LoopWorks
  \/ TimerFires
  \/ \E w \in Workers : Worker(w)

\* The clock runs, goroutines run, calls in progress end. A select chooses among
\* the channels that are ready at random: endless wake-ups keep neither the timer
\* from firing nor the clock, which waits for it, from running.
Fairness ==
  /\ SF_vars(Tick \/ TimerFires)
  /\ WF_vars(LoopWorks)
  /\ WF_vars(\E call \in calls : Notify(call))
  /\ \A w \in Workers : WF_vars(Worker(w))

Spec == Init /\ [][Next]_vars /\ Fairness

-----------------------------------------------------------------------------
\* Nobody is about to tell the loop of c, and the loop is not at work on it.
Settled(c) ==
  /\ ~Busy(c)
  /\ c \notin dirty
  /\ loop.at # "rebuild" /\ loop.at # "replace"
  /\ c \notin loop.todo /\ c \notin loop.cred
  /\ \A w \in Workers : workers[w] # Idle => workers[w].cred # c

\* A credential that is to be checked again is in the heap, and not later than
\* its check time, whatever updates, removals, refreshes and marks have raced
\* with the loop's reads.
ScheduledInTime ==
  \A c \in Known :
    Settled(c) /\ NextCheck(c) # Never => c \in DOMAIN heap /\ heap[c] <= NextCheck(c)

\* No dirty id waits without a wake-up: the loop waits only with a token in the
\* channel, or with a caller that is about to put one there.
NoLostWakeup ==
  loop.at = "idle" /\ dirty # {} =>
    \/ wake
    \/ \E call \in calls : call[1] = "wake"
    \/ \E w \in Workers : workers[w] # Idle /\ workers[w].at = "wake"

Wanted(c)  == c \in Known /\ ~auths[c].denied /\ auths[c].due = 0
Running(c) == \E w \in Workers : workers[w] # Idle /\ workers[w].cred = c /\ workers[w].at = "refresh"

\* "evaluates auth freshness every few seconds and triggers refresh operations when
\* required" (conductor.go:5236): a credential that is due is refreshed again and
\* again until it is not, whatever fails, is dropped or is removed meanwhile.
DueIsRefreshed == \A c \in Creds : Wanted(c) ~> (Running(c) \/ ~Wanted(c))
=============================================================================
