--------------------------- MODULE Handover_proofs ---------------------------
(***************************************************************************)
(* Proofs about the two components of MCHandover, which share no state.      *)
(*                                                                         *)
(* AutoRefresh, for any credentials, workers, channel size and backoffs: no  *)
(* dirty id waits without a wake-up, a credential that is to be checked      *)
(* again is in the heap in time, and the timer is set for the first of the   *)
(* heap.                                                                   *)
(*                                                                         *)
(* RelaySession, for any requests, channels of any size and a client that    *)
(* may say anything: an answer is cut short only for a cause, and nothing    *)
(* panics while the session is open and nobody gives up.                   *)
(***************************************************************************)
EXTENDS AutoRefresh, RelaySession, SequenceTheorems, WellFoundedInduction, TLAPS

-----------------------------------------------------------------------------
(* The inductive invariant.                                                  *)

Auth      == [due : Nat, hold : Nat, denied : BOOLEAN]
Times     == Nat \cup {Never}
Schedules == UNION {[S -> Nat] : S \in SUBSET Creds}
Places    == {"rebuild", "replace", "idle", "due", "dirty", "mark", "reread", "send", "upsert"}
LoopState ==
  [at : Places, todo : SUBSET Creds, cred : SUBSET Creds, next : Times \cup Schedules,
   back : Places]
AtWork    == [at : {"refresh", "mark", "wake"}, cred : Creds]

TypeOK ==
  /\ Known \subseteq Creds /\ auths \in [Known -> Auth]
  /\ calls \subseteq {"mark", "wake", "unschedule"} \X Creds
  /\ heap \in Schedules
  /\ dirty \subseteq Creds
  /\ wake \in BOOLEAN
  /\ timer \in Times
  /\ loop \in LoopState
  /\ lag \in 0..MaxLag
  /\ jobs \in Seq(Creds)
  /\ workers \in [Workers -> {Idle} \cup AtWork]

\* What the loop carries where: one credential between an id's turn and its end, a
\* whole heap between the two halves of rebuild, one check time before upsert.
Carrying ==
  /\ loop.at = "replace" => loop.next \in Schedules
  /\ loop.at = "upsert" => loop.next \in Times
  /\ loop.at \in {"mark", "reread", "send", "upsert"} =>
       loop.back \in {"due", "dirty"} /\ \E c \in Creds : loop.cred = {c}
  /\ loop.at \in {"due", "dirty"} => loop.back = loop.at
  /\ loop.at = "idle" => loop.todo = {}

\* The loop is still to read c: somebody is about to mark it dirty, it is dirty, or
\* the loop has it before a read.
ToBeRead(c) ==
  \/ <<"mark", c>> \in calls
  \/ c \in dirty
  \/ loop.at = "rebuild"
  \/ loop.at # "replace" /\ c \in loop.todo
  \/ loop.at \in {"mark", "reread"} /\ c \in loop.cred
  \/ \E w \in Workers : workers[w].at \in {"refresh", "mark"} /\ workers[w].cred = c

\* What the loop has read of c, here or in the heap, is not later than its check time.
ReadInTime(c) ==
  IF loop.at = "replace" THEN c \in DOMAIN loop.next /\ loop.next[c] <= NextCheck(c)
  ELSE IF loop.at = "upsert" /\ c \in loop.cred
  THEN loop.next # Never /\ loop.next <= NextCheck(c)
  ELSE c \in DOMAIN heap /\ heap[c] <= NextCheck(c)

Covered == \A c \in Known : NextCheck(c) # Never => ToBeRead(c) \/ ReadInTime(c)

\* Remove's late notice never meets an id that has been registered again.
Gone == \A c \in Known : <<"unschedule", c>> \notin calls

\* A dirty id has a token, or somebody who is about to offer one.
Woke ==
  dirty # {} =>
    \/ wake
    \/ \E call \in calls : call[1] = "wake"
    \/ \E w \in Workers : workers[w].at = "wake"

\* The wait ends with the first check time of the heap, late at most by the lag with
\* which the loop had read its clock.
TimerInTime == loop.at = "idle" => \A c \in DOMAIN heap : timer \in 0..(heap[c] + MaxLag)

IInv == TypeOK /\ Carrying /\ TimerInTime
Tracked == IInv /\ Covered /\ Gone

-----------------------------------------------------------------------------
(* Operators.                                                                *)

LEMMA Constants ==
  /\ Changing \subseteq Creds /\ JobSlots \in Nat /\ MaxLag \in Nat
  /\ Period \in Nat /\ Pending \in Nat /\ Failure \in Nat /\ Ineffective \in Nat
BY RefreshAssumption

LEMMA MinOfNaturals ==
  ASSUME NEW S \in SUBSET Nat, S # {}
  PROVE  Min(S) \in S /\ \A n \in S : Min(S) <= n
<1>1. \E m \in S : \A n \in S : m <= n
  <2>1. PICK m \in S : \A n \in S : <<n, m>> \notin OpToRel(<, Nat)
    BY NatLessThanWellFounded, WFMin, Zenon
  <2>2. ASSUME NEW n \in S  PROVE m <= n
    <3>1. ~ (n < m)  BY <2>1 DEF OpToRel
    <3>. QED  BY <3>1
  <2>. QED  BY <2>2
<1>. QED  BY <1>1 DEF Min

LEMMA AScheduleIsAFunction ==
  ASSUME NEW h
  PROVE  h \in Schedules <=> h \in [DOMAIN h -> Nat] /\ DOMAIN h \subseteq Creds
BY DEF Schedules

LEMMA DropFacts ==
  ASSUME NEW h \in Schedules, NEW c
  PROVE  /\ Drop(h, c) \in Schedules
         /\ DOMAIN Drop(h, c) = DOMAIN h \ {c}
         /\ \A d \in DOMAIN h \ {c} : Drop(h, c)[d] = h[d]
BY AScheduleIsAFunction DEF Drop, Restrict, Schedules

LEMMA PutFacts ==
  ASSUME NEW h \in Schedules, NEW c \in Creds, NEW n \in Nat
  PROVE  /\ Put(h, c, n) \in Schedules
         /\ DOMAIN Put(h, c, n) = DOMAIN h \cup {c}
         /\ Put(h, c, n)[c] = n
         /\ \A d \in DOMAIN h : d # c => Put(h, c, n)[d] = h[d]
BY AScheduleIsAFunction DEF Put, Schedules

\* The same of the Manager's map.
LEMMA MapFacts ==
  ASSUME TypeOK, NEW c \in Creds, NEW a \in Auth
  PROVE  /\ Put(auths, c, a) \in [Known \cup {c} -> Auth]
         /\ Put(auths, c, a)[c] = a
         /\ \A d \in Known : d # c => Put(auths, c, a)[d] = auths[d]
         /\ Drop(auths, c) \in [Known \ {c} -> Auth]
         /\ \A d \in Known : d # c => Drop(auths, c)[d] = auths[d]
BY DEF TypeOK, Put, Drop, Restrict, Known

LEMMA CheckTimes ==
  ASSUME TypeOK, NEW c
  PROVE  NextCheck(c) \in Times /\ (NextCheck(c) # Never => c \in Known /\ NextCheck(c) \in Nat)
BY DEF TypeOK, NextCheck, Times, Never, Auth

LEMMA SameCheck ==
  ASSUME NEW c, c \in Known <=> c \in Known', auths'[c] = auths[c]
  PROVE  NextCheck(c)' = NextCheck(c)
BY DEF NextCheck

\* The fields of what the loop does next.
LEMMA LoopFields ==
  ASSUME loop \in LoopState
  PROVE  /\ \A p, S : /\ Goto(p, S).at = p /\ Goto(p, S).todo = S /\ Goto(p, S).cred = {}
                      /\ Goto(p, S).next = Never /\ Goto(p, S).back = p
         /\ \A p \in Places, S \in SUBSET Creds : Goto(p, S) \in LoopState
         /\ \A p, c, n : /\ Carry(p, c, n).at = p /\ Carry(p, c, n).todo = loop.todo \ {c}
                         /\ Carry(p, c, n).cred = {c} /\ Carry(p, c, n).next = n
                         /\ Carry(p, c, n).back = loop.back
         /\ \A p \in Places, c \in Creds, n \in Times \cup Schedules :
              Carry(p, c, n) \in LoopState
         /\ Back.at = loop.back /\ Back.todo = loop.todo /\ Back.cred = {} /\ Back.back = loop.back
         /\ Back \in LoopState
<1>1. Never \in Times  BY DEF Times
<1>. HIDE DEF Times, Schedules
<1>. QED  BY <1>1 DEF LoopState, Goto, Carry, Back

-----------------------------------------------------------------------------
(* Types, what the loop carries, and its timer.                              *)

LEMMA Initially == Init => IInv /\ Covered /\ Gone /\ Woke
<1>. SUFFICES ASSUME Init  PROVE IInv /\ Covered /\ Gone /\ Woke
  OBVIOUS
<1>1. PICK S \in (SUBSET Changing) \cup {Creds} : auths \in [S -> {Fresh(0), Fresh(Period)}]
  BY DEF Init
<1>2. Known = S /\ S \subseteq Creds /\ \A c \in S : auths[c] \in {Fresh(0), Fresh(Period)}
  BY <1>1, Constants DEF Known
<1>3. Fresh(0) \in Auth /\ Fresh(Period) \in Auth  BY Constants DEF Fresh, Auth
<1>4. auths \in [Known -> Auth]  BY <1>1, <1>2, <1>3
<1>5. heap \in Schedules  BY DEF Init, Schedules
<1>6. loop \in LoopState /\ loop.at = "rebuild"
  <2>1. loop = [at |-> "rebuild", todo |-> {}, cred |-> {}, next |-> Never, back |-> "rebuild"]
    BY DEF Init, Goto
  <2>2. Never \in Times  BY DEF Times
  <2>. HIDE DEF Times, Schedules
  <2>. QED  BY <2>1, <2>2 DEF LoopState, Places
<1>7. TypeOK
  <2>1. timer \in Times /\ lag \in 0..MaxLag  BY Constants DEF Init, Times
  <2>2. calls \subseteq {"mark", "wake", "unschedule"} \X Creds /\ jobs \in Seq(Creds)
    BY DEF Init
  <2>3. workers \in [Workers -> {Idle} \cup AtWork]  BY DEF Init
  <2>. QED  BY <1>2, <1>4, <1>5, <1>6, <2>1, <2>2, <2>3 DEF Init, TypeOK
<1>8. IInv  BY <1>6, <1>7 DEF IInv, Carrying, TimerInTime
<1>9. Covered /\ Gone /\ Woke  BY <1>6 DEF Init, Covered, Gone, Woke, ToBeRead
<1>. QED  BY <1>8, <1>9

LEMMA TickTypes ==
  ASSUME IInv, Tick
  PROVE  IInv'
<1>1. auths' = [c \in Known |-> [auths[c] EXCEPT !.due = AtLeast0(@ - 1), !.hold = AtLeast0(@ - 1)]]
  BY DEF Tick
<1>2. \A a \in Auth : [a EXCEPT !.due = AtLeast0(@ - 1), !.hold = AtLeast0(@ - 1)] \in Auth
  <2>1. \A n \in Nat : AtLeast0(n - 1) \in Nat  BY DEF AtLeast0
  <2>. QED  BY <2>1 DEF Auth
<1>3. auths' \in [Known -> Auth] /\ Known' = Known
  <2>1. \A c \in Known : auths[c] \in Auth  BY DEF IInv, TypeOK
  <2>. QED  BY <1>1, <1>2, <2>1 DEF Known
<1>4. heap \in [DOMAIN heap -> Nat] /\ DOMAIN heap \subseteq Creds
  BY AScheduleIsAFunction DEF IInv, TypeOK
<1>5. /\ heap' \in [DOMAIN heap -> Nat] /\ DOMAIN heap' = DOMAIN heap
      /\ \A c \in DOMAIN heap : heap'[c] = AtLeast0(heap[c] - 1)
  <2>1. heap' = [c \in DOMAIN heap |-> AtLeast0(heap[c] - 1)]  BY DEF Tick
  <2>2. \A n \in Nat : AtLeast0(n - 1) \in Nat  BY DEF AtLeast0
  <2>. QED  BY <1>4, <2>1, <2>2
<1>6. heap' \in Schedules  BY <1>4, <1>5 DEF Schedules
<1>7. timer' \in Times
  <2>1. timer \in Times /\ timer' = IF timer > 0 THEN timer - 1 ELSE timer
    BY DEF IInv, TypeOK, Tick
  <2>. QED  BY <2>1 DEF Times, Never
<1>8. lag' \in 0..MaxLag
  <2>1. /\ lag \in 0..MaxLag
        /\ lag' = IF loop.at = "idle" THEN 0 ELSE IF lag < MaxLag THEN lag + 1 ELSE lag
    BY DEF IInv, TypeOK, Tick
  <2>. QED  BY <2>1, Constants
<1>9. TypeOK'
  BY <1>3, <1>6, <1>7, <1>8 DEF IInv, TypeOK, Tick
<1>10. TimerInTime'
  <2>. SUFFICES ASSUME loop.at = "idle", NEW c \in DOMAIN heap
                PROVE  timer' \in 0..(heap'[c] + MaxLag)
    BY <1>5 DEF TimerInTime, Tick
  <2>1. timer \in 0..(heap[c] + MaxLag) /\ timer # 0 /\ heap[c] \in Nat
    BY <1>4 DEF IInv, TimerInTime, Tick
  <2>2. timer' = timer - 1 /\ heap'[c] = AtLeast0(heap[c] - 1)
    <3>1. timer' = IF timer > 0 THEN timer - 1 ELSE timer  BY DEF Tick
    <3>. QED  BY <1>5, <2>1, <3>1, Constants
  <2>. QED  BY <2>1, <2>2, Constants DEF AtLeast0
<1>11. Carrying'  BY DEF IInv, Carrying, Tick
<1>. QED  BY <1>9, <1>10, <1>11 DEF IInv

LEMMA ManagerTypes ==
  ASSUME IInv, NEW c \in Changing, Register(c) \/ Remove(c) \/ Update(c) \/ MarkResult(c)
  PROVE  IInv'
<1>1. c \in Creds  BY Constants
<1>2. UNCHANGED <<heap, dirty, wake, timer, loop, lag, jobs, workers>>
  BY DEF Register, Remove, Update, MarkResult, Change
<1>3. calls' \subseteq {"mark", "wake", "unschedule"} \X Creds
  BY <1>1 DEF IInv, TypeOK, Register, Remove, Update, MarkResult, Change
<1>4. auths' \in [DOMAIN auths' -> Auth] /\ DOMAIN auths' \subseteq Creds
  <2>1. CASE Register(c)
    <3>1. PICK due \in {0, Period} : auths' = Put(auths, c, Fresh(due))
      BY <2>1 DEF Register, Change
    <3>2. Fresh(due) \in Auth  BY Constants DEF Fresh, Auth
    <3>3. Known \subseteq Creds /\ TypeOK  BY DEF IInv, TypeOK
    <3>4. Put(auths, c, Fresh(due)) \in [Known \cup {c} -> Auth]
      BY <1>1, <3>2, <3>3, MapFacts
    <3>. QED  BY <1>1, <3>1, <3>3, <3>4
  <2>2. CASE Remove(c)
    <3>1. auths' = Drop(auths, c)  BY <2>2 DEF Remove, Change
    <3>. QED  BY <3>1 DEF IInv, TypeOK, Drop, Restrict, Known
  <2>3. CASE Update(c)
    <3>1. PICK due \in {0, Period} :
            auths' = Put(auths, c, [due |-> due, hold |-> auths[c].hold, denied |-> FALSE])
      BY <2>3 DEF Update, Change
    <3>2. auths[c].hold \in Nat  BY <2>3 DEF IInv, TypeOK, Update, Auth
    <3>3. [due |-> due, hold |-> auths[c].hold, denied |-> FALSE] \in Auth
      BY <3>2, Constants DEF Auth
    <3>4. Known \subseteq Creds /\ TypeOK  BY DEF IInv, TypeOK
    <3>. DEFINE a == [due |-> due, hold |-> auths[c].hold, denied |-> FALSE]
    <3>. HIDE DEF a
    <3>5. Put(auths, c, a) \in [Known \cup {c} -> Auth]
      BY <1>1, <3>3, <3>4, MapFacts DEF a
    <3>. QED  BY <1>1, <3>1, <3>4, <3>5 DEF a
  <2>4. CASE MarkResult(c)
    <3>1. PICK r \in Results : auths' = [auths EXCEPT ![c].denied = (r = "401")]
      BY <2>4 DEF MarkResult
    <3>2. c \in Known /\ auths[c] \in Auth  BY <2>4 DEF MarkResult, IInv, TypeOK
    <3>3. [auths[c] EXCEPT !.denied = (r = "401")] \in Auth  BY <3>2 DEF Auth
    <3>. QED  BY <3>1, <3>2, <3>3 DEF IInv, TypeOK, Known
  <2>. QED  BY <2>1, <2>2, <2>3, <2>4
<1>5. TypeOK'  BY <1>2, <1>3, <1>4 DEF IInv, TypeOK, Known
<1>. QED  BY <1>2, <1>5 DEF IInv, Carrying, TimerInTime

LEMMA NotifyTypes ==
  ASSUME IInv, NEW call \in calls, Notify(call)
  PROVE  IInv'
<1>1. call[1] \in {"mark", "wake", "unschedule"} /\ call[2] \in Creds
  BY DEF IInv, TypeOK
<1>2. UNCHANGED <<auths, timer, loop, lag, jobs, workers>>  BY DEF Notify
<1>3. heap' = heap \/ heap' = Drop(heap, call[2])  BY DEF Notify
<1>4. dirty' \subseteq Creds /\ wake' \in BOOLEAN
  BY <1>1 DEF Notify, IInv, TypeOK
<1>5. calls' \subseteq {"mark", "wake", "unschedule"} \X Creds
  BY <1>1 DEF Notify, IInv, TypeOK
<1>6. /\ heap' \in Schedules /\ DOMAIN heap' \subseteq DOMAIN heap
      /\ \A d \in DOMAIN heap' : heap'[d] = heap[d]
  <2>1. heap \in Schedules  BY DEF IInv, TypeOK
  <2>2. /\ Drop(heap, call[2]) \in Schedules
        /\ DOMAIN Drop(heap, call[2]) = DOMAIN heap \ {call[2]}
        /\ \A d \in DOMAIN heap \ {call[2]} : Drop(heap, call[2])[d] = heap[d]
    BY <2>1, DropFacts, Zenon
  <2>. QED  BY <1>3, <2>1, <2>2
<1>7. TypeOK'  BY <1>2, <1>4, <1>5, <1>6 DEF IInv, TypeOK, Known
<1>. QED  BY <1>2, <1>6, <1>7 DEF IInv, Carrying, TimerInTime

LEMMA WorkerTypes ==
  ASSUME IInv, NEW w \in Workers, Worker(w)
  PROVE  IInv'
<1>1. UNCHANGED <<heap, timer, loop, lag>>
  BY DEF Worker, WorkerOnly, TakeJob, EndRefresh, WorkerMarks, WorkerWakes
<1>2. workers[w] = Idle \/ workers[w] \in AtWork  BY DEF IInv, TypeOK
<1>3. Idle.at = "idle"  BY DEF Idle
<1>4. TypeOK'
  <2>1. CASE TakeJob(w)
    <3>1. Head(jobs) \in Creds /\ jobs' \in Seq(Creds)  BY <2>1 DEF TakeJob, IInv, TypeOK
    <3>2. workers' \in [Workers -> {Idle} \cup AtWork]
      BY <2>1, <3>1 DEF TakeJob, IInv, TypeOK, AtWork
    <3>. QED  BY <1>1, <2>1, <3>1, <3>2 DEF TakeJob, IInv, TypeOK, Known
  <2>2. CASE EndRefresh(w)
    <3>1. workers[w] \in AtWork  BY <1>2, <1>3, <2>2 DEF EndRefresh
    <3>2. workers' \in [Workers -> {Idle} \cup AtWork]
      BY <2>2, <3>1 DEF EndRefresh, IInv, TypeOK, AtWork
    <3>3. auths' \in [Known -> Auth]
      <4>1. CASE workers[w].cred \in Known
        <5>. DEFINE c == workers[w].cred
        <5>1. PICK a \in Ends(auths[c]) : auths' = [auths EXCEPT ![c] = a]
          BY <2>2, <4>1 DEF EndRefresh
        <5>2. auths[c] \in Auth  BY <4>1 DEF IInv, TypeOK
        <5>3. Ends(auths[c]) \subseteq Auth
          <6>. HIDE DEF c
          <6>1. \A x \in Auth : /\ [x EXCEPT !.hold = Failure, !.denied = FALSE] \in Auth
                                /\ [x EXCEPT !.hold = 0, !.denied = TRUE] \in Auth
            BY Constants DEF Auth
          <6>2. /\ [due |-> Period, hold |-> 0, denied |-> FALSE] \in Auth
                /\ [due |-> 0, hold |-> Ineffective, denied |-> FALSE] \in Auth
            BY Constants DEF Auth
          <6>. QED  BY <5>2, <6>1, <6>2 DEF Ends
        <5>. QED  BY <5>1, <5>3 DEF IInv, TypeOK
      <4>2. CASE workers[w].cred \notin Known
        BY <2>2, <4>2 DEF EndRefresh, IInv, TypeOK
      <4>. QED  BY <4>1, <4>2
    <3>. QED  BY <1>1, <2>2, <3>2, <3>3 DEF EndRefresh, IInv, TypeOK, Known
  <2>3. CASE WorkerMarks(w)
    <3>1. workers[w] \in AtWork  BY <1>2, <1>3, <2>3 DEF WorkerMarks
    <3>2. workers' \in [Workers -> {Idle} \cup AtWork] /\ workers[w].cred \in Creds
      BY <2>3, <3>1 DEF WorkerMarks, IInv, TypeOK, AtWork
    <3>. QED  BY <1>1, <2>3, <3>2 DEF WorkerMarks, IInv, TypeOK, Known
  <2>4. CASE WorkerWakes(w)
    BY <1>1, <2>4 DEF WorkerWakes, IInv, TypeOK, Known
  <2>. QED  BY <2>1, <2>2, <2>3, <2>4 DEF Worker
<1>. QED  BY <1>1, <1>4 DEF IInv, Carrying, TimerInTime

\* Steps of the loop that leave the heap alone carry at most one check time on.
LEMMA LoopTypes ==
  ASSUME IInv, loop' \in LoopState, heap' \in Schedules, timer' \in Times, lag' \in 0..MaxLag,
         dirty' \subseteq Creds, wake' \in BOOLEAN, Carrying', TimerInTime', LoopOnly
  PROVE  IInv'
BY DEF IInv, TypeOK, LoopOnly, Known

LEMMA RebuildTypes ==
  ASSUME IInv, RebuildRead \/ RebuildReplace
  PROVE  IInv'
<1>1. loop \in LoopState /\ TypeOK  BY DEF IInv, TypeOK
<1>2. CASE RebuildRead
  <2>. DEFINE S == {c \in Known : NextCheck(c) # Never}
              read == [c \in S |-> NextCheck(c)]
  <2>1. S \in SUBSET Creds  BY <1>1 DEF TypeOK
  <2>2. \A c \in S : NextCheck(c) \in Nat  BY <1>1, CheckTimes
  <2>3. read \in Schedules
    <3>1. read \in [S -> Nat]  BY <2>2
    <3>. HIDE DEF read, S
    <3>. QED  BY <2>1, <3>1 DEF Schedules
  <2>4. loop' = [Goto("replace", S) EXCEPT !.next = read]  BY <1>2 DEF RebuildRead
  <2>5. Goto("replace", S) = [at |-> "replace", todo |-> S, cred |-> {}, next |-> Never,
                              back |-> "replace"]
    BY DEF Goto
  <2>. HIDE DEF S, read
  <2>6. loop' = [at |-> "replace", todo |-> S, cred |-> {}, next |-> read, back |-> "replace"]
    BY <2>4, <2>5
  <2>7. loop' \in LoopState  BY <2>1, <2>3, <2>6 DEF LoopState, Places
  <2>8. Carrying' /\ TimerInTime'  BY <2>3, <2>6 DEF Carrying, TimerInTime
  <2>9. UNCHANGED <<heap, dirty, wake, timer, lag>> /\ LoopOnly  BY <1>2 DEF RebuildRead
  <2>. QED  BY <1>1, <2>7, <2>8, <2>9, LoopTypes DEF TypeOK
<1>3. CASE RebuildReplace
  <2>1. loop' = Goto("dirty", {}) /\ heap' = loop.next /\ loop.at = "replace"
    BY <1>3 DEF RebuildReplace
  <2>2. loop' \in LoopState /\ loop'.at = "dirty" /\ loop'.back = "dirty"
    BY <1>1, <2>1, LoopFields DEF Places
  <2>3. heap' \in Schedules  BY <2>1 DEF IInv, Carrying
  <2>4. Carrying' /\ TimerInTime'  BY <2>2 DEF Carrying, TimerInTime
  <2>5. UNCHANGED <<dirty, wake, timer, lag>> /\ LoopOnly  BY <1>3 DEF RebuildReplace
  <2>. QED  BY <1>1, <2>2, <2>3, <2>4, <2>5, LoopTypes DEF TypeOK
<1>. QED  BY <1>2, <1>3

LEMMA WaitingTypes ==
  ASSUME IInv, Woken \/ TimerFires \/ DueDone
  PROVE  IInv'
<1>1. loop \in LoopState /\ TypeOK  BY DEF IInv, TypeOK
<1>2. CASE Woken \/ DueDone
  <2>1. loop' = Goto("dirty", dirty) /\ dirty' = {} /\ wake' \in BOOLEAN
    BY <1>1, <1>2 DEF Woken, DueDone, TypeOK
  <2>2. loop' \in LoopState /\ loop'.at = "dirty" /\ loop'.back = "dirty"
    BY <1>1, <2>1, LoopFields DEF Places, TypeOK
  <2>3. Carrying' /\ TimerInTime'  BY <2>2 DEF Carrying, TimerInTime
  <2>4. UNCHANGED <<heap, timer, lag>> /\ LoopOnly  BY <1>2 DEF Woken, DueDone
  <2>. QED  BY <1>1, <2>1, <2>2, <2>3, <2>4, LoopTypes DEF TypeOK
<1>3. CASE TimerFires
  <2>. DEFINE due == {c \in DOMAIN heap : heap[c] = 0}
  <2>1. heap' = Restrict(heap, DOMAIN heap \ due) /\ loop' = Goto("due", due)
    BY <1>3 DEF TimerFires
  <2>2. heap' \in Schedules
    BY <1>1, <2>1, AScheduleIsAFunction DEF Restrict, TypeOK, Schedules
  <2>3. due \in SUBSET Creds  BY <1>1, AScheduleIsAFunction DEF TypeOK
  <2>. HIDE DEF due
  <2>4. loop' \in LoopState /\ loop'.at = "due" /\ loop'.back = "due"
    BY <1>1, <2>1, <2>3, LoopFields DEF Places
  <2>5. Carrying' /\ TimerInTime'  BY <2>4 DEF Carrying, TimerInTime
  <2>6. timer' \in Times /\ UNCHANGED <<dirty, wake, lag>> /\ LoopOnly
    BY <1>3 DEF TimerFires, Times
  <2>. QED  BY <1>1, <2>2, <2>4, <2>5, <2>6, LoopTypes DEF TypeOK
<1>. QED  BY <1>2, <1>3

\* A credential's turn at the loop, up to the two ends it has.
LEMMA TurnTypes ==
  ASSUME IInv, (\E c \in Creds : HandleDue(c) \/ ApplyDirty(c)) \/ Reread
  PROVE  IInv'
<1>1. loop \in LoopState /\ TypeOK  BY DEF IInv, TypeOK
<1>2. UNCHANGED <<heap, dirty, wake, timer, lag>> /\ LoopOnly
  BY DEF HandleDue, ApplyDirty, Reread
<1>3. loop.at \in {"due", "dirty", "reread"}  BY DEF HandleDue, ApplyDirty, Reread
<1>4. loop.back \in {"due", "dirty"}  BY <1>3 DEF IInv, Carrying
<1>5. CASE \E c \in Creds : loop' = Carry("upsert", c, NextCheck(c))
  <2>1. PICK c \in Creds : loop' = Carry("upsert", c, NextCheck(c))  BY <1>5
  <2>2. NextCheck(c) \in Times  BY <1>1, CheckTimes
  <2>3. /\ loop' \in LoopState /\ loop'.at = "upsert" /\ loop'.next \in Times
        /\ loop'.cred = {c} /\ loop'.back = loop.back
    <3>. HIDE DEF Times, Schedules
    <3>. QED  BY <1>1, <2>1, <2>2, LoopFields DEF Places
  <2>4. Carrying' /\ TimerInTime'  BY <1>4, <2>3 DEF Carrying, TimerInTime
  <2>. QED  BY <1>1, <1>2, <2>3, <2>4, LoopTypes DEF TypeOK
<1>6. CASE \E c \in Creds : loop.at = "due" /\ loop' = Carry("mark", c, Never)
  <2>1. PICK c \in Creds : loop' = Carry("mark", c, Never)  BY <1>6
  <2>2. Never \in Times  BY DEF Times
  <2>3. /\ loop' \in LoopState /\ loop'.at = "mark"
        /\ loop'.cred = {c} /\ loop'.back = loop.back
    <3>. HIDE DEF Times, Schedules
    <3>. QED  BY <1>1, <2>1, <2>2, LoopFields DEF Places
  <2>4. Carrying' /\ TimerInTime'  BY <1>4, <2>3 DEF Carrying, TimerInTime
  <2>. QED  BY <1>1, <1>2, <2>3, <2>4, LoopTypes DEF TypeOK
<1>7. CASE \E c \in Creds : loop.at = "due" /\ loop' = [loop EXCEPT !.todo = @ \ {c}]
  <2>1. PICK c \in Creds : loop.at = "due" /\ loop' = [loop EXCEPT !.todo = @ \ {c}]  BY <1>7
  <2>2. loop' \in LoopState /\ loop'.at = loop.at /\ loop'.back = loop.back
    <3>. HIDE DEF Times, Schedules
    <3>. QED  BY <1>1, <2>1 DEF LoopState
  <2>3. Carrying' /\ TimerInTime'  BY <1>4, <2>1, <2>2 DEF IInv, Carrying, TimerInTime
  <2>. QED  BY <1>1, <1>2, <2>2, <2>3, LoopTypes DEF TypeOK
<1>8. \/ \E c \in Creds : loop' = Carry("upsert", c, NextCheck(c))
      \/ \E c \in Creds : loop.at = "due" /\ loop' = Carry("mark", c, Never)
      \/ \E c \in Creds : loop.at = "due" /\ loop' = [loop EXCEPT !.todo = @ \ {c}]
  <2>1. CASE Reread
    <3>1. PICK c \in loop.cred : loop' = Carry("upsert", c, NextCheck(c))  BY <2>1 DEF Reread
    <3>2. c \in Creds  BY <1>1 DEF LoopState
    <3>. QED  BY <3>1, <3>2
  <2>2. CASE \E c \in Creds : HandleDue(c)  BY <2>2 DEF HandleDue
  <2>3. CASE \E c \in Creds : ApplyDirty(c)  BY <2>3 DEF ApplyDirty
  <2>. QED  BY <2>1, <2>2, <2>3
<1>. QED  BY <1>5, <1>6, <1>7, <1>8

LEMMA MarkPendingTypes ==
  ASSUME IInv, MarkPending
  PROVE  IInv'
<1>1. loop \in LoopState /\ TypeOK  BY DEF IInv, TypeOK
<1>2. loop.at = "mark" /\ UNCHANGED <<calls, heap, timer, lag, jobs, workers>>
  BY DEF MarkPending
<1>3. PICK c \in loop.cred :
        \/ /\ c \in Known /\ auths' = [auths EXCEPT ![c].hold = AtLeast0(Pending - lag)]
           /\ dirty' = dirty \cup {c} /\ wake' = TRUE /\ loop' = [loop EXCEPT !.at = "send"]
        \/ loop' = [loop EXCEPT !.at = "reread"] /\ UNCHANGED <<auths, dirty, wake>>
  BY DEF MarkPending
<1>4. c \in Creds  BY <1>1 DEF LoopState
<1>5. /\ loop' \in LoopState /\ loop'.at \in {"send", "reread"}
      /\ loop'.cred = loop.cred /\ loop'.back = loop.back
  <2>. HIDE DEF Times, Schedules
  <2>. QED  BY <1>1, <1>3 DEF LoopState, Places
<1>6. auths' \in [Known -> Auth] /\ dirty' \subseteq Creds /\ wake' \in BOOLEAN
  <2>1. CASE UNCHANGED <<auths, dirty, wake>>  BY <1>1, <2>1 DEF TypeOK
  <2>2. CASE /\ c \in Known /\ auths' = [auths EXCEPT ![c].hold = AtLeast0(Pending - lag)]
             /\ dirty' = dirty \cup {c} /\ wake' = TRUE
    <3>1. AtLeast0(Pending - lag) \in Nat  BY <1>1, Constants DEF TypeOK, AtLeast0
    <3>2. auths[c] \in Auth /\ auths \in [Known -> Auth]  BY <1>1, <2>2 DEF TypeOK
    <3>3. [auths[c] EXCEPT !.hold = AtLeast0(Pending - lag)] \in Auth  BY <3>1, <3>2 DEF Auth
    <3>4. auths' \in [Known -> Auth]  BY <2>2, <3>2, <3>3
    <3>. QED  BY <1>1, <1>4, <2>2, <3>4 DEF TypeOK
  <2>. QED  BY <1>3, <2>1, <2>2
<1>7. Carrying' /\ TimerInTime'
  BY <1>2, <1>5 DEF IInv, Carrying, TimerInTime
<1>8. TypeOK'  BY <1>1, <1>2, <1>5, <1>6 DEF TypeOK, Known
<1>. QED  BY <1>7, <1>8 DEF IInv

LEMMA EndOfTurnTypes ==
  ASSUME IInv, SendJob \/ Upsert
  PROVE  IInv'
<1>1. loop \in LoopState /\ TypeOK /\ heap \in Schedules  BY DEF IInv, TypeOK
<1>2. loop.at \in {"send", "upsert"} /\ loop' = Back
  BY DEF SendJob, Upsert
<1>3. PICK c \in Creds : loop.cred = {c} /\ loop.back \in {"due", "dirty"}
  BY <1>2 DEF IInv, Carrying
<1>4. loop' \in LoopState /\ loop'.at = loop.back /\ loop'.back = loop.back
  BY <1>1, <1>2, LoopFields
<1>5. Carrying' /\ TimerInTime'  BY <1>3, <1>4 DEF Carrying, TimerInTime
<1>6. CASE SendJob
  <2>1. jobs' = Append(jobs, c) /\ UNCHANGED <<auths, calls, heap, dirty, wake, timer, lag, workers>>
    BY <1>3, <1>6 DEF SendJob
  <2>2. jobs' \in Seq(Creds)  BY <1>1, <2>1 DEF TypeOK
  <2>3. TypeOK'  BY <1>1, <1>4, <2>1, <2>2 DEF TypeOK, Known
  <2>. QED  BY <1>5, <2>3 DEF IInv
<1>7. CASE Upsert
  <2>1. heap' = IF loop.next = Never THEN Drop(heap, c) ELSE Put(heap, c, loop.next)
    BY <1>3, <1>7 DEF Upsert
  <2>2. loop.next \in Times  BY <1>7 DEF IInv, Carrying, Upsert
  <2>3. heap' \in Schedules
    <3>1. CASE loop.next = Never
      <4>1. Drop(heap, c) \in Schedules  BY <1>1, DropFacts
      <4>. QED  BY <2>1, <3>1, <4>1
    <3>2. CASE loop.next # Never
      <4>1. loop.next \in Nat  BY <2>2, <3>2 DEF Times
      <4>2. Put(heap, c, loop.next) \in Schedules  BY <1>1, <4>1, PutFacts
      <4>. QED  BY <2>1, <3>2, <4>2
    <3>. QED  BY <3>1, <3>2
  <2>4. UNCHANGED <<dirty, wake, timer, lag>> /\ LoopOnly  BY <1>7 DEF Upsert
  <2>. QED  BY <1>1, <1>4, <1>5, <2>3, <2>4, LoopTypes DEF TypeOK
<1>. QED  BY <1>6, <1>7

LEMMA ResetTimerTypes ==
  ASSUME IInv, ResetTimer
  PROVE  IInv'
<1>1. loop \in LoopState /\ TypeOK /\ heap \in Schedules  BY DEF IInv, TypeOK
<1>2. /\ loop' = Goto("idle", {}) /\ lag' = 0 /\ LoopOnly /\ UNCHANGED <<heap, dirty, wake>>
  BY DEF ResetTimer
<1>3. loop' \in LoopState /\ loop'.at = "idle" /\ loop'.todo = {}
  BY <1>1, <1>2, LoopFields DEF Places
<1>4. heap \in [DOMAIN heap -> Nat]  BY <1>1, AScheduleIsAFunction
<1>5. timer' \in Times /\ \A c \in DOMAIN heap : timer' \in 0..(heap[c] + MaxLag)
  <2>1. CASE DOMAIN heap = {}
    BY <2>1 DEF ResetTimer, Times
  <2>2. CASE DOMAIN heap # {}
    <3>. DEFINE next == Min(Range(heap))
    <3>1. Range(heap) \in SUBSET Nat /\ Range(heap) # {}  BY <1>4, <2>2 DEF Range
    <3>2. next \in Nat /\ \A n \in Range(heap) : next <= n  BY <3>1, MinOfNaturals
    <3>3. \A c \in DOMAIN heap : heap[c] \in Range(heap) /\ heap[c] \in Nat  BY <1>4 DEF Range
    <3>4. PICK late \in (IF next = 0 THEN 0 ELSE lag)..lag : timer' = next + late
      BY <2>2 DEF ResetTimer
    <3>5. lag \in 0..MaxLag  BY <1>1 DEF TypeOK
    <3>. HIDE DEF next
    <3>6. late \in 0..MaxLag  BY <3>4, <3>5, Constants
    <3>. QED  BY <3>2, <3>3, <3>4, <3>6, Constants DEF Times
  <2>. QED  BY <2>1, <2>2
<1>6. Carrying' /\ TimerInTime'
  BY <1>2, <1>3, <1>5 DEF Carrying, TimerInTime
<1>7. lag' \in 0..MaxLag  BY <1>2, Constants
<1>. QED  BY <1>1, <1>2, <1>3, <1>5, <1>6, <1>7, LoopTypes DEF TypeOK

LEMMA TypesStep == IInv /\ [Next]_vars => IInv'
<1>. SUFFICES ASSUME IInv, [Next]_vars  PROVE IInv'
  OBVIOUS
<1>1. CASE LoopWorks
  BY <1>1, RebuildTypes, WaitingTypes, TurnTypes, MarkPendingTypes, EndOfTurnTypes, ResetTimerTypes
     DEF LoopWorks
<1>2. CASE UNCHANGED vars
  BY <1>2 DEF vars, IInv, TypeOK, Carrying, TimerInTime, Known
<1>. QED
  BY <1>1, <1>2, TickTypes, ManagerTypes, NotifyTypes, WaitingTypes, WorkerTypes DEF Next

THEOREM TypesHold == Spec => []IInv
BY Initially, TypesStep, PTL DEF Spec

-----------------------------------------------------------------------------
(* The wake-up.                                                              *)

\* Steps that neither mark an id nor take a token.
LEMMA WakeKept ==
  ASSUME Woke, dirty' = dirty \/ dirty' = {}, wake => wake',
         \A call \in calls : call[1] = "wake" => call \in calls', UNCHANGED workers
  PROVE  Woke'
BY DEF Woke

LEMMA WorkerKeepsWake ==
  ASSUME IInv, Woke, NEW w \in Workers, Worker(w)
  PROVE  Woke'
<1>1. workers \in [Workers -> {Idle} \cup AtWork]  BY DEF IInv, TypeOK
<1>2. calls' = calls
  BY DEF Worker, WorkerOnly, TakeJob, EndRefresh, WorkerMarks, WorkerWakes
<1>3. CASE TakeJob(w)
  <2>1. workers[w].at # "wake" /\ UNCHANGED <<dirty, wake>>  BY <1>3 DEF TakeJob, Idle
  <2>2. \A v \in Workers : v # w => workers'[v] = workers[v]  BY <1>1, <1>3 DEF TakeJob
  <2>. QED  BY <1>2, <2>1, <2>2 DEF Woke
<1>4. CASE EndRefresh(w)
  <2>1. workers[w].at # "wake" /\ UNCHANGED <<dirty, wake>>  BY <1>4 DEF EndRefresh
  <2>2. \A v \in Workers : v # w => workers'[v] = workers[v]  BY <1>1, <1>4 DEF EndRefresh
  <2>. QED  BY <1>2, <2>1, <2>2 DEF Woke
<1>5. CASE WorkerMarks(w)
  <2>1. workers[w] \in AtWork
    BY <1>1, <1>5 DEF WorkerMarks, Idle
  <2>2. workers'[w].at = "wake"  BY <1>1, <1>5, <2>1 DEF WorkerMarks, AtWork
  <2>. QED  BY <2>2 DEF Woke
<1>6. CASE WorkerWakes(w)
  BY <1>6 DEF WorkerWakes, Woke
<1>. QED  BY <1>3, <1>4, <1>5, <1>6 DEF Worker

LEMMA NotifyKeepsWake ==
  ASSUME Woke, NEW call \in calls, Notify(call)
  PROVE  Woke'
<1>1. workers' = workers  BY DEF Notify
<1>2. CASE call[1] = "mark"
  <2>1. <<"wake", call[2]>> \in calls'  BY <1>2 DEF Notify
  <2>. QED  BY <2>1 DEF Woke
<1>3. CASE call[1] = "wake"
  <2>1. wake'  BY <1>3 DEF Notify
  <2>. QED  BY <2>1 DEF Woke
<1>4. CASE call[1] \notin {"mark", "wake"}
  <2>1. dirty' = dirty /\ wake' = wake /\ calls' = calls \ {call}  BY <1>4 DEF Notify
  <2>. QED  BY <1>1, <1>4, <2>1, WakeKept
<1>. QED  BY <1>2, <1>3, <1>4

LEMMA LoopKeepsWake ==
  ASSUME Woke, LoopWorks \/ TimerFires
  PROVE  Woke'
<1>1. CASE Woken  BY <1>1 DEF Woken, Woke
<1>2. CASE MarkPending
  BY <1>2, WakeKept DEF MarkPending, Woke
<1>3. CASE SendJob  BY <1>3, WakeKept DEF SendJob
<1>4. CASE RebuildRead \/ RebuildReplace \/ DueDone \/ Reread \/ Upsert \/ ResetTimer \/ TimerFires
  <2>1. (dirty' = dirty \/ dirty' = {}) /\ wake' = wake /\ LoopOnly
    BY <1>4 DEF RebuildRead, RebuildReplace, DueDone, Reread, Upsert, ResetTimer, TimerFires
  <2>. QED  BY <2>1, WakeKept DEF LoopOnly
<1>5. CASE \E c \in Creds : HandleDue(c) \/ ApplyDirty(c)
  <2>1. dirty' = dirty /\ wake' = wake /\ LoopOnly  BY <1>5 DEF HandleDue, ApplyDirty
  <2>. QED  BY <2>1, WakeKept DEF LoopOnly
<1>. QED  BY <1>1, <1>2, <1>3, <1>4, <1>5 DEF LoopWorks

LEMMA WakeStep == IInv /\ Woke /\ [Next]_vars => Woke'
<1>. SUFFICES ASSUME IInv, Woke, [Next]_vars  PROVE Woke'
  OBVIOUS
<1>1. CASE Tick \/ UNCHANGED vars
  <2>1. dirty' = dirty /\ wake' = wake /\ workers' = workers /\ calls' = calls
    BY <1>1 DEF Tick, vars
  <2>. QED  BY <2>1, WakeKept
<1>2. CASE \E c \in Changing : Register(c) \/ Remove(c) \/ Update(c) \/ MarkResult(c)
  <2>1. dirty' = dirty /\ wake' = wake /\ workers' = workers /\ calls \subseteq calls'
    BY <1>2 DEF Register, Remove, Update, MarkResult, Change
  <2>. QED  BY <2>1, WakeKept
<1>. QED  BY <1>1, <1>2, WorkerKeepsWake, NotifyKeepsWake, LoopKeepsWake DEF Next

-----------------------------------------------------------------------------
(* The credentials the loop has read, and those it is still to read.         *)

LEMMA TickCovers ==
  ASSUME Tracked, Tick
  PROVE  Covered' /\ Gone'
<1>1. Known' = Known /\ calls' = calls  BY DEF Tick, Known
<1>2. Gone'  BY <1>1 DEF Tracked, Gone
<1>3. ASSUME NEW d \in Known, NextCheck(d)' # Never
      PROVE  ToBeRead(d)' \/ ReadInTime(d)'
  <2>1. loop.at \in {"idle", "send"} /\ UNCHANGED <<calls, dirty, loop, workers>>  BY DEF Tick
  <2>2. heap' = [c \in DOMAIN heap |-> AtLeast0(heap[c] - 1)]  BY DEF Tick
  <2>3. auths[d] \in Auth  BY DEF Tracked, IInv, TypeOK
  <2>4. auths'[d] = [auths[d] EXCEPT !.due = AtLeast0(@ - 1), !.hold = AtLeast0(@ - 1)]
    BY DEF Tick
  <2>5. /\ auths'[d].due = AtLeast0(auths[d].due - 1)
        /\ auths'[d].hold = AtLeast0(auths[d].hold - 1)
        /\ auths'[d].denied = auths[d].denied
    BY <2>3, <2>4 DEF Auth
  <2>6. NextCheck(d) # Never /\ NextCheck(d)' >= AtLeast0(NextCheck(d) - 1)
    BY <1>1, <1>3, <2>3, <2>5 DEF NextCheck, AtLeast0, Auth, Never
  <2>7. NextCheck(d) \in Nat /\ NextCheck(d)' \in Int
    BY <1>1, <2>3, <2>5, <2>6, <1>3 DEF NextCheck, AtLeast0, Auth, Never
  <2>8. CASE ToBeRead(d)  BY <2>1, <2>8 DEF ToBeRead
  <2>9. CASE ReadInTime(d)
    <3>1. d \in DOMAIN heap /\ heap[d] <= NextCheck(d)  BY <2>1, <2>9 DEF ReadInTime
    <3>2. heap[d] \in Nat  BY <3>1, AScheduleIsAFunction DEF Tracked, IInv, TypeOK
    <3>3. d \in DOMAIN heap' /\ heap'[d] <= NextCheck(d)'
      BY <2>2, <2>6, <2>7, <3>1, <3>2 DEF AtLeast0
    <3>. QED  BY <2>1, <3>3 DEF ReadInTime
  <2>. QED  BY <2>6, <2>8, <2>9 DEF Tracked, Covered
<1>. QED  BY <1>1, <1>2, <1>3 DEF Covered

\* A credential that no Manager call, worker or loop step has changed.
LEMMA StaysCovered ==
  ASSUME Covered, NEW d \in Known, d \in Known', auths'[d] = auths[d], NextCheck(d)' # Never
  PROVE  NextCheck(d)' = NextCheck(d) /\ (ToBeRead(d) \/ ReadInTime(d))
<1>1. NextCheck(d)' = NextCheck(d)  BY SameCheck
<1>. QED  BY <1>1 DEF Covered

LEMMA ManagerCovers ==
  ASSUME Tracked, Results \subseteq {"401"},
         NEW c \in Changing, Register(c) \/ Remove(c) \/ Update(c) \/ MarkResult(c)
  PROVE  Covered' /\ Gone'
<1>1. UNCHANGED <<heap, dirty, loop, workers>> /\ calls \subseteq calls'
  BY DEF Register, Remove, Update, MarkResult, Change
<1>2. \A d \in Known' : d # c => d \in Known /\ auths'[d] = auths[d]
  BY DEF Register, Remove, Update, MarkResult, Change, Put, Drop, Restrict, Known
<1>3. ASSUME NEW d \in Known', d # c, NextCheck(d)' # Never
      PROVE  ToBeRead(d)' \/ ReadInTime(d)'
  <2>1. NextCheck(d)' = NextCheck(d) /\ (ToBeRead(d) \/ ReadInTime(d))
    BY <1>2, <1>3, StaysCovered DEF Tracked
  <2>. QED  BY <1>1, <2>1 DEF ToBeRead, ReadInTime
<1>4. ASSUME c \in Known'
      PROVE  <<"mark", c>> \in calls' \/ NextCheck(c)' = Never
  <2>1. CASE Remove(c)
    <3>1. auths' = Drop(auths, c)  BY <2>1 DEF Remove, Change
    <3>. QED  BY <1>4, <3>1 DEF Drop, Restrict, Known
  <2>2. CASE Register(c) \/ Update(c)  BY <2>2 DEF Register, Update, Change
  <2>3. CASE MarkResult(c)
    <3>1. auths' = [auths EXCEPT ![c].denied = TRUE]
      <4>1. PICK r \in Results : auths' = [auths EXCEPT ![c].denied = (r = "401")]
        BY <2>3 DEF MarkResult
      <4>2. r = "401"  OBVIOUS
      <4>. QED  BY <4>1, <4>2
    <3>2. c \in Known /\ auths[c] \in Auth  BY <2>3 DEF MarkResult, Tracked, IInv, TypeOK
    <3>3. auths'[c].denied = TRUE  BY <3>1, <3>2 DEF Auth, Known
    <3>. QED  BY <1>4, <3>3 DEF NextCheck
  <2>. QED  BY <2>1, <2>2, <2>3
<1>5. Gone'
  <2>1. CASE Remove(c)
    <3>1. auths' = Drop(auths, c) /\ calls' = calls \cup {<<"unschedule", c>>}
      BY <2>1 DEF Remove, Change
    <3>2. c \notin Known'  BY <3>1 DEF Drop, Restrict, Known
    <3>. QED  BY <1>2, <3>1, <3>2 DEF Tracked, Gone
  <2>2. CASE Register(c) \/ Update(c)
    <3>1. calls' = calls \cup {<<"mark", c>>} /\ ~Busy(c)  BY <2>2 DEF Register, Update, Change
    <3>2. <<"unschedule", c>> \notin calls  BY <3>1 DEF Busy
    <3>. QED  BY <1>2, <3>1, <3>2 DEF Tracked, Gone
  <2>3. CASE MarkResult(c)
    <3>1. calls' = calls /\ Known' = Known  BY <2>3 DEF MarkResult, Known
    <3>. QED  BY <3>1 DEF Tracked, Gone
  <2>. QED  BY <2>1, <2>2, <2>3
<1>6. Covered'
  <2>. SUFFICES ASSUME NEW d \in Known', NextCheck(d)' # Never
                PROVE  ToBeRead(d)' \/ ReadInTime(d)'
    BY DEF Covered
  <2>1. CASE d = c  BY <1>4, <2>1 DEF ToBeRead
  <2>2. CASE d # c  BY <1>3, <2>2
  <2>. QED  BY <2>1, <2>2
<1>. QED  BY <1>5, <1>6

LEMMA NotifyCovers ==
  ASSUME Tracked, NEW call \in calls, Notify(call)
  PROVE  Covered' /\ Gone'
<1>1. UNCHANGED <<auths, loop, workers>>  BY DEF Notify
<1>2. Known' = Known  BY <1>1 DEF Known
<1>3. PICK n, c : call = <<n, c>> /\ n \in {"mark", "wake", "unschedule"}
  BY DEF Tracked, IInv, TypeOK
<1>4. Gone'
  <2>1. calls' \subseteq calls \cup {<<"wake", c>>}  BY <1>3 DEF Notify
  <2>. QED  BY <1>2, <2>1 DEF Tracked, Gone
<1>5. ASSUME NEW d \in Known, NextCheck(d)' # Never
      PROVE  ToBeRead(d)' \/ ReadInTime(d)'
  <2>1. NextCheck(d)' = NextCheck(d) /\ (ToBeRead(d) \/ ReadInTime(d))
    BY <1>1, <1>2, <1>5, StaysCovered DEF Tracked
  <2>2. CASE n = "mark"
    <3>1. dirty' = dirty \cup {c} /\ calls' = (calls \ {<<"mark", c>>}) \cup {<<"wake", c>>} /\ heap' = heap
      BY <1>3, <2>2 DEF Notify
    <3>. QED  BY <1>1, <2>1, <3>1 DEF ToBeRead, ReadInTime
  <2>3. CASE n = "wake"
    <3>1. dirty' = dirty /\ calls' = calls \ {<<"wake", c>>} /\ heap' = heap
      BY <1>3, <2>3 DEF Notify
    <3>. QED  BY <1>1, <2>1, <3>1 DEF ToBeRead, ReadInTime
  <2>4. CASE n = "unschedule"
    <3>1. dirty' = dirty /\ calls' = calls \ {<<"unschedule", c>>} /\ heap' = Drop(heap, c)
      BY <1>3, <2>4 DEF Notify
    <3>2. d # c  BY <1>3, <2>4 DEF Tracked, Gone
    <3>3. heap \in Schedules  BY DEF Tracked, IInv, TypeOK
    <3>4. d \in DOMAIN heap => d \in DOMAIN heap' /\ heap'[d] = heap[d]
      BY <3>1, <3>2, <3>3, DropFacts
    <3>. QED  BY <1>1, <2>1, <3>1, <3>4 DEF ToBeRead, ReadInTime
  <2>. QED  BY <1>3, <2>2, <2>3, <2>4
<1>. QED  BY <1>2, <1>4, <1>5 DEF Covered

LEMMA WorkerCovers ==
  ASSUME Tracked, NEW w \in Workers, Worker(w)
  PROVE  Covered' /\ Gone'
<1>1. UNCHANGED <<heap, loop, calls>>
  BY DEF Worker, WorkerOnly, TakeJob, EndRefresh, WorkerMarks, WorkerWakes
<1>2. workers \in [Workers -> {Idle} \cup AtWork]  BY DEF Tracked, IInv, TypeOK
<1>3. Known' = Known
  BY DEF Worker, WorkerOnly, TakeJob, EndRefresh, WorkerMarks, WorkerWakes, Known
<1>4. \A v \in Workers : v # w => workers'[v] = workers[v]
  BY <1>2 DEF Worker, TakeJob, EndRefresh, WorkerMarks, WorkerWakes
<1>5. ASSUME NEW d \in Known, auths'[d] = auths[d], dirty \subseteq dirty', NextCheck(d)' # Never,
             workers[w].at \in {"refresh", "mark"} /\ workers[w].cred = d =>
               \/ d \in dirty'
               \/ workers'[w].at \in {"refresh", "mark"} /\ workers'[w].cred = d
      PROVE  ToBeRead(d)' \/ ReadInTime(d)'
  <2>1. NextCheck(d)' = NextCheck(d) /\ (ToBeRead(d) \/ ReadInTime(d))
    BY <1>3, <1>5, StaysCovered DEF Tracked
  <2>2. CASE ToBeRead(d)  BY <1>1, <1>4, <1>5, <2>2 DEF ToBeRead
  <2>3. CASE ReadInTime(d)  BY <1>1, <2>1, <2>3 DEF ReadInTime
  <2>. QED  BY <2>1, <2>2, <2>3
<1>6. CASE TakeJob(w)
  <2>1. workers[w].at = "idle" /\ UNCHANGED <<auths, dirty>>  BY <1>6 DEF TakeJob, Idle
  <2>. QED  BY <1>1, <1>3, <1>5, <2>1 DEF Covered, Tracked, Gone
<1>7. CASE EndRefresh(w)
  <2>. DEFINE c == workers[w].cred
  <2>1. workers[w] \in AtWork /\ dirty' = dirty  BY <1>2, <1>7 DEF EndRefresh, Idle
  <2>2. workers'[w].at = "mark" /\ workers'[w].cred = c
    BY <1>2, <1>7, <2>1 DEF EndRefresh, AtWork
  <2>3. \A d \in Known : d # c => auths'[d] = auths[d]
    <3>1. auths' = auths \/ \E a \in Ends(auths[c]) : auths' = [auths EXCEPT ![c] = a]
      BY <1>7 DEF EndRefresh
    <3>. QED  BY <3>1 DEF Known
  <2>4. c \in Known' => ToBeRead(c)'  BY <2>2 DEF ToBeRead
  <2>5. Covered'
    <3>. SUFFICES ASSUME NEW d \in Known, NextCheck(d)' # Never
                  PROVE  ToBeRead(d)' \/ ReadInTime(d)'
      BY <1>3 DEF Covered
    <3>1. CASE d = c  BY <2>2, <3>1 DEF ToBeRead
    <3>2. CASE d # c  BY <1>5, <2>1, <2>3, <3>2
    <3>. QED  BY <3>1, <3>2
  <2>. QED  BY <1>1, <1>3, <2>5 DEF Tracked, Gone
<1>8. CASE WorkerMarks(w)
  <2>1. UNCHANGED auths /\ dirty' = dirty \cup {workers[w].cred}
    BY <1>8 DEF WorkerMarks
  <2>. QED  BY <1>1, <1>3, <1>5, <2>1 DEF Covered, Tracked, Gone
<1>9. CASE WorkerWakes(w)
  <2>1. workers[w].at = "wake" /\ UNCHANGED <<auths, dirty>>  BY <1>9 DEF WorkerWakes
  <2>. QED  BY <1>1, <1>3, <1>5, <2>1 DEF Covered, Tracked, Gone
<1>. QED  BY <1>6, <1>7, <1>8, <1>9 DEF Worker

\* What the loop's steps have in common.
LEMMA LoopCovers ==
  ASSUME Tracked, LoopOnly,
         ASSUME NEW d \in Known, NextCheck(d)' = NextCheck(d), NextCheck(d) # Never,
                ToBeRead(d) \/ ReadInTime(d)
         PROVE  ToBeRead(d)' \/ ReadInTime(d)'
  PROVE  Covered' /\ Gone'
<1>1. Known' = Known /\ \A d : NextCheck(d)' = NextCheck(d)
  BY DEF LoopOnly, Known, NextCheck
<1>. QED  BY <1>1 DEF Tracked, Covered, Gone, LoopOnly

LEMMA RebuildCovers ==
  ASSUME Tracked, RebuildRead \/ RebuildReplace
  PROVE  Covered' /\ Gone'
<1>1. LoopOnly /\ dirty' = dirty  BY DEF RebuildRead, RebuildReplace
<1>2. ASSUME NEW d \in Known, NextCheck(d)' = NextCheck(d), NextCheck(d) # Never,
             ToBeRead(d) \/ ReadInTime(d)
      PROVE  ToBeRead(d)' \/ ReadInTime(d)'
  <2>1. CASE RebuildRead
    <3>. DEFINE S == {c \in Known : NextCheck(c) # Never}
                read == [c \in S |-> NextCheck(c)]
    <3>1. loop' = [Goto("replace", S) EXCEPT !.next = read]  BY <2>1 DEF RebuildRead
    <3>2. loop'.at = "replace" /\ loop'.next = read
      <4>. HIDE DEF read, S
      <4>. QED  BY <3>1 DEF Goto
    <3>3. d \in DOMAIN read /\ read[d] = NextCheck(d)  BY <1>2
    <3>4. NextCheck(d) \in Nat  BY <1>2, CheckTimes DEF Tracked, IInv
    <3>. QED  BY <1>2, <3>2, <3>3, <3>4 DEF ReadInTime
  <2>2. CASE RebuildReplace
    <3>1. loop.at = "replace" /\ loop'.at = "dirty" /\ heap' = loop.next
      BY <2>2 DEF RebuildReplace, Goto
    <3>2. CASE ToBeRead(d)  BY <1>1, <3>1, <3>2 DEF ToBeRead, LoopOnly
    <3>3. CASE ReadInTime(d)  BY <1>2, <3>1, <3>3 DEF ReadInTime
    <3>. QED  BY <1>2, <3>2, <3>3
  <2>. QED  BY <2>1, <2>2
<1>. QED  BY <1>1, <1>2, LoopCovers

LEMMA WaitingCovers ==
  ASSUME Tracked, Woken \/ TimerFires \/ DueDone \/ ResetTimer
  PROVE  Covered' /\ Gone'
<1>1. LoopOnly  BY DEF Woken, TimerFires, DueDone, ResetTimer
<1>2. ASSUME NEW d \in Known, NextCheck(d)' = NextCheck(d), NextCheck(d) # Never,
             ToBeRead(d) \/ ReadInTime(d)
      PROVE  ToBeRead(d)' \/ ReadInTime(d)'
  <2>1. CASE TimerFires
    <3>. DEFINE due == {c \in DOMAIN heap : heap[c] = 0}
    <3>1. /\ heap' = Restrict(heap, DOMAIN heap \ due) /\ loop' = Goto("due", due)
          /\ loop.at = "idle" /\ dirty' = dirty
      BY <2>1 DEF TimerFires
    <3>. HIDE DEF due
    <3>2. loop'.at = "due" /\ loop'.todo = due  BY <3>1 DEF Goto
    <3>3. d \in DOMAIN heap /\ d \notin due => d \in DOMAIN heap' /\ heap'[d] = heap[d]
      BY <3>1 DEF Restrict
    <3>4. CASE d \in due  BY <3>2, <3>4 DEF ToBeRead
    <3>5. CASE d \notin due /\ ReadInTime(d)
      BY <1>2, <3>1, <3>2, <3>3, <3>5 DEF ReadInTime
    <3>6. CASE ToBeRead(d)
      <4>1. loop.todo = {}  BY <3>1 DEF Tracked, IInv, Carrying
      <4>. QED  BY <1>1, <3>1, <3>2, <3>6, <4>1 DEF ToBeRead, LoopOnly
    <3>. QED  BY <1>2, <3>4, <3>5, <3>6
  <2>2. CASE Woken \/ DueDone
    <3>1. /\ loop' = Goto("dirty", dirty) /\ dirty' = {} /\ heap' = heap
          /\ loop.at \in {"idle", "due"} /\ loop.todo = {}
      BY <2>2 DEF Woken, DueDone, Tracked, IInv, Carrying
    <3>2. loop'.at = "dirty" /\ loop'.todo = dirty  BY <3>1 DEF Goto
    <3>3. CASE ToBeRead(d)  BY <1>1, <3>1, <3>2, <3>3 DEF ToBeRead, LoopOnly
    <3>4. CASE ReadInTime(d)  BY <1>2, <3>1, <3>2, <3>4 DEF ReadInTime
    <3>. QED  BY <1>2, <3>3, <3>4
  <2>3. CASE ResetTimer
    <3>1. /\ loop' = Goto("idle", {}) /\ heap' = heap /\ dirty' = dirty
          /\ loop.at = "dirty" /\ loop.todo = {}
      BY <2>3 DEF ResetTimer
    <3>2. loop'.at = "idle"  BY <3>1 DEF Goto
    <3>3. CASE ToBeRead(d)  BY <1>1, <3>1, <3>2, <3>3 DEF ToBeRead, LoopOnly
    <3>4. CASE ReadInTime(d)  BY <1>2, <3>1, <3>2, <3>4 DEF ReadInTime
    <3>. QED  BY <1>2, <3>3, <3>4
  <2>. QED  BY <2>1, <2>2, <2>3
<1>. QED  BY <1>1, <1>2, LoopCovers

\* A credential's turn: its id leaves the loop's list with a read, or for a mark.
LEMMA TurnCovers ==
  ASSUME Tracked, (\E c \in Creds : HandleDue(c) \/ ApplyDirty(c)) \/ Reread
  PROVE  Covered' /\ Gone'
<1>1. LoopOnly /\ dirty' = dirty /\ heap' = heap
  BY DEF HandleDue, ApplyDirty, Reread
<1>2. loop \in LoopState  BY DEF Tracked, IInv, TypeOK
<1>3. loop.at = "reread" => \E c \in Creds : loop.cred = {c}
  BY DEF Tracked, IInv, Carrying
<1>4. PICK c \in Creds :
        /\ loop.at \in {"due", "dirty"} \/ (loop.at = "reread" /\ loop.cred = {c})
        /\ \/ loop' = Carry("upsert", c, NextCheck(c))
           \/ loop.at = "due" /\ loop' = Carry("mark", c, Never)
           \/ loop.at = "due" /\ c \notin Known /\ loop' = [loop EXCEPT !.todo = @ \ {c}]
  BY <1>3 DEF HandleDue, ApplyDirty, Reread
<1>5. ASSUME NEW d \in Known, NextCheck(d)' = NextCheck(d), NextCheck(d) # Never,
             ToBeRead(d) \/ ReadInTime(d)
      PROVE  ToBeRead(d)' \/ ReadInTime(d)'
  <2>1. NextCheck(d) \in Nat  BY <1>5, CheckTimes DEF Tracked, IInv
  <2>2. CASE loop' = Carry("upsert", c, NextCheck(c))
    <3>1. /\ loop'.at = "upsert" /\ loop'.todo = loop.todo \ {c} /\ loop'.cred = {c}
          /\ loop'.next = NextCheck(c)
      BY <1>2, <2>2, LoopFields
    <3>2. CASE d = c  BY <1>5, <2>1, <3>1, <3>2 DEF ReadInTime
    <3>3. CASE d # c /\ ToBeRead(d)  BY <1>1, <1>4, <3>1, <3>3 DEF ToBeRead, LoopOnly
    <3>4. CASE d # c /\ ReadInTime(d)  BY <1>1, <1>4, <1>5, <3>1, <3>4 DEF ReadInTime
    <3>. QED  BY <1>5, <3>2, <3>3, <3>4
  <2>3. CASE loop.at = "due" /\ loop' = Carry("mark", c, Never)
    <3>1. loop'.at = "mark" /\ loop'.todo = loop.todo \ {c} /\ loop'.cred = {c}
      BY <1>2, <2>3, LoopFields
    <3>2. CASE d = c  BY <3>1, <3>2 DEF ToBeRead
    <3>3. CASE d # c /\ ToBeRead(d)  BY <1>1, <2>3, <3>1, <3>3 DEF ToBeRead, LoopOnly
    <3>4. CASE d # c /\ ReadInTime(d)  BY <1>1, <1>5, <2>3, <3>1, <3>4 DEF ReadInTime
    <3>. QED  BY <1>5, <3>2, <3>3, <3>4
  <2>4. CASE loop.at = "due" /\ c \notin Known /\ loop' = [loop EXCEPT !.todo = @ \ {c}]
    <3>1. d # c /\ loop'.at = "due" /\ loop'.todo = loop.todo \ {c}
      BY <1>2, <2>4 DEF LoopState
    <3>2. CASE ToBeRead(d)  BY <1>1, <2>4, <3>1, <3>2 DEF ToBeRead, LoopOnly
    <3>3. CASE ReadInTime(d)  BY <1>1, <1>5, <2>4, <3>1, <3>3 DEF ReadInTime
    <3>. QED  BY <1>5, <3>2, <3>3
  <2>. QED  BY <1>4, <2>2, <2>3, <2>4
<1>. QED  BY <1>1, <1>5, LoopCovers

\* markRefreshPending holds the credential back and has it read again.
LEMMA MarkPendingCovers ==
  ASSUME Tracked, MarkPending
  PROVE  Covered' /\ Gone'
<1>1. loop \in LoopState /\ auths \in [Known -> Auth]  BY DEF Tracked, IInv, TypeOK
<1>2. loop.at = "mark" /\ UNCHANGED <<calls, heap, workers>>  BY DEF MarkPending
<1>3. PICK c \in Creds : loop.cred = {c}  BY <1>2 DEF Tracked, IInv, Carrying
<1>4. \/ /\ auths' = [auths EXCEPT ![c].hold = AtLeast0(Pending - lag)]
         /\ dirty' = dirty \cup {c} /\ loop' = [loop EXCEPT !.at = "send"]
      \/ loop' = [loop EXCEPT !.at = "reread"] /\ UNCHANGED <<auths, dirty>>
  BY <1>3 DEF MarkPending
<1>5. /\ loop'.todo = loop.todo /\ loop'.cred = {c}
      /\ loop'.at = "reread" \/ (loop'.at = "send" /\ c \in dirty')
  BY <1>1, <1>3, <1>4 DEF LoopState
<1>6. Known' = Known /\ \A d \in Known : d # c => auths'[d] = auths[d]
  BY <1>1, <1>4 DEF Known
<1>7. ASSUME NEW d \in Known, NextCheck(d)' # Never
      PROVE  ToBeRead(d)' \/ ReadInTime(d)'
  <2>1. CASE d = c  BY <1>5, <2>1 DEF ToBeRead
  <2>2. CASE d # c
    <3>1. NextCheck(d)' = NextCheck(d) /\ (ToBeRead(d) \/ ReadInTime(d))
      BY <1>6, <1>7, <2>2, StaysCovered DEF Tracked
    <3>2. CASE ToBeRead(d)
      BY <1>2, <1>3, <1>4, <1>5, <2>2, <3>2 DEF ToBeRead
    <3>3. CASE ReadInTime(d)  BY <1>2, <1>5, <3>1, <3>3 DEF ReadInTime
    <3>. QED  BY <3>1, <3>2, <3>3
  <2>. QED  BY <2>1, <2>2
<1>. QED  BY <1>2, <1>6, <1>7 DEF Covered, Tracked, Gone

LEMMA EndOfTurnCovers ==
  ASSUME Tracked, SendJob \/ Upsert
  PROVE  Covered' /\ Gone'
<1>1. loop \in LoopState /\ heap \in Schedules  BY DEF Tracked, IInv, TypeOK
<1>2. PICK c \in Creds : loop.cred = {c} /\ loop.back \in {"due", "dirty"}
  BY DEF Tracked, IInv, Carrying, SendJob, Upsert
<1>3. /\ loop.at \in {"send", "upsert"} /\ dirty' = dirty /\ UNCHANGED <<auths, calls, workers>>
      /\ loop'.at = loop.back /\ loop'.todo = loop.todo /\ loop'.cred = {}
  BY <1>1, LoopFields DEF SendJob, Upsert, LoopOnly
<1>4. Known' = Known /\ \A d : NextCheck(d)' = NextCheck(d)  BY <1>3 DEF Known, NextCheck
<1>5. ASSUME NEW d \in Known, NextCheck(d) # Never
      PROVE  ToBeRead(d)' \/ ReadInTime(d)'
  <2>1. ToBeRead(d) \/ ReadInTime(d)  BY <1>5 DEF Tracked, Covered
  <2>2. CASE ToBeRead(d)  BY <1>2, <1>3, <2>2 DEF ToBeRead
  <2>3. CASE SendJob /\ ReadInTime(d)
    <3>1. heap' = heap /\ loop.at = "send"  BY <2>3 DEF SendJob
    <3>. QED  BY <1>2, <1>3, <1>4, <2>3, <3>1 DEF ReadInTime
  <2>4. CASE Upsert /\ ReadInTime(d)
    <3>1. /\ heap' = IF loop.next = Never THEN Drop(heap, c) ELSE Put(heap, c, loop.next)
          /\ loop.at = "upsert"
      BY <1>2, <2>4 DEF Upsert
    <3>2. loop.next \in Times  BY <3>1 DEF Tracked, IInv, Carrying
    <3>3. d \in DOMAIN heap' /\ heap'[d] <= NextCheck(d)
      <4>1. CASE d = c
        <5>1. loop.next # Never /\ loop.next <= NextCheck(d)
          BY <1>2, <2>4, <3>1, <4>1 DEF ReadInTime
        <5>2. loop.next \in Nat  BY <3>2, <5>1 DEF Times
        <5>3. c \in DOMAIN heap' /\ heap'[c] = loop.next
          <6>1. heap' = Put(heap, c, loop.next)  BY <3>1, <5>1
          <6>2. /\ DOMAIN Put(heap, c, loop.next) = DOMAIN heap \cup {c}
                /\ Put(heap, c, loop.next)[c] = loop.next
            BY <1>1, <5>2, PutFacts, Zenon
          <6>. QED  BY <6>1, <6>2
        <5>. QED  BY <4>1, <5>1, <5>3
      <4>2. CASE d # c
        <5>1. d \in DOMAIN heap /\ heap[d] <= NextCheck(d)
          BY <1>2, <2>4, <3>1, <4>2 DEF ReadInTime
        <5>2. d \in DOMAIN heap' /\ heap'[d] = heap[d]
          <6>1. CASE loop.next = Never
            BY <1>1, <3>1, <4>2, <5>1, <6>1, DropFacts
          <6>2. CASE loop.next # Never
            <7>1. loop.next \in Nat  BY <3>2, <6>2 DEF Times
            <7>2. heap' = Put(heap, c, loop.next)  BY <3>1, <6>2
            <7>3. /\ DOMAIN Put(heap, c, loop.next) = DOMAIN heap \cup {c}
                  /\ \A e \in DOMAIN heap : e # c => Put(heap, c, loop.next)[e] = heap[e]
              BY <1>1, <7>1, PutFacts, Zenon
            <7>. QED  BY <4>2, <5>1, <7>2, <7>3
          <6>. QED  BY <6>1, <6>2
        <5>. QED  BY <5>1, <5>2
      <4>. QED  BY <4>1, <4>2
    <3>. QED  BY <1>2, <1>3, <1>4, <3>3 DEF ReadInTime
  <2>. QED  BY <2>1, <2>2, <2>3, <2>4
<1>. QED  BY <1>3, <1>4, <1>5 DEF Covered, Tracked, Gone

LEMMA CoveredStep ==
  ASSUME Results \subseteq {"401"}
  PROVE  Tracked /\ [Next]_vars => Covered' /\ Gone'
<1>. SUFFICES ASSUME Tracked, [Next]_vars  PROVE Covered' /\ Gone'
  OBVIOUS
<1>1. CASE LoopWorks
  BY <1>1, RebuildCovers, WaitingCovers, TurnCovers, MarkPendingCovers, EndOfTurnCovers
     DEF LoopWorks
<1>2. CASE UNCHANGED vars
  BY <1>2 DEF vars, Tracked, Covered, Gone, ToBeRead, ReadInTime, NextCheck, Known
<1>. QED
  BY <1>1, <1>2, TickCovers, ManagerCovers, NotifyCovers, WaitingCovers, WorkerCovers DEF Next

-----------------------------------------------------------------------------
\* No dirty id waits without a wake-up, whatever marks race with the loop and its
\* workers: queueReschedule offers the token after it has marked the id, and the loop
\* takes the dirty set after the token.
THEOREM WakeupsAreKept == Spec => []NoLostWakeup
<1>1. Woke /\ IInv => NoLostWakeup
  <2>1. Idle.at = "idle"  BY DEF Idle
  <2>. QED  BY <2>1 DEF Woke, NoLostWakeup
<1>. QED  BY <1>1, Initially, TypesStep, WakeStep, PTL DEF Spec

\* A credential that is to be checked again is in the heap in time once nobody is about
\* to tell the loop of it, as long as no result of a request clears a refused
\* credential's error behind the loop's back.
THEOREM ChecksAreScheduled ==
  ASSUME Results \subseteq {"401"}
  PROVE  Spec => []ScheduledInTime
<1>1. Tracked /\ [Next]_vars => Tracked'
  BY TypesStep, CoveredStep DEF Tracked
<1>2. Tracked => ScheduledInTime
  <2>. SUFFICES ASSUME Tracked, NEW c \in Known, Settled(c), NextCheck(c) # Never
                PROVE  c \in DOMAIN heap /\ heap[c] <= NextCheck(c)
    BY DEF ScheduledInTime
  <2>1. <<"mark", c>> \notin calls  BY DEF Settled, Busy
  <2>2. ~ToBeRead(c)  BY <2>1 DEF ToBeRead, Settled, Idle
  <2>3. ReadInTime(c)  BY <2>2 DEF Tracked, Covered
  <2>. QED  BY <2>3 DEF ReadInTime, Settled
<1>3. Init => Tracked  BY Initially DEF Tracked
<1>. QED  BY <1>1, <1>2, <1>3, PTL DEF Spec

\* While the loop waits, its timer is set for the first check time of the heap, late by
\* no more than the loop's clock was behind when it set it.
THEOREM TimerIsSet == Spec => []TimerInTime
<1>1. IInv => TimerInTime  BY DEF IInv
<1>. QED  BY <1>1, TypesHold, PTL

-----------------------------------------------------------------------------
(* RelaySession: channels, and what is on its way.                           *)

Message  == {"part", "end", "error"}
Channel  == [msgs: Seq(Message), closed: BOOLEAN]
Reading  == [at: {"load", "push", "take"}, id: Requests, msg: Message]
Unsent   == {"new", "store", "load", "check", "write", "undo", "panicked"}
Stored   == {"load", "check", "write", "undo"}

RelayTypeOK ==
  /\ session \in {"open", "cleaning", "emptied", "gone"}
  /\ pending \subseteq Requests /\ swept \subseteq Requests /\ visited \subseteq Requests
  /\ chan \in [Requests -> Channel]
  /\ step \in [Requests -> Unsent \cup {"wait"} \cup Ended]
  /\ canceled \subseteq Requests /\ watching \subseteq Requests
  /\ reader \in {Quiet} \cup Reading
  /\ said \in [DOMAIN said -> Seq(Message)] /\ DOMAIN said \subseteq Requests
  /\ missed \subseteq Requests /\ got \subseteq Requests
  /\ crashed \in BOOLEAN

-----------------------------------------------------------------------------
(* The inductive invariant.                                                  *)

\* The end of r's answer lies in its channel.
Told(r) == \E i \in 1..Len(chan[r].msgs) : Terminal(chan[r].msgs[i])

\* Only requests that were sent are spoken of or watched.
KnownIds ==
  /\ \A r \in Requests : step[r] \in Unsent => r \notin DOMAIN said
  /\ watching \subseteq DOMAIN said
  /\ reader # Quiet => reader.id \in DOMAIN said

\* As long as the session is open cleanup rests, and a channel is closed only after
\* its id was taken out of the map for good.
TakenOnce ==
  session = "open" =>
    /\ swept = {} /\ visited = {}
    /\ \A r \in pending : step[r] \notin {"new", "store"} /\ ~chan[r].closed
    /\ \A r \in Requests : chan[r].closed => step[r] \notin {"new", "store"}

\* If moreover nobody gives up, an id stays in the map until its own caller has
\* taken it back unsent, or the reader has pushed the end.
StaysPending ==
  session = "open" /\ canceled = {} =>
    /\ ~crashed
    /\ \A r \in Requests : step[r] # "panicked" /\ (step[r] \in Stored => r \in pending)
    /\ reader # Quiet /\ reader.at # "load" => reader.id \in pending

\* A channel that was closed, or is about to be, holds the end of the answer until
\* the caller has taken it.
EndedInOrder ==
  session = "open" =>
    \A r \in Requests \ (missed \cup canceled) :
      /\ step[r] # "partial"
      /\ chan[r].closed \/ (reader # Quiet /\ reader.at = "take" /\ reader.id = r)
           => Told(r) \/ step[r] \in Ended

RelayInv == RelayTypeOK /\ KnownIds /\ TakenOnce /\ StaysPending /\ EndedInOrder

-----------------------------------------------------------------------------
(* Channels.                                                                 *)

LEMMA PushFacts ==
  ASSUME RelayTypeOK, NEW r \in Requests, NEW m \in Message, Push(r, m)
  PROVE  /\ chan' \in [Requests -> Channel]
         /\ \A q \in Requests : chan'[q].closed = chan[q].closed
         /\ \A q \in Requests : Told(q) => Told(q)'
         /\ Terminal(m) /\ r \notin missed' => Told(r)'
         /\ missed \subseteq missed' /\ missed' \subseteq Requests
         /\ crashed' = chan[r].closed
<1>0. chan[r] \in Channel /\ chan[r].msgs \in Seq(Message)  BY DEF RelayTypeOK, Channel
<1>1. CASE Len(chan[r].msgs) < Slots
  <2>. DEFINE new == Append(chan[r].msgs, m)
  <2>1. chan' = [chan EXCEPT ![r].msgs = new]  BY <1>1 DEF Push
  <2>2. /\ new \in Seq(Message) /\ Len(new) = Len(chan[r].msgs) + 1
        /\ new[Len(new)] = m
        /\ \A i \in 1..Len(chan[r].msgs) : new[i] = chan[r].msgs[i]
    BY <1>0
  <2>. HIDE DEF new
  <2>3. chan' \in [Requests -> Channel]  BY <2>1, <2>2 DEF RelayTypeOK, Channel
  <2>4. chan'[r].msgs = new /\ \A q \in Requests : q # r => chan'[q].msgs = chan[q].msgs
    BY <2>1 DEF RelayTypeOK, Channel
  <2>5. \A q \in Requests : chan'[q].closed = chan[q].closed
    BY <2>1 DEF RelayTypeOK, Channel
  <2>6. Told(r) => Told(r)'
    BY <1>0, <2>2, <2>4 DEF Told
  <2>7. \A q \in Requests : q # r /\ Told(q) => Told(q)'  BY <2>4 DEF Told
  <2>8. Terminal(m) => Told(r)'  BY <1>0, <2>2, <2>4 DEF Told
  <2>. QED  BY <1>1, <2>3, <2>5, <2>6, <2>7, <2>8 DEF RelayTypeOK, Push
<1>2. CASE ~(Len(chan[r].msgs) < Slots)
  BY <1>2 DEF RelayTypeOK, Push, Told
<1>. QED  BY <1>1, <1>2

LEMMA CloseFacts ==
  ASSUME RelayTypeOK, NEW r \in Requests, Close(r)
  PROVE  /\ chan' \in [Requests -> Channel]
         /\ \A q \in Requests : chan'[q].closed <=> chan[q].closed \/ q = r
         /\ \A q \in Requests : Told(q) <=> Told(q)'
<1>1. \A q \in Requests : chan'[q].msgs = chan[q].msgs  BY DEF RelayTypeOK, Close, Channel
<1>. QED  BY <1>1 DEF RelayTypeOK, Close, Channel, Told

LEMMA TakeFacts ==
  ASSUME RelayTypeOK, NEW r \in Requests, TakeAndClose(r)
  PROVE  /\ chan' \in [Requests -> Channel]
         /\ pending' = pending \ {r}
         /\ \A q \in Requests : chan'[q].closed <=> chan[q].closed \/ (q = r /\ r \in pending)
         /\ \A q \in Requests : Told(q) <=> Told(q)'
<1>1. CASE r \in pending  BY <1>1, CloseFacts DEF TakeAndClose
<1>2. CASE r \notin pending  BY <1>2 DEF TakeAndClose, RelayTypeOK, Told
<1>. QED  BY <1>1, <1>2

LEMMA ReceiveFacts ==
  ASSUME RelayTypeOK, NEW r \in Requests, chan[r].msgs # <<>>,
         chan' = [chan EXCEPT ![r].msgs = Tail(@)]
  PROVE  /\ chan' \in [Requests -> Channel]
         /\ Head(chan[r].msgs) \in Message
         /\ \A q \in Requests : chan'[q].closed = chan[q].closed
         /\ \A q \in Requests \ {r} : Told(q) <=> Told(q)'
         /\ Told(r) => Terminal(Head(chan[r].msgs)) \/ Told(r)'
<1>. DEFINE rest == Tail(chan[r].msgs)
<1>1. /\ chan[r].msgs \in Seq(Message) /\ rest \in Seq(Message)
      /\ Len(chan[r].msgs) = Len(rest) + 1 /\ Len(rest) \in Nat
      /\ Head(chan[r].msgs) = chan[r].msgs[1] /\ Head(chan[r].msgs) \in Message
      /\ \A i \in 1..Len(rest) : rest[i] = chan[r].msgs[i + 1]
  BY DEF RelayTypeOK, Channel
<1>2. chan' = [chan EXCEPT ![r].msgs = rest]  OBVIOUS
<1>. HIDE DEF rest
<1>3. chan' \in [Requests -> Channel]
  <2>1. rest \in Seq(Message)  BY <1>1
  <2>. QED  BY <1>2, <2>1 DEF RelayTypeOK, Channel
<1>4. chan'[r].msgs = rest /\ \A q \in Requests \ {r} : chan'[q] = chan[q]
  BY <1>2 DEF RelayTypeOK, Channel
<1>5. \A q \in Requests : chan'[q].closed = chan[q].closed
  BY <1>2 DEF RelayTypeOK, Channel
<1>6. ASSUME Told(r), ~Terminal(Head(chan[r].msgs)) PROVE Told(r)'
  <2>1. PICK i \in 1..Len(chan[r].msgs) : Terminal(chan[r].msgs[i])  BY <1>6 DEF Told
  <2>2. i # 1 /\ i - 1 \in 1..Len(rest)  BY <1>1, <1>6, <2>1
  <2>3. rest[i - 1] = chan[r].msgs[i]  BY <1>1, <2>2
  <2>. QED  BY <1>4, <2>1, <2>2, <2>3 DEF Told
<1>7. \A q \in Requests \ {r} : Told(q) <=> Told(q)'  BY <1>4 DEF Told
<1>. QED  BY <1>1, <1>3, <1>5, <1>6, <1>7

-----------------------------------------------------------------------------
(* Every step keeps the invariant.                                           *)

LEMMA RelayInitially == RelayInit => RelayInv
<1>. SUFFICES ASSUME RelayInit PROVE RelayInv  OBVIOUS
<1>1. RelayTypeOK
  <2>1. <<>> \in Seq(Message)  OBVIOUS
  <2>2. [msgs |-> <<>>, closed |-> FALSE] \in Channel  BY <2>1 DEF Channel
  <2>3. said \in [DOMAIN said -> Seq(Message)] /\ DOMAIN said \subseteq Requests
    BY DEF RelayInit
  <2>4. chan \in [Requests -> Channel]  BY <2>2 DEF RelayInit
  <2>. QED  BY <2>3, <2>4 DEF RelayInit, RelayTypeOK, Unsent
<1>. QED  BY <1>1 DEF RelayInit, RelayInv, KnownIds, TakenOnce, StaysPending, EndedInOrder, Stored

LEMMA CallerSteps ==
  ASSUME RelayInv, NEW r \in Requests, Caller(r)
  PROVE  RelayInv'
<1>. USE DEF RelayInv, Move, Others
<1>. DEFINE Parts == KnownIds /\ TakenOnce /\ StaysPending /\ EndedInOrder
<1>1. CASE Lookup(r)
  <2>1. RelayTypeOK'  BY <1>1 DEF RelayTypeOK, Lookup, Unsent, Ended
  <2>2. Parts'
    BY <1>1 DEF RelayTypeOK, Lookup, KnownIds, TakenOnce, StaysPending, EndedInOrder,
      Unsent, Ended, Stored, Told
  <2>. QED  BY <2>1, <2>2
<1>2. CASE Store(r)
  <2>1. RelayTypeOK'  BY <1>2 DEF RelayTypeOK, Store, Unsent, Ended
  <2>2. Parts'
    BY <1>2 DEF RelayTypeOK, Store, KnownIds, TakenOnce, StaysPending, EndedInOrder,
      Unsent, Ended, Stored, Told
  <2>. QED  BY <2>1, <2>2
<1>3. CASE LoadAgain(r)
  <2>1. RelayTypeOK'  BY <1>3 DEF RelayTypeOK, LoadAgain, Unsent, Ended
  <2>2. Parts'
    BY <1>3 DEF RelayTypeOK, LoadAgain, KnownIds, TakenOnce, StaysPending, EndedInOrder,
      Unsent, Ended, Stored, Told
  <2>. QED  BY <2>1, <2>2
<1>4. CASE CheckClosed(r)
  <2>1. RelayTypeOK'  BY <1>4 DEF RelayTypeOK, CheckClosed, Unsent, Ended
  <2>2. Parts'
    BY <1>4 DEF RelayTypeOK, CheckClosed, KnownIds, TakenOnce, StaysPending, EndedInOrder,
      Unsent, Ended, Stored, Told
  <2>. QED  BY <2>1, <2>2
<1>5. CASE Write(r)
  <2>1. RelayTypeOK'
    <3>1. said' \in [DOMAIN said' -> Seq(Message)] /\ DOMAIN said' \subseteq Requests
      <4>1. <<>> \in Seq(Message)  OBVIOUS
      <4>2. CASE said' = [q \in DOMAIN said \cup {r} |-> IF q = r THEN <<>> ELSE said[q]]
        BY <4>1, <4>2 DEF RelayTypeOK
      <4>. QED  BY <1>5, <4>2 DEF RelayTypeOK, Write
    <3>2. step' \in [Requests -> Unsent \cup {"wait"} \cup Ended] /\ watching' \subseteq Requests
      BY <1>5 DEF RelayTypeOK, Write, Unsent
    <3>. QED  BY <1>5, <3>1, <3>2 DEF RelayTypeOK, Write
  <2>2. DOMAIN said \subseteq DOMAIN said'  BY <1>5 DEF Write
  <2>3. Parts'
    BY <1>5, <2>2 DEF RelayTypeOK, Write, KnownIds, TakenOnce, StaysPending, EndedInOrder,
      Unsent, Ended, Stored, Told
  <2>. QED  BY <2>1, <2>3
<1>6. CASE Undo(r)
  <2>1. TakeAndClose(r) /\ step[r] = "undo" /\ step' = [step EXCEPT ![r] = "failed"]
    BY <1>6 DEF Undo
  <2>2. RelayTypeOK'  BY <1>6, <2>1, TakeFacts DEF RelayTypeOK, Undo, Unsent, Ended
  <2>3. Parts'
    BY <1>6, <2>1, TakeFacts DEF RelayTypeOK, Undo, KnownIds, TakenOnce, StaysPending,
      EndedInOrder, Unsent, Ended, Stored
  <2>. QED  BY <2>2, <2>3
<1>7. CASE Receive(r)
  <2>1. CASE chan[r].msgs # <<>>
    <3>. DEFINE m == Head(chan[r].msgs)
    <3>1. /\ chan' = [chan EXCEPT ![r].msgs = Tail(@)] /\ got' = got \cup {r}
          /\ step' = [step EXCEPT ![r] = CASE m = "end" -> "whole" [] m = "error" -> "failed"
                                           [] OTHER -> "wait"]
      BY <1>7, <2>1 DEF Receive
    <3>2. step[r] = "wait" /\ step'[r] \in {"whole", "failed", "wait"}
          /\ (Terminal(m) => step'[r] \in Ended)
      BY <1>7, <3>1 DEF RelayTypeOK, Receive, Terminal, Ended
    <3>3. \A q \in Requests \ {r} : step'[q] = step[q]  BY <3>1 DEF RelayTypeOK
    <3>4. RelayTypeOK'
      BY <1>7, <2>1, <3>1, <3>2, ReceiveFacts DEF RelayTypeOK, Receive, Unsent, Ended
    <3>. HIDE DEF m
    <3>5. /\ \A q \in Requests : chan'[q].closed = chan[q].closed
          /\ \A q \in Requests \ {r} : Told(q) <=> Told(q)'
          /\ Told(r) => step'[r] \in Ended \/ Told(r)'
      BY <2>1, <3>1, <3>2, ReceiveFacts DEF m
    <3>6. step'[r] # "partial" /\ step'[r] \notin Unsent /\ step'[r] \notin Stored
      BY <3>2 DEF Unsent, Stored, Ended
    <3>7. UNCHANGED <<session, swept, visited, reader, missed, crashed, pending, canceled,
                      watching, said>>
      BY <1>7, <2>1 DEF Receive
    <3>8. KnownIds' /\ TakenOnce' /\ StaysPending'
      BY <3>2, <3>3, <3>5, <3>6, <3>7 DEF RelayTypeOK, KnownIds, TakenOnce, StaysPending, Unsent
    <3>9. EndedInOrder'
      BY <3>2, <3>3, <3>5, <3>6, <3>7 DEF EndedInOrder, Ended
    <3>. QED  BY <3>4, <3>8, <3>9
  <2>2. CASE chan[r].msgs = <<>>
    <3>1. /\ chan[r].closed /\ step[r] = "wait" /\ chan' = chan
          /\ step' = [step EXCEPT ![r] = IF r \in got \ Streaming THEN "partial" ELSE "failed"]
      BY <1>7, <2>2 DEF Receive
    <3>2. ~Told(r)  BY <2>2 DEF Told
    <3>3. RelayTypeOK'
      BY <1>7, <2>2, <3>1 DEF RelayTypeOK, Receive, Unsent, Ended
    <3>4. Parts'
      BY <1>7, <2>2, <3>1, <3>2 DEF RelayTypeOK, Receive, KnownIds,
        TakenOnce, StaysPending, EndedInOrder, Unsent, Ended, Stored, Told
    <3>. QED  BY <3>3, <3>4
  <2>. QED  BY <2>1, <2>2
<1>8. CASE GiveUp(r)
  <2>1. RelayTypeOK'  BY <1>8 DEF RelayTypeOK, GiveUp, Unsent, Ended
  <2>2. Parts'
    BY <1>8 DEF RelayTypeOK, GiveUp, KnownIds, TakenOnce, StaysPending, EndedInOrder,
      Unsent, Ended, Stored, Told
  <2>. QED  BY <2>1, <2>2
<1>. QED  BY <1>1, <1>2, <1>3, <1>4, <1>5, <1>6, <1>7, <1>8 DEF Caller

LEMMA ContextSteps ==
  ASSUME RelayInv, NEW r \in Requests, Cancel(r) \/ Watch(r)
  PROVE  RelayInv'
<1>. USE DEF RelayInv, Others
<1>. DEFINE Parts == KnownIds /\ TakenOnce /\ StaysPending /\ EndedInOrder
<1>1. CASE Cancel(r)
  <2>1. RelayTypeOK'  BY <1>1 DEF RelayTypeOK, Cancel
  <2>2. Parts'
    BY <1>1 DEF RelayTypeOK, Cancel, KnownIds, TakenOnce, StaysPending, EndedInOrder, Told
  <2>. QED  BY <2>1, <2>2
<1>2. CASE r \in canceled /\ Watch(r)
  <2>1. CASE TakeAndClose(r)
    <3>1. RelayTypeOK'  BY <1>2, <2>1, TakeFacts DEF RelayTypeOK, Watch
    <3>2. Parts'
      BY <1>2, <2>1, TakeFacts DEF RelayTypeOK, Watch, KnownIds, TakenOnce, StaysPending,
        EndedInOrder
    <3>. QED  BY <3>1, <3>2
  <2>2. CASE session # "open" /\ UNCHANGED <<pending, chan>>
    BY <1>2, <2>2 DEF RelayTypeOK, Watch, KnownIds, TakenOnce, StaysPending, EndedInOrder
  <2>. QED  BY <1>2, <2>1, <2>2 DEF Watch
<1>3. CASE r \notin canceled /\ Watch(r)
  BY <1>3 DEF RelayTypeOK, Watch, KnownIds, TakenOnce, StaysPending, EndedInOrder
<1>. QED  BY <1>1, <1>2, <1>3

LEMMA ReaderSteps ==
  ASSUME RelayInv, (\E r \in Requests, m \in Message : Read(r, m)) \/ Reader
  PROVE  RelayInv'
<1>. USE DEF RelayInv, Callers
<1>. DEFINE Parts == KnownIds /\ TakenOnce /\ StaysPending /\ EndedInOrder
<1>0. reader # Quiet => reader \in Reading /\ reader.id \in Requests /\ reader.msg \in Message
                        /\ reader.at \in {"load", "push", "take"}
  BY DEF RelayTypeOK, Reading
<1>1. ASSUME NEW r \in Requests, NEW m \in Message, Read(r, m) PROVE RelayInv'
  <2>. DEFINE new == [at |-> "load", id |-> r, msg |-> m]
  <2>1. new \in Reading /\ new.id = r /\ new.at = "load"  BY DEF Reading
  <2>2. reader' = new  BY <1>1 DEF Read
  <2>. HIDE DEF new
  <2>3. /\ said' = [said EXCEPT ![r] = Append(@, m)] /\ DOMAIN said' = DOMAIN said
        /\ r \in DOMAIN said
    BY <1>1 DEF Read
  <2>4. Append(said[r], m) \in Seq(Message)  BY <2>3 DEF RelayTypeOK
  <2>5. said' \in [DOMAIN said' -> Seq(Message)]  BY <2>3, <2>4 DEF RelayTypeOK
  <2>6. RelayTypeOK'  BY <1>1, <2>1, <2>2, <2>3, <2>5 DEF RelayTypeOK, Read
  <2>7. Parts'
    BY <1>1, <2>1, <2>2, <2>3 DEF RelayTypeOK, Read, KnownIds, TakenOnce, StaysPending,
      EndedInOrder, Told
  <2>. QED  BY <2>6, <2>7
<1>2. CASE Load
  <2>0. reader # Quiet /\ reader.at = "load"  BY <1>2 DEF Load, Quiet
  <2>. DEFINE new == [reader EXCEPT !.at = "push"]
  <2>1. new \in Reading /\ new.id = reader.id /\ new.at = "push"  BY <1>0, <2>0 DEF Reading
  <2>2. reader' = IF reader.id \in pending THEN new ELSE Quiet  BY <1>2 DEF Load
  <2>. HIDE DEF new
  <2>3. RelayTypeOK'  BY <1>2, <2>1, <2>2 DEF RelayTypeOK, Load
  <2>4. Parts'
    BY <1>2, <2>0, <2>1, <2>2 DEF RelayTypeOK, Load, KnownIds, TakenOnce, StaysPending,
      EndedInOrder, Told
  <2>. QED  BY <2>3, <2>4
<1>3. CASE Deliver
  <2>0. reader # Quiet /\ reader.at = "push"  BY <1>3 DEF Deliver, Quiet
  <2>. DEFINE new == [reader EXCEPT !.at = "take"]
  <2>1. new \in Reading /\ new.id = reader.id /\ new.at = "take"  BY <1>0, <2>0 DEF Reading
  <2>2. reader' = IF Terminal(reader.msg) THEN new ELSE Quiet  BY <1>3 DEF Deliver
  <2>3. Push(reader.id, reader.msg)  BY <1>3 DEF Deliver
  <2>. HIDE DEF new
  <2>4. RelayTypeOK'
    BY <1>0, <1>3, <2>0, <2>1, <2>2, <2>3, PushFacts DEF RelayTypeOK, Channel, Deliver
  <2>5. Parts'
    BY <1>0, <1>3, <2>0, <2>1, <2>2, <2>3, PushFacts DEF RelayTypeOK, Deliver, KnownIds,
      TakenOnce, StaysPending, EndedInOrder
  <2>. QED  BY <2>4, <2>5
<1>4. CASE FinishDispatch
  <2>0. reader # Quiet /\ reader.at = "take"  BY <1>4 DEF FinishDispatch, Quiet
  <2>1. TakeAndClose(reader.id) /\ reader' = Quiet  BY <1>4 DEF FinishDispatch
  <2>2. RelayTypeOK'  BY <1>0, <1>4, <2>0, <2>1, TakeFacts DEF RelayTypeOK, FinishDispatch
  <2>3. Parts'
    BY <1>0, <1>4, <2>0, <2>1, TakeFacts DEF RelayTypeOK, FinishDispatch, KnownIds,
      TakenOnce, StaysPending, EndedInOrder, Unsent, Stored
  <2>. QED  BY <2>2, <2>3
<1>. QED  BY <1>1, <1>2, <1>3, <1>4 DEF Reader

LEMMA CleanupSteps ==
  ASSUME RelayInv, BeginCleanup \/ Cleanup
  PROVE  RelayInv'
<1>. USE DEF RelayInv, Bystanders, KnownIds, TakenOnce, StaysPending, EndedInOrder
<1>1. CASE BeginCleanup  BY <1>1 DEF RelayTypeOK, BeginCleanup
<1>2. ASSUME NEW r \in Requests, Visit(r) PROVE RelayInv'
  BY <1>2 DEF RelayTypeOK, Visit
<1>3. CASE TellClosed
  <2>1. PICK r \in visited :
          /\ crashed' = chan[r].closed
          /\ chan' = [chan EXCEPT ![r] =
               [msgs |-> IF Len(@.msgs) < Slots THEN Append(@.msgs, "error") ELSE @.msgs,
                closed |-> TRUE]]
    BY <1>3 DEF TellClosed
  <2>2. r \in Requests /\ session # "open"  BY <2>1 DEF RelayTypeOK
  <2>3. chan[r] \in Channel /\ chan[r].msgs \in Seq(Message)  BY <2>2 DEF RelayTypeOK, Channel
  <2>4. Append(chan[r].msgs, "error") \in Seq(Message)  BY <2>3 DEF Message
  <2>5. [msgs |-> IF Len(chan[r].msgs) < Slots THEN Append(chan[r].msgs, "error")
                  ELSE chan[r].msgs, closed |-> TRUE] \in Channel
    BY <2>3, <2>4 DEF Channel
  <2>6. chan' \in [Requests -> Channel]  BY <2>1, <2>2, <2>5 DEF RelayTypeOK
  <2>7. crashed' \in BOOLEAN  BY <2>1, <2>3 DEF Channel
  <2>. QED  BY <1>3, <2>2, <2>6, <2>7 DEF RelayTypeOK, TellClosed
<1>4. CASE ReplaceMap  BY <1>4 DEF RelayTypeOK, ReplaceMap
<1>5. CASE HandleSessionClosed  BY <1>5 DEF RelayTypeOK, HandleSessionClosed
<1>. QED  BY <1>1, <1>2, <1>3, <1>4, <1>5 DEF Cleanup

LEMMA Stutters == RelayInv /\ UNCHANGED relayVars => RelayInv'
  BY DEF relayVars, RelayInv, RelayTypeOK, KnownIds, TakenOnce, StaysPending, EndedInOrder, Told

THEOREM InvariantHolds == RelaySpec => []RelayInv
<1>1. RelayInv /\ [RelayNext]_relayVars => RelayInv'
  BY CallerSteps, ContextSteps, ReaderSteps, CleanupSteps, Stutters
     DEF RelayNext, GoesByItself, Message
<1>. QED  BY <1>1, RelayInitially, PTL DEF RelaySpec

-----------------------------------------------------------------------------
\* A caller is given a truncated answer as a success only if a message met a full
\* channel, the session was closed or its call was given up: otherwise whoever closes
\* the channel has put the end into it before, and the caller takes that first.
THEOREM TruncationHasCause == RelaySpec => []TruncatedForCause
<1>1. RelayInv => TruncatedForCause
  BY DEF RelayInv, EndedInOrder, TruncatedForCause
<1>. QED  BY <1>1, InvariantHolds, PTL

\* Whatever the client sends, nothing is sent on a closed channel and no caller finds
\* its own id gone, while the session is open and nobody gives up.
THEOREM NoPanicWhileOpen == RelaySpec => []PanicsOnlyWhenClosing
<1>1. RelayInv => PanicsOnlyWhenClosing
  BY DEF RelayInv, StaysPending, PanicsOnlyWhenClosing
<1>. QED  BY <1>1, InvariantHolds, PTL
=============================================================================
