--------------------------- MODULE Answers_proofs ---------------------------
(***************************************************************************)
(* Proofs about an answer on its way to the client, in two modules that      *)
(* share no state.                                                           *)
(*                                                                         *)
(* Execution, for any credentials, requests and limits: a client hears one   *)
(* attempt, every attempt is recorded once, nested retries stay within their *)
(* common limit, a wait pays off, nobody waits for good, and "done" is the    *)
(* truth where the handler looks for an error again.                         *)
(*                                                                         *)
(* ClaudeStream, for any number of tool calls, parts in a chunk and blocks:  *)
(* whatever an upstream of the four formats says within its protocol, a      *)
(* Claude client can place every event, and a finished answer is complete.   *)
(***************************************************************************)
EXTENDS Execution, ClaudeStream, FiniteSetTheorems, SequenceTheorems, WellFoundedInduction,
        TLAPS

-----------------------------------------------------------------------------
(* Execution: the inductive invariant.                                       *)

Reports  == Errors \cup {"cooling", "canceled"}
Payloads == Reports \cup {"none", "data"}

Executions(serving) ==
  [at : {"pick", "call", "first", "judge", "wait", "ok", "error", "off"}, attempt : 0..Retry,
   tried : SUBSET serving, cred : SUBSET Creds, last : SUBSET Reports, boot : BOOLEAN, wait : Nat]
Streams ==
  [at : {"none", "emit", "ready", "read", "ended"}, chunk : Payloads, cred : SUBSET Creds,
   failed : BOOLEAN, left : Nat]
Pumps ==
  [at : {"none", "next", "have", "exec", "send", "fail", "closing", "closed", "ended"},
   chunk : Payloads, sent : BOOLEAN, retries : 0..Bootstrap]

TypeOK ==
  /\ setting \in Settings
  /\ cooling \in [Creds -> Nat]
  /\ exec \in Executions(Serving)
  /\ wrap \in Streams
  /\ pump \in Pumps
  /\ errs \in [msg : SUBSET Payloads, closed : BOOLEAN]
  /\ front \in {"call", "initial", "peek", "forward"} \cup Over
  /\ dataEnds \in BOOLEAN /\ gone \in BOOLEAN /\ canceled \in BOOLEAN /\ disturbed \in BOOLEAN
  /\ attempts \in Nat /\ got \subseteq Nat /\ marks \in Nat
  /\ verdict \in {"none", "good", "bad"}

\* What the Manager has in hand in each of its phases.
ExecShape ==
  /\ exec.at \in {"call", "first"} => exec.tried # {}
  /\ exec.at \in {"judge", "error"} => exec.last # {}
  /\ exec.last = {"limited"} => exec.tried # {}
  /\ exec.at = "wait" => exec.attempt < Retry
  /\ exec.at = "first" \/ exec.boot => setting.stream
  /\ ~setting.stream => pump = NoPump /\ wrap = NoStream

\* Which of the goroutines run together.
Phases ==
  /\ front = "call" => pump = NoPump /\ errs.msg = {} /\ ~dataEnds /\ exec.at # "off"
  /\ front = "initial" => setting.stream /\ pump = NoPump /\ ~dataEnds
  /\ front # "call" => (exec.at = "off" <=> pump.at # "exec")
  /\ dataEnds => pump.at = "ended"
  /\ front \in Over => canceled
  /\ canceled => gone \/ front \in Over

Calling == exec.at \in {"call", "first"}
\* A stream that has still to be recorded, and one that no longer can be.
Open    == wrap.at \in {"emit", "read"} /\ ~wrap.failed
Drained == wrap.at \in {"none", "ended"} \/ (wrap.at = "read" /\ wrap.failed)

\* The Manager works only when the last stream is out of the way, so an attempt is
\* recorded in one place: where it is called, or by its stream.
Settled ==
  /\ exec.at \notin {"ok", "off"} => Drained
  /\ pump.at = "have" /\ pump.chunk # "data" => Drained
  /\ wrap.at = "emit" => (wrap.chunk = "data" <=> ~wrap.failed)
  /\ wrap.at = "ready" => wrap.chunk # "data"
  /\ marks <= 1
  /\ Calling \/ Open => marks = 0
  /\ attempts > 0 /\ ~canceled /\ ~Calling /\ ~Open => marks = 1

\* Executions that are over have used at most their full share, the one that runs as
\* much as its rounds and the credentials it has tried in this one.
Spent(executions, rounds, cap) == executions * ((1 + Retry) * cap) + rounds * cap
RoundsCounted ==
  /\ Cardinality(exec.tried) <= Cap
  /\ exec.at = "off" => attempts <= Spent(pump.retries + 1, 0, Cap)
  /\ exec.at # "off" =>
       attempts <= Spent(pump.retries, exec.attempt, Cap) + Cardinality(exec.tried)

\* Once the client has a part of an answer no execution runs, and none may start.
Voices ==
  /\ got \subseteq {attempts}
  /\ got # {} => exec.at = "off" /\ (setting.stream => pump.sent)
  /\ pump.at = "send" => pump.sent
  /\ pump.at = "exec" => ~pump.sent

\* A stream whose end is seen before any error was recorded as a success.
Handed(w) == w.at \in {"emit", "ready"} \/ (w.at = "ended" /\ canceled)
Reading   == pump.at \in {"next", "send"} \/ (pump.at = "have" /\ pump.chunk = "data")
Truth ==
  /\ exec.at = "ok" => IF setting.stream THEN Handed(wrap) ELSE verdict = "good"
  /\ front = "initial" => Handed(wrap)
  /\ wrap.at = "read" /\ wrap.failed => pump.at # "none" /\ ~Reading
  /\ Reading /\ wrap.at = "ended" /\ ~canceled => verdict = "good"
  /\ pump.at \in {"closing", "closed", "ended"} /\ ~canceled /\ errs.msg = {} =>
       wrap.at = "ended" /\ verdict = "good"
  /\ front = "done" /\ ~gone /\ Recheck =>
       verdict = "good" /\ wrap.at \in {"none", "ended"} /\ pump.at \in {"none", "ended"}

\* While nobody else changes a cooldown, the one that is waited for is over in time.
WaitReasons ==
  /\ exec.at = "wait" /\ ~disturbed => \E c \in Serving : cooling[c] <= exec.wait
  /\ exec.at = "pick" /\ exec.attempt > 0 /\ exec.tried = {} /\ ~disturbed =>
       \E c \in Serving : cooling[c] = 0
  /\ WaitPaysOff

IInv == TypeOK /\ ExecShape /\ Phases /\ Settled /\ RoundsCounted /\ Voices /\ Truth /\ WaitReasons

-----------------------------------------------------------------------------
(* Operators.                                                                *)

LEMMA Constants ==
  ASSUME ExecutionAssumption
  PROVE  /\ Retry \in Nat /\ MaxWait \in Nat /\ MaxCool \in Nat /\ Bootstrap \in Nat
         /\ MaxChunks \in Nat /\ MaxChunks - 1 \in Nat
BY DEF ExecutionAssumption

\* A request names finitely many credentials, and at least one may be tried unless it
\* names none.
LEMMA Requests ==
  ASSUME ExecutionAssumption, setting \in Settings
  PROVE  /\ Serving \subseteq Creds
         /\ setting.stream \in BOOLEAN /\ setting.strict \in BOOLEAN /\ setting.most \in Nat
         /\ IsFiniteSet(Serving)
         /\ Cap \in Nat
         /\ Serving # {} => Cap > 0
<1>1. setting \in [stream : BOOLEAN, strict : BOOLEAN, creds : SUBSET Creds, most : Nat]
  BY DEF ExecutionAssumption
<1>2. Serving \subseteq Creds  BY <1>1 DEF Serving
<1>3. IsFiniteSet(Serving)  BY <1>2, FS_Subset DEF ExecutionAssumption
<1>4. Cardinality(Serving) \in Nat  BY <1>3, FS_CardinalityType
<1>5. Serving # {} => Cardinality(Serving) # 0  BY <1>3, FS_EmptySet
<1>. QED  BY <1>1, <1>2, <1>3, <1>4, <1>5 DEF Cap

LEMMA TriedCount ==
  ASSUME ExecutionAssumption, setting \in Settings, NEW S \in SUBSET Serving
  PROVE  /\ Cardinality(S) \in Nat
         /\ Cardinality({}) = 0
         /\ \A c \in Serving \ S : Cardinality(S \cup {c}) = Cardinality(S) + 1
<1>1. IsFiniteSet(S)  BY Requests, FS_Subset
<1>. QED  BY <1>1, FS_CardinalityType, FS_AddElement, FS_EmptySet

LEMMA MaxOfTwo ==
  ASSUME NEW n \in Int
  PROVE  Max({0, n}) = IF n > 0 THEN n ELSE 0
BY DEF Max

LEMMA MinOfTwo ==
  ASSUME NEW m \in Int, NEW n \in Int
  PROVE  Min({m, n}) = IF m < n THEN m ELSE n
BY DEF Min

LEMMA MinOfNaturals ==
  ASSUME NEW S \in SUBSET Nat, S # {}
  PROVE  Min(S) \in S /\ \A n \in S : Min(S) <= n
<1>1. \E m \in S : \A n \in S : m <= n
  <2>1. PICK m \in S : \A n \in S : <<n, m>> \notin OpToRel(<, Nat)
    BY NatLessThanWellFounded, WFMin, Zenon
  <2>2. ASSUME NEW n \in S  PROVE m <= n
    <3>1. ~ (n < m)  BY <2>1 DEF OpToRel
    <3>. QED  BY <3>1
  <2>. QED  BY <2>2
<1>. QED  BY <1>1 DEF Min

\* What the pump's steps leave of its record, and Pass of the stream's.
LEMMA PumpFields ==
  ASSUME pump \in Pumps
  PROVE  /\ \A s : /\ Pumping(s).at = s
                   /\ Pumping(s).sent = pump.sent /\ Pumping(s).retries = pump.retries
         /\ \A s, m : /\ PumpingWith(s, m).at = s /\ PumpingWith(s, m).chunk = m
                      /\ PumpingWith(s, m).sent = pump.sent
                      /\ PumpingWith(s, m).retries = pump.retries
BY DEF Pumps, Pumping, PumpingWith

LEMMA NoneFields ==
  /\ NoPump.at = "none" /\ NoPump.sent = FALSE /\ NoPump.retries = 0
  /\ NoStream.at = "none"
BY DEF NoPump, NoStream

LEMMA PassFields ==
  ASSUME wrap \in Streams, Pass
  PROVE  /\ wrap.at \in {"emit", "ready"}
         /\ wrap.at = "ready" => wrap'.at = "ended"
         /\ wrap.at = "emit" => wrap'.at = "read" /\ wrap'.failed = wrap.failed
BY DEF Streams, Pass, EndedStream, NoStream

\* The two ways a failed attempt ends, and what the pump does with what it has.
LEMMA FailFields ==
  ASSUME exec \in Executions(Serving), NEW c, NEW e \in Errors, NEW b \in BOOLEAN, Attempt(c, e, b)
  PROVE  /\ exec'.at \in {"judge", "pick"} /\ exec'.last \in {{e}, {"canceled"}}
         /\ exec'.attempt = exec.attempt /\ exec'.tried = exec.tried /\ (exec'.boot => b)
         /\ \/ canceled /\ NoMark
            \/ marks' = marks + 1 /\ verdict' = "bad"
<1>1. PICK s \in {"judge", "pick"}, l \in {{e}, {"canceled"}}, d \in {FALSE, b} :
        exec' = [exec EXCEPT !.at = s, !.last = l, !.boot = d]
  BY DEF Attempt, Canceled, Errors
<1>2. /\ exec'.at = s /\ exec'.last = l /\ exec'.boot = d
      /\ exec'.attempt = exec.attempt /\ exec'.tried = exec.tried
  BY <1>1 DEF Executions
<1>3. (canceled /\ NoMark) \/ (marks' = marks + 1 /\ verdict' = "bad")
  BY DEF Attempt, MarkResult
<1>. QED  BY <1>2, <1>3

LEMMA DataFields ==
  ASSUME pump \in Pumps, HandleData
  PROVE  /\ pump.at = "have" /\ pump.chunk = "data"
         /\ \/ pump'.at = "send" /\ pump'.sent = TRUE
            \/ pump'.at = "next" /\ pump'.sent = pump.sent
            \/ pump'.at = "fail" /\ pump'.sent = pump.sent
         /\ pump'.retries = pump.retries
<1>1. CASE pump' = [Pumping("send") EXCEPT !.sent = TRUE]
  BY <1>1 DEF HandleData, Pumping, Pumps
<1>2. CASE pump' = Pumping("next")  BY <1>2, PumpFields DEF HandleData
<1>3. CASE pump' = PumpingWith("fail", "failed")  BY <1>3, PumpFields DEF HandleData
<1>. QED  BY <1>1, <1>2, <1>3 DEF HandleData

LEMMA ErrorFields ==
  ASSUME pump \in Pumps, HandleError
  PROVE  /\ pump.at = "have" /\ pump.chunk # "data"
         /\ \/ /\ ~pump.sent /\ pump.retries < Bootstrap
               /\ pump'.at = "exec" /\ pump'.sent = pump.sent /\ pump'.retries = pump.retries + 1
               /\ exec' = Begin
            \/ /\ pump'.at = "fail" /\ pump'.sent = pump.sent /\ pump'.retries = pump.retries
               /\ UNCHANGED exec
<1>1. CASE MayStartOver
  <2>1. pump' = [Pumping("exec") EXCEPT !.retries = @ + 1]  BY <1>1 DEF HandleError
  <2>2. pump'.at = "exec" /\ pump'.sent = pump.sent /\ pump'.retries = pump.retries + 1
    BY <2>1 DEF Pumping, Pumps
  <2>. QED  BY <1>1, <2>2 DEF HandleError, MayStartOver
<1>2. CASE ~MayStartOver  BY <1>2, PumpFields DEF HandleError
<1>. QED  BY <1>1, <1>2

\* An execution that begins, in its first round or in a later one, or that has ended.
LEMMA BeginFields ==
  /\ Begin.at = "pick" /\ Begin.attempt = 0 /\ Begin.tried = {} /\ Begin.last = {}
  /\ ~Begin.boot
  /\ \A n : LET e == [Begin EXCEPT !.attempt = n]
           IN  e.at = "pick" /\ e.attempt = n /\ e.tried = {} /\ e.last = {} /\ ~e.boot
  /\ LET e == [Begin EXCEPT !.at = "off"]
     IN  e.at = "off" /\ e.attempt = 0 /\ e.tried = {} /\ e.last = {} /\ ~e.boot
BY DEF Begin

\* How an execution's outcome reaches the handler.
LEMMA ReturnedFields ==
  ASSUME setting.stream \in BOOLEAN, Returned
  PROVE  /\ front = "call" /\ exec'.at = "off" /\ exec'.last = {} /\ exec'.tried = {}
         /\ exec'.attempt = 0 /\ ~exec'.boot
         /\ wrap' = wrap /\ pump' = pump /\ setting' = setting /\ cooling' = cooling
         /\ dataEnds' = dataEnds /\ gone' = gone /\ attempts' = attempts /\ marks' = marks
         /\ verdict' = verdict /\ disturbed' = disturbed
         /\ \/ /\ setting.stream /\ exec.at = "ok" /\ front' = "initial"
               /\ errs' = errs /\ canceled' = canceled /\ got' = got
            \/ /\ setting.stream /\ exec.at = "error" /\ front' = "peek"
               /\ errs'.msg = exec.last /\ canceled' = canceled /\ got' = got
            \/ /\ ~setting.stream /\ exec.at = "ok" /\ front' = "done"
               /\ canceled' = TRUE /\ got' = {attempts} /\ errs' = errs
            \/ /\ ~setting.stream /\ exec.at = "error" /\ front' = "error"
               /\ canceled' = TRUE /\ got' = {} /\ errs' = errs
BY BeginFields DEF Returned, Finish, FrontOnly

LEMMA BeginTypes ==
  ASSUME Retry \in Nat, NEW S
  PROVE  /\ Begin \in Executions(S)
         /\ \A n \in 0..Retry : [Begin EXCEPT !.attempt = n] \in Executions(S)
         /\ [Begin EXCEPT !.at = "off"] \in Executions(S)
<1>1. Begin \in Executions(S)  BY DEF Executions, Begin
<1>2. ASSUME NEW n \in 0..Retry  PROVE [Begin EXCEPT !.attempt = n] \in Executions(S)
  BY <1>1 DEF Executions
<1>3. [Begin EXCEPT !.at = "off"] \in Executions(S)  BY <1>1 DEF Executions
<1>. QED  BY <1>1, <1>2, <1>3

LEMMA PumpTypes ==
  ASSUME pump \in Pumps, NEW m \in Payloads,
         NEW s \in {"next", "exec", "send", "fail", "have", "closing", "closed", "ended"}
  PROVE  Pumping(s) \in Pumps /\ PumpingWith(s, m) \in Pumps
BY DEF Pumps, Payloads, Pumping, PumpingWith

LEMMA PassTypes ==
  ASSUME wrap \in Streams, Pass
  PROVE  wrap' \in Streams /\ wrap.chunk \in Payloads
BY DEF Streams, Payloads, Pass, EndedStream, NoStream

\* Of a set that is not empty Sole takes a member.
LEMMA SoleReport ==
  ASSUME NEW S \in SUBSET Reports, S # {}
  PROVE  Sole(S) \in S /\ Sole(S) \in Reports /\ Sole(S) \in Payloads /\ Sole(S) # "data"
BY DEF Sole, Reports, Errors, Payloads

-----------------------------------------------------------------------------
(* Types.                                                                    *)

LEMMA TypesInit ==
  ASSUME ExecutionAssumption, ExecutionInit
  PROVE  TypeOK
<1>. USE Constants DEF ExecutionInit
<1>1. exec \in Executions(Serving)  BY DEF Executions, Begin
<1>2. wrap \in Streams  BY DEF Streams, NoStream, Payloads
<1>3. pump \in Pumps  BY DEF Pumps, NoPump, Payloads
<1>. QED  BY <1>1, <1>2, <1>3 DEF TypeOK

LEMMA TypesStep ==
  ASSUME ExecutionAssumption, TypeOK, ExecShape, ExecutionNext
  PROVE  TypeOK'
<1>1. Min({attempts + 1, MostTries + 1}) \in Nat
  BY Constants, Requests, MinOfTwo DEF TypeOK, MostTries
<1>2. exec \in Executions(Serving) /\ wrap \in Streams /\ pump \in Pumps /\ attempts \in Nat
  BY DEF TypeOK
<1>3. Retry \in Nat /\ MaxChunks - 1 \in Nat /\ Bootstrap \in Nat /\ "none" \in Payloads  BY Constants DEF Payloads
<1>4. CASE CooldownsPass
  <2>1. exec' \in Executions(Serving)'  BY <1>4, <1>2, MaxOfTwo DEF CooldownsPass, Executions, Serving,
        Reports, Errors
  <2>. QED  BY <2>1, <1>4, Constants, MaxOfTwo DEF CooldownsPass, Deciding, TypeOK, Payloads, Reports,
        Errors, Over, Serving
<1>5. CASE ClientGone  BY <1>5, Constants DEF ClientGone, TypeOK, Payloads, Reports, Errors, Over,
      Serving
<1>6. CASE Propagate  BY <1>6, Constants DEF Propagate, TypeOK, Payloads, Reports, Errors, Over,
      Serving
<1>7. ASSUME NEW c \in Creds, NEW n \in 0..MaxCool, OthersMark(c, n)  PROVE TypeOK'
  BY <1>7, Constants DEF OthersMark, Deciding, TypeOK, Payloads, Reports, Errors, Over, Serving
<1>8. ASSUME NEW c \in Creds, Pick(c)  PROVE TypeOK'
  <2>1. exec' \in Executions(Serving)'  BY <1>8, <1>2 DEF Pick, ExecOnly, Executions, Serving,
        Reports, Errors
  <2>. QED  BY <2>1, <1>8, Constants, <1>1 DEF Pick, ExecOnly, TypeOK, Payloads, Reports, Errors,
        Over, Serving
<1>9. CASE NoPick
  <2>1. exec' \in Executions(Serving)'  BY <1>9, <1>2 DEF NoPick, ExecOnly, Executions, Serving,
        Reports, Errors
  <2>. QED  BY <2>1, <1>9, Constants DEF NoPick, ExecOnly, TypeOK, Payloads, Reports, Errors, Over,
        Serving
<1>10. CASE NoRetry
  <2>1. exec' \in Executions(Serving)'
    BY ZenonT(60), <1>10, <1>2 DEF NoRetry, ExecOnly, Executions, Serving
  <2>2. CASE exec.boot
    <3>1. Sole(exec.last) \in Payloads
      BY <1>10, <1>2, SoleReport DEF NoRetry, ExecShape, Executions
    <3>2. NoStream \in Streams  BY DEF NoStream, Streams, Payloads
    <3>3. wrap' \in Streams  BY <1>10, <2>2, <3>1, <3>2 DEF NoRetry, Streams
    <3>. QED  BY <1>10, <2>1, <3>3 DEF NoRetry, ExecOnly, NoMark, TypeOK, Serving
  <2>3. CASE ~exec.boot  BY <1>10, <2>1, <2>3 DEF NoRetry, ExecOnly, NoMark, TypeOK, Serving
  <2>. QED  BY <2>2, <2>3
<1>11. CASE NextRound
  <2>1. exec.attempt + 1 \in 0..Retry  BY <1>11, <1>2, <1>3 DEF NextRound, ExecShape, Executions
  <2>2. exec' \in Executions(Serving)'  BY <1>11, <1>3, <2>1, BeginTypes DEF NextRound
  <2>. QED  BY <1>11, <2>2 DEF NextRound, ExecOnly, NoMark, TypeOK, Serving
<1>12. CASE ContextEnds
  <2>1. exec' \in Executions(Serving)'
    <3>1. CASE exec' = [exec EXCEPT !.at = "error", !.last = {"canceled"}, !.wait = 0]
      BY <1>12, <1>2, <3>1 DEF ContextEnds, ExecOnly, Executions, Serving, Reports
    <3>2. CASE Canceled
      BY <1>12, <1>2, <3>2 DEF ContextEnds, Canceled, ExecOnly, Executions, Serving, Reports
    <3>. QED  BY <1>12, <3>1, <3>2 DEF ContextEnds
  <2>. QED  BY <1>12, <2>1 DEF ContextEnds, ExecOnly, NoMark, TypeOK, Serving
<1>13. ASSUME NEW n \in 1..MaxWait, JudgeWait(n)  PROVE TypeOK'
  <2>1. n \in Nat  BY <1>3
  <2>2. exec' \in Executions(Serving)'
    BY <1>13, <1>2, <2>1 DEF JudgeWait, ExecOnly, Executions, Serving
  <2>. QED  BY <1>13, <2>2 DEF JudgeWait, ExecOnly, NoMark, TypeOK, Serving
<1>14. ASSUME NEW c \in Creds, CallSucceeds(c)  PROVE TypeOK'
  <2>1. exec' \in Executions(Serving)'  BY ZenonT(60), <1>14, <1>2 DEF CallSucceeds, ExecOnly, Executions,
        Serving, Reports, Errors
  <2>. QED  BY <2>1, <1>14, Constants DEF CallSucceeds, ExecOnly, MarkResult, NoMark, TypeOK, Payloads,
        Reports, Errors, Over, Serving
<1>15. ASSUME NEW c \in Creds, FirstChunk(c)  PROVE TypeOK'
  <2>1. exec' \in Executions(Serving)'  BY <1>15, <1>2, <1>3 DEF FirstChunk, ExecOnly, Executions,
        Serving, Reports, Errors
  <2>2. wrap' \in Streams  BY <1>15, <1>2, <1>3 DEF FirstChunk, ExecOnly, Streams, Payloads,
        Reports, Errors
  <2>. QED  BY <2>1, <2>2, <1>15, Constants DEF FirstChunk, ExecOnly, NoMark, TypeOK, Payloads,
        Reports, Errors, Over, Serving
<1>16. ASSUME NEW c \in Creds, UpstreamEnds(c)  PROVE TypeOK'
  <2>1. wrap' \in Streams  BY <1>16, <1>2 DEF UpstreamEnds, WrapOnly, EndedStream, NoStream,
        Streams, Payloads, Reports, Errors
  <2>. QED  BY <2>1, <1>16, Constants DEF UpstreamEnds, WrapOnly, MarkResult, NoMark, TypeOK, Payloads,
        Reports, Errors, Over, Serving
<1>17. ASSUME NEW c \in Creds, NEW e \in Errors, CallFails(c, e)  PROVE TypeOK'
  <2>1. PICK s \in {"judge", "pick"}, l \in SUBSET Reports, b \in BOOLEAN :
               exec' = [exec EXCEPT !.at = s, !.last = l, !.boot = b]
    BY <1>17 DEF CallFails, Attempt, Canceled, Reports
  <2>2. exec' \in Executions(Serving)'  BY <1>17, <1>2, <2>1 DEF CallFails, ExecOnly, Executions, Serving
  <2>. QED  BY <1>17, <2>2, Constants DEF CallFails, Attempt, MarkResult, NoMark, ExecOnly, TypeOK, Serving
<1>18. ASSUME NEW c \in Creds, NEW e \in Errors, FirstFails(c, e)  PROVE TypeOK'
  <2>1. PICK s \in {"judge", "pick"}, l \in SUBSET Reports, b \in BOOLEAN :
               exec' = [exec EXCEPT !.at = s, !.last = l, !.boot = b]
    BY <1>18 DEF FirstFails, Attempt, Canceled, Reports
  <2>2. exec' \in Executions(Serving)'  BY <1>18, <1>2, <2>1 DEF FirstFails, ExecOnly, Executions, Serving
  <2>. QED  BY <1>18, <2>2, Constants DEF FirstFails, Attempt, MarkResult, NoMark, ExecOnly, TypeOK, Serving
<1>19. ASSUME NEW c \in Creds, NEW e \in Errors, UpstreamFails(c, e)  PROVE TypeOK'
  <2>1. wrap' \in Streams  BY <1>19, <1>2 DEF UpstreamFails, WrapOnly, Streams, Payloads, Reports,
        Errors
  <2>. QED  BY <2>1, <1>19, Constants DEF UpstreamFails, WrapOnly, MarkResult, TypeOK, Payloads, Reports,
        Errors, Over, Serving
<1>20. CASE UpstreamSends
  <2>1. wrap.left - 1 \in Nat  BY <1>20, <1>2 DEF UpstreamSends, Streams
  <2>2. wrap' \in Streams  BY <1>20, <1>2, <2>1 DEF UpstreamSends, Streams, Payloads
  <2>. QED  BY <1>20, <2>2 DEF UpstreamSends, WrapOnly, NoMark, TypeOK, Serving
<1>21. CASE Discard
  <2>1. wrap' \in Streams  BY <1>21, <1>2 DEF Discard, WrapOnly, EndedStream, NoStream, Streams,
        Payloads, Reports, Errors
  <2>. QED  BY <2>1, <1>21, Constants DEF Discard, WrapOnly, NoMark, TypeOK, Payloads, Reports,
        Errors, Over, Serving
<1>22. CASE NextChunk
  <2>1. pump' \in Pumps /\ wrap' \in Streams
    BY <1>22, <1>2, <1>3, PumpTypes, PassTypes DEF NextChunk
  <2>. QED  BY <1>22, <2>1 DEF NextChunk, PumpOnly, TypeOK, Serving
<1>23. CASE HandleData
  <2>1. CASE pump' = [Pumping("send") EXCEPT !.sent = TRUE]
    <3>1. Pumping("send") \in Pumps  BY <1>2, <1>3, PumpTypes
    <3>. QED  BY <1>23, <2>1, <3>1 DEF HandleData, PumpOnly, Pumps, TypeOK, Serving
  <2>2. CASE pump' = Pumping("next")
    BY <1>23, <2>2, <1>2, <1>3, PumpTypes DEF HandleData, PumpOnly, TypeOK, Serving
  <2>3. CASE pump' = PumpingWith("fail", "failed")
    <3>1. "failed" \in Payloads  BY DEF Payloads, Reports, Errors
    <3>. QED  BY <1>23, <2>3, <3>1, <1>2, PumpTypes DEF HandleData, PumpOnly, TypeOK, Serving
  <2>. QED  BY <1>23, <2>1, <2>2, <2>3 DEF HandleData
<1>24. CASE HandleError
  <2>1. CASE MayStartOver
    <3>1. Pumping("exec") \in Pumps /\ Pumping("exec").retries = pump.retries
      BY <1>2, <1>3, PumpTypes, PumpFields
    <3>2. pump.retries + 1 \in 0..Bootstrap  BY <1>2, <1>3, <2>1 DEF MayStartOver, Pumps
    <3>3. pump' \in Pumps  BY <1>24, <2>1, <3>1, <3>2 DEF HandleError, Pumps
    <3>4. exec' \in Executions(Serving)  BY <1>24, <2>1, <1>3, BeginTypes DEF HandleError
    <3>. QED  BY <1>24, <3>3, <3>4 DEF HandleError, PumpOnly, TypeOK, Serving
  <2>2. CASE ~MayStartOver
    <3>1. pump.chunk \in Payloads  BY <1>2 DEF Pumps
    <3>2. pump' \in Pumps /\ UNCHANGED exec  BY <1>24, <2>2, <3>1, <1>2, PumpTypes DEF HandleError
    <3>. QED  BY <1>24, <3>2 DEF HandleError, PumpOnly, TypeOK, Serving
  <2>. QED  BY <2>1, <2>2
<1>25. CASE StartedOver
  <2>1. exec' \in Executions(Serving)  BY <1>25, <1>3, BeginTypes DEF StartedOver
  <2>2. exec.at = "error" => Sole(exec.last) \in Payloads
    BY <1>2, SoleReport DEF ExecShape, Executions
  <2>3. pump' \in Pumps  BY <1>25, <1>2, <1>3, <2>2, PumpTypes DEF StartedOver
  <2>. QED  BY <1>25, <2>1, <2>3 DEF StartedOver, PumpOnly, TypeOK, Serving
<1>26. CASE SendError
  <2>1. pump' \in Pumps  BY <1>26, <1>2, <1>3, PumpTypes DEF SendError
  <2>2. errs' \in [msg : SUBSET Payloads, closed : BOOLEAN]  BY <1>26, <1>2 DEF SendError, TypeOK, Pumps
  <2>. QED  BY <1>26, <2>1, <2>2 DEF SendError, PumpOnly, TypeOK, Serving
<1>27. CASE NotSent
  <2>1. pump' \in Pumps  BY <1>27, <1>2 DEF NotSent, PumpOnly, Pumping, PumpingWith, Pumps,
        Payloads, Reports, Errors
  <2>. QED  BY <2>1, <1>27, Constants DEF NotSent, PumpOnly, TypeOK, Payloads, Reports, Errors,
        Over, Serving
<1>28. CASE CloseErrors
  <2>1. pump' \in Pumps  BY <1>28, <1>2 DEF CloseErrors, PumpOnly, Pumping, PumpingWith, Pumps,
        Payloads, Reports, Errors
  <2>. QED  BY <2>1, <1>28, Constants DEF CloseErrors, PumpOnly, TypeOK, Payloads, Reports, Errors,
        Over, Serving
<1>29. CASE CloseData
  <2>1. pump' \in Pumps  BY <1>29, <1>2 DEF CloseData, PumpOnly, Pumping, PumpingWith, Pumps,
        Payloads, Reports, Errors
  <2>. QED  BY <2>1, <1>29, Constants DEF CloseData, PumpOnly, TypeOK, Payloads, Reports, Errors,
        Over, Serving
<1>30. CASE Returned
  <2>1. exec' \in Executions(Serving)  BY <1>30, <1>3, BeginTypes DEF Returned
  <2>2. errs' \in [msg : SUBSET Payloads, closed : BOOLEAN]
    <3>1. exec.last \subseteq Payloads  BY <1>2 DEF Executions, Payloads
    <3>2. CASE UNCHANGED errs  BY <3>2 DEF TypeOK
    <3>3. CASE errs' = [msg |-> exec.last, closed |-> TRUE]  BY <3>1, <3>3
    <3>. QED  BY <1>30, <3>2, <3>3 DEF Returned
  <2>3. got' \subseteq Nat /\ canceled' \in BOOLEAN
        /\ front' \in {"call", "initial", "peek", "forward"} \cup Over
    BY <1>30, <1>2 DEF Returned, Finish, TypeOK, Over
  <2>. QED  BY <1>30, <2>1, <2>2, <2>3 DEF Returned, FrontOnly, TypeOK, Serving
<1>31. CASE ReadInitial
  <2>1. pump' \in Pumps /\ wrap' \in Streams
    BY <1>31, <1>2, <1>3, PumpTypes, PassTypes DEF ReadInitial
  <2>. QED  BY <1>31, <2>1 DEF ReadInitial, FrontOnly, TypeOK, Serving
<1>32. CASE SeeGone  BY <1>32, Constants DEF SeeGone, Finish, FrontOnly, TypeOK, Payloads,
      Reports, Errors, Over, Serving
<1>33. CASE TakeData
  <2>1. pump' \in Pumps  BY <1>33, <1>2 DEF TakeData, FrontOnly, Pumping, PumpingWith, Pumps,
        Payloads, Reports, Errors
  <2>. QED  BY <2>1, <1>33, Constants DEF TakeData, FrontOnly, TypeOK, Payloads, Reports, Errors,
        Over, Serving
<1>34. CASE TakeError  BY <1>34, Constants DEF TakeError, Finish, FrontOnly, TypeOK, Payloads,
      Reports, Errors, Over, Serving
<1>35. CASE DataEnd  BY <1>35, Constants DEF DataEnd, Finish, LooksAgain, FrontOnly, TypeOK,
      Payloads, Reports, Errors, Over, Serving
<1>36. CASE NextRequest
  <2>1. exec' \in Executions(Serving)  BY <1>36, <1>3, BeginTypes DEF NextRequest
  <2>2. wrap' \in Streams  BY <1>36 DEF NextRequest, NoStream, Streams, Payloads
  <2>3. pump' \in Pumps  BY <1>36, <1>3 DEF NextRequest, NoPump, Pumps, Payloads
  <2>. QED  BY <1>36, <2>1, <2>2, <2>3 DEF NextRequest, TypeOK, Serving
<1>. QED  BY <1>4, <1>5, <1>6, <1>7, <1>8, <1>9, <1>10, <1>11, <1>12, <1>13, <1>14, <1>15,
      <1>16, <1>17, <1>18, <1>19, <1>20, <1>21, <1>22, <1>23, <1>24, <1>25, <1>26, <1>27, <1>28,
      <1>29, <1>30, <1>31, <1>32, <1>33, <1>34, <1>35, <1>36 DEF ExecutionNext, Exec, Upstream,
      Pump, Handler

-----------------------------------------------------------------------------
(* What each phase has in hand.                                              *)

LEMMA ShapeStep ==
  ASSUME ExecutionAssumption, TypeOK, ExecShape, Phases, ExecutionNext
  PROVE  ExecShape'
<1>0. /\ exec \in Executions(Serving) /\ wrap \in Streams /\ pump \in Pumps
      /\ setting.stream \in BOOLEAN
  BY Requests DEF TypeOK
<1>. USE <1>0, NoneFields
<1>1. CASE CooldownsPass  BY <1>1 DEF CooldownsPass, Deciding, Executions, ExecShape
<1>2. CASE ClientGone  BY <1>2 DEF ClientGone, ExecShape
<1>3. CASE Propagate  BY <1>3 DEF Propagate, ExecShape
<1>4. ASSUME NEW c \in Creds, NEW n \in 0..MaxCool, OthersMark(c, n)  PROVE ExecShape'
  BY <1>4 DEF OthersMark, Deciding, ExecShape
<1>5. ASSUME NEW c \in Creds, Pick(c)  PROVE ExecShape'
  BY <1>5 DEF Pick, ExecOnly, Executions, ExecShape
<1>6. CASE NoPick  BY <1>6 DEF NoPick, ExecOnly, Executions, ExecShape
<1>7. CASE NoRetry
  BY ZenonT(60), <1>7 DEF NoRetry, ExecOnly, NoMark, NoStream, Executions, ExecShape
<1>8. CASE NextRound  BY <1>8, BeginFields DEF NextRound, ExecOnly, NoMark, ExecShape
<1>9. CASE ContextEnds  BY <1>9 DEF ContextEnds, Canceled, ExecOnly, NoMark, Executions,
      ExecShape
<1>10. ASSUME NEW n \in 1..MaxWait, JudgeWait(n)  PROVE ExecShape'
  BY <1>10 DEF JudgeWait, WaitAllowed, ExecOnly, NoMark, Executions, ExecShape
<1>11. ASSUME NEW c \in Creds, CallSucceeds(c)  PROVE ExecShape'
  BY <1>11 DEF CallSucceeds, ExecOnly, MarkResult, NoMark, Executions, ExecShape
<1>12. ASSUME NEW c \in Creds, FirstChunk(c)  PROVE ExecShape'
  BY <1>12 DEF FirstChunk, ExecOnly, NoMark, Executions, ExecShape
<1>13. ASSUME NEW c \in Creds, UpstreamEnds(c)  PROVE ExecShape'
  BY <1>13 DEF UpstreamEnds, WrapOnly, MarkResult, NoMark, EndedStream, NoStream, ExecShape
<1>14. ASSUME NEW c \in Creds, NEW e \in Errors, CallFails(c, e)  PROVE ExecShape'
  BY <1>14, FailFields DEF CallFails, NoMark, ExecOnly, ExecShape
<1>15. ASSUME NEW c \in Creds, NEW e \in Errors, FirstFails(c, e)  PROVE ExecShape'
  BY <1>15, FailFields DEF FirstFails, NoMark, ExecOnly, ExecShape
<1>16. ASSUME NEW c \in Creds, NEW e \in Errors, UpstreamFails(c, e)  PROVE ExecShape'
  BY <1>16 DEF UpstreamFails, WrapOnly, MarkResult, Streams, ExecShape
<1>17. CASE UpstreamSends  BY <1>17 DEF UpstreamSends, WrapOnly, NoMark, Streams, ExecShape
<1>18. CASE Discard  BY <1>18 DEF Discard, WrapOnly, NoMark, EndedStream, NoStream, ExecShape
<1>19. CASE NextChunk  BY <1>19, PumpFields, PassFields DEF NextChunk, PumpOnly, ExecShape
<1>20. CASE HandleData  BY <1>20, DataFields DEF HandleData, PumpOnly, ExecShape
<1>21. CASE HandleError  BY <1>21, ErrorFields, BeginFields DEF HandleError, PumpOnly, ExecShape
<1>22. CASE StartedOver  BY <1>22, PumpFields, BeginFields DEF StartedOver, PumpOnly, ExecShape
<1>23. CASE SendError  BY <1>23, PumpFields DEF SendError, PumpOnly, ExecShape
<1>24. CASE NotSent  BY <1>24, PumpFields DEF NotSent, PumpOnly, ExecShape
<1>25. CASE CloseErrors  BY <1>25, PumpFields DEF CloseErrors, PumpOnly, ExecShape
<1>26. CASE CloseData  BY <1>26, PumpFields DEF CloseData, PumpOnly, ExecShape
<1>27. CASE Returned  BY <1>27, ReturnedFields DEF ExecShape
<1>28. CASE ReadInitial  BY <1>28, PumpFields, PassFields DEF ReadInitial, FrontOnly, ExecShape,
      Phases
<1>29. CASE SeeGone  BY <1>29 DEF SeeGone, Finish, FrontOnly, ExecShape
<1>30. CASE TakeData  BY <1>30, PumpFields DEF TakeData, FrontOnly, ExecShape
<1>31. CASE TakeError  BY <1>31 DEF TakeError, Finish, FrontOnly, ExecShape
<1>32. CASE DataEnd  BY <1>32 DEF DataEnd, Finish, LooksAgain, FrontOnly, ExecShape
<1>33. CASE NextRequest  BY <1>33, BeginFields DEF NextRequest, ExecShape
<1>. QED  BY <1>1, <1>2, <1>3, <1>4, <1>5, <1>6, <1>7, <1>8, <1>9, <1>10, <1>11, <1>12, <1>13,
      <1>14, <1>15, <1>16, <1>17, <1>18, <1>19, <1>20, <1>21, <1>22, <1>23, <1>24, <1>25, <1>26,
      <1>27, <1>28, <1>29, <1>30, <1>31, <1>32, <1>33 DEF ExecutionNext, Exec, Upstream, Pump,
      Handler

LEMMA PhasesStep ==
  ASSUME ExecutionAssumption, TypeOK, ExecShape, Phases, ExecutionNext
  PROVE  Phases'
<1>0. /\ exec \in Executions(Serving) /\ wrap \in Streams /\ pump \in Pumps
      /\ setting.stream \in BOOLEAN
  BY Requests DEF TypeOK
<1>. USE <1>0, NoneFields
<1>1. CASE CooldownsPass  BY <1>1 DEF CooldownsPass, Deciding, Executions, Phases
<1>2. CASE ClientGone  BY <1>2 DEF ClientGone, Phases
<1>3. CASE Propagate  BY <1>3 DEF Propagate, Phases
<1>4. ASSUME NEW c \in Creds, NEW n \in 0..MaxCool, OthersMark(c, n)  PROVE Phases'
  BY <1>4 DEF OthersMark, Deciding, Phases
<1>5. ASSUME NEW c \in Creds, Pick(c)  PROVE Phases'
  BY <1>5 DEF Pick, ExecOnly, Executions, Phases
<1>6. CASE NoPick  BY <1>6 DEF NoPick, ExecOnly, Executions, Phases
<1>7. CASE NoRetry  BY <1>7 DEF NoRetry, ExecOnly, NoMark, NoStream, Executions, Phases
<1>8. CASE NextRound  BY <1>8, BeginFields DEF NextRound, ExecOnly, NoMark, Phases
<1>9. CASE ContextEnds  BY <1>9 DEF ContextEnds, Canceled, ExecOnly, NoMark, Executions, Phases
<1>10. ASSUME NEW n \in 1..MaxWait, JudgeWait(n)  PROVE Phases'
  BY <1>10 DEF JudgeWait, WaitAllowed, ExecOnly, NoMark, Executions, Phases
<1>11. ASSUME NEW c \in Creds, CallSucceeds(c)  PROVE Phases'
  BY <1>11 DEF CallSucceeds, ExecOnly, MarkResult, NoMark, Executions, Phases
<1>12. ASSUME NEW c \in Creds, FirstChunk(c)  PROVE Phases'
  BY <1>12 DEF FirstChunk, ExecOnly, NoMark, Executions, Phases
<1>13. ASSUME NEW c \in Creds, UpstreamEnds(c)  PROVE Phases'
  BY <1>13 DEF UpstreamEnds, WrapOnly, MarkResult, NoMark, EndedStream, NoStream, Phases
<1>14. ASSUME NEW c \in Creds, NEW e \in Errors, CallFails(c, e)  PROVE Phases'
  BY <1>14, FailFields DEF CallFails, NoMark, ExecOnly, Phases
<1>15. ASSUME NEW c \in Creds, NEW e \in Errors, FirstFails(c, e)  PROVE Phases'
  BY <1>15, FailFields DEF FirstFails, NoMark, ExecOnly, Phases
<1>16. ASSUME NEW c \in Creds, NEW e \in Errors, UpstreamFails(c, e)  PROVE Phases'
  BY <1>16 DEF UpstreamFails, WrapOnly, MarkResult, Streams, Phases
<1>17. CASE UpstreamSends  BY <1>17 DEF UpstreamSends, WrapOnly, NoMark, Streams, Phases
<1>18. CASE Discard  BY <1>18 DEF Discard, WrapOnly, NoMark, EndedStream, NoStream, Phases
<1>19. CASE NextChunk  BY <1>19, PumpFields, PassFields DEF NextChunk, PumpOnly, Phases
<1>20. CASE HandleData  BY <1>20, DataFields DEF HandleData, PumpOnly, Phases
<1>21. CASE HandleError  BY <1>21, ErrorFields, BeginFields DEF HandleError, PumpOnly, Phases
<1>22. CASE StartedOver  BY <1>22, PumpFields, BeginFields DEF StartedOver, PumpOnly, Phases
<1>23. CASE SendError  BY <1>23, PumpFields DEF SendError, PumpOnly, Phases
<1>24. CASE NotSent  BY <1>24, PumpFields DEF NotSent, PumpOnly, Phases
<1>25. CASE CloseErrors  BY <1>25, PumpFields DEF CloseErrors, PumpOnly, Phases
<1>26. CASE CloseData  BY <1>26, PumpFields DEF CloseData, PumpOnly, Phases
<1>27. CASE Returned
  <2>1. /\ pump' = NoPump /\ ~dataEnds' /\ exec'.at = "off" /\ setting' = setting /\ gone' = gone
    BY <1>27, ReturnedFields DEF Phases
  <2>2. \/ front' = "initial" /\ setting.stream /\ canceled' = canceled
        \/ front' = "peek" /\ canceled' = canceled
        \/ front' \in Over /\ canceled' = TRUE
    BY <1>27, ReturnedFields DEF Over
  <2>3. front \notin Over  BY <1>27, ReturnedFields DEF Over
  <2>. QED  BY <2>1, <2>2, <2>3 DEF Phases, Over
<1>28. CASE ReadInitial  BY <1>28, PumpFields, PassFields DEF ReadInitial, FrontOnly, Phases,
      Over
<1>29. CASE SeeGone  BY <1>29 DEF SeeGone, Finish, FrontOnly, Phases, Over
<1>30. CASE TakeData  BY <1>30, PumpFields DEF TakeData, FrontOnly, Phases, Over
<1>31. CASE TakeError  BY <1>31 DEF TakeError, Finish, FrontOnly, Phases, Over
<1>32. CASE DataEnd  BY <1>32 DEF DataEnd, Finish, LooksAgain, FrontOnly, Phases, Over
<1>33. CASE NextRequest  BY <1>33, BeginFields DEF NextRequest, Phases, Over
<1>. QED  BY <1>1, <1>2, <1>3, <1>4, <1>5, <1>6, <1>7, <1>8, <1>9, <1>10, <1>11, <1>12, <1>13,
      <1>14, <1>15, <1>16, <1>17, <1>18, <1>19, <1>20, <1>21, <1>22, <1>23, <1>24, <1>25, <1>26,
      <1>27, <1>28, <1>29, <1>30, <1>31, <1>32, <1>33 DEF ExecutionNext, Exec, Upstream, Pump,
      Handler

-----------------------------------------------------------------------------
(* Every attempt is recorded once.                                           *)

LEMMA SettledStep ==
  ASSUME ExecutionAssumption, TypeOK, ExecShape, Phases, Settled, ExecutionNext
  PROVE  Settled'
<1>0. /\ exec \in Executions(Serving) /\ wrap \in Streams /\ pump \in Pumps
      /\ setting.stream \in BOOLEAN /\ marks \in Nat /\ attempts \in Nat
      /\ canceled \in BOOLEAN
  BY Requests DEF TypeOK
<1>. USE <1>0, NoneFields DEF Settled, Calling, Open, Drained
<1>1. CASE CooldownsPass  BY <1>1 DEF CooldownsPass, Deciding, Executions
<1>2. CASE ClientGone  BY <1>2 DEF ClientGone
<1>3. CASE Propagate  BY <1>3 DEF Propagate
<1>4. ASSUME NEW c \in Creds, NEW n \in 0..MaxCool, OthersMark(c, n)  PROVE Settled'
  BY <1>4 DEF OthersMark, Deciding
<1>5. ASSUME NEW c \in Creds, Pick(c)  PROVE Settled'
  BY <1>5 DEF Pick, ExecOnly, Executions
<1>6. CASE NoPick
  <2>1. /\ exec.at = "pick" /\ exec'.at = "judge"
        /\ UNCHANGED <<wrap, pump, attempts, marks, canceled>>
    BY <1>6 DEF NoPick, ExecOnly, Executions
  <2>. QED  BY <2>1
<1>7. CASE NoRetry
  <2>1. exec.at = "judge" /\ exec'.at \in {"ok", "error"} /\ UNCHANGED <<pump, attempts, marks, canceled>>
    BY <1>7 DEF NoRetry, ExecOnly, NoMark, Executions
  <2>2. CASE exec.boot
    <3>1. Sole(exec.last) # "data"  BY <1>7, SoleReport DEF NoRetry, ExecShape, Executions
    <3>2. wrap'.at = "ready" /\ wrap'.chunk # "data" /\ exec'.at = "ok"
      BY <1>7, <2>2, <3>1 DEF NoRetry, NoStream, Executions
    <3>3. ~(pump.at = "have" /\ pump.chunk # "data")  BY <2>1 DEF Phases
    <3>. QED  BY <2>1, <3>2, <3>3
  <2>3. CASE ~exec.boot  BY <1>7, <2>1, <2>3 DEF NoRetry
  <2>. QED  BY <2>2, <2>3
<1>8. CASE NextRound  BY <1>8, BeginFields DEF NextRound, ExecOnly, NoMark
<1>9. CASE ContextEnds  BY <1>9 DEF ContextEnds, Canceled, ExecOnly, NoMark, Executions
<1>10. ASSUME NEW n \in 1..MaxWait, JudgeWait(n)  PROVE Settled'
  BY <1>10 DEF JudgeWait, WaitAllowed, ExecOnly, NoMark, Executions
<1>11. ASSUME NEW c \in Creds, CallSucceeds(c)  PROVE Settled'
  BY <1>11 DEF CallSucceeds, ExecOnly, MarkResult, NoMark, Executions
<1>12. ASSUME NEW c \in Creds, FirstChunk(c)  PROVE Settled'
  <2>1. /\ exec.at = "first" /\ exec'.at = "ok" /\ UNCHANGED <<pump, attempts, marks, canceled>>
        /\ wrap'.at = "emit" /\ wrap'.chunk = "data" /\ wrap'.failed = FALSE
    BY <1>12 DEF FirstChunk, ExecOnly, NoMark, Executions
  <2>2. ~(pump.at = "have" /\ pump.chunk # "data")  BY <2>1 DEF Phases
  <2>. QED  BY <2>1, <2>2
<1>13. ASSUME NEW c \in Creds, UpstreamEnds(c)  PROVE Settled'
  BY <1>13 DEF UpstreamEnds, WrapOnly, MarkResult, NoMark, EndedStream, NoStream
<1>14. ASSUME NEW c \in Creds, NEW e \in Errors, CallFails(c, e)  PROVE Settled'
  <2>1. /\ exec.at \in {"call", "first"} /\ exec'.at \in {"judge", "pick"}
        /\ UNCHANGED <<wrap, pump, attempts, canceled>>
        /\ (canceled /\ marks' = marks) \/ marks' = marks + 1
    BY <1>14, FailFields DEF CallFails, NoMark, ExecOnly
  <2>. QED  BY <2>1
<1>15. ASSUME NEW c \in Creds, NEW e \in Errors, FirstFails(c, e)  PROVE Settled'
  <2>1. /\ exec.at \in {"call", "first"} /\ exec'.at \in {"judge", "pick"}
        /\ UNCHANGED <<wrap, pump, attempts, canceled>>
        /\ (canceled /\ marks' = marks) \/ marks' = marks + 1
    BY <1>15, FailFields DEF FirstFails, NoMark, ExecOnly
  <2>. QED  BY <2>1
<1>16. ASSUME NEW c \in Creds, NEW e \in Errors, UpstreamFails(c, e)  PROVE Settled'
  <2>1. /\ wrap.at = "read" /\ ~wrap.failed /\ UNCHANGED <<exec, pump, attempts, canceled>>
        /\ wrap'.at = "emit" /\ wrap'.chunk # "data" /\ wrap'.failed = TRUE
        /\ marks' = marks + 1
    BY <1>16 DEF UpstreamFails, WrapOnly, MarkResult, Streams, Errors
  <2>. QED  BY <2>1
<1>17. CASE UpstreamSends  BY <1>17 DEF UpstreamSends, WrapOnly, NoMark, Streams
<1>18. CASE Discard  BY <1>18 DEF Discard, WrapOnly, NoMark, EndedStream, NoStream
<1>19. CASE NextChunk  BY <1>19, PumpFields, PassFields DEF NextChunk, PumpOnly
<1>20. CASE HandleData  BY <1>20, DataFields DEF HandleData, PumpOnly
<1>21. CASE HandleError
  <2>1. exec.at = "off"  BY <1>21 DEF HandleError, Phases
  <2>. QED  BY <1>21, <2>1, ErrorFields, BeginFields DEF HandleError, PumpOnly
<1>22. CASE StartedOver  BY <1>22, PumpFields, BeginFields DEF StartedOver, PumpOnly
<1>23. CASE SendError  BY <1>23, PumpFields DEF SendError, PumpOnly
<1>24. CASE NotSent  BY <1>24, PumpFields DEF NotSent, PumpOnly
<1>25. CASE CloseErrors  BY <1>25, PumpFields DEF CloseErrors, PumpOnly
<1>26. CASE CloseData  BY <1>26, PumpFields DEF CloseData, PumpOnly
<1>27. CASE Returned  BY <1>27, ReturnedFields
<1>28. CASE ReadInitial  BY <1>28, PumpFields, PassFields DEF ReadInitial, FrontOnly, Phases
<1>29. CASE SeeGone  BY <1>29 DEF SeeGone, Finish, FrontOnly
<1>30. CASE TakeData  BY <1>30, PumpFields DEF TakeData, FrontOnly
<1>31. CASE TakeError  BY <1>31 DEF TakeError, Finish, FrontOnly
<1>32. CASE DataEnd  BY <1>32 DEF DataEnd, Finish, LooksAgain, FrontOnly
<1>33. CASE NextRequest  BY <1>33, BeginFields DEF NextRequest
<1>. QED  BY <1>1, <1>2, <1>3, <1>4, <1>5, <1>6, <1>7, <1>8, <1>9, <1>10, <1>11, <1>12, <1>13,
      <1>14, <1>15, <1>16, <1>17, <1>18, <1>19, <1>20, <1>21, <1>22, <1>23, <1>24, <1>25, <1>26,
      <1>27, <1>28, <1>29, <1>30, <1>31, <1>32, <1>33 DEF ExecutionNext, Exec, Upstream, Pump,
      Handler

-----------------------------------------------------------------------------
(* One attempt is heard.                                                     *)

LEMMA VoicesStep ==
  ASSUME ExecutionAssumption, TypeOK, ExecShape, Phases, Voices, ExecutionNext
  PROVE  Voices'
<1>0. /\ exec \in Executions(Serving) /\ wrap \in Streams /\ pump \in Pumps
      /\ setting.stream \in BOOLEAN /\ attempts \in Nat
  BY Requests DEF TypeOK
<1>. USE <1>0, NoneFields DEF Voices
<1>1. CASE CooldownsPass  BY <1>1 DEF CooldownsPass, Deciding, Executions
<1>2. CASE ClientGone  BY <1>2 DEF ClientGone
<1>3. CASE Propagate  BY <1>3 DEF Propagate
<1>4. ASSUME NEW c \in Creds, NEW n \in 0..MaxCool, OthersMark(c, n)  PROVE Voices'
  BY <1>4 DEF OthersMark, Deciding
<1>5. ASSUME NEW c \in Creds, Pick(c)  PROVE Voices'
  BY <1>5 DEF Pick, ExecOnly, Executions
<1>6. CASE NoPick  BY <1>6 DEF NoPick, ExecOnly, Executions
<1>7. CASE NoRetry  BY <1>7 DEF NoRetry, ExecOnly, NoMark, NoStream, Executions
<1>8. CASE NextRound  BY <1>8, BeginFields DEF NextRound, ExecOnly, NoMark
<1>9. CASE ContextEnds  BY <1>9 DEF ContextEnds, Canceled, ExecOnly, NoMark, Executions
<1>10. ASSUME NEW n \in 1..MaxWait, JudgeWait(n)  PROVE Voices'
  BY <1>10 DEF JudgeWait, WaitAllowed, ExecOnly, NoMark, Executions
<1>11. ASSUME NEW c \in Creds, CallSucceeds(c)  PROVE Voices'
  BY <1>11 DEF CallSucceeds, ExecOnly, MarkResult, NoMark, Executions
<1>12. ASSUME NEW c \in Creds, FirstChunk(c)  PROVE Voices'
  BY <1>12 DEF FirstChunk, ExecOnly, NoMark, Executions
<1>13. ASSUME NEW c \in Creds, UpstreamEnds(c)  PROVE Voices'
  BY <1>13 DEF UpstreamEnds, WrapOnly, MarkResult, NoMark, EndedStream, NoStream
<1>14. ASSUME NEW c \in Creds, NEW e \in Errors, CallFails(c, e)  PROVE Voices'
  BY <1>14, FailFields DEF CallFails, NoMark, ExecOnly
<1>15. ASSUME NEW c \in Creds, NEW e \in Errors, FirstFails(c, e)  PROVE Voices'
  BY <1>15, FailFields DEF FirstFails, NoMark, ExecOnly
<1>16. ASSUME NEW c \in Creds, NEW e \in Errors, UpstreamFails(c, e)  PROVE Voices'
  BY <1>16 DEF UpstreamFails, WrapOnly, MarkResult, Streams
<1>17. CASE UpstreamSends  BY <1>17 DEF UpstreamSends, WrapOnly, NoMark, Streams
<1>18. CASE Discard  BY <1>18 DEF Discard, WrapOnly, NoMark, EndedStream, NoStream
<1>19. CASE NextChunk  BY <1>19, PumpFields, PassFields DEF NextChunk, PumpOnly
<1>20. CASE HandleData  BY <1>20, DataFields DEF HandleData, PumpOnly, Phases
<1>21. CASE HandleError  BY <1>21, ErrorFields, BeginFields DEF HandleError, PumpOnly, Phases,
      ExecShape
<1>22. CASE StartedOver  BY <1>22, PumpFields, BeginFields DEF StartedOver, PumpOnly
<1>23. CASE SendError  BY <1>23, PumpFields DEF SendError, PumpOnly
<1>24. CASE NotSent  BY <1>24, PumpFields DEF NotSent, PumpOnly
<1>25. CASE CloseErrors  BY <1>25, PumpFields DEF CloseErrors, PumpOnly
<1>26. CASE CloseData  BY <1>26, PumpFields DEF CloseData, PumpOnly
<1>27. CASE Returned  BY <1>27, ReturnedFields DEF Phases
<1>28. CASE ReadInitial  BY <1>28, PumpFields, PassFields DEF ReadInitial, FrontOnly
<1>29. CASE SeeGone  BY <1>29 DEF SeeGone, Finish, FrontOnly
<1>30. CASE TakeData  BY <1>30, PumpFields DEF TakeData, FrontOnly, Phases, ExecShape
<1>31. CASE TakeError  BY <1>31 DEF TakeError, Finish, FrontOnly
<1>32. CASE DataEnd  BY <1>32 DEF DataEnd, Finish, LooksAgain, FrontOnly
<1>33. CASE NextRequest  BY <1>33, BeginFields DEF NextRequest
<1>. QED  BY <1>1, <1>2, <1>3, <1>4, <1>5, <1>6, <1>7, <1>8, <1>9, <1>10, <1>11, <1>12, <1>13,
      <1>14, <1>15, <1>16, <1>17, <1>18, <1>19, <1>20, <1>21, <1>22, <1>23, <1>24, <1>25, <1>26,
      <1>27, <1>28, <1>29, <1>30, <1>31, <1>32, <1>33 DEF ExecutionNext, Exec, Upstream, Pump,
      Handler

-----------------------------------------------------------------------------
(* What is said to be complete is.                                           *)

\* While the Manager works, no part of the answer is under way.
LEMMA ManagerAlone ==
  ASSUME Phases, Truth, exec.at # "off"
  PROVE  /\ pump.at \in {"none", "exec"} /\ front # "initial"
         /\ ~(front = "done" /\ ~gone /\ Recheck)
<1>1. CASE front = "call"  BY <1>1, NoneFields DEF Phases
<1>2. CASE front # "call"
  <2>1. pump.at = "exec"  BY <1>2 DEF Phases
  <2>. QED  BY <2>1, NoneFields DEF Phases, Truth
<1>. QED  BY <1>1, <1>2

LEMMA TruthStep ==
  ASSUME ExecutionAssumption, TypeOK, ExecShape, Phases, Settled, Truth, ExecutionNext
  PROVE  Truth'
<1>0. /\ exec \in Executions(Serving) /\ wrap \in Streams /\ pump \in Pumps
      /\ setting.stream \in BOOLEAN /\ marks \in Nat /\ attempts \in Nat
      /\ canceled \in BOOLEAN
  BY Requests DEF TypeOK
<1>. USE <1>0, NoneFields DEF Truth, Handed, Reading
<1>1. CASE CooldownsPass  BY <1>1 DEF CooldownsPass, Deciding, Executions
<1>2. CASE ClientGone  BY <1>2 DEF ClientGone
<1>3. CASE Propagate  BY <1>3 DEF Propagate
<1>4. ASSUME NEW c \in Creds, NEW n \in 0..MaxCool, OthersMark(c, n)  PROVE Truth'
  BY <1>4 DEF OthersMark, Deciding
<1>5. ASSUME NEW c \in Creds, Pick(c)  PROVE Truth'
  BY <1>5 DEF Pick, ExecOnly, Executions
<1>6. CASE NoPick
  <2>1. exec.at = "pick" /\ exec'.at = "judge" /\ UNCHANGED wrap
        /\ UNCHANGED <<pump, front, errs, canceled, gone, setting>>
    BY <1>6 DEF NoPick, ExecOnly, Executions
  <2>2. pump.at \in {"none", "exec"} /\ front # "initial" /\ ~(front = "done" /\ ~gone /\ Recheck)
    BY <2>1, ManagerAlone
  <2>. QED  BY <2>1, <2>2
<1>7. CASE NoRetry
  <2>1. exec.at = "judge"
        /\ UNCHANGED <<pump, front, errs, canceled, gone, setting>>
    BY <1>7 DEF NoRetry, ExecOnly
  <2>2. pump.at \in {"none", "exec"} /\ front # "initial" /\ ~(front = "done" /\ ~gone /\ Recheck)
    BY <2>1, ManagerAlone
  <2>3. CASE exec.boot
    <3>1. exec'.at = "ok" /\ wrap'.at = "ready" /\ setting.stream
      BY <1>7, <2>3 DEF NoRetry, NoStream, Executions, ExecShape
    <3>. QED  BY <2>1, <2>2, <3>1
  <2>4. CASE ~exec.boot
    <3>1. exec'.at = "error" /\ UNCHANGED <<wrap, verdict>>  BY <1>7, <2>4 DEF NoRetry, NoMark, Executions
    <3>. QED  BY <2>1, <2>2, <3>1
  <2>. QED  BY <2>3, <2>4
<1>8. CASE NextRound  BY <1>8, BeginFields DEF NextRound, ExecOnly, NoMark
<1>9. CASE ContextEnds  BY <1>9 DEF ContextEnds, Canceled, ExecOnly, NoMark, Executions
<1>10. ASSUME NEW n \in 1..MaxWait, JudgeWait(n)  PROVE Truth'
  BY <1>10 DEF JudgeWait, WaitAllowed, ExecOnly, NoMark, Executions
<1>11. ASSUME NEW c \in Creds, CallSucceeds(c)  PROVE Truth'
  BY <1>11 DEF CallSucceeds, ExecOnly, MarkResult, NoMark, Executions
<1>12. ASSUME NEW c \in Creds, FirstChunk(c)  PROVE Truth'
  <2>1. /\ exec.at = "first" /\ exec'.at = "ok" /\ setting.stream /\ wrap'.at = "emit"
        /\ UNCHANGED <<pump, front, errs, canceled, gone, setting>>
    BY <1>12 DEF FirstChunk, ExecOnly, Executions, ExecShape
  <2>2. pump.at \in {"none", "exec"} /\ front # "initial" /\ ~(front = "done" /\ ~gone /\ Recheck)
    BY <2>1, ManagerAlone
  <2>. QED  BY <2>1, <2>2
<1>13. ASSUME NEW c \in Creds, UpstreamEnds(c)  PROVE Truth'
  BY <1>13 DEF UpstreamEnds, WrapOnly, MarkResult, NoMark, EndedStream, NoStream
<1>14. ASSUME NEW c \in Creds, NEW e \in Errors, CallFails(c, e)  PROVE Truth'
  <2>1. exec.at \in {"call", "first"} /\ exec'.at \in {"judge", "pick"} /\ UNCHANGED wrap
        /\ UNCHANGED <<pump, front, errs, canceled, gone, setting>>
    BY <1>14, FailFields DEF CallFails, ExecOnly
  <2>2. pump.at \in {"none", "exec"} /\ front # "initial" /\ ~(front = "done" /\ ~gone /\ Recheck)
    BY <2>1, ManagerAlone
  <2>. QED  BY <2>1, <2>2
<1>15. ASSUME NEW c \in Creds, NEW e \in Errors, FirstFails(c, e)  PROVE Truth'
  <2>1. exec.at \in {"call", "first"} /\ exec'.at \in {"judge", "pick"} /\ UNCHANGED wrap
        /\ UNCHANGED <<pump, front, errs, canceled, gone, setting>>
    BY <1>15, FailFields DEF FirstFails, ExecOnly
  <2>2. pump.at \in {"none", "exec"} /\ front # "initial" /\ ~(front = "done" /\ ~gone /\ Recheck)
    BY <2>1, ManagerAlone
  <2>. QED  BY <2>1, <2>2
<1>16. ASSUME NEW c \in Creds, NEW e \in Errors, UpstreamFails(c, e)  PROVE Truth'
  <2>1. /\ wrap.at = "read" /\ ~wrap.failed /\ wrap'.at = "emit" /\ UNCHANGED exec
        /\ UNCHANGED <<pump, front, errs, canceled, gone, setting>>
    BY <1>16 DEF UpstreamFails, WrapOnly, Streams
  <2>2. exec.at \in {"ok", "off"} /\ setting.stream
    BY <2>1 DEF Settled, Drained, ExecShape
  <2>. QED  BY <2>1, <2>2
<1>17. CASE UpstreamSends  BY <1>17 DEF UpstreamSends, WrapOnly, NoMark, Streams
<1>18. CASE Discard  BY <1>18 DEF Discard, WrapOnly, NoMark, EndedStream, NoStream
<1>19. CASE NextChunk
  <2>1. /\ pump.at = "next" /\ exec.at # "ok" /\ front # "initial"
        /\ UNCHANGED <<exec, errs, front, canceled, gone, setting, verdict>>
    BY <1>19 DEF NextChunk, PumpOnly, Phases
  <2>2. CASE pump' = Pumping("closing") /\ UNCHANGED wrap
    BY <1>19, <2>1, <2>2, PumpFields DEF NextChunk
  <2>3. CASE Pass /\ pump' = PumpingWith("have", wrap.chunk)
    <3>1. pump'.at = "have" /\ pump'.chunk = wrap.chunk  BY <2>3, PumpFields
    <3>. QED  BY <2>1, <2>3, <3>1, PassFields DEF Settled
  <2>. QED  BY <1>19, <2>2, <2>3 DEF NextChunk
<1>20. CASE HandleData  BY <1>20, DataFields DEF HandleData, PumpOnly
<1>21. CASE HandleError
  <2>1. pump'.at \in {"exec", "fail"} /\ (exec'.at = "pick" \/ UNCHANGED exec) /\ pump.at = "have"
    BY <1>21, ErrorFields, BeginFields
  <2>2. UNCHANGED <<wrap, errs, front, canceled, gone, setting, verdict>>
    BY <1>21 DEF HandleError, PumpOnly
  <2>. QED  BY <2>1, <2>2
<1>22. CASE StartedOver
  <2>1. setting.stream  BY <1>22 DEF StartedOver, ExecShape
  <2>2. exec'.at = "off" /\ UNCHANGED <<wrap, errs, front, canceled, gone, setting, verdict>>
    BY <1>22, BeginFields DEF StartedOver, PumpOnly
  <2>3. (exec.at = "ok" /\ pump'.at = "next") \/ pump'.at = "fail"
    BY <1>22, PumpFields DEF StartedOver
  <2>4. pump.at = "exec"  BY <1>22 DEF StartedOver
  <2>. QED  BY <2>1, <2>2, <2>3, <2>4
<1>23. CASE SendError
  <2>1. /\ pump.at = "fail" /\ pump'.at = "closing"
        /\ UNCHANGED <<exec, wrap, front, canceled, gone, setting, verdict>>
    BY <1>23, PumpFields DEF SendError, PumpOnly
  <2>2. errs \in [msg : SUBSET Payloads, closed : BOOLEAN]  BY DEF TypeOK
  <2>3. errs'.msg # {} \/ canceled  BY <1>23, <2>2 DEF SendError
  <2>. QED  BY <2>1, <2>3
<1>24. CASE NotSent  BY <1>24, PumpFields DEF NotSent, PumpOnly
<1>25. CASE CloseErrors  BY <1>25, PumpFields DEF CloseErrors, PumpOnly
<1>26. CASE CloseData  BY <1>26, PumpFields DEF CloseData, PumpOnly
<1>27. CASE Returned
  <2>1. pump = NoPump  BY <1>27, ReturnedFields DEF Phases
  <2>. QED  BY <1>27, <2>1, ReturnedFields DEF ExecShape
<1>28. CASE ReadInitial
  <2>1. /\ front = "initial" /\ front' = "peek" /\ pump = NoPump /\ exec.at # "ok"
        /\ UNCHANGED <<exec, errs, canceled, gone, setting, verdict>>
    BY <1>28 DEF ReadInitial, FrontOnly, Phases
  <2>2. CASE pump' = Pumping("closing") /\ UNCHANGED wrap
    BY <1>28, <2>1, <2>2, PumpFields DEF ReadInitial
  <2>3. CASE Pass /\ pump' = PumpingWith("have", wrap.chunk)
    <3>1. pump'.at = "have" /\ pump'.chunk = wrap.chunk  BY <2>3, PumpFields
    <3>. QED  BY <2>1, <2>3, <3>1, PassFields DEF Settled
  <2>. QED  BY <1>28, <2>2, <2>3 DEF ReadInitial
<1>29. CASE SeeGone  BY <1>29 DEF SeeGone, Finish, FrontOnly
<1>30. CASE TakeData  BY <1>30, PumpFields DEF TakeData, FrontOnly
<1>31. CASE TakeError
  <2>1. canceled' = TRUE /\ front' = "error" /\ UNCHANGED <<exec, wrap, pump, gone, setting, verdict>>
    BY <1>31 DEF TakeError, Finish, FrontOnly
  <2>. QED  BY <2>1
<1>32. CASE DataEnd
  <2>1. /\ front \in {"peek", "forward"} /\ pump.at = "ended" /\ canceled' = TRUE
        /\ UNCHANGED <<exec, wrap, pump, errs, gone, setting, verdict>>
    BY <1>32 DEF DataEnd, Finish, FrontOnly, Phases
  <2>2. front' \in {"done", "error"} /\ (front' = "done" /\ Recheck => errs.msg = {})
    BY <1>32 DEF DataEnd, Finish, LooksAgain
  <2>3. ~gone => ~canceled  BY <2>1 DEF Phases, Over
  <2>. QED  BY <2>1, <2>2, <2>3
<1>33. CASE NextRequest  BY <1>33, BeginFields DEF NextRequest
<1>. QED  BY <1>1, <1>2, <1>3, <1>4, <1>5, <1>6, <1>7, <1>8, <1>9, <1>10, <1>11, <1>12, <1>13,
      <1>14, <1>15, <1>16, <1>17, <1>18, <1>19, <1>20, <1>21, <1>22, <1>23, <1>24, <1>25, <1>26,
      <1>27, <1>28, <1>29, <1>30, <1>31, <1>32, <1>33 DEF ExecutionNext, Exec, Upstream, Pump,
      Handler

-----------------------------------------------------------------------------
(* A wait pays off.                                                          *)

LEMMA WaitReasonsStep ==
  ASSUME ExecutionAssumption, TypeOK, ExecShape, Phases, Settled, WaitReasons, ExecutionNext
  PROVE  WaitReasons'
<1>0. /\ exec \in Executions(Serving) /\ cooling \in [Creds -> Nat] /\ Serving \subseteq Creds
      /\ wrap \in Streams /\ pump \in Pumps /\ setting.stream \in BOOLEAN
      /\ disturbed \in BOOLEAN
  BY Requests DEF TypeOK
<1>. USE <1>0 DEF WaitReasons, WaitPaysOff
<1>1. CASE CooldownsPass
  <2>1. /\ exec'.at = exec.at /\ exec'.attempt = exec.attempt /\ exec'.tried = exec.tried
        /\ exec'.wait = Max({0, exec.wait - 1}) /\ UNCHANGED <<setting, disturbed>>
        /\ \A c \in Creds : cooling'[c] = Max({0, cooling[c] - 1})
    BY <1>1 DEF CooldownsPass, Executions
  <2>2. exec.wait \in Nat  BY <1>0 DEF Executions
  <2>3. ASSUME NEW c \in Serving
        PROVE  /\ cooling[c] <= exec.wait => cooling'[c] <= exec'.wait
               /\ cooling[c] = 0 => cooling'[c] = 0
    <3>1. cooling[c] \in Nat /\ c \in Creds  BY <1>0
    <3>2. cooling'[c] = IF cooling[c] > 1 THEN cooling[c] - 1 ELSE 0
      <4>1. cooling'[c] = Max({0, cooling[c] - 1})  BY <2>1, <3>1
      <4>. QED  BY <3>1, <4>1, MaxOfTwo
    <3>3. exec'.wait = IF exec.wait > 1 THEN exec.wait - 1 ELSE 0  BY <2>1, <2>2, MaxOfTwo
    <3>. QED  BY <2>2, <3>1, <3>2, <3>3
  <2>. QED  BY <2>1, <2>3 DEF Serving
<1>2. CASE ClientGone  BY <1>2 DEF ClientGone, Serving
<1>3. CASE Propagate  BY <1>3 DEF Propagate, Serving
<1>4. ASSUME NEW c \in Creds, NEW n \in 0..MaxCool, OthersMark(c, n)  PROVE WaitReasons'
  BY <1>4 DEF OthersMark, Deciding, Serving
<1>5. ASSUME NEW c \in Creds, Pick(c)  PROVE WaitReasons'
  BY <1>5 DEF Pick, ExecOnly, Executions, Serving
<1>6. CASE NoPick
  <2>1. /\ exec.at = "pick" /\ exec'.at = "judge" /\ exec'.tried = exec.tried
        /\ exec'.attempt = exec.attempt /\ UNCHANGED <<setting, cooling, disturbed>>
    BY <1>6 DEF NoPick, ExecOnly, Executions
  <2>2. CASE exec.attempt > 0 /\ exec.tried = {} /\ ~disturbed
    <3>1. PICK c \in Serving : cooling[c] = 0  BY <2>1, <2>2
    <3>2. Cardinality(exec.tried) = 0  BY <2>2, FS_EmptySet
    <3>3. Cap \in Nat /\ Cap > 0 /\ c \in Creds  BY <3>1, Requests DEF TypeOK
    <3>4. cooling[c] > 0  BY <1>6, <2>2, <3>1, <3>2, <3>3 DEF NoPick
    <3>. QED  BY <3>1, <3>4
  <2>3. CASE ~(exec.attempt > 0 /\ exec.tried = {} /\ ~disturbed)  BY <2>1, <2>3
  <2>. QED  BY <2>2, <2>3
<1>7. CASE NoRetry  BY <1>7 DEF NoRetry, ExecOnly, NoMark, NoStream, Executions, Serving
<1>8. CASE NextRound
  <2>1. /\ exec.at = "wait" /\ exec.wait = 0 /\ exec'.at = "pick"
        /\ UNCHANGED <<setting, cooling, disturbed>>
    BY <1>8, BeginFields DEF NextRound, ExecOnly, NoMark
  <2>2. CASE ~disturbed
    <3>1. PICK c \in Serving : cooling[c] <= 0  BY <2>1, <2>2
    <3>2. cooling[c] = 0  BY <3>1, <1>0
    <3>. QED  BY <2>1, <3>1, <3>2 DEF Serving
  <2>3. CASE disturbed  BY <2>1, <2>3
  <2>. QED  BY <2>2, <2>3
<1>9. CASE ContextEnds  BY <1>9 DEF ContextEnds, Canceled, ExecOnly, NoMark, Executions,
      Serving, ExecShape
<1>10. ASSUME NEW n \in 1..MaxWait, JudgeWait(n)  PROVE WaitReasons'
  <2>1. /\ exec.at = "judge" /\ exec'.at = "wait" /\ exec'.wait = n
        /\ UNCHANGED <<setting, cooling>>
    BY <1>10 DEF JudgeWait, ExecOnly, NoMark, Executions
  <2>2. \E c \in Serving : cooling[c] <= n
    <3>1. Waits \subseteq Nat  BY <1>0 DEF Waits
    <3>2. CASE Waits # {}
      <4>1. n \in Waits  BY <1>10, <3>1, <3>2, MinOfNaturals DEF JudgeWait, WaitAllowed
      <4>2. PICK c \in Serving : cooling[c] = n  BY <4>1 DEF Waits
      <4>. QED  BY <4>2, <3>1, <4>1
    <3>3. CASE Waits = {}
      <4>1. exec.last = {"limited"}  BY <1>10, <3>3 DEF JudgeWait, WaitAllowed
      <4>2. PICK c \in Serving : TRUE  BY <4>1, <1>0 DEF ExecShape, Executions
      <4>3. cooling[c] = 0  BY <3>3, <4>2 DEF Waits
      <4>. QED  BY <4>2, <4>3
    <3>. QED  BY <3>2, <3>3
  <2>. QED  BY <2>1, <2>2 DEF Serving
<1>11. ASSUME NEW c \in Creds, CallSucceeds(c)  PROVE WaitReasons'
  BY <1>11 DEF CallSucceeds, ExecOnly, MarkResult, NoMark, Executions, Serving
<1>12. ASSUME NEW c \in Creds, FirstChunk(c)  PROVE WaitReasons'
  BY <1>12 DEF FirstChunk, ExecOnly, NoMark, Executions, Serving
<1>13. ASSUME NEW c \in Creds, UpstreamEnds(c)  PROVE WaitReasons'
  <2>1. /\ wrap.at = "read" /\ UNCHANGED <<setting, exec, disturbed>>
    BY <1>13 DEF UpstreamEnds, WrapOnly
  <2>2. CASE exec.at \in {"ok", "off"}  BY <2>1, <2>2
  <2>3. CASE exec.at \notin {"ok", "off"}
    <3>1. wrap.failed  BY <2>1, <2>3 DEF Settled, Drained
    <3>2. UNCHANGED cooling  BY <1>13, <3>1 DEF UpstreamEnds, NoMark
    <3>. QED  BY <2>1, <3>2 DEF Serving
  <2>. QED  BY <2>2, <2>3
<1>14. ASSUME NEW c \in Creds, NEW e \in Errors, CallFails(c, e)  PROVE WaitReasons'
  <2>1. /\ exec.tried # {} /\ exec'.tried = exec.tried /\ exec'.at \in {"judge", "pick"}
    BY <1>14, FailFields DEF CallFails, ExecShape
  <2>. QED  BY <2>1
<1>15. ASSUME NEW c \in Creds, NEW e \in Errors, FirstFails(c, e)  PROVE WaitReasons'
  <2>1. /\ exec.tried # {} /\ exec'.tried = exec.tried /\ exec'.at \in {"judge", "pick"}
    BY <1>15, FailFields DEF FirstFails, ExecShape
  <2>. QED  BY <2>1
<1>16. ASSUME NEW c \in Creds, NEW e \in Errors, UpstreamFails(c, e)  PROVE WaitReasons'
  <2>1. /\ wrap.at = "read" /\ UNCHANGED <<setting, exec, disturbed>>
    BY <1>16 DEF UpstreamFails, WrapOnly
  <2>2. CASE exec.at \in {"ok", "off"}  BY <2>1, <2>2
  <2>3. CASE exec.at \notin {"ok", "off"}
    <3>1. wrap.failed  BY <2>1, <2>3 DEF Settled, Drained
    <3>2. UNCHANGED cooling  BY <1>16, <3>1 DEF UpstreamFails, NoMark
    <3>. QED  BY <2>1, <3>2 DEF Serving
  <2>. QED  BY <2>2, <2>3
<1>17. CASE UpstreamSends  BY <1>17 DEF UpstreamSends, WrapOnly, NoMark, Streams, Serving
<1>18. CASE Discard  BY <1>18 DEF Discard, WrapOnly, NoMark, EndedStream, NoStream, Serving
<1>19. CASE NextChunk  BY <1>19, PumpFields, PassFields DEF NextChunk, PumpOnly, Serving
<1>20. CASE HandleData  BY <1>20, DataFields DEF HandleData, PumpOnly, Serving
<1>21. CASE HandleError  BY <1>21, ErrorFields, BeginFields DEF HandleError, PumpOnly, Serving
<1>22. CASE StartedOver  BY <1>22, PumpFields, BeginFields DEF StartedOver, PumpOnly, Serving
<1>23. CASE SendError  BY <1>23, PumpFields DEF SendError, PumpOnly, Serving
<1>24. CASE NotSent  BY <1>24, PumpFields DEF NotSent, PumpOnly, Serving
<1>25. CASE CloseErrors  BY <1>25, PumpFields DEF CloseErrors, PumpOnly, Serving
<1>26. CASE CloseData  BY <1>26, PumpFields DEF CloseData, PumpOnly, Serving
<1>27. CASE Returned  BY <1>27, ReturnedFields DEF Serving
<1>28. CASE ReadInitial  BY <1>28, PumpFields, PassFields DEF ReadInitial, FrontOnly, Serving
<1>29. CASE SeeGone  BY <1>29 DEF SeeGone, Finish, FrontOnly, Serving
<1>30. CASE TakeData  BY <1>30, PumpFields DEF TakeData, FrontOnly, Serving
<1>31. CASE TakeError  BY <1>31 DEF TakeError, Finish, FrontOnly, Serving
<1>32. CASE DataEnd  BY <1>32 DEF DataEnd, Finish, LooksAgain, FrontOnly, Serving
<1>33. CASE NextRequest  BY <1>33, BeginFields DEF NextRequest, Serving
<1>. QED  BY <1>1, <1>2, <1>3, <1>4, <1>5, <1>6, <1>7, <1>8, <1>9, <1>10, <1>11, <1>12, <1>13,
      <1>14, <1>15, <1>16, <1>17, <1>18, <1>19, <1>20, <1>21, <1>22, <1>23, <1>24, <1>25, <1>26,
      <1>27, <1>28, <1>29, <1>30, <1>31, <1>32, <1>33 DEF ExecutionNext, Exec, Upstream, Pump,
      Handler

-----------------------------------------------------------------------------
(* Nested retries stay within their common limit.                            *)

\* A round more is a credential limit more, and the rounds of an execution are its share.
LEMMA ShareBound ==
  ASSUME Retry \in Nat, NEW r \in Nat, NEW q \in Nat, r <= q, NEW cap \in Nat
  PROVE  Spent(r, 0, cap) \in Nat /\ Spent(r, 0, cap) <= q * ((1 + Retry) * cap)
<1>. DEFINE s == (1 + Retry) * cap
<1>1. s \in Nat /\ 0 * cap = 0  OBVIOUS
<1>2. Spent(r, 0, cap) = r * s + 0 * cap  BY DEF Spent
<1>3. q - r \in Nat  OBVIOUS
<1>. HIDE DEF s
<1>4. r * s \in Nat /\ (q - r) * s \in Nat /\ q * s = r * s + (q - r) * s  BY <1>1, <1>3
<1>5. Spent(r, 0, cap) \in Nat /\ Spent(r, 0, cap) <= q * s  BY <1>1, <1>2, <1>4
<1>. QED  BY <1>5 DEF s

LEMMA Shares ==
  ASSUME Retry \in Nat, NEW r \in Nat, NEW a \in 0..Retry, NEW cap \in Nat
  PROVE  /\ Spent(r, a, cap) \in Nat /\ Spent(r + 1, 0, cap) \in Nat
         /\ Spent(r, a + 1, cap) = Spent(r, a, cap) + cap
         /\ Spent(r, a, cap) + cap <= Spent(r + 1, 0, cap)
<1>. DEFINE s == (1 + Retry) * cap
<1>1. s \in Nat /\ r * s \in Nat /\ a * cap \in Nat  OBVIOUS
<1>2. (a + 1) * cap = a * cap + cap /\ (r + 1) * s = r * s + s /\ 0 * cap = 0  BY <1>1
<1>3. a * cap + cap <= s
  <2>1. Retry - a \in Nat  OBVIOUS
  <2>2. (Retry - a) * cap \in Nat  BY <2>1
  <2>3. s = a * cap + (Retry - a) * cap + cap  BY <2>1
  <2>. QED  BY <1>1, <2>2, <2>3
<1>4. Spent(r, a, cap) = r * s + a * cap /\ Spent(r, a + 1, cap) = r * s + (a + 1) * cap
      /\ Spent(r + 1, 0, cap) = (r + 1) * s
  BY <1>1, <1>2 DEF Spent
<1>. HIDE DEF s
<1>. QED  BY <1>1, <1>2, <1>3, <1>4


LEMMA SameSetting ==
  ASSUME ExecutionNext
  PROVE  setting' = setting
BY ReturnedFields DEF ExecutionNext, Exec, Upstream, Pump, Handler, ExecOnly, WrapOnly, PumpOnly,
   FrontOnly, CooldownsPass, ClientGone, Propagate, OthersMark, Pick, NoPick, NoRetry, NextRound, ContextEnds,
   JudgeWait, CallSucceeds, FirstChunk, UpstreamEnds, CallFails, FirstFails, UpstreamFails,
   UpstreamSends, Discard, NextChunk, HandleData, HandleError, StartedOver, SendError, NotSent,
   CloseErrors, CloseData, Returned, ReadInitial, SeeGone, TakeData, TakeError, DataEnd,
   NextRequest

LEMMA RoundsStep ==
  ASSUME ExecutionAssumption, TypeOK, ExecShape, Phases, RoundsCounted, ExecutionNext
  PROVE  RoundsCounted'
<1>a. /\ exec \in Executions(Serving) /\ wrap \in Streams /\ pump \in Pumps
      /\ setting.stream \in BOOLEAN /\ attempts \in Nat
      /\ exec.attempt \in 0..Retry /\ pump.retries \in Nat /\ exec.tried \in SUBSET Serving
      /\ Retry \in Nat /\ Cap \in Nat /\ Cap' = Cap /\ MostTries \in Nat
      /\ Cardinality(exec.tried) \in Nat /\ Cardinality({}) = 0
  <2>1. exec \in Executions(Serving) /\ wrap \in Streams /\ pump \in Pumps
        /\ setting \in Settings /\ attempts \in Nat
    BY DEF TypeOK
  <2>2. /\ exec.attempt \in 0..Retry /\ pump.retries \in Nat /\ exec.tried \in SUBSET Serving
    BY <2>1 DEF Executions, Pumps
  <2>3. Cap' = Cap  BY SameSetting DEF Cap, Serving
  <2>4. MostTries \in Nat  BY <2>1, Requests, Constants DEF MostTries
  <2>. QED  BY <2>1, <2>2, <2>3, <2>4, Requests, Constants, TriedCount
<1>b. /\ Spent(pump.retries, exec.attempt, Cap) \in Nat
       /\ Spent(pump.retries + 1, 0, Cap) \in Nat
       /\ Spent(pump.retries, exec.attempt + 1, Cap) = Spent(pump.retries, exec.attempt, Cap) + Cap
       /\ Spent(pump.retries, exec.attempt, Cap) + Cap <= Spent(pump.retries + 1, 0, Cap)
  BY ZenonT(60), <1>a, Shares
<1>. USE <1>a, NoneFields DEF RoundsCounted
<1>1. CASE CooldownsPass  BY <1>1 DEF CooldownsPass, Deciding, Executions
<1>2. CASE ClientGone  BY <1>2 DEF ClientGone
<1>3. CASE Propagate  BY <1>3 DEF Propagate
<1>4. ASSUME NEW c \in Creds, NEW n \in 0..MaxCool, OthersMark(c, n)  PROVE RoundsCounted'
  BY <1>4 DEF OthersMark, Deciding
<1>5. ASSUME NEW c \in Creds, Pick(c)  PROVE RoundsCounted'
  <2>1. /\ exec.at = "pick" /\ Cardinality(exec.tried) < Cap /\ c \in Serving \ exec.tried
        /\ exec'.at = "call" /\ exec'.tried = exec.tried \cup {c}
        /\ exec'.attempt = exec.attempt /\ UNCHANGED pump
    BY <1>5 DEF Pick, ExecOnly, Executions
  <2>2. Cardinality(exec'.tried) = Cardinality(exec.tried) + 1
    BY <2>1, TriedCount DEF TypeOK
  <2>3. attempts' <= attempts + 1 /\ attempts' \in Nat  BY <1>5, MinOfTwo DEF Pick
  <2>. QED  BY <1>b, <2>1, <2>2, <2>3
<1>6. CASE NoPick  BY <1>6 DEF NoPick, ExecOnly, Executions
<1>7. CASE NoRetry  BY <1>7 DEF NoRetry, ExecOnly, NoMark, NoStream, Executions
<1>8. CASE NextRound
  <2>1. /\ exec.at = "wait" /\ exec'.at = "pick" /\ exec'.attempt = exec.attempt + 1
        /\ exec'.tried = {} /\ UNCHANGED <<pump, attempts>>
    BY <1>8, BeginFields DEF NextRound, ExecOnly
  <2>. QED  BY <1>b, <2>1
<1>9. CASE ContextEnds  BY <1>9 DEF ContextEnds, Canceled, ExecOnly, NoMark, Executions
<1>10. ASSUME NEW n \in 1..MaxWait, JudgeWait(n)  PROVE RoundsCounted'
  BY <1>10 DEF JudgeWait, WaitAllowed, ExecOnly, NoMark, Executions
<1>11. ASSUME NEW c \in Creds, CallSucceeds(c)  PROVE RoundsCounted'
  BY <1>11 DEF CallSucceeds, ExecOnly, MarkResult, NoMark, Executions
<1>12. ASSUME NEW c \in Creds, FirstChunk(c)  PROVE RoundsCounted'
  BY <1>12 DEF FirstChunk, ExecOnly, NoMark, Executions
<1>13. ASSUME NEW c \in Creds, UpstreamEnds(c)  PROVE RoundsCounted'
  BY <1>13 DEF UpstreamEnds, WrapOnly, MarkResult, NoMark, EndedStream, NoStream
<1>14. ASSUME NEW c \in Creds, NEW e \in Errors, CallFails(c, e)  PROVE RoundsCounted'
  BY <1>14, FailFields DEF CallFails, NoMark, ExecOnly
<1>15. ASSUME NEW c \in Creds, NEW e \in Errors, FirstFails(c, e)  PROVE RoundsCounted'
  BY <1>15, FailFields DEF FirstFails, NoMark, ExecOnly
<1>16. ASSUME NEW c \in Creds, NEW e \in Errors, UpstreamFails(c, e)  PROVE RoundsCounted'
  BY <1>16 DEF UpstreamFails, WrapOnly, MarkResult, Streams
<1>17. CASE UpstreamSends  BY <1>17 DEF UpstreamSends, WrapOnly, NoMark, Streams
<1>18. CASE Discard  BY <1>18 DEF Discard, WrapOnly, NoMark, EndedStream, NoStream
<1>19. CASE NextChunk  BY <1>19, PumpFields, PassFields DEF NextChunk, PumpOnly
<1>20. CASE HandleData  BY <1>20, DataFields DEF HandleData, PumpOnly
<1>21. CASE HandleError
  <2>1. exec.at = "off" /\ UNCHANGED attempts  BY <1>21 DEF HandleError, PumpOnly, Phases
  <2>2. CASE pump'.at = "exec" /\ pump'.retries = pump.retries + 1 /\ exec' = Begin
    BY <1>b, <2>1, <2>2, BeginFields
  <2>3. CASE pump'.retries = pump.retries /\ UNCHANGED exec  BY <2>1, <2>3
  <2>. QED  BY <1>21, <2>2, <2>3, ErrorFields
<1>22. CASE StartedOver
  <2>1. /\ exec.at # "off" /\ exec'.at = "off" /\ exec'.tried = {} /\ UNCHANGED attempts
    BY <1>22, BeginFields DEF StartedOver, PumpOnly
  <2>2. pump'.retries = pump.retries  BY <1>22, PumpFields DEF StartedOver
  <2>. QED  BY <1>b, <2>1, <2>2
<1>23. CASE SendError  BY <1>23, PumpFields DEF SendError, PumpOnly
<1>24. CASE NotSent  BY <1>24, PumpFields DEF NotSent, PumpOnly
<1>25. CASE CloseErrors  BY <1>25, PumpFields DEF CloseErrors, PumpOnly
<1>26. CASE CloseData  BY <1>26, PumpFields DEF CloseData, PumpOnly
<1>27. CASE Returned
  <2>1. /\ exec.at # "off" /\ exec'.at = "off" /\ exec'.tried = {} /\ UNCHANGED <<attempts, pump>>
    BY <1>27, ReturnedFields DEF Phases
  <2>. QED  BY <1>b, <2>1
<1>28. CASE ReadInitial  BY <1>28, PumpFields, PassFields DEF ReadInitial, FrontOnly
<1>29. CASE SeeGone  BY <1>29 DEF SeeGone, Finish, FrontOnly
<1>30. CASE TakeData  BY <1>30, PumpFields DEF TakeData, FrontOnly
<1>31. CASE TakeError  BY <1>31 DEF TakeError, Finish, FrontOnly
<1>32. CASE DataEnd  BY <1>32 DEF DataEnd, Finish, LooksAgain, FrontOnly
<1>33. CASE NextRequest
  <2>1. exec' = Begin /\ pump' = NoPump /\ attempts' = 0  BY <1>33 DEF NextRequest
  <2>2. Spent(0, 0, Cap) \in Nat  BY Shares
  <2>. QED  BY <2>1, <2>2, BeginFields
<1>. QED  BY <1>1, <1>2, <1>3, <1>4, <1>5, <1>6, <1>7, <1>8, <1>9, <1>10, <1>11, <1>12, <1>13,
      <1>14, <1>15, <1>16, <1>17, <1>18, <1>19, <1>20, <1>21, <1>22, <1>23, <1>24, <1>25, <1>26,
      <1>27, <1>28, <1>29, <1>30, <1>31, <1>32, <1>33 DEF ExecutionNext, Exec, Upstream, Pump,
      Handler

-----------------------------------------------------------------------------
(* The theorems.                                                             *)

LEMMA InvariantInit ==
  ASSUME ExecutionAssumption, ExecutionInit
  PROVE  IInv
<1>1. TypeOK  BY TypesInit
<1>2. /\ exec = Begin /\ wrap = NoStream /\ pump = NoPump /\ errs.msg = {} /\ ~dataEnds
      /\ front = "call" /\ ~gone /\ ~canceled /\ attempts = 0 /\ got = {} /\ marks = 0
  BY DEF ExecutionInit
<1>3. ExecShape /\ Phases /\ Settled /\ Voices /\ Truth
  BY <1>2, BeginFields, NoneFields DEF ExecShape, Phases, Settled, Voices, Truth, Calling, Open,
     Drained, Reading, Handed, Over
<1>4. RoundsCounted
  <2>1. Cap \in Nat /\ Cardinality({}) = 0  BY <1>1, Requests, FS_EmptySet DEF TypeOK
  <2>2. 0 \in 0..Retry /\ Retry \in Nat  BY Constants
  <2>3. Spent(0, 0, Cap) \in Nat  BY SMTT(30), <2>1, <2>2, Shares
  <2>. QED  BY <1>2, <2>1, <2>3, BeginFields, NoneFields DEF RoundsCounted
<1>5. WaitReasons  BY <1>2, BeginFields DEF WaitReasons, WaitPaysOff
<1>. QED  BY <1>1, <1>3, <1>4, <1>5 DEF IInv

LEMMA InvariantStep ==
  ASSUME ExecutionAssumption, IInv, [ExecutionNext]_execVars
  PROVE  IInv'
<1>1. CASE ExecutionNext
  BY <1>1, TypesStep, ShapeStep, PhasesStep, SettledStep, RoundsStep, VoicesStep, TruthStep,
     WaitReasonsStep DEF IInv
<1>2. CASE UNCHANGED execVars
  BY <1>2 DEF execVars, IInv, TypeOK, ExecShape, Phases, Settled, RoundsCounted, Voices, Truth,
     WaitReasons, WaitPaysOff, Serving, Cap, Calling, Open, Drained, Reading, Handed
<1>. QED  BY <1>1, <1>2

THEOREM InvariantHolds ==
  ASSUME ExecutionAssumption
  PROVE  ExecutionSpec => []IInv
BY InvariantInit, InvariantStep, PTL DEF ExecutionSpec

\* What a client gets comes from one attempt: the pump starts nothing over once a chunk
\* was sent (bootstrapEligible in executeStreamWithAuthManager), for any number of
\* rounds, restarts and credentials.
THEOREM ClientHearsOneVoice ==
  ASSUME ExecutionAssumption
  PROVE  ExecutionSpec => []OneVoice
<1>1. IInv => OneVoice
  <2>1. ASSUME got \subseteq {attempts}  PROVE Cardinality(got) <= 1
    <3>1. Cardinality({}) = 0  BY FS_EmptySet
    <3>2. Cardinality({attempts}) = 1  BY FS_Singleton
    <3>3. got = {} \/ got = {attempts}  BY <2>1
    <3>. QED  BY <3>1, <3>2, <3>3
  <2>. QED  BY <2>1 DEF IInv, Voices, OneVoice
<1>. QED  BY <1>1, InvariantHolds, PTL

\* MarkResult hears of every attempt once, whether Execute, the bootstrap reader or
\* wrapStreamResult ends it; only one whose context is done may go unrecorded.
THEOREM AttemptsAreMarkedOnce ==
  ASSUME ExecutionAssumption
  PROVE  ExecutionSpec => []MarkedOnce
<1>1. IInv => MarkedOnce
  BY DEF IInv, Settled, MarkedOnce, AttemptOver, Calling, Open
<1>. QED  BY <1>1, InvariantHolds, PTL

\* The rounds of Execute, the credentials of a round and the restarts of a stream nest;
\* together they reach their product and no more.
THEOREM RetriesAreBounded ==
  ASSUME ExecutionAssumption
  PROVE  ExecutionSpec => []AttemptsBounded
<1>1. ASSUME ExecutionAssumption, IInv  PROVE AttemptsBounded
  <2>. DEFINE q == IF setting.stream THEN 1 + Bootstrap ELSE 1
  <2>1. /\ exec \in Executions(Serving) /\ pump \in Pumps /\ setting \in Settings
        /\ attempts \in Nat
    BY <1>1 DEF IInv, TypeOK
  <2>2. /\ exec.attempt \in 0..Retry /\ exec.tried \in SUBSET Serving
        /\ pump.retries \in 0..Bootstrap /\ pump.retries \in Nat
    BY <2>1 DEF Executions, Pumps
  <2>3. Cap \in Nat /\ Retry \in Nat /\ Bootstrap \in Nat /\ setting.stream \in BOOLEAN
    BY <1>1, <2>1, Requests, Constants
  <2>4. Cardinality(exec.tried) \in Nat  BY <1>1, <2>1, <2>2, TriedCount
  <2>5. attempts <= Spent(pump.retries + 1, 0, Cap)
    <3>1. /\ Spent(pump.retries, exec.attempt, Cap) + Cap <= Spent(pump.retries + 1, 0, Cap)
          /\ Spent(pump.retries, exec.attempt, Cap) \in Nat
          /\ Spent(pump.retries + 1, 0, Cap) \in Nat
      BY <2>2, <2>3, Shares
    <3>. QED  BY <1>1, <2>1, <2>3, <2>4, <3>1 DEF IInv, RoundsCounted
  <2>6. pump.retries + 1 <= q /\ q \in Nat
    BY <1>1, <2>2, <2>3, NoneFields DEF IInv, ExecShape
  <2>. HIDE DEF q
  <2>7. /\ Spent(pump.retries + 1, 0, Cap) \in Nat
        /\ Spent(pump.retries + 1, 0, Cap) <= q * ((1 + Retry) * Cap)
    <3>1. pump.retries + 1 \in Nat  BY <2>2
    <3>. QED  BY <2>3, <2>6, <3>1, ShareBound
  <2>8. q * ((1 + Retry) * Cap) = MostTries /\ MostTries \in Nat
    BY <2>3, <2>6 DEF MostTries, q
  <2>. QED  BY <2>1, <2>5, <2>7, <2>8 DEF AttemptsBounded
<1>. QED  BY <1>1, InvariantHolds, PTL

\* closestCooldownWait and the wait of the retry loop fit together: a round after a wait
\* finds a credential to try, unless others changed the cooldowns meanwhile.
THEOREM WaitsPayOff ==
  ASSUME ExecutionAssumption
  PROVE  ExecutionSpec => []WaitPaysOff
<1>1. IInv => WaitPaysOff  BY DEF IInv, WaitReasons
<1>. QED  BY <1>1, InvariantHolds, PTL

\* A client that stays and is told its answer is complete has one the Manager recorded
\* as a success, provided every peek looks for an error before it believes the end of
\* the data (Recheck), as the Claude handler does with pendingClaudeStreamError.
THEOREM DoneIsTrue ==
  ASSUME ExecutionAssumption, Recheck
  PROVE  ExecutionSpec => []DoneMeansComplete
<1>1. IInv => DoneMeansComplete  BY DEF IInv, Truth, DoneMeansComplete
<1>. QED  BY <1>1, InvariantHolds, PTL

-----------------------------------------------------------------------------
(* Nobody is left behind.                                                    *)

\* Whoever waits for another has one that will come: the pump a stream, the handler a
\* pump or the error that takes its place, or the end of the data after it.
Linked ==
  /\ pump.at # "none" => wrap.at # "none"
  /\ pump.at = "ended" => dataEnds
  /\ front \in {"peek", "forward"} /\ pump.at = "none" => errs.msg # {}

LEMMA LinkedStep ==
  ASSUME ExecutionAssumption, IInv, Linked, ExecutionNext
  PROVE  Linked'
<1>0. /\ exec \in Executions(Serving) /\ wrap \in Streams /\ pump \in Pumps
      /\ setting.stream \in BOOLEAN
      /\ ExecShape /\ Phases /\ Truth
  BY Requests DEF IInv, TypeOK
<1>. USE <1>0, NoneFields DEF Linked
<1>1. CASE CooldownsPass  BY <1>1 DEF CooldownsPass
<1>2. CASE ClientGone  BY <1>2 DEF ClientGone
<1>3. CASE Propagate  BY <1>3 DEF Propagate
<1>4. ASSUME NEW c \in Creds, NEW n \in 0..MaxCool, OthersMark(c, n)  PROVE Linked'
  BY <1>4 DEF OthersMark
<1>5. ASSUME NEW c \in Creds, Pick(c)  PROVE Linked'
  BY <1>5 DEF Pick, ExecOnly
<1>6. CASE NoPick  BY <1>6 DEF NoPick, ExecOnly
<1>7. CASE NoRetry
  <2>1. wrap'.at = "ready" \/ wrap' = wrap  BY <1>7 DEF NoRetry, NoStream
  <2>. QED  BY <1>7, <2>1 DEF NoRetry, ExecOnly
<1>8. CASE NextRound  BY <1>8 DEF NextRound, ExecOnly
<1>9. CASE ContextEnds  BY <1>9 DEF ContextEnds, ExecOnly
<1>10. ASSUME NEW n \in 1..MaxWait, JudgeWait(n)  PROVE Linked'
  BY <1>10 DEF JudgeWait, ExecOnly
<1>11. ASSUME NEW c \in Creds, CallSucceeds(c)  PROVE Linked'
  BY <1>11 DEF CallSucceeds, ExecOnly
<1>12. ASSUME NEW c \in Creds, FirstChunk(c)  PROVE Linked'
  BY <1>12 DEF FirstChunk, ExecOnly
<1>13. ASSUME NEW c \in Creds, UpstreamEnds(c)  PROVE Linked'
  BY <1>13 DEF UpstreamEnds, WrapOnly, EndedStream, NoStream
<1>14. ASSUME NEW c \in Creds, NEW e \in Errors, CallFails(c, e)  PROVE Linked'
  BY <1>14 DEF CallFails, ExecOnly
<1>15. ASSUME NEW c \in Creds, NEW e \in Errors, FirstFails(c, e)  PROVE Linked'
  BY <1>15 DEF FirstFails, ExecOnly
<1>16. ASSUME NEW c \in Creds, NEW e \in Errors, UpstreamFails(c, e)  PROVE Linked'
  BY <1>16 DEF UpstreamFails, WrapOnly, Streams
<1>17. CASE UpstreamSends  BY <1>17 DEF UpstreamSends, WrapOnly, Streams
<1>18. CASE Discard  BY <1>18 DEF Discard, WrapOnly, EndedStream, NoStream
<1>19. CASE NextChunk  BY <1>19, PumpFields, PassFields DEF NextChunk, PumpOnly
<1>20. CASE HandleData  BY <1>20, DataFields DEF HandleData, PumpOnly
<1>21. CASE HandleError  BY <1>21, ErrorFields DEF HandleError, PumpOnly
<1>22. CASE StartedOver  BY <1>22, PumpFields DEF StartedOver, PumpOnly
<1>23. CASE SendError  BY <1>23, PumpFields DEF SendError, PumpOnly
<1>24. CASE NotSent  BY <1>24, PumpFields DEF NotSent, PumpOnly
<1>25. CASE CloseErrors  BY <1>25, PumpFields DEF CloseErrors, PumpOnly
<1>26. CASE CloseData  BY <1>26, PumpFields DEF CloseData, PumpOnly
<1>27. CASE Returned  BY <1>27, ReturnedFields DEF ExecShape, Phases
<1>28. CASE ReadInitial
  <2>1. wrap.at \in {"emit", "ready", "ended"}  BY <1>28 DEF ReadInitial, Truth, Handed
  <2>2. wrap'.at # "none"  BY <1>28, <2>1, PassFields DEF ReadInitial
  <2>3. pump'.at \in {"closing", "have"}  BY <1>28, PumpFields DEF ReadInitial
  <2>. QED  BY <2>2, <2>3
<1>29. CASE SeeGone  BY <1>29 DEF SeeGone, Finish, FrontOnly
<1>30. CASE TakeData  BY <1>30, PumpFields DEF TakeData, FrontOnly
<1>31. CASE TakeError  BY <1>31 DEF TakeError, Finish, FrontOnly
<1>32. CASE DataEnd  BY <1>32 DEF DataEnd, Finish, LooksAgain, FrontOnly
<1>33. CASE NextRequest  BY <1>33 DEF NextRequest
<1>. QED  BY <1>1, <1>2, <1>3, <1>4, <1>5, <1>6, <1>7, <1>8, <1>9, <1>10, <1>11, <1>12, <1>13,
      <1>14, <1>15, <1>16, <1>17, <1>18, <1>19, <1>20, <1>21, <1>22, <1>23, <1>24, <1>25, <1>26,
      <1>27, <1>28, <1>29, <1>30, <1>31, <1>32, <1>33 DEF ExecutionNext, Exec, Upstream, Pump,
      Handler

\* Who waits, and for whom: first the Manager, then the handler by its phase.
LEMMA Unstuck ==
  ASSUME ExecutionAssumption, IInv, Linked
  PROVE  NobodyStuck
<1>0. /\ exec \in Executions(Serving) /\ wrap \in Streams /\ pump \in Pumps
      /\ front \in {"call", "initial", "peek", "forward"} \cup Over
      /\ exec.wait \in Nat
      /\ Phases /\ Truth
  BY DEF IInv, TypeOK, Executions
<1>. SUFFICES ASSUME ~AllEnded, ~Silent, exec.wait = 0
              PROVE  CanGoOn
  BY <1>0 DEF NobodyStuck
<1>1. CASE exec.at \in {"pick", "judge", "wait"}  BY <1>1 DEF CanGoOn
<1>2. CASE exec.at \in {"call", "first"}  BY <1>2 DEF CanGoOn, Silent
<1>3. CASE exec.at \in {"ok", "error"}
  <2>1. front = "call" \/ pump.at = "exec"  BY <1>0, <1>3 DEF Phases
  <2>. QED  BY <1>3, <2>1 DEF CanGoOn
<1>4. CASE exec.at = "off"
  <2>1. front # "call" /\ pump.at # "exec"  BY <1>0, <1>4 DEF Phases
  <2>2. CASE front = "initial"  BY <1>0, <2>2 DEF CanGoOn, Truth, Handed
  <2>3. CASE pump.at \in {"have", "fail", "closing", "closed"}  BY <2>3 DEF CanGoOn
  <2>4. CASE front \in {"peek", "forward"}
    <3>1. CASE pump.at = "none"  BY <2>4, <3>1 DEF CanGoOn, Linked
    <3>2. CASE pump.at = "next"
      <4>1. wrap.at \in {"emit", "ready", "read", "ended"}
        BY <1>0, <3>2 DEF Linked, Streams
      <4>2. wrap.at = "read" => canceled  BY DEF Silent
      <4>. QED  BY <3>2, <4>1, <4>2 DEF CanGoOn
    <3>3. CASE pump.at = "send"  BY <2>4, <3>3 DEF CanGoOn
    <3>4. CASE pump.at = "ended"  BY <2>4, <3>4 DEF CanGoOn, Linked
    <3>. QED  BY <1>0, <2>1, <2>3, <3>1, <3>2, <3>3, <3>4 DEF Pumps
  <2>5. CASE front \in Over
    <3>1. canceled  BY <1>0, <2>5 DEF Phases
    <3>2. CASE pump.at \in {"next", "send"}  BY <3>1, <3>2 DEF CanGoOn
    <3>3. CASE wrap.at \in {"emit", "read"}  BY <3>1, <3>3 DEF CanGoOn
    <3>. QED  BY <1>0, <2>1, <2>3, <2>5, <3>2, <3>3 DEF AllEnded, Pumps, Streams
  <2>. QED  BY <1>0, <2>1, <2>2, <2>4, <2>5
<1>. QED  BY <1>0, <1>1, <1>2, <1>3, <1>4 DEF Executions

\* No goroutine of a request waits for good: as long as they have not all ended, a wait
\* has still to pass, the upstream is silent and the client waits for it, or one of them
\* has what it waits for.
THEOREM SomebodyGoesOn ==
  ASSUME ExecutionAssumption
  PROVE  ExecutionSpec => []NobodyStuck
<1>1. ExecutionInit => Linked  BY NoneFields DEF ExecutionInit, Linked
<1>2. IInv /\ Linked /\ [ExecutionNext]_execVars => Linked'
  <2>1. ASSUME Linked, UNCHANGED execVars  PROVE Linked'  BY <2>1 DEF Linked, execVars
  <2>. QED  BY <2>1, LinkedStep
<1>3. IInv /\ Linked => NobodyStuck  BY Unstuck
<1>. QED  BY <1>1, <1>2, <1>3, InvariantHolds, PTL DEF ExecutionSpec

-----------------------------------------------------------------------------
(* ClaudeStream: what a client has read when nothing came out of place.       *)

Kinds   == {"text", "thinking", "tool", "search", "results"}
Block   == [index: Nat, kind: Kinds]
Reasons == {"", "end_turn", "max_tokens", "tool_use"}

\* What a client has read that could place every event.
Placed == [begun: BOOLEAN, open: SUBSET Block, stopped: SUBSET Block, reason: Reasons,
           over: BOOLEAN, odd: {{}}]

At(i, kind) == [index |-> i, kind |-> kind]

\* The message is begun and not near its end.
Amid(k) == k.begun /\ k.reason = "" /\ ~k.over

HasTool(k) == \E b \in Blocks(k) : b.kind = "tool"

\* The client has been told the reason, and the right one.
Told(k) == /\ k.begun /\ k.open = {} /\ k.reason # ""
           /\ k.reason = "tool_use" <=> HasTool(k)

\* It has been told of a call, as the upstream itself said it stops for one.
ToldCall(k) == k.begun /\ k.open = {} /\ k.reason = "tool_use"

-----------------------------------------------------------------------------
(* Codex.                                                                    *)

PendingCalls == {NoCall} \cup [index: Nat, args: BOOLEAN, heard: BOOLEAN]

CodexState ==
  [index: Nat, text: BOOLEAN, thinking: BOOLEAN, stopPending: BOOLEAN, sig: BOOLEAN,
   summary: BOOLEAN, tool: BOOLEAN, heard: BOOLEAN, args: BOOLEAN,
   pending: PendingCalls, reading: Placed]

\* The open block is of the kind, "none" without one, "pending" with a call to be written.
CodexIn(p, kind) ==
  /\ p \in CodexState
  /\ Amid(p.reading)
  /\ p.text = (kind = "text")
  /\ p.thinking = (kind = "thinking")
  /\ (p.pending # NoCall) = (kind = "pending")
  /\ p.reading.open = IF kind \in {"none", "pending"} THEN {} ELSE {At(p.index, kind)}
  /\ \A b \in p.reading.stopped : b.index < p.index
  /\ kind = "pending" => /\ p.pending.index < p.index
                         /\ \A b \in p.reading.stopped : b.index # p.pending.index
  /\ p.tool <=> kind = "pending" \/ HasTool(p.reading)

\* A thought that is over may still be open.
CodexBetween(p) == CodexIn(p, "none") \/ (CodexIn(p, "thinking") /\ p.stopPending)

CodexCalls(p) == CodexIn(p, "tool") \/ CodexIn(p, "pending")

CodexInv(at, p) ==
  \/ at = "new" /\ p = CodexParams
  \/ at \in {"items", "reasoning", "summarized", "message"} /\ CodexBetween(p)
  \/ at = "summary" /\ CodexIn(p, "thinking")
  \/ at = "part" /\ CodexIn(p, "text")
  \/ at \in {"call", "called"} /\ CodexCalls(p)
  \/ at = "done" /\ p \in CodexState /\ Told(p.reading) /\ p.reading.over
  \/ at = "asked" /\ p \in CodexState /\ ToldCall(p.reading) /\ p.reading.over
  \/ at = "failed" /\ p \in CodexState

-----------------------------------------------------------------------------
(* Gemini and Antigravity.                                                   *)

GeminiState ==
  [begun: BOOLEAN, type: {"none", "text", "thinking", "tool"}, index: Nat, content: BOOLEAN,
   tool: BOOLEAN, finish: {"", "STOP", "MAX_TOKENS"}, usage: BOOLEAN, told: BOOLEAN,
   web: BOOLEAN, searched: BOOLEAN, held: BOOLEAN, reading: Placed]

\* The open block is at the index, "none" without one, and no end was written.
GeminiHas(p, kind) ==
  /\ p \in GeminiState
  /\ ~p.told
  /\ p.reading.begun = p.begun /\ p.reading.reason = "" /\ ~p.reading.over
  /\ p.reading.open = IF kind = "none" THEN {} ELSE {At(p.index, kind)}
  /\ \A b \in p.reading.stopped : b.index < p.index
  /\ p.content => p.begun

\* It is of the kind that the translator takes it for.
GeminiIn(p) ==
  /\ GeminiHas(p, p.type)
  /\ p.tool <=> HasTool(p.reading)
  /\ Blocks(p.reading) # {} => p.content

\* What is written after the parts: the reason when there was anything.
GeminiOver(p) ==
  \/ GeminiIn(p)
  \/ p \in GeminiState /\ p.told /\ p.begun /\ p.content /\ Told(p.reading) /\ ~p.reading.over

\* Text is held back only before the search, and then nothing is written.
Holds(p) ==
  /\ p.held => p.web /\ ~p.searched
  /\ p.web /\ ~p.searched => p.type = "none"

GeminiInv(at, p) ==
  \/ at = "parts" /\ GeminiIn(p)
  \/ at = "finished" /\ GeminiOver(p) /\ (p.content => p.told)
  \/ at = "done" /\ p \in GeminiState /\ (Blocks(p.reading) # {} => Told(p.reading) /\ p.reading.over)
  \/ at = "cut" /\ p \in GeminiState

AntigravityInv(at, p) ==
  \/ at = "parts" /\ GeminiIn(p) /\ Holds(p) /\ p.finish = ""
  \/ at = "finished" /\ GeminiOver(p) /\ ~p.held
  \/ at = "done" /\ p \in GeminiState /\ (Blocks(p.reading) # {} => Told(p.reading) /\ p.reading.over)
  \/ at = "cut" /\ p \in GeminiState

-----------------------------------------------------------------------------
(* OpenAI.                                                                   *)

Place == Nat \cup {NoBlock}

OpenAIState ==
  [begun: BOOLEAN, saw: BOOLEAN, thinking: Place, text: Place, next: Nat,
   calls: [Tools -> [id: BOOLEAN, name: BOOLEAN, args: BOOLEAN, started: BOOLEAN]],
   at: [Tools -> Place], stopped: BOOLEAN, finish: {"", "stop", "length", "tool_calls", "function_call"},
   told: BOOLEAN, over: BOOLEAN, reading: Placed]

\* Exactly the blocks the translator knows are open, each at an index of its own.
OpenAt(p, i, kind) ==
  \/ kind = "thinking" /\ i = p.thinking
  \/ kind = "text" /\ i = p.text
  \/ kind = "tool" /\ \E t \in Tools : i = p.at[t]

\* The calls from the k-th on are open when they were announced, those before are stopped.
StoppedTo(p, k) ==
  \A t \in Tools : IF t < k THEN p.at[t] = NoBlock ELSE p.calls[t].started <=> p.at[t] # NoBlock

\* No two calls are at the same index.
Apart(p) == \A t, u \in Tools : (p.at[t] = p.at[u] /\ p.at[t] # NoBlock) => t = u

OpenAIIn(p) ==
  /\ p \in OpenAIState
  /\ ~p.told /\ ~p.over
  /\ p.reading.begun = p.begun /\ p.reading.reason = "" /\ ~p.reading.over
  /\ \A b \in Block : b \in p.reading.open <=> OpenAt(p, b.index, b.kind)
  /\ \A b \in Blocks(p.reading) : b.index < p.next
  /\ \A b, c \in p.reading.open : b.index = c.index => b = c
  /\ Apart(p)
  /\ p.saw <=> HasTool(p.reading)

Quiet(p) == p.thinking = NoBlock /\ p.text = NoBlock

OpenAISays(p)  == OpenAIIn(p) /\ StoppedTo(p, 0) /\ ~p.stopped
OpenAIStops(p) ==
  /\ OpenAIIn(p) /\ StoppedTo(p, Calls) /\ Quiet(p) /\ p.stopped /\ p.begun
  /\ p.finish = "tool_calls" => p.saw
OpenAITold(p)  ==
  /\ p \in OpenAIState /\ Quiet(p) /\ p.stopped /\ p.told /\ p.over
  /\ IF p.finish = "function_call" THEN ToldCall(p.reading) ELSE Told(p.reading)
  /\ p.reading.over

OpenAIInv(at, p) ==
  \/ at = "new" /\ OpenAISays(p) /\ p.finish = ""
  \/ at = "deltas" /\ OpenAISays(p) /\ p.finish = "" /\ p.begun
  \/ at = "finished" /\ OpenAIStops(p) /\ p.finish # ""
  \/ at \in {"told", "done", "closed"} /\ OpenAITold(p)
  \/ at = "cut" /\ p \in OpenAIState

-----------------------------------------------------------------------------
(* What a client makes of an event.                                          *)

LEMMA StartRead ==
  ASSUME NEW k \in Placed, NEW i \in Nat, NEW kind \in Kinds, Amid(k),
         \A b \in Blocks(k) : b.index # i
  PROVE  /\ Read(k, StartBlock(i, kind)) = [k EXCEPT !.open = @ \cup {At(i, kind)}]
         /\ Read(k, StartBlock(i, kind)) \in Placed
<1>1. InPlace(k, StartBlock(i, kind))  BY DEF InPlace, StartBlock, Amid, Placed
<1>2. Read(k, StartBlock(i, kind)) = [k EXCEPT !.open = @ \cup {At(i, kind)}]
  BY <1>1 DEF Read, StartBlock, At
<1>3. At(i, kind) \in Block  BY DEF At, Block
<1>. QED  BY <1>2, <1>3 DEF Placed

LEMMA DeltaRead ==
  ASSUME NEW k \in Placed, NEW i, NEW kind, Amid(k), At(i, kind) \in k.open
  PROVE  Read(k, DeltaTo(i, kind)) = k
BY DEF Read, InPlace, DeltaTo, Amid, Placed, At

LEMMA StopRead ==
  ASSUME NEW k \in Placed, NEW b \in k.open, Amid(k), \A c \in k.open : c.index = b.index => c = b
  PROVE  /\ Read(k, StopBlock(b.index)) =
                [k EXCEPT !.open = @ \ {b}, !.stopped = @ \cup {b}]
         /\ Read(k, StopBlock(b.index)) \in Placed
<1>1. InPlace(k, StopBlock(b.index))  BY DEF InPlace, StopBlock, Amid, Placed
<1>2. {c \in k.open : c.index = b.index} = {b}  OBVIOUS
<1>3. Read(k, StopBlock(b.index)) = [k EXCEPT !.open = @ \ {b}, !.stopped = @ \cup {b}]
  BY <1>1, <1>2 DEF Read, StopBlock
<1>4. b \in Block /\ k.open \ {b} \in SUBSET Block /\ k.stopped \cup {b} \in SUBSET Block
  BY DEF Placed
<1>. QED  BY <1>3, <1>4 DEF Placed

LEMMA BeginRead ==
  ASSUME NEW k \in Placed, ~k.begun, ~k.over
  PROVE  /\ Read(k, MessageStart) = [k EXCEPT !.begun = TRUE]
         /\ Read(k, MessageStart) \in Placed
BY DEF Read, InPlace, MessageStart, Placed

LEMMA ReasonRead ==
  ASSUME NEW k \in Placed, NEW why \in Reasons, Amid(k), k.open = {}
  PROVE  /\ Read(k, MessageDelta(why)) = [k EXCEPT !.reason = why]
         /\ Read(k, MessageDelta(why)) \in Placed
BY DEF Read, InPlace, MessageDelta, Placed, Amid

LEMMA EndRead ==
  ASSUME NEW k \in Placed, k.begun, ~k.over
  PROVE  /\ Read(k, MessageStop) = [k EXCEPT !.over = TRUE]
         /\ Read(k, MessageStop) \in Placed
BY DEF Read, InPlace, MessageStop, Placed

LEMMA ErrorRead ==
  ASSUME NEW k \in Placed, ~k.over
  PROVE  Read(k, ErrorEvent) \in Placed
BY DEF Read, InPlace, ErrorEvent, Placed

LEMMA FirstRead == NewReading \in Placed /\ Blocks(NewReading) = {}
BY DEF NewReading, Placed, Reasons, Blocks

-----------------------------------------------------------------------------
(* Loops over the parts of a chunk.                                          *)

\* What holds at first and is kept by each of n rounds holds all along.
LEMMA StepByStep ==
  ASSUME NEW n \in Nat, NEW S, NEW f, f[0] \in S[0],
         \A k \in 1..n : f[k - 1] \in S[k - 1] => f[k] \in S[k]
  PROVE  \A k \in 0..n : f[k] \in S[k]
<1>. DEFINE Bad == {k \in 0..n : f[k] \notin S[k]}
<1>. SUFFICES ASSUME Bad # {} PROVE FALSE  OBVIOUS
<1>. Bad \subseteq Nat  OBVIOUS
<1>1. PICK k \in Bad : \A m \in Bad : ~(m < k)
  <2>1. \A m \in Nat : <<m, m>> \notin OpToRel(<, Nat)  BY DEF OpToRel
  <2>2. IsWellFoundedOn(OpToRel(<, Nat), Nat)  BY NatLessThanWellFounded
  <2>3. PICK k \in Bad : \A m \in Bad : ~ (<<m, k>> \in OpToRel(<, Nat))
    BY <2>2, WFMin
  <2>4. QED  BY <2>3 DEF OpToRel
<1>2. k # 0  OBVIOUS
<1>3. k \in 1..n /\ k - 1 \in 0..n /\ k - 1 < k  BY <1>2
<1>4. f[k - 1] \in S[k - 1]  BY <1>1, <1>3
<1>. QED  BY <1>3, <1>4

\* f are the states of a loop of n rounds.
IsLoop(f, n, p, step) == f[0] = p /\ \A k \in 1..n : f[k] = step[f[k - 1]][k]

\* A body that stays in T can be repeated n times: the states of the loop exist.
LEMMA LoopExists ==
  ASSUME NEW n \in Nat, NEW T, NEW p \in T, NEW step \in [T -> [1..n -> T]]
  PROVE  \E f \in [0..n -> T] : IsLoop(f, n, p, step)
<1>. DEFINE Has(m) == \E f \in [0..m -> T] : IsLoop(f, m, p, step)
            Hold == [m \in 0..n |-> {x \in {0} : Has(m)}]
            All  == [m \in 0..n |-> {{0}}]
<1>1. Has(0)
  <2>. DEFINE g == [k \in 0..0 |-> p]
  <2>1. g \in [0..0 -> T] /\ g[0] = p  OBVIOUS
  <2>2. \A k \in 1..0 : FALSE  OBVIOUS
  <2>3. IsLoop(g, 0, p, step)  BY <2>1, <2>2 DEF IsLoop
  <2>. QED  BY <2>1, <2>3
<1>2. ASSUME NEW m \in 1..n, Has(m - 1)  PROVE Has(m)
  <2>1. PICK f \in [0..m - 1 -> T] : f[0] = p /\ \A k \in 1..m - 1 : f[k] = step[f[k - 1]][k]
    BY <1>2 DEF IsLoop
  <2>. DEFINE g == [k \in 0..m |-> IF k = m THEN step[f[m - 1]][m] ELSE f[k]]
  <2>2. step[f[m - 1]][m] \in T
    <3>1. m - 1 \in 0..m - 1 /\ m \in 1..n  BY <1>2
    <3>2. f[m - 1] \in T  BY <3>1
    <3>. QED  BY <3>1, <3>2
  <2>3. g \in [0..m -> T]
    <3>1. \A k \in 0..m : k # m => k \in 0..m - 1  OBVIOUS
    <3>. QED  BY <2>2, <3>1
  <2>4. ASSUME NEW k \in 1..m  PROVE g[k] = step[g[k - 1]][k]
    <3>1. k - 1 \in 0..m /\ k - 1 # m /\ g[k - 1] = f[k - 1]  OBVIOUS
    <3>2. CASE k = m  BY <3>1, <3>2
    <3>3. CASE k # m
      <4>1. k \in 1..m - 1 /\ g[k] = f[k]  BY <3>3
      <4>. QED  BY <2>1, <3>1, <4>1
    <3>. QED  BY <3>2, <3>3
  <2>5. g[0] = p  BY <2>1
  <2>6. IsLoop(g, m, p, step)  BY <2>4, <2>5 DEF IsLoop
  <2>. QED  BY <2>3, <2>6
<1>. HIDE DEF Has
<1>3. Hold[0] \in All[0]  BY <1>1
<1>4. \A m \in 1..n : Hold[m - 1] \in All[m - 1] => Hold[m] \in All[m]
  <2>. SUFFICES ASSUME NEW m \in 1..n, Hold[m - 1] \in All[m - 1]  PROVE Hold[m] \in All[m]
    OBVIOUS
  <2>1. m - 1 \in 0..n /\ m \in 0..n  OBVIOUS
  <2>2. Has(m - 1)  BY <2>1
  <2>3. Has(m)  BY <1>2, <2>2
  <2>. QED  BY <2>1, <2>3
<1>5. \A m \in 0..n : Hold[m] \in All[m]
  <2>. HIDE DEF Hold, All
  <2>. QED  BY <1>3, <1>4, StepByStep
<1>6. Has(n)
  <2>1. n \in 0..n /\ Hold[n] = {x \in {0} : Has(n)} /\ All[n] = {{0}}  OBVIOUS
  <2>2. {x \in {0} : Has(n)} = {0}  BY <1>5, <2>1
  <2>. QED  BY <2>2
<1>. QED  BY <1>6 DEF Has

GeminiPath(p, parts) == Trail(GeminiPart, p, parts)

LEMMA GeminiTrail ==
  ASSUME NEW T, NEW p \in T, NEW parts, NEW n \in Nat, n = Len(parts),
         \A q \in T, k \in 1..n : GeminiPart(q, parts[k]) \in T
  PROVE  LET f == GeminiPath(p, parts)
         IN  f[0] = p /\ \A k \in 1..n : f[k] = GeminiPart(f[k - 1], parts[k])
<1>. DEFINE step == [q \in T |-> [k \in 1..n |-> GeminiPart(q, parts[k])]]
            Is(f) == f = [k \in 0..n |-> IF k = 0 THEN p ELSE GeminiPart(f[k - 1], parts[k])]
<1>1. step \in [T -> [1..n -> T]]  OBVIOUS
<1>2. PICK f \in [0..n -> T] : IsLoop(f, n, p, step)
  <2>. HIDE DEF step
  <2>. QED  BY <1>1, LoopExists
<1>3. ASSUME NEW k \in 1..n  PROVE f[k] = GeminiPart(f[k - 1], parts[k])
  <2>1. k - 1 \in 0..n  OBVIOUS
  <2>2. f[k - 1] \in T  BY <2>1
  <2>. QED  BY <1>2, <2>2 DEF IsLoop
<1>4. Is(f)  BY <1>2, <1>3 DEF IsLoop
<1>5. Is(CHOOSE g : Is(g))  BY <1>4
<1>6. GeminiPath(p, parts) = CHOOSE g : Is(g)  BY DEF Trail, GeminiPath
<1>. DEFINE g == GeminiPath(p, parts)
<1>7. g = [k \in 0..n |-> IF k = 0 THEN p ELSE GeminiPart(g[k - 1], parts[k])]
  BY <1>5, <1>6
<1>. HIDE DEF g
<1>8. g[0] = p /\ \A k \in 1..n : g[k] = GeminiPart(g[k - 1], parts[k])  BY <1>7
<1>. QED  BY <1>8 DEF g

LEMMA AntigravityTrail ==
  ASSUME NEW p, NEW c, NEW n \in Nat, n = Len(c.parts)
  PROVE  LET f == AfterParts(p, c)
         IN  f[0] = p /\ \A k \in 1..n : f[k] = AntigravityPart(c.finish, f[k - 1], c.parts[k])
<1>. DEFINE Does(q, k) == AntigravityPart(c.finish, q, c.parts[k])
            Is(f, m) == f = [k \in 0..m |-> IF k = 0 THEN p ELSE Does(f[k - 1], k)]
            Has(m) == \E f : Is(f, m)
            Hold == [m \in 0..n |-> {x \in {0} : Has(m)}]
            All  == [m \in 0..n |-> {{0}}]
<1>. HIDE DEF Does
<1>1. Has(0)
  <2>. DEFINE g == [k \in 0..0 |-> p]
  <2>1. \A k \in 0..0 : k = 0  OBVIOUS
  <2>2. g = [k \in 0..0 |-> IF k = 0 THEN p ELSE Does(g[k - 1], k)]  BY <2>1
  <2>. QED  BY <2>2
<1>2. ASSUME NEW m \in 1..n, Has(m - 1)  PROVE Has(m)
  <2>1. PICK f : Is(f, m - 1)  BY <1>2
  <2>. DEFINE g == [k \in 0..m |-> IF k = m THEN Does(f[m - 1], m) ELSE f[k]]
  <2>2. ASSUME NEW k \in 0..m  PROVE g[k] = IF k = 0 THEN p ELSE Does(g[k - 1], k)
    <3>1. CASE k = m
      <4>1. m - 1 \in 0..m /\ m - 1 # m /\ k # 0  BY <3>1
      <4>2. g[m - 1] = f[m - 1] /\ g[k] = Does(f[m - 1], m)  BY <3>1, <4>1
      <4>. QED  BY <3>1, <4>1, <4>2
    <3>2. CASE k # m
      <4>1. k \in 0..m - 1  BY <3>2
      <4>2. g[k] = f[k] /\ f[k] = IF k = 0 THEN p ELSE Does(f[k - 1], k)  BY <2>1, <3>2, <4>1
      <4>3. k # 0 => k - 1 \in 0..m /\ k - 1 # m /\ g[k - 1] = f[k - 1]  BY <4>1
      <4>. QED  BY <4>2, <4>3
    <3>. QED  BY <3>1, <3>2
  <2>3. g = [k \in 0..m |-> g[k]]  OBVIOUS
  <2>. HIDE DEF g
  <2>4. Is(g, m)  BY <2>2, <2>3
  <2>. QED  BY <2>4
<1>. HIDE DEF Has
<1>3. Hold[0] \in All[0]  BY <1>1
<1>4. \A m \in 1..n : Hold[m - 1] \in All[m - 1] => Hold[m] \in All[m]
  <2>. SUFFICES ASSUME NEW m \in 1..n, Hold[m - 1] \in All[m - 1]  PROVE Hold[m] \in All[m]
    OBVIOUS
  <2>1. m - 1 \in 0..n /\ m \in 0..n  OBVIOUS
  <2>2. Has(m - 1)  BY <2>1
  <2>3. Has(m)  BY <1>2, <2>2
  <2>. QED  BY <2>1, <2>3
<1>5. \A m \in 0..n : Hold[m] \in All[m]
  <2>. HIDE DEF Hold, All
  <2>. QED  BY <1>3, <1>4, StepByStep
<1>6. Has(n)
  <2>1. n \in 0..n /\ Hold[n] = {x \in {0} : Has(n)} /\ All[n] = {{0}}  OBVIOUS
  <2>2. {x \in {0} : Has(n)} = {0}  BY <1>5, <2>1
  <2>. QED  BY <2>2
<1>7. Is(CHOOSE f : Is(f, n), n)  BY <1>6 DEF Has
<1>8. AfterParts(p, c) = CHOOSE f : Is(f, n)  BY DEF Trail, AfterParts, Does
<1>. DEFINE g == AfterParts(p, c)
<1>9. g = [k \in 0..n |-> IF k = 0 THEN p ELSE Does(g[k - 1], k)]  BY <1>7, <1>8
<1>. HIDE DEF g
<1>10. g[0] = p /\ \A k \in 1..n : g[k] = Does(g[k - 1], k)  BY <1>9
<1>. QED  BY <1>10 DEF g, Does

CallsPath(p, parts) == Trail(HandleToolCall, p, parts)

LEMMA CallsTrail ==
  ASSUME NEW T, NEW p \in T, NEW parts, NEW n \in Nat, n = Len(parts),
         \A q \in T, k \in 1..n : HandleToolCall(q, parts[k]) \in T
  PROVE  LET f == CallsPath(p, parts)
         IN  f[0] = p /\ \A k \in 1..n : f[k] = HandleToolCall(f[k - 1], parts[k])
<1>. DEFINE step == [q \in T |-> [k \in 1..n |-> HandleToolCall(q, parts[k])]]
            Is(f) == f = [k \in 0..n |-> IF k = 0 THEN p ELSE HandleToolCall(f[k - 1], parts[k])]
<1>1. step \in [T -> [1..n -> T]]  OBVIOUS
<1>2. PICK f \in [0..n -> T] : IsLoop(f, n, p, step)
  <2>. HIDE DEF step
  <2>. QED  BY <1>1, LoopExists
<1>3. ASSUME NEW k \in 1..n  PROVE f[k] = HandleToolCall(f[k - 1], parts[k])
  <2>1. k - 1 \in 0..n  OBVIOUS
  <2>2. f[k - 1] \in T  BY <2>1
  <2>. QED  BY <1>2, <2>2 DEF IsLoop
<1>4. Is(f)  BY <1>2, <1>3 DEF IsLoop
<1>5. Is(CHOOSE g : Is(g))  BY <1>4
<1>6. CallsPath(p, parts) = CHOOSE g : Is(g)  BY DEF Trail, CallsPath
<1>. DEFINE g == CallsPath(p, parts)
<1>7. g = [k \in 0..n |-> IF k = 0 THEN p ELSE HandleToolCall(g[k - 1], parts[k])]
  BY <1>5, <1>6
<1>. HIDE DEF g
<1>8. g[0] = p /\ \A k \in 1..n : g[k] = HandleToolCall(g[k - 1], parts[k])  BY <1>7
<1>. QED  BY <1>8 DEF g

StopPath(p, parts) == Trail(StopToolCall, p, parts)

LEMMA StopTrail ==
  ASSUME NEW p, NEW parts, NEW n \in Nat, n = Len(parts)
  PROVE  LET f == StopPath(p, parts)
         IN  f[0] = p /\ \A k \in 1..n : f[k] = StopToolCall(f[k - 1], parts[k])
<1>. DEFINE Does(q, k) == StopToolCall(q, parts[k])
            Is(f, m) == f = [k \in 0..m |-> IF k = 0 THEN p ELSE Does(f[k - 1], k)]
            Has(m) == \E f : Is(f, m)
            Hold == [m \in 0..n |-> {x \in {0} : Has(m)}]
            All  == [m \in 0..n |-> {{0}}]
<1>. HIDE DEF Does
<1>1. Has(0)
  <2>. DEFINE g == [k \in 0..0 |-> p]
  <2>1. \A k \in 0..0 : k = 0  OBVIOUS
  <2>2. g = [k \in 0..0 |-> IF k = 0 THEN p ELSE Does(g[k - 1], k)]  BY <2>1
  <2>. QED  BY <2>2
<1>2. ASSUME NEW m \in 1..n, Has(m - 1)  PROVE Has(m)
  <2>1. PICK f : Is(f, m - 1)  BY <1>2
  <2>. DEFINE g == [k \in 0..m |-> IF k = m THEN Does(f[m - 1], m) ELSE f[k]]
  <2>2. ASSUME NEW k \in 0..m  PROVE g[k] = IF k = 0 THEN p ELSE Does(g[k - 1], k)
    <3>1. CASE k = m
      <4>1. m - 1 \in 0..m /\ m - 1 # m /\ k # 0  BY <3>1
      <4>2. g[m - 1] = f[m - 1] /\ g[k] = Does(f[m - 1], m)  BY <3>1, <4>1
      <4>. QED  BY <3>1, <4>1, <4>2
    <3>2. CASE k # m
      <4>1. k \in 0..m - 1  BY <3>2
      <4>2. g[k] = f[k] /\ f[k] = IF k = 0 THEN p ELSE Does(f[k - 1], k)  BY <2>1, <3>2, <4>1
      <4>3. k # 0 => k - 1 \in 0..m /\ k - 1 # m /\ g[k - 1] = f[k - 1]  BY <4>1
      <4>. QED  BY <4>2, <4>3
    <3>. QED  BY <3>1, <3>2
  <2>3. g = [k \in 0..m |-> g[k]]  OBVIOUS
  <2>. HIDE DEF g
  <2>4. Is(g, m)  BY <2>2, <2>3
  <2>. QED  BY <2>4
<1>. HIDE DEF Has
<1>3. Hold[0] \in All[0]  BY <1>1
<1>4. \A m \in 1..n : Hold[m - 1] \in All[m - 1] => Hold[m] \in All[m]
  <2>. SUFFICES ASSUME NEW m \in 1..n, Hold[m - 1] \in All[m - 1]  PROVE Hold[m] \in All[m]
    OBVIOUS
  <2>1. m - 1 \in 0..n /\ m \in 0..n  OBVIOUS
  <2>2. Has(m - 1)  BY <2>1
  <2>3. Has(m)  BY <1>2, <2>2
  <2>. QED  BY <2>1, <2>3
<1>5. \A m \in 0..n : Hold[m] \in All[m]
  <2>. HIDE DEF Hold, All
  <2>. QED  BY <1>3, <1>4, StepByStep
<1>6. Has(n)
  <2>1. n \in 0..n /\ Hold[n] = {x \in {0} : Has(n)} /\ All[n] = {{0}}  OBVIOUS
  <2>2. {x \in {0} : Has(n)} = {0}  BY <1>5, <2>1
  <2>. QED  BY <2>2
<1>7. Is(CHOOSE f : Is(f, n), n)  BY <1>6 DEF Has
<1>8. StopPath(p, parts) = CHOOSE f : Is(f, n)  BY DEF Trail, StopPath, Does
<1>. DEFINE g == StopPath(p, parts)
<1>9. g = [k \in 0..n |-> IF k = 0 THEN p ELSE Does(g[k - 1], k)]  BY <1>7, <1>8
<1>. HIDE DEF g
<1>10. g[0] = p /\ \A k \in 1..n : g[k] = Does(g[k - 1], k)  BY <1>9
<1>. QED  BY <1>10 DEF g, Does

-----------------------------------------------------------------------------
(* The Codex translator's helpers, from one kind of open block to another.   *)

LEMMA CodexStart ==
  ASSUME NEW p, CodexIn(p, "none"), NEW kind \in Kinds
  PROVE  LET q == StartHere(p, kind)
         IN  /\ q = [p EXCEPT !.reading = [p.reading EXCEPT !.open = {At(p.index, kind)}]]
             /\ q.reading \in Placed /\ Amid(q.reading)
<1>1. p \in CodexState /\ p.reading \in Placed /\ p.index \in Nat  BY DEF CodexIn, CodexState
<1>2. p.reading.open = {} /\ Amid(p.reading)  BY DEF CodexIn
<1>3. \A b \in p.reading.stopped : b.index # p.index
  BY <1>1 DEF CodexIn, Placed, Block
<1>4. \A b \in Blocks(p.reading) : b.index # p.index  BY <1>2, <1>3 DEF Blocks
<1>5. /\ Read(p.reading, StartBlock(p.index, kind)) =
             [p.reading EXCEPT !.open = @ \cup {At(p.index, kind)}]
      /\ Read(p.reading, StartBlock(p.index, kind)) \in Placed
  BY <1>1, <1>2, <1>4, StartRead
<1>6. StartHere(p, kind) =
        [p EXCEPT !.reading = [p.reading EXCEPT !.open = {At(p.index, kind)}]]
  BY <1>2, <1>5 DEF StartHere, Emit
<1>. DEFINE k == [p.reading EXCEPT !.open = {At(p.index, kind)}]
<1>7. k \in Placed /\ Amid(k)  BY <1>1, <1>2, <1>5 DEF Amid, Placed
<1>8. [p EXCEPT !.reading = k].reading = k  BY <1>1 DEF CodexState
<1>. QED  BY <1>6, <1>7, <1>8

LEMMA CodexDelta ==
  ASSUME NEW p, NEW kind \in Kinds, CodexIn(p, kind)
  PROVE  DeltaHere(p, kind) = p
<1>1. p \in CodexState /\ p.reading \in Placed  BY DEF CodexIn, CodexState
<1>2. Amid(p.reading) /\ At(p.index, kind) \in p.reading.open  BY DEF CodexIn, Kinds
<1>3. Read(p.reading, DeltaTo(p.index, kind)) = p.reading  BY <1>1, <1>2, DeltaRead
<1>. QED  BY <1>1, <1>3 DEF DeltaHere, Emit, CodexState

LEMMA CodexStop ==
  ASSUME NEW p, NEW kind \in Kinds, CodexIn(p, kind)
  PROVE  /\ CodexIn([StopHere(p) EXCEPT !.text = FALSE, !.thinking = FALSE], "none")
         /\ StopHere(p) \in CodexState
         /\ StopHere(p).text = p.text /\ StopHere(p).thinking = p.thinking
<1>. DEFINE b == At(p.index, kind)
            k == [p.reading EXCEPT !.open = @ \ {b}, !.stopped = @ \cup {b}]
<1>1. p \in CodexState /\ p.reading \in Placed /\ p.index \in Nat  BY DEF CodexIn, CodexState
<1>2. Amid(p.reading) /\ p.reading.open = {b}  BY DEF CodexIn, Kinds
<1>3. b.index = p.index  BY DEF At
<1>4. Read(p.reading, StopBlock(p.index)) = k /\ k \in Placed
  BY <1>1, <1>2, <1>3, StopRead
<1>5. Amid(k) /\ k.open = {} /\ k.stopped = p.reading.stopped \cup {b}
  BY <1>1, <1>2 DEF Amid, Placed
<1>6. \A c \in k.stopped : c.index < p.index + 1
  BY <1>1, <1>3, <1>5 DEF CodexIn, Placed, Block
<1>7. HasTool(k) <=> HasTool(p.reading)  BY <1>2, <1>5 DEF HasTool, Blocks
<1>8. p.pending = NoCall /\ (p.tool <=> HasTool(p.reading))  BY DEF CodexIn, Kinds
<1>. HIDE DEF k
<1>9. StopHere(p) = [p EXCEPT !.reading = k, !.index = p.index + 1]
  BY <1>1, <1>4 DEF StopHere, Emit, CodexState
<1>. DEFINE q == [p EXCEPT !.reading = k, !.index = p.index + 1]
            r == [q EXCEPT !.text = FALSE, !.thinking = FALSE]
<1>10. q \in CodexState /\ q.text = p.text /\ q.thinking = p.thinking
  <2>1. p.index + 1 \in Nat  BY <1>1
  <2>. QED  BY <1>1, <1>4, <2>1 DEF CodexState
<1>11. /\ r \in CodexState /\ r.reading = k /\ r.index = p.index + 1 /\ r.tool = p.tool
       /\ r.pending = p.pending /\ r.text = FALSE /\ r.thinking = FALSE
  <2>1. p.index + 1 \in Nat  BY <1>1
  <2>. QED  BY <1>1, <1>4, <2>1 DEF CodexState
<1>. HIDE DEF q, r
<1>12. CodexIn(r, "none")
  BY <1>5, <1>6, <1>7, <1>8, <1>11 DEF CodexIn
<1>. QED  BY <1>9, <1>10, <1>12 DEF q, r

\* What a block is does not depend on these.
LEMMA CodexFlags ==
  ASSUME NEW p, NEW kind, CodexIn(p, kind), NEW x \in BOOLEAN
  PROVE  /\ CodexIn([p EXCEPT !.sig = x], kind) /\ CodexIn([p EXCEPT !.summary = x], kind)
         /\ CodexIn([p EXCEPT !.heard = x], kind) /\ CodexIn([p EXCEPT !.args = x], kind)
         /\ CodexIn([p EXCEPT !.stopPending = x], kind)
<1>1. p \in CodexState  BY DEF CodexIn
<1>2. ASSUME NEW q \in CodexState, q.text = p.text, q.thinking = p.thinking,
             q.pending = p.pending, q.reading = p.reading, q.index = p.index, q.tool = p.tool
      PROVE  CodexIn(q, kind)
  BY <1>2 DEF CodexIn
<1>3. CodexIn([p EXCEPT !.sig = x], kind)  BY <1>1, <1>2 DEF CodexState
<1>4. CodexIn([p EXCEPT !.summary = x], kind)  BY <1>1, <1>2 DEF CodexState
<1>5. CodexIn([p EXCEPT !.heard = x], kind)  BY <1>1, <1>2 DEF CodexState
<1>6. CodexIn([p EXCEPT !.args = x], kind)  BY <1>1, <1>2 DEF CodexState
<1>7. CodexIn([p EXCEPT !.stopPending = x], kind)  BY <1>1, <1>2 DEF CodexState
<1>. QED  BY <1>3, <1>4, <1>5, <1>6, <1>7

\* A block is started where none was open; the flag of its kind is set with it.
LEMMA CodexStarted ==
  ASSUME NEW p, CodexIn(p, "none"), NEW kind \in Kinds, NEW r \in CodexState,
         r.reading = StartHere(p, kind).reading, r.index = p.index, r.pending = p.pending,
         r.text = (kind = "text"), r.thinking = (kind = "thinking"),
         r.tool = IF kind = "tool" THEN TRUE ELSE p.tool
  PROVE  CodexIn(r, kind)
<1>. DEFINE b == At(p.index, kind)
            k == [p.reading EXCEPT !.open = {b}]
            q == StartHere(p, kind)
<1>1. p \in CodexState /\ p.reading \in Placed /\ p.index \in Nat  BY DEF CodexIn, CodexState
<1>2. q = [p EXCEPT !.reading = k] /\ q.reading \in Placed /\ Amid(q.reading)  BY CodexStart
<1>3. q.reading = k  BY <1>1, <1>2 DEF CodexState
<1>4. k.open = {b} /\ k.stopped = p.reading.stopped  BY <1>1 DEF Placed
<1>5. HasTool(k) <=> HasTool(p.reading) \/ kind = "tool"
  <2>1. p.reading.open = {} /\ b.kind = kind  BY DEF CodexIn, At
  <2>. QED  BY <1>4, <2>1 DEF HasTool, Blocks
<1>. HIDE DEF k
<1>6. r.pending = NoCall /\ (p.tool <=> HasTool(p.reading))  BY DEF CodexIn
<1>7. \A c \in r.reading.stopped : c.index < r.index  BY <1>3, <1>4 DEF CodexIn
<1>8. r.reading = k /\ Amid(k) /\ kind # "none" /\ kind # "pending"  BY <1>2, <1>3 DEF Kinds
<1>9. r.tool <=> HasTool(r.reading)  BY <1>5, <1>6, <1>8
<1>. QED  BY <1>3, <1>4, <1>6, <1>7, <1>8, <1>9 DEF CodexIn

LEMMA CodexText ==
  ASSUME NEW p, CodexIn(p, "none")
  PROVE  CodexIn(startCodexTextBlock(p), "text")
<1>. DEFINE q == StartHere(p, "text")
            r == [q EXCEPT !.text = TRUE]
<1>1. p \in CodexState /\ ~p.text /\ ~p.thinking  BY DEF CodexIn
<1>2. "text" \in Kinds  BY DEF Kinds
<1>3. /\ q = [p EXCEPT !.reading = [p.reading EXCEPT !.open = {At(p.index, "text")}]]
      /\ q.reading \in Placed
  BY <1>2, CodexStart
<1>. HIDE DEF q
<1>4. /\ r \in CodexState /\ r.reading = q.reading /\ r.index = p.index /\ r.pending = p.pending
      /\ r.text = TRUE /\ r.thinking = FALSE /\ r.tool = p.tool
  BY <1>1, <1>3 DEF CodexState
<1>. HIDE DEF r
<1>5. CodexIn(r, "text")  BY <1>2, <1>4, CodexStarted DEF q
<1>. QED  BY <1>1, <1>5 DEF startCodexTextBlock, q, r

LEMMA CodexThinking ==
  ASSUME NEW p, CodexIn(p, "none")
  PROVE  CodexIn(startCodexThinkingBlock(p), "thinking")
<1>. DEFINE q == StartHere(p, "thinking")
            r == [q EXCEPT !.thinking = TRUE, !.stopPending = FALSE]
<1>1. p \in CodexState /\ ~p.text /\ ~p.thinking  BY DEF CodexIn
<1>2. "thinking" \in Kinds  BY DEF Kinds
<1>3. /\ q = [p EXCEPT !.reading = [p.reading EXCEPT !.open = {At(p.index, "thinking")}]]
      /\ q.reading \in Placed
  BY <1>2, CodexStart
<1>. HIDE DEF q
<1>4. /\ r \in CodexState /\ r.reading = q.reading /\ r.index = p.index /\ r.pending = p.pending
      /\ r.text = FALSE /\ r.thinking = TRUE /\ r.tool = p.tool
  BY <1>1, <1>3 DEF CodexState
<1>. HIDE DEF r
<1>5. CodexIn(r, "thinking")  BY <1>2, <1>4, CodexStarted DEF q
<1>. QED  BY <1>1, <1>5 DEF startCodexThinkingBlock, q, r

\* Blocks of a search have no flag.
LEMMA CodexSearchBlock ==
  ASSUME NEW p, CodexIn(p, "none"), NEW kind \in {"search", "results"}
  PROVE  CodexIn(StartHere(p, kind), kind)
<1>. DEFINE q == StartHere(p, kind)
<1>1. p \in CodexState /\ ~p.text /\ ~p.thinking  BY DEF CodexIn
<1>2. kind \in Kinds  BY DEF Kinds
<1>3. /\ q = [p EXCEPT !.reading = [p.reading EXCEPT !.open = {At(p.index, kind)}]]
      /\ q.reading \in Placed
  BY <1>2, CodexStart
<1>. HIDE DEF q
<1>4. /\ q \in CodexState /\ q.index = p.index /\ q.pending = p.pending
      /\ q.text = FALSE /\ q.thinking = FALSE /\ q.tool = p.tool
  BY <1>1, <1>3 DEF CodexState
<1>. QED  BY <1>2, <1>4, CodexStarted DEF q

LEMMA CodexStopped ==
  ASSUME NEW p, NEW kind \in Kinds, CodexIn(p, kind), kind \notin {"text", "thinking"}
  PROVE  CodexIn(StopHere(p), "none")
<1>. DEFINE q == StopHere(p)
<1>1. /\ CodexIn([q EXCEPT !.text = FALSE, !.thinking = FALSE], "none")
      /\ q \in CodexState /\ q.text = p.text /\ q.thinking = p.thinking
  BY CodexStop
<1>2. p.text = FALSE /\ p.thinking = FALSE  BY DEF CodexIn
<1>. HIDE DEF q
<1>3. [q EXCEPT !.text = FALSE, !.thinking = FALSE] = q  BY <1>1, <1>2 DEF CodexState
<1>. QED  BY <1>1, <1>3 DEF q

LEMMA CodexTextStopped ==
  ASSUME NEW p, CodexIn(p, "text")
  PROVE  CodexIn(stopCodexTextBlock(p), "none")
<1>. DEFINE q == StopHere(p)
<1>1. /\ CodexIn([q EXCEPT !.text = FALSE, !.thinking = FALSE], "none")
      /\ q \in CodexState /\ q.text = p.text /\ q.thinking = p.thinking
  BY CodexStop DEF Kinds
<1>2. p.text /\ p.thinking = FALSE  BY DEF CodexIn
<1>. HIDE DEF q
<1>3. [q EXCEPT !.text = FALSE, !.thinking = FALSE] = [q EXCEPT !.text = FALSE]
  BY <1>1, <1>2 DEF CodexState
<1>. QED  BY <1>1, <1>2, <1>3 DEF stopCodexTextBlock, q

LEMMA CodexThinkingStopped ==
  ASSUME NEW p, CodexIn(p, "thinking")
  PROVE  CodexIn(finalizeCodexThinkingBlock(p), "none")
<1>. DEFINE q == StopHere(p)
<1>1. /\ CodexIn([q EXCEPT !.text = FALSE, !.thinking = FALSE], "none")
      /\ q \in CodexState /\ q.text = p.text /\ q.thinking = p.thinking
  BY CodexStop DEF Kinds
<1>2. p.thinking /\ p.text = FALSE  BY DEF CodexIn
<1>3. DeltaHere(p, "thinking") = p  BY CodexDelta DEF Kinds
<1>. HIDE DEF q
<1>. DEFINE r == [q EXCEPT !.text = FALSE, !.thinking = FALSE]
<1>4. r = [q EXCEPT !.thinking = FALSE] /\ r \in CodexState
  BY <1>1, <1>2 DEF CodexState
<1>5. [q EXCEPT !.thinking = FALSE, !.stopPending = FALSE] = [r EXCEPT !.stopPending = FALSE]
  BY <1>1, <1>4 DEF CodexState
<1>6. finalizeCodexThinkingBlock(p) = [r EXCEPT !.stopPending = FALSE]
  BY <1>2, <1>3, <1>5 DEF finalizeCodexThinkingBlock, q
<1>. HIDE DEF r
<1>7. CodexIn(r, "none")  BY <1>1 DEF r
<1>. QED  BY <1>6, <1>7, CodexFlags

LEMMA CodexRests ==
  ASSUME NEW p, NEW kind, CodexIn(p, kind)
  PROVE  /\ kind # "text" => stopCodexTextBlock(p) = p
         /\ kind = "text" => startCodexTextBlock(p) = p
         /\ kind # "thinking" => finalizeCodexThinkingBlock(p) = p /\ finalizeIfPending(p) = p
         /\ kind = "thinking" => startCodexThinkingBlock(p) = p
BY DEF CodexIn, stopCodexTextBlock, startCodexTextBlock, finalizeCodexThinkingBlock,
       finalizeIfPending, startCodexThinkingBlock

LEMMA CodexFinalized ==
  ASSUME NEW p, CodexBetween(p)
  PROVE  CodexIn(finalizeIfPending(p), "none") /\ CodexIn(finalizeCodexThinkingBlock(p), "none")
<1>1. CASE CodexIn(p, "none")  BY <1>1, CodexRests
<1>2. CASE CodexIn(p, "thinking") /\ p.stopPending
  BY <1>2, CodexThinkingStopped DEF finalizeIfPending
<1>. QED  BY <1>1, <1>2 DEF CodexBetween

-----------------------------------------------------------------------------
(* The events of a Codex answer, from place to place.                        *)

LEMMA CodexItems ==
  ASSUME NEW more \in BOOLEAN, NEW s \in NextItem(more)
  PROVE  LET Move(type, next) == s.chunk.type = type /\ s.next = next
         IN  /\ s.chunk.brings \in BOOLEAN
             /\ \/ s.chunk.type \in Completions /\ s.next = "done" /\ ~s.chunk.brings
                \/ s.chunk.type \in Completions /\ s.next = "asked" /\ s.chunk.brings
                \/ Move("message.added", "message")
                \/ Move("reasoning.added", "reasoning")
                \/ Move("call.added", "call")
                \/ Move("search.done", "items")
<1>1. CASE s \in Completed
  <2>1. PICK t \in Completions : s \in To("done", t, {FALSE}) \/ s \in To("asked", t, {TRUE})
    BY <1>1 DEF Completed
  <2>. QED  BY <2>1 DEF To
<1>2. CASE s \notin Completed
  <2>1. \/ s \in To("message", "message.added", {FALSE})
        \/ s \in To("reasoning", "reasoning.added", BOOLEAN)
        \/ s \in To("call", "call.added", BOOLEAN)
        \/ s \in To("items", "search.done", BOOLEAN)
    BY <1>2 DEF NextItem
  <2>. QED  BY <2>1 DEF To
<1>. QED  BY <1>1, <1>2

LEMMA CodexMoves ==
  ASSUME NEW at, NEW more \in BOOLEAN, NEW s \in CodexUpstream(at, more) \cup CodexFails(at)
  PROVE  LET Move(from, type, next) == at \in from /\ s.chunk.type = type /\ s.next = next
             Items == {"items", "summarized"}
             Ends(next) == at \in Items /\ s.chunk.type \in Completions /\ s.next = next
         IN  /\ s.chunk.brings \in BOOLEAN
             /\ \/ Move({"new"}, "created", "items")
                \/ Ends("done") /\ ~s.chunk.brings
                \/ Ends("asked") /\ s.chunk.brings
                \/ Move(Items, "message.added", "message")
                \/ Move(Items, "reasoning.added", "reasoning")
                \/ Move(Items, "call.added", "call")
                \/ Move(Items, "search.done", "items")
                \/ Move({"reasoning", "summarized"}, "summary.added", "summary")
                \/ Move({"reasoning", "summarized"}, "reasoning.done", "items")
                \/ Move({"summary"}, "summary.delta", "summary")
                \/ Move({"summary"}, "summary.done", "summarized")
                \/ Move({"message"}, "message.done", "items")
                \/ Move({"message"}, "part.added", "part")
                \/ Move({"part"}, "text.delta", "part")
                \/ Move({"part"}, "part.done", "message")
                \/ Move({"call"}, "args.delta", "call")
                \/ Move({"call"}, "args.done", "called")
                \/ Move({"called"}, "call.done", "items")
                \/ at \notin {"done", "asked", "failed"} /\ s.chunk.type = "error" /\ s.next = "failed"
<1>1. CASE s \in CodexFails(at)  BY <1>1 DEF CodexFails, To
<1>2. CASE s \in CodexUpstream(at, more)
  <2>1. CASE at = "new"  BY <1>2, <2>1 DEF CodexUpstream, To
  <2>2. CASE at = "items"
    <3>1. s \in NextItem(more)  BY <1>2, <2>2 DEF CodexUpstream
    <3>. QED  BY <2>2, <3>1, CodexItems
  <2>3. CASE at = "reasoning"  BY <1>2, <2>3 DEF CodexUpstream, To, NextSummary
  <2>4. CASE at = "summary"  BY <1>2, <2>4 DEF CodexUpstream, To
  <2>5. CASE at = "summarized"
    <3>1. \/ s \in NextSummary(more) \/ s \in To("items", "reasoning.done", BOOLEAN)
          \/ s \in NextItem(more)
      BY <1>2, <2>5 DEF CodexUpstream
    <3>2. CASE s \in NextSummary(more)  BY <2>5, <3>2 DEF To, NextSummary
    <3>3. CASE s \in To("items", "reasoning.done", BOOLEAN)  BY <2>5, <3>3 DEF To
    <3>4. CASE s \in NextItem(more)  BY <2>5, <3>4, CodexItems
    <3>. QED  BY <3>1, <3>2, <3>3, <3>4
  <2>6. CASE at = "message"  BY <1>2, <2>6 DEF CodexUpstream, To
  <2>7. CASE at = "part"  BY <1>2, <2>7 DEF CodexUpstream, To
  <2>8. CASE at = "call"  BY <1>2, <2>8 DEF CodexUpstream, To
  <2>9. CASE at = "called"  BY <1>2, <2>9 DEF CodexUpstream, To
  <2>. QED  BY <1>2, <2>1, <2>2, <2>3, <2>4, <2>5, <2>6, <2>7, <2>8, <2>9 DEF CodexUpstream
<1>. QED  BY <1>1, <1>2

LEMMA CodexBegins ==
  CodexIn(Emit(CodexParams, MessageStart), "none")
<1>. DEFINE k == [NewReading EXCEPT !.begun = TRUE]
            p == CodexParams
            q == [p EXCEPT !.reading = k]
<1>1. k \in Placed /\ Read(NewReading, MessageStart) = k
  BY FirstRead, BeginRead DEF NewReading
<1>2. /\ Amid(k) /\ k.open = {} /\ k.stopped = {} /\ ~HasTool(k)
  BY DEF NewReading, Amid, HasTool, Blocks
<1>3. Emit(p, MessageStart) = q  BY <1>1 DEF Emit, CodexParams
<1>. HIDE DEF k
<1>4. NoCall \in PendingCalls  BY DEF PendingCalls
<1>5. /\ q \in CodexState /\ q.reading = k /\ q.text = FALSE /\ q.thinking = FALSE
      /\ q.pending = NoCall /\ q.tool = FALSE
  BY <1>1, <1>4 DEF CodexParams, CodexState
<1>. HIDE DEF q
<1>6. CodexIn(q, "none")  BY <1>2, <1>5 DEF CodexIn
<1>. QED  BY <1>3, <1>6

\* What is written when the answer is complete.
Completing(p, e) ==
  Emit(Emit(p, MessageDelta(mapCodexStopReasonToClaude(codexStopReason(e), p.tool))), MessageStop)

LEMMA CodexCompletes ==
  ASSUME NEW p, NEW e, e.type \in Completions
  PROVE  ConvertCodexResponseToClaude(p, e) = Completing(finalizeIfPending(p), e)
BY DEF ConvertCodexResponseToClaude, Completing, Completions

LEMMA CodexReasons ==
  ASSUME NEW e, e.brings \in BOOLEAN, NEW tool \in BOOLEAN
  PROVE  LET why == mapCodexStopReasonToClaude(codexStopReason(e), tool)
         IN  /\ why \in {"end_turn", "max_tokens", "tool_use"}
             /\ why = "tool_use" <=> e.brings \/ tool
<1>. DEFINE said == codexStopReason(e)
            why == mapCodexStopReasonToClaude(said, tool)
<1>1. CASE e.brings
  <2>1. said = "function_call"  BY <1>1 DEF codexStopReason
  <2>. HIDE DEF said
  <2>2. why = "tool_use"  BY <2>1 DEF mapCodexStopReasonToClaude
  <2>. QED  BY <1>1, <2>2 DEF said
<1>2. CASE ~e.brings
  <2>1. said # "function_call"  BY <1>2 DEF codexStopReason
  <2>. HIDE DEF said
  <2>2. IF tool THEN why = "tool_use" ELSE why \in {"end_turn", "max_tokens"}
    BY <2>1 DEF mapCodexStopReasonToClaude
  <2>. QED  BY <1>2, <2>2 DEF said
<1>. QED  BY <1>1, <1>2

LEMMA CodexEnds ==
  ASSUME NEW p, CodexIn(p, "none"), NEW e, e.brings \in BOOLEAN
  PROVE  LET q == Completing(p, e)
         IN  /\ q \in CodexState /\ q.reading.over
             /\ IF e.brings THEN ToldCall(q.reading) ELSE Told(q.reading)
<1>. DEFINE why == mapCodexStopReasonToClaude(codexStopReason(e), p.tool)
            k == [p.reading EXCEPT !.reason = why]
            l == [k EXCEPT !.over = TRUE]
<1>1. p \in CodexState /\ p.reading \in Placed /\ p.tool \in BOOLEAN  BY DEF CodexIn, CodexState
<1>2. Amid(p.reading) /\ p.reading.open = {} /\ (p.tool <=> HasTool(p.reading))  BY DEF CodexIn
<1>3. why \in Reasons /\ why # "" /\ (why = "tool_use" <=> e.brings \/ p.tool)
  <2>1. why \in {"end_turn", "max_tokens", "tool_use"} /\ (why = "tool_use" <=> e.brings \/ p.tool)
    BY <1>1, CodexReasons
  <2>. HIDE DEF why
  <2>. QED  BY <2>1 DEF Reasons
<1>. HIDE DEF why
<1>4. Read(p.reading, MessageDelta(why)) = k /\ k \in Placed  BY <1>1, <1>2, <1>3, ReasonRead
<1>5. /\ k.begun /\ ~k.over /\ k.open = {} /\ k.reason = why
      /\ k.stopped = p.reading.stopped /\ k.open = p.reading.open
  BY <1>1, <1>2 DEF Placed, Amid
<1>. HIDE DEF k
<1>6. Read(k, MessageStop) = l /\ l \in Placed  BY <1>4, <1>5, EndRead
<1>7. /\ l.begun /\ l.over /\ l.open = {} /\ l.reason = why
      /\ l.stopped = p.reading.stopped /\ l.open = p.reading.open
  BY <1>4, <1>5 DEF Placed
<1>. HIDE DEF l
<1>8. IF e.brings THEN ToldCall(l) ELSE Told(l)
  BY <1>2, <1>3, <1>7 DEF ToldCall, Told, HasTool, Blocks
<1>9. Emit(p, MessageDelta(why)) = [p EXCEPT !.reading = k]  BY <1>4 DEF Emit
<1>10. Emit([p EXCEPT !.reading = k], MessageStop) = [p EXCEPT !.reading = l]
  BY <1>1, <1>6 DEF Emit, CodexState
<1>11. [p EXCEPT !.reading = l] \in CodexState /\ [p EXCEPT !.reading = l].reading = l
  BY <1>1, <1>6 DEF CodexState
<1>. QED  BY <1>7, <1>8, <1>9, <1>10, <1>11 DEF Completing, why

LEMMA CodexErrs ==
  ASSUME NEW p \in CodexState, ~p.reading.over
  PROVE  Emit(p, ErrorEvent) \in CodexState
<1>1. p.reading \in Placed  BY DEF CodexState
<1>2. Read(p.reading, ErrorEvent) \in Placed  BY <1>1, ErrorRead
<1>. QED  BY <1>2 DEF Emit, CodexState

\* Text ends a thought.
LEMMA CodexOutputText ==
  ASSUME NEW p, CodexBetween(p) \/ CodexIn(p, "text")
  PROVE  CodexIn(OutputText(p), "text")
<1>. DEFINE q == startCodexTextBlock(finalizeCodexThinkingBlock(p))
<1>1. CodexIn(q, "text")
  <2>1. CASE CodexBetween(p)  BY <2>1, CodexFinalized, CodexText
  <2>2. CASE CodexIn(p, "text")  BY <2>2, CodexRests
  <2>. QED  BY <2>1, <2>2
<1>2. DeltaHere(q, "text") = q  BY <1>1, CodexDelta DEF Kinds
<1>. QED  BY <1>1, <1>2 DEF OutputText

LEMMA CodexMessageDone ==
  ASSUME NEW p, CodexBetween(p), NEW text \in BOOLEAN
  PROVE  CodexBetween(MessageDone(p, text))
<1>1. CodexIn(stopCodexTextBlock(OutputText(p)), "none")  BY CodexOutputText, CodexTextStopped
<1>2. CodexIn([stopCodexTextBlock(OutputText(p)) EXCEPT !.heard = TRUE], "none")
  BY <1>1, CodexFlags
<1>. QED  BY <1>2 DEF MessageDone, CodexBetween

LEMMA CodexReasoningDone ==
  ASSUME NEW p, CodexBetween(p), NEW sig \in BOOLEAN
  PROVE  CodexBetween(ReasoningDone(p, sig))
<1>. DEFINE q == [p EXCEPT !.sig = @ \/ sig]
            Unset(s) == [s EXCEPT !.sig = FALSE, !.summary = FALSE]
<1>1. p \in CodexState /\ (p.sig \/ sig) \in BOOLEAN  BY DEF CodexBetween, CodexIn, CodexState
<1>2. q.stopPending = p.stopPending  BY <1>1 DEF CodexState
<1>3. CodexBetween(q)  BY <1>1, <1>2, CodexFlags DEF CodexBetween
<1>. HIDE DEF q
<1>4. ASSUME NEW s, CodexBetween(s)  PROVE CodexBetween(Unset(s))
  <2>1. s \in CodexState  BY <1>4 DEF CodexBetween, CodexIn
  <2>2. Unset(s).stopPending = s.stopPending  BY <2>1 DEF CodexState
  <2>3. Unset(s) = [[s EXCEPT !.sig = FALSE] EXCEPT !.summary = FALSE]
    BY <2>1 DEF CodexState
  <2>4. ASSUME NEW kind, CodexIn(s, kind)  PROVE CodexIn(Unset(s), kind)
    BY <2>3, <2>4, CodexFlags
  <2>. QED  BY <1>4, <2>2, <2>4 DEF CodexBetween
<1>5. CodexBetween(finalizeCodexThinkingBlock(q))  BY <1>3, CodexFinalized DEF CodexBetween
<1>6. CodexBetween(finalizeCodexThinkingBlock(startCodexThinkingBlock(q)))
  <2>1. CASE CodexIn(q, "none")
    BY <2>1, CodexThinking, CodexThinkingStopped DEF CodexBetween
  <2>2. CASE CodexIn(q, "thinking")  BY <1>5, <2>2, CodexRests
  <2>. QED  BY <1>3, <2>1, <2>2 DEF CodexBetween
<1>. QED  BY <1>3, <1>4, <1>5, <1>6 DEF ReasoningDone, q

LEMMA CodexSearchDone ==
  ASSUME NEW p, CodexBetween(p), NEW query \in BOOLEAN
  PROVE  CodexIn(SearchDone(p, query), "none")
<1>. DEFINE s == StartHere(finalizeCodexThinkingBlock(p), "search")
            r == StopHere(DeltaHere(s, "search"))
            t == StartHere(r, "results")
<1>1. CodexIn(s, "search")  BY CodexFinalized, CodexSearchBlock
<1>2. CodexIn(StopHere(s), "none")  BY <1>1, CodexStopped DEF Kinds
<1>3. DeltaHere(s, "search") = s  BY <1>1, CodexDelta DEF Kinds
<1>4. CodexIn(r, "none")  BY <1>2, <1>3
<1>. HIDE DEF r
<1>5. CodexIn(t, "results")  BY <1>4, CodexSearchBlock
<1>. HIDE DEF t
<1>6. CodexIn(StopHere(t), "none")  BY <1>5, CodexStopped DEF Kinds
<1>. QED  BY <1>2, <1>6 DEF SearchDone, r, t

LEMMA CodexCallAdded ==
  ASSUME NEW p, CodexBetween(p), NEW named \in BOOLEAN
  PROVE  CodexCalls(CallAdded(p, named))
<1>. DEFINE base == stopCodexTextBlock(finalizeCodexThinkingBlock(p))
            q == [base EXCEPT !.tool = TRUE, !.args = FALSE]
            s == StartHere(q, "tool")
            call == [index |-> q.index, args |-> FALSE, heard |-> FALSE]
            r == [q EXCEPT !.pending = call, !.index = @ + 1]
<1>1. CodexIn(base, "none")  BY CodexFinalized, CodexRests
<1>2. /\ base \in CodexState /\ base.text = FALSE /\ base.thinking = FALSE
      /\ base.pending = NoCall /\ base.reading.open = {} /\ Amid(base.reading)
      /\ \A b \in base.reading.stopped : b.index < base.index
  BY <1>1 DEF CodexIn
<1>. HIDE DEF base
<1>3. /\ q \in CodexState /\ q.reading = base.reading /\ q.index = base.index
      /\ q.text = FALSE /\ q.thinking = FALSE /\ q.pending = NoCall /\ q.tool = TRUE
  BY <1>2 DEF CodexState
<1>4. CASE named
  <2>1. "tool" \in Kinds  BY DEF Kinds
  <2>2. StartHere(base, "tool").reading \in Placed  BY <1>1, <2>1, CodexStart
  <2>3. /\ StartHere(base, "tool").reading = Read(base.reading, StartBlock(base.index, "tool"))
        /\ s = [q EXCEPT !.reading = Read(base.reading, StartBlock(base.index, "tool"))]
    BY <1>2, <1>3 DEF StartHere, Emit, CodexState
  <2>. HIDE DEF q
  <2>4. /\ s \in CodexState /\ s.reading = StartHere(base, "tool").reading
        /\ s.index = base.index /\ s.text = FALSE /\ s.thinking = FALSE
        /\ s.pending = base.pending /\ s.tool = TRUE
    BY <1>2, <1>3, <2>2, <2>3 DEF CodexState
  <2>. HIDE DEF s
  <2>5. CodexIn(s, "tool")  BY <1>1, <2>1, <2>4, CodexStarted
  <2>6. DeltaHere(s, "tool") = s  BY <2>1, <2>5, CodexDelta
  <2>. QED  BY <1>4, <2>5, <2>6 DEF CallAdded, CodexCalls, s, q, base
<1>5. CASE ~named
  <2>1. q.index \in Nat /\ base.index \in Nat  BY <1>3 DEF CodexState
  <2>2. call \in PendingCalls /\ call # NoCall /\ call.index = base.index
    BY <1>3, <2>1 DEF PendingCalls, NoCall
  <2>. HIDE DEF q, call
  <2>3. /\ r \in CodexState /\ r.reading = base.reading /\ r.index = base.index + 1
        /\ r.text = FALSE /\ r.thinking = FALSE /\ r.pending = call /\ r.tool = TRUE
    <3>1. q.index + 1 \in Nat /\ q.index + 1 = base.index + 1  BY <1>3, <2>1
    <3>. QED  BY <1>3, <2>2, <3>1 DEF CodexState
  <2>. HIDE DEF r
  <2>4. \A b \in r.reading.stopped : b.index \in Nat /\ b.index < base.index
    BY <1>2, <2>3 DEF CodexState, Placed, Block
  <2>5. /\ \A b \in r.reading.stopped : b.index < r.index /\ b.index # call.index
        /\ call.index < r.index
    BY <2>1, <2>2, <2>3, <2>4
  <2>6. CodexIn(r, "pending")  BY <1>2, <2>2, <2>3, <2>5 DEF CodexIn
  <2>. QED  BY <1>5, <2>6 DEF CallAdded, CodexCalls, r, call, q, base
<1>. QED  BY <1>4, <1>5

\* What arrives for a call that waits to be written is only remembered.
LEMMA CodexRemembers ==
  ASSUME NEW p, CodexIn(p, "pending"), NEW args \in BOOLEAN, NEW heard \in BOOLEAN
  PROVE  CodexIn([p EXCEPT !.pending.args = args, !.pending.heard = heard], "pending")
<1>. DEFINE call == [p.pending EXCEPT !.args = args, !.heard = heard]
            q == [p EXCEPT !.pending = call]
<1>1. p \in CodexState /\ p.pending \in PendingCalls /\ p.pending # NoCall
  BY DEF CodexIn, CodexState
<1>2. p.pending \in [index: Nat, args: BOOLEAN, heard: BOOLEAN]  BY <1>1 DEF PendingCalls
<1>3. call \in PendingCalls /\ call # NoCall /\ call.index = p.pending.index
  BY <1>2 DEF PendingCalls, NoCall
<1>4. [p EXCEPT !.pending.args = args, !.pending.heard = heard] = q
  BY <1>1 DEF CodexState
<1>. HIDE DEF call
<1>5. /\ q \in CodexState /\ q.reading = p.reading /\ q.index = p.index /\ q.text = p.text
      /\ q.thinking = p.thinking /\ q.pending = call /\ q.tool = p.tool
  BY <1>1, <1>3 DEF CodexState
<1>. HIDE DEF q
<1>6. CodexIn(q, "pending")  BY <1>3, <1>5 DEF CodexIn
<1>. QED  BY <1>4, <1>6

LEMMA CodexArguments ==
  ASSUME NEW p, CodexCalls(p), NEW args \in BOOLEAN
  PROVE  CodexCalls(ArgumentsDelta(p)) /\ CodexCalls(ArgumentsDone(p, args))
<1>1. CASE CodexIn(p, "tool")
  <2>1. p.pending = NoCall  BY <1>1 DEF CodexIn
  <2>2. DeltaHere(p, "tool") = p  BY <1>1, CodexDelta DEF Kinds
  <2>3. CodexIn([p EXCEPT !.args = TRUE], "tool")  BY <1>1, CodexFlags
  <2>. QED  BY <1>1, <2>1, <2>2, <2>3 DEF ArgumentsDelta, ArgumentsDone, CodexCalls
<1>2. CASE CodexIn(p, "pending")
  <2>1. p.pending # NoCall /\ p \in CodexState  BY <1>2 DEF CodexIn
  <2>2. p.pending \in [index: Nat, args: BOOLEAN, heard: BOOLEAN]
    BY <2>1 DEF CodexState, PendingCalls
  <2>3. CodexIn(ArgumentsDelta(p), "pending")
    BY <1>2, <2>1, CodexRemembers DEF ArgumentsDelta
  <2>4. [p EXCEPT !.pending.args = args]
          = [p EXCEPT !.pending.args = args, !.pending.heard = p.pending.heard]
    BY <2>1, <2>2 DEF CodexState
  <2>5. CodexIn([p EXCEPT !.pending.args = args], "pending")
    BY <1>2, <2>2, <2>4, CodexRemembers
  <2>. QED  BY <1>2, <2>1, <2>3, <2>5 DEF ArgumentsDone, CodexCalls
<1>. QED  BY <1>1, <1>2 DEF CodexCalls

\* A call that waited is written whole, at the index it took.
LEMMA CodexWritten ==
  ASSUME NEW p, CodexIn(p, "pending"), NEW args \in BOOLEAN
  PROVE  CodexIn(CallDone(p, args), "none")
<1>. DEFINE i == p.pending.index
            b == At(i, "tool")
            k == [p.reading EXCEPT !.open = @ \cup {b}]
            l == [k EXCEPT !.open = @ \ {b}, !.stopped = @ \cup {b}]
            q == [p EXCEPT !.reading = k]
            r == [p EXCEPT !.reading = l, !.pending = NoCall]
<1>1. /\ p \in CodexState /\ p.reading \in Placed /\ p.index \in Nat
      /\ p.pending \in PendingCalls /\ p.pending # NoCall
  BY DEF CodexIn, CodexState
<1>2. i \in Nat  BY <1>1 DEF PendingCalls
<1>3. /\ Amid(p.reading) /\ p.reading.open = {} /\ i < p.index
      /\ \A c \in p.reading.stopped : c.index < p.index /\ c.index # i
      /\ p.text = FALSE /\ p.thinking = FALSE /\ p.tool = TRUE
  BY DEF CodexIn, CodexState
<1>. HIDE DEF i
<1>4. "tool" \in Kinds /\ b.index = i /\ b.kind = "tool"  BY DEF Kinds, At
<1>5. \A c \in Blocks(p.reading) : c.index # i  BY <1>3 DEF Blocks
<1>6. Read(p.reading, StartBlock(i, "tool")) = k /\ k \in Placed
  <2>1. \A j \in Nat : (\A c \in Blocks(p.reading) : c.index # j) =>
          /\ Read(p.reading, StartBlock(j, "tool")) = [p.reading EXCEPT !.open = @ \cup {At(j, "tool")}]
          /\ Read(p.reading, StartBlock(j, "tool")) \in Placed
    BY <1>1, <1>3, <1>4, StartRead
  <2>. QED  BY <1>2, <1>5, <2>1
<1>7. Amid(k) /\ k.open = {b} /\ k.stopped = p.reading.stopped
  BY <1>1, <1>3 DEF Amid, Placed
<1>. HIDE DEF b, k
<1>8. Read(k, DeltaTo(i, "tool")) = k  BY <1>6, <1>7, DeltaRead DEF b
<1>9. Read(k, StopBlock(i)) = l /\ l \in Placed  BY ZenonT(60), <1>4, <1>6, <1>7, StopRead
<1>10. Amid(l) /\ l.open = {} /\ l.stopped = p.reading.stopped \cup {b}
  BY <1>6, <1>7 DEF Amid, Placed
<1>. HIDE DEF l
<1>11. Emit(p, StartBlock(i, "tool")) = q  BY <1>6 DEF Emit
<1>12. /\ Emit(q, DeltaTo(i, "tool")) = q
       /\ [Emit(q, StopBlock(i)) EXCEPT !.pending = NoCall] = r
  BY <1>1, <1>8, <1>9 DEF Emit, CodexState
<1>13. NoCall \in PendingCalls  BY DEF PendingCalls
<1>14. /\ r \in CodexState /\ r.reading = l /\ r.pending = NoCall /\ r.index = p.index
       /\ r.text = FALSE /\ r.thinking = FALSE /\ r.tool = TRUE
  BY <1>1, <1>3, <1>9, <1>13 DEF CodexState
<1>. HIDE DEF q, r
<1>15. \A c \in l.stopped : c.index < p.index  BY <1>3, <1>4, <1>10
<1>16. HasTool(l)  BY <1>4, <1>10 DEF HasTool, Blocks
<1>17. CodexIn(r, "none")  BY <1>10, <1>14, <1>15, <1>16 DEF CodexIn
<1>. QED  BY <1>1, <1>11, <1>12, <1>17 DEF CallDone, i

LEMMA CodexCallDone ==
  ASSUME NEW p, CodexCalls(p), NEW args \in BOOLEAN
  PROVE  CodexIn(CallDone(p, args), "none")
<1>1. CASE CodexIn(p, "tool")
  <2>1. p.pending = NoCall  BY <1>1 DEF CodexIn
  <2>2. CodexIn(StopHere(p), "none")  BY <1>1, CodexStopped DEF Kinds
  <2>. QED  BY <2>1, <2>2 DEF CallDone
<1>. QED  BY <1>1, CodexWritten DEF CodexCalls

\* The translator keeps its place: one step of the upstream.
LEMMA CodexKeeps ==
  ASSUME NEW at, NEW p, CodexInv(at, p), NEW more \in BOOLEAN,
         NEW s \in CodexUpstream(at, more) \cup CodexFails(at)
  PROVE  CodexInv(s.next, ConvertCodexResponseToClaude(p, s.chunk))
<1>. USE DEF Completions
<1>. DEFINE e == s.chunk
            next == s.next
            q == ConvertCodexResponseToClaude(p, e)
<1>0. e.brings \in BOOLEAN  BY CodexMoves
<1>. DEFINE Move(from, type, to) == at \in from /\ e.type = type /\ next = to
            Items == {"items", "summarized"}
            Ends(to) == at \in Items /\ e.type \in Completions /\ next = to
<1>1. CASE Move({"new"}, "created", "items")
  <2>1. p = CodexParams  BY <1>1 DEF CodexInv
  <2>2. q = Emit(p, MessageStart)  BY <1>1 DEF ConvertCodexResponseToClaude
  <2>. QED  BY <1>1, <2>1, <2>2, CodexBegins DEF CodexInv, CodexBetween
<1>2. CASE (Ends("done") /\ ~e.brings) \/ (Ends("asked") /\ e.brings)
  <2>. DEFINE r == finalizeIfPending(p)
  <2>1. CodexBetween(p)  BY <1>2 DEF CodexInv
  <2>2. CodexIn(r, "none")  BY <2>1, CodexFinalized
  <2>3. q = Completing(r, e)  BY <1>2, CodexCompletes
  <2>. HIDE DEF r, q
  <2>4. /\ q \in CodexState /\ q.reading.over
        /\ IF e.brings THEN ToldCall(q.reading) ELSE Told(q.reading)
    BY <1>0, <2>2, <2>3, CodexEnds
  <2>. QED  BY <1>2, <2>4 DEF CodexInv, q
<1>3. CASE Move(Items, "message.added", "message")
  <2>1. CodexBetween(p)  BY <1>3 DEF CodexInv
  <2>2. q = p  BY <1>3 DEF ConvertCodexResponseToClaude
  <2>. QED  BY <1>3, <2>1, <2>2 DEF CodexInv
<1>4. CASE Move(Items, "reasoning.added", "reasoning")
  <2>. DEFINE r == [p EXCEPT !.summary = FALSE]
  <2>1. CodexBetween(p)  BY <1>4 DEF CodexInv
  <2>2. p \in CodexState  BY <2>1 DEF CodexBetween, CodexIn
  <2>3. q = [r EXCEPT !.sig = e.brings]
    BY <1>4, <2>2 DEF ConvertCodexResponseToClaude, CodexState
  <2>4. q.stopPending = p.stopPending  BY <2>2, <2>3 DEF CodexState
  <2>5. ASSUME NEW kind, CodexIn(p, kind)  PROVE CodexIn(q, kind)
    <3>1. CodexIn(r, kind)  BY <2>5, CodexFlags
    <3>. HIDE DEF r, q
    <3>. QED  BY <1>0, <2>3, <3>1, CodexFlags
  <2>6. CodexBetween(q)  BY <2>1, <2>4, <2>5 DEF CodexBetween
  <2>. QED  BY <1>4, <2>6 DEF CodexInv
<1>5. CASE Move(Items, "call.added", "call")
  <2>1. CodexBetween(p)  BY <1>5 DEF CodexInv
  <2>2. q = CallAdded(p, e.brings)  BY <1>5 DEF ConvertCodexResponseToClaude
  <2>. QED  BY <1>0, <1>5, <2>1, <2>2, CodexCallAdded DEF CodexInv
<1>6. CASE Move(Items, "search.done", "items")
  <2>1. CodexBetween(p)  BY <1>6 DEF CodexInv
  <2>2. q = SearchDone(p, e.brings)  BY <1>6 DEF ConvertCodexResponseToClaude
  <2>. QED  BY <1>0, <1>6, <2>1, <2>2, CodexSearchDone DEF CodexInv, CodexBetween
<1>7. CASE Move({"reasoning", "summarized"}, "summary.added", "summary")
  <2>. DEFINE r == finalizeIfPending(p)
  <2>1. CodexBetween(p)  BY <1>7 DEF CodexInv
  <2>2. p \in CodexState  BY <2>1 DEF CodexBetween, CodexIn
  <2>3. q = startCodexThinkingBlock([r EXCEPT !.summary = TRUE])
    BY <1>7 DEF ConvertCodexResponseToClaude
  <2>4. CodexIn(r, "none")  BY <2>1, CodexFinalized
  <2>. HIDE DEF r
  <2>5. CodexIn([r EXCEPT !.summary = TRUE], "none")  BY <2>4, CodexFlags
  <2>6. CodexIn(q, "thinking")  BY <2>3, <2>5, CodexThinking
  <2>. QED  BY <1>7, <2>6 DEF CodexInv
<1>8. CASE Move({"reasoning", "summarized"}, "reasoning.done", "items")
  <2>1. CodexBetween(p)  BY <1>8 DEF CodexInv
  <2>2. q = ReasoningDone(p, e.brings)  BY <1>8 DEF ConvertCodexResponseToClaude
  <2>. QED  BY <1>0, <1>8, <2>1, <2>2, CodexReasoningDone DEF CodexInv
<1>9. CASE Move({"summary"}, "summary.delta", "summary")
  <2>1. CodexIn(p, "thinking")  BY <1>9 DEF CodexInv
  <2>2. q = DeltaHere(p, "thinking")  BY <1>9 DEF ConvertCodexResponseToClaude
  <2>3. q = p  BY <2>1, <2>2, CodexDelta DEF Kinds
  <2>. QED  BY <1>9, <2>1, <2>3 DEF CodexInv
<1>10. CASE Move({"summary"}, "summary.done", "summarized")
  <2>1. CodexIn(p, "thinking") /\ p \in CodexState  BY <1>10 DEF CodexInv, CodexIn
  <2>2. q = [p EXCEPT !.stopPending = TRUE]  BY <1>10 DEF ConvertCodexResponseToClaude
  <2>3. CodexIn([p EXCEPT !.stopPending = TRUE], "thinking")  BY <2>1, CodexFlags
  <2>4. q.stopPending  BY <2>1, <2>2 DEF CodexState
  <2>. QED  BY <1>10, <2>2, <2>3, <2>4 DEF CodexInv, CodexBetween
<1>11. CASE Move({"message"}, "message.done", "items")
  <2>1. CodexBetween(p)  BY <1>11 DEF CodexInv
  <2>2. q = MessageDone(p, e.brings)  BY <1>11 DEF ConvertCodexResponseToClaude
  <2>. QED  BY <1>0, <1>11, <2>1, <2>2, CodexMessageDone DEF CodexInv
<1>12. CASE Move({"message"}, "part.added", "part")
  <2>1. CodexBetween(p)  BY <1>12 DEF CodexInv
  <2>2. q = startCodexTextBlock(finalizeIfPending(p))
    BY <1>12 DEF ConvertCodexResponseToClaude
  <2>3. CodexIn(q, "text")  BY <2>1, <2>2, CodexFinalized, CodexText
  <2>. QED  BY <1>12, <2>3 DEF CodexInv
<1>13. CASE Move({"part"}, "text.delta", "part")
  <2>1. CodexIn(p, "text")  BY <1>13 DEF CodexInv
  <2>2. q = [OutputText(p) EXCEPT !.heard = TRUE]  BY <1>13 DEF ConvertCodexResponseToClaude
  <2>3. CodexIn(OutputText(p), "text")  BY <2>1, CodexOutputText
  <2>4. CodexIn([OutputText(p) EXCEPT !.heard = TRUE], "text")  BY <2>3, CodexFlags
  <2>. QED  BY <1>13, <2>2, <2>4 DEF CodexInv
<1>14. CASE Move({"part"}, "part.done", "message")
  <2>1. CodexIn(p, "text")  BY <1>14 DEF CodexInv
  <2>2. q = stopCodexTextBlock(p)  BY <1>14 DEF ConvertCodexResponseToClaude
  <2>. QED  BY <1>14, <2>1, <2>2, CodexTextStopped DEF CodexInv, CodexBetween
<1>15. CASE Move({"call"}, "args.delta", "call")
  <2>1. CodexCalls(p)  BY <1>15 DEF CodexInv
  <2>2. q = ArgumentsDelta(p)  BY <1>15 DEF ConvertCodexResponseToClaude
  <2>. QED  BY <1>15, <2>1, <2>2, CodexArguments DEF CodexInv
<1>16. CASE Move({"call"}, "args.done", "called")
  <2>1. CodexCalls(p)  BY <1>16 DEF CodexInv
  <2>2. q = ArgumentsDone(p, e.brings)  BY <1>16 DEF ConvertCodexResponseToClaude
  <2>. QED  BY <1>0, <1>16, <2>1, <2>2, CodexArguments DEF CodexInv
<1>17. CASE Move({"called"}, "call.done", "items")
  <2>1. CodexCalls(p)  BY <1>17 DEF CodexInv
  <2>2. q = CallDone(p, e.brings)  BY <1>17 DEF ConvertCodexResponseToClaude
  <2>. QED  BY <1>0, <1>17, <2>1, <2>2, CodexCallDone DEF CodexInv, CodexBetween
<1>18. CASE at \notin {"done", "asked", "failed"} /\ e.type = "error" /\ next = "failed"
  <2>1. p \in CodexState /\ ~p.reading.over
    <3>1. CASE p = CodexParams
      <4>1. NoCall \in PendingCalls  BY DEF PendingCalls
      <4>. QED  BY <3>1, <4>1, FirstRead DEF CodexParams, CodexState, NewReading
    <3>2. CASE p # CodexParams
      BY <1>18, <3>2 DEF CodexInv, CodexBetween, CodexCalls, CodexIn, Amid
    <3>. QED  BY <3>1, <3>2
  <2>2. q = Emit(p, ErrorEvent)  BY <1>18 DEF ConvertCodexResponseToClaude
  <2>3. q \in CodexState  BY <2>1, <2>2, CodexErrs
  <2>. QED  BY <1>18, <2>3 DEF CodexInv
<1>. HIDE DEF q, e, next, Items
<1>. QED
  <2>1. \/ Move({"new"}, "created", "items")
        \/ Ends("done") /\ ~e.brings
        \/ Ends("asked") /\ e.brings
        \/ Move(Items, "message.added", "message")
        \/ Move(Items, "reasoning.added", "reasoning")
        \/ Move(Items, "call.added", "call")
        \/ Move(Items, "search.done", "items")
        \/ Move({"reasoning", "summarized"}, "summary.added", "summary")
        \/ Move({"reasoning", "summarized"}, "reasoning.done", "items")
        \/ Move({"summary"}, "summary.delta", "summary")
        \/ Move({"summary"}, "summary.done", "summarized")
        \/ Move({"message"}, "message.done", "items")
        \/ Move({"message"}, "part.added", "part")
        \/ Move({"part"}, "text.delta", "part")
        \/ Move({"part"}, "part.done", "message")
        \/ Move({"call"}, "args.delta", "call")
        \/ Move({"call"}, "args.done", "called")
        \/ Move({"called"}, "call.done", "items")
        \/ at \notin {"done", "asked", "failed"} /\ e.type = "error" /\ next = "failed"
    BY CodexMoves DEF e, next, Items
  <2>. HIDE DEF Move, Ends
  <2>. QED
    BY <2>1, <1>1, <1>2, <1>3, <1>4, <1>5, <1>6, <1>7, <1>8, <1>9, <1>10, <1>11, <1>12,
       <1>13, <1>14, <1>15, <1>16, <1>17, <1>18

-----------------------------------------------------------------------------
(* What the helpers of Gemini's translators do to the open block.            *)

Rest(p, q) == /\ q.begun = p.begun /\ q.finish = p.finish /\ q.usage = p.usage
              /\ q.told = p.told /\ q.web = p.web /\ q.searched = p.searched
              /\ q.held = p.held

LEMMA GeminiStarted ==
  ASSUME NEW p, GeminiHas(p, "none"), p.begun, NEW kind \in Kinds
  PROVE  LET q == StartHere(p, kind)
         IN  /\ GeminiHas(q, kind)
             /\ Rest(p, q) /\ q.type = p.type /\ q.content = p.content /\ q.tool = p.tool
             /\ q.index = p.index
             /\ HasTool(q.reading) <=> HasTool(p.reading) \/ kind = "tool"
<1>. DEFINE b == At(p.index, kind)
            k == [p.reading EXCEPT !.open = @ \cup {b}]
            q == [p EXCEPT !.reading = k]
<1>1. p \in GeminiState /\ p.reading \in Placed /\ p.index \in Nat
  BY DEF GeminiHas, GeminiState
<1>2. Amid(p.reading) /\ p.reading.open = {}  BY DEF GeminiHas, Amid
<1>3. \A c \in Blocks(p.reading) : c.index # p.index
  <2>1. \A c \in p.reading.stopped : c.index < p.index  BY DEF GeminiHas
  <2>2. \A c \in p.reading.stopped : c.index \in Nat  BY <1>1 DEF Placed, Block
  <2>. QED  BY <1>1, <1>2, <2>1, <2>2 DEF Blocks
<1>4. Read(p.reading, StartBlock(p.index, kind)) = k /\ k \in Placed
  BY <1>1, <1>2, <1>3, StartRead
<1>5. /\ Amid(k) /\ k.open = {b} /\ k.stopped = p.reading.stopped /\ k.begun
  BY <1>1, <1>2 DEF Amid, Placed
<1>6. HasTool(k) <=> HasTool(p.reading) \/ kind = "tool"
  <2>1. b.kind = kind  BY DEF At
  <2>. HIDE DEF b, k
  <2>. QED  BY <1>2, <1>5, <2>1 DEF HasTool, Blocks
<1>7. StartHere(p, kind) = q  BY <1>4 DEF StartHere, Emit
<1>. HIDE DEF k
<1>8. /\ q \in GeminiState /\ q.reading = k /\ q.index = p.index /\ q.content = p.content
      /\ q.type = p.type /\ q.tool = p.tool /\ Rest(p, q)
  BY <1>1, <1>4 DEF GeminiState, Rest
<1>. HIDE DEF q, b
<1>9. \A c \in k.stopped : c.index < p.index  BY <1>5 DEF GeminiHas
<1>10. q.begun = TRUE /\ ~q.told  BY <1>1, <1>8 DEF Rest, GeminiHas, GeminiState
<1>11. k.begun = TRUE /\ k.reason = "" /\ ~k.over  BY <1>4, <1>5 DEF Amid, Placed
<1>12. kind # "none"  BY DEF Kinds
<1>13. GeminiHas(q, kind)
  BY <1>5, <1>8, <1>9, <1>10, <1>11, <1>12 DEF GeminiHas, b
<1>. QED  BY <1>6, <1>7, <1>8, <1>13

LEMMA GeminiDelta ==
  ASSUME NEW p, NEW kind \in Kinds, GeminiHas(p, kind), p.begun
  PROVE  DeltaHere(p, kind) = p
<1>1. p \in GeminiState /\ p.reading \in Placed  BY DEF GeminiHas, GeminiState
<1>2. Amid(p.reading) /\ At(p.index, kind) \in p.reading.open
  BY DEF GeminiHas, Amid, Kinds
<1>3. Read(p.reading, DeltaTo(p.index, kind)) = p.reading  BY <1>1, <1>2, DeltaRead
<1>. QED  BY <1>1, <1>3 DEF DeltaHere, Emit, GeminiState

\* The block at the index is stopped; its translator may move on or not.
LEMMA GeminiStops ==
  ASSUME NEW p, NEW kind \in Kinds, GeminiHas(p, kind), p.begun
  PROVE  LET b == At(p.index, kind)
             k == [p.reading EXCEPT !.open = @ \ {b}, !.stopped = @ \cup {b}]
         IN  /\ Emit(p, StopBlock(p.index)) = [p EXCEPT !.reading = k]
             /\ k \in Placed /\ Amid(k) /\ k.open = {}
             /\ \A c \in k.stopped : c.index < p.index + 1
             /\ HasTool(k) <=> HasTool(p.reading)
             /\ Blocks(k) = Blocks(p.reading)
<1>. DEFINE b == At(p.index, kind)
            k == [p.reading EXCEPT !.open = @ \ {b}, !.stopped = @ \cup {b}]
<1>1. p \in GeminiState /\ p.reading \in Placed /\ p.index \in Nat
  BY DEF GeminiHas, GeminiState
<1>2. Amid(p.reading) /\ p.reading.open = {b} /\ b.index = p.index
  BY DEF GeminiHas, Amid, Kinds, At
<1>. HIDE DEF b
<1>3. Read(p.reading, StopBlock(p.index)) = k /\ k \in Placed
  <2>1. b \in p.reading.open /\ \A c \in p.reading.open : c.index = b.index => c = b  BY <1>2
  <2>. QED  BY ZenonT(60), <1>1, <1>2, <2>1, StopRead
<1>4. Amid(k) /\ k.open = {} /\ k.stopped = p.reading.stopped \cup {b}
  BY <1>1, <1>2 DEF Amid, Placed
<1>. HIDE DEF k
<1>5. Blocks(k) = Blocks(p.reading)  BY <1>2, <1>4 DEF Blocks
<1>6. HasTool(k) <=> HasTool(p.reading)  BY <1>5 DEF HasTool
<1>7. \A c \in k.stopped : c.index < p.index + 1
  <2>1. \A c \in p.reading.stopped : c.index < p.index  BY DEF GeminiHas
  <2>2. \A c \in p.reading.stopped : c.index \in Nat  BY <1>1 DEF Placed, Block
  <2>. QED  BY <1>1, <1>2, <1>4, <2>1, <2>2
<1>8. Emit(p, StopBlock(p.index)) = [p EXCEPT !.reading = k]  BY <1>3 DEF Emit
<1>. QED  BY <1>3, <1>4, <1>5, <1>6, <1>7, <1>8 DEF b, k

LEMMA GeminiStopped ==
  ASSUME NEW p, NEW kind \in Kinds, GeminiHas(p, kind), p.begun
  PROVE  LET q == StopHere(p)
         IN  /\ GeminiHas(q, "none")
             /\ Rest(p, q) /\ q.type = p.type /\ q.content = p.content /\ q.tool = p.tool
             /\ HasTool(q.reading) <=> HasTool(p.reading)
             /\ Blocks(q.reading) = Blocks(p.reading)
<1>. DEFINE b == At(p.index, kind)
            k == [p.reading EXCEPT !.open = @ \ {b}, !.stopped = @ \cup {b}]
            q == [p EXCEPT !.reading = k, !.index = p.index + 1]
<1>1. p \in GeminiState /\ p.index \in Nat  BY DEF GeminiHas, GeminiState
<1>2. /\ Emit(p, StopBlock(p.index)) = [p EXCEPT !.reading = k]
      /\ k \in Placed /\ Amid(k) /\ k.open = {}
      /\ \A c \in k.stopped : c.index < p.index + 1
      /\ HasTool(k) <=> HasTool(p.reading)
      /\ Blocks(k) = Blocks(p.reading)
  BY GeminiStops
<1>. HIDE DEF k
<1>3. StopHere(p) = q  BY <1>1, <1>2 DEF StopHere, GeminiState
<1>4. /\ q \in GeminiState /\ q.reading = k /\ q.index = p.index + 1 /\ q.content = p.content
      /\ q.type = p.type /\ q.tool = p.tool /\ Rest(p, q)
  <2>1. p.index + 1 \in Nat  BY <1>1
  <2>. QED  BY <1>1, <1>2, <2>1 DEF GeminiState, Rest
<1>. HIDE DEF q
<1>5. q.begun = TRUE /\ ~q.told  BY <1>1, <1>4 DEF Rest, GeminiHas, GeminiState
<1>6. k.begun = TRUE /\ k.reason = "" /\ ~k.over  BY <1>2 DEF Amid, Placed
<1>7. GeminiHas(q, "none")  BY <1>2, <1>4, <1>5, <1>6 DEF GeminiHas
<1>. QED  BY <1>2, <1>3, <1>4, <1>7

LEMMA GeminiLeft ==
  ASSUME NEW p, GeminiHas(p, p.type), p.begun
  PROVE  LET q == LeaveBlock(p)
         IN  /\ GeminiHas(q, "none") /\ Rest(p, q)
             /\ q.type = p.type /\ q.content = p.content /\ q.tool = p.tool
             /\ HasTool(q.reading) <=> HasTool(p.reading)
<1>1. CASE p.type = "none"  BY <1>1 DEF LeaveBlock, Rest
<1>2. CASE p.type # "none"
  <2>1. p.type \in Kinds  BY <1>2 DEF GeminiHas, GeminiState, Kinds
  <2>. QED  BY <1>2, <2>1, GeminiStopped DEF LeaveBlock
<1>. QED  BY <1>1, <1>2

LEMMA GeminiOpened ==
  ASSUME NEW p, GeminiHas(p, p.type), p.begun, NEW kind \in Kinds
  PROVE  LET q == StartHere(LeaveBlock(p), kind)
         IN  /\ GeminiHas(q, kind) /\ Rest(p, q) /\ q.content = p.content /\ q.tool = p.tool
             /\ HasTool(q.reading) <=> HasTool(p.reading) \/ kind = "tool"
<1>. DEFINE l == LeaveBlock(p)
            q == StartHere(l, kind)
<1>1. /\ GeminiHas(l, "none") /\ Rest(p, l) /\ l.content = p.content /\ l.tool = p.tool
      /\ HasTool(l.reading) <=> HasTool(p.reading)
  BY GeminiLeft
<1>2. l.begun  BY <1>1 DEF Rest
<1>. HIDE DEF l
<1>3. /\ GeminiHas(q, kind) /\ Rest(l, q) /\ q.content = l.content /\ q.tool = l.tool
      /\ HasTool(q.reading) <=> HasTool(l.reading) \/ kind = "tool"
  BY <1>1, <1>2, GeminiStarted
<1>. HIDE DEF q
<1>4. Rest(p, q)  BY <1>1, <1>3 DEF Rest
<1>. QED  BY <1>1, <1>3, <1>4 DEF q, l

\* The flags beside do not matter to the open block.
LEMMA GeminiFlags ==
  ASSUME NEW q, NEW kind, GeminiHas(q, kind), q.begun, NEW r \in GeminiState,
         r.reading = q.reading, r.index = q.index, r.begun = q.begun, r.told = q.told
  PROVE  GeminiHas(r, kind)
BY DEF GeminiHas

LEMMA GeminiSays ==
  ASSUME NEW p, GeminiIn(p), p.begun, NEW kind \in {"text", "thinking"}
  PROVE  /\ GeminiIn(Say(p, kind)) /\ Rest(p, Say(p, kind))
         /\ Say(p, kind).type = kind
<1>. DEFINE o == StartHere(LeaveBlock(p), kind)
            s == IF p.type = kind THEN p ELSE [o EXCEPT !.type = kind]
            r == [s EXCEPT !.content = TRUE]
<1>1. kind \in Kinds /\ kind # "tool"  BY DEF Kinds
<1>2. GeminiHas(p, p.type) /\ (p.tool <=> HasTool(p.reading)) /\ p \in GeminiState
  BY DEF GeminiIn, GeminiHas
<1>3. /\ GeminiHas(s, kind) /\ Rest(p, s) /\ s.tool = p.tool /\ s.type = kind
      /\ HasTool(s.reading) <=> HasTool(p.reading)
  <2>1. CASE p.type = kind  BY <1>2, <2>1 DEF Rest
  <2>2. CASE p.type # kind
    <3>1. /\ GeminiHas(o, kind) /\ Rest(p, o) /\ o.tool = p.tool
          /\ HasTool(o.reading) <=> HasTool(p.reading) \/ kind = "tool"
      BY <1>1, <1>2, GeminiOpened
    <3>. HIDE DEF o
    <3>2. o \in GeminiState  BY <3>1 DEF GeminiHas
    <3>3. /\ s \in GeminiState /\ s.reading = o.reading /\ s.index = o.index
          /\ s.begun = o.begun /\ s.told = o.told /\ s.type = kind /\ s.tool = o.tool
          /\ Rest(o, s)
      BY <2>2, <3>2 DEF GeminiState, Rest
    <3>. HIDE DEF s
    <3>4. o.begun  BY <3>1 DEF Rest
    <3>5. GeminiHas(s, kind)  BY <3>1, <3>3, <3>4, GeminiFlags
    <3>. QED  BY <1>1, <3>1, <3>3, <3>5 DEF Rest
  <2>. QED  BY <2>1, <2>2
<1>4. s.begun /\ s \in GeminiState  BY <1>3 DEF Rest, GeminiHas
<1>5. DeltaHere(s, kind) = s
  <2>. HIDE DEF s
  <2>. QED  BY <1>1, <1>3, <1>4, GeminiDelta
<1>6. Say(p, kind) = r  BY <1>5 DEF Say
<1>. HIDE DEF s
<1>7. /\ r \in GeminiState /\ r.reading = s.reading /\ r.index = s.index /\ r.begun = s.begun
      /\ r.told = s.told /\ r.type = kind /\ r.tool = p.tool /\ r.content = TRUE /\ Rest(s, r)
  BY <1>3, <1>4 DEF GeminiState, Rest
<1>. HIDE DEF r
<1>8. GeminiHas(r, kind)  BY <1>3, <1>4, <1>7, GeminiFlags
<1>9. GeminiIn(r)  BY <1>2, <1>3, <1>7, <1>8 DEF GeminiIn
<1>10. Rest(p, r)  BY <1>3, <1>7 DEF Rest
<1>. QED  BY <1>6, <1>7, <1>9, <1>10

LEMMA GeminiSigns ==
  ASSUME NEW p, GeminiIn(p), p.begun
  PROVE  /\ GeminiIn(appendSignatureDelta(p)) /\ Rest(p, appendSignatureDelta(p))
<1>. DEFINE r == [p EXCEPT !.content = TRUE]
<1>1. CASE p.type # "thinking"  BY <1>1 DEF appendSignatureDelta, Rest
<1>2. CASE p.type = "thinking"
  <2>1. GeminiHas(p, "thinking") /\ p \in GeminiState  BY <1>2 DEF GeminiIn, GeminiHas
  <2>2. DeltaHere(p, "thinking") = p  BY <2>1, GeminiDelta DEF Kinds
  <2>3. appendSignatureDelta(p) = r  BY <1>2, <2>2 DEF appendSignatureDelta
  <2>4. /\ r \in GeminiState /\ r.reading = p.reading /\ r.index = p.index /\ r.begun = p.begun
        /\ r.told = p.told /\ r.type = p.type /\ r.tool = p.tool /\ r.content = TRUE /\ Rest(p, r)
    BY <2>1 DEF GeminiState, Rest
  <2>. HIDE DEF r
  <2>5. GeminiHas(r, p.type)  BY <1>2, <2>1, <2>4, GeminiFlags
  <2>6. GeminiIn(r)  BY <2>4, <2>5 DEF GeminiIn
  <2>. QED  BY <2>3, <2>4, <2>6
<1>. QED  BY <1>1, <1>2

\* A call of its own: the translator knows of it, and so does the client.
LEMMA GeminiCalls ==
  ASSUME NEW p, GeminiIn(p), p.begun, NEW part
  PROVE  LET r == StartCall([p EXCEPT !.tool = TRUE], part)
         IN  GeminiIn(r) /\ Rest(p, r)
<1>. DEFINE q == [p EXCEPT !.tool = TRUE]
            o == StartHere(LeaveBlock(q), "tool")
            s == [o EXCEPT !.type = "tool", !.content = TRUE]
<1>1. p \in GeminiState /\ GeminiHas(p, p.type)  BY DEF GeminiIn, GeminiHas
<1>2. /\ q \in GeminiState /\ q.reading = p.reading /\ q.index = p.index /\ q.begun = p.begun
      /\ q.told = p.told /\ q.type = p.type /\ q.tool = TRUE /\ Rest(p, q)
  BY <1>1 DEF GeminiState, Rest
<1>. HIDE DEF q
<1>3. GeminiHas(q, q.type) /\ q.begun  BY <1>1, <1>2, GeminiFlags
<1>4. /\ GeminiHas(o, "tool") /\ Rest(q, o) /\ o.tool = TRUE /\ HasTool(o.reading)
  BY <1>2, <1>3, GeminiOpened DEF Kinds
<1>. HIDE DEF o
<1>5. o \in GeminiState /\ o.begun  BY <1>2, <1>3, <1>4 DEF GeminiHas, Rest
<1>6. /\ s \in GeminiState /\ s.reading = o.reading /\ s.index = o.index /\ s.begun = o.begun
      /\ s.told = o.told /\ s.type = "tool" /\ s.tool = TRUE /\ s.content = TRUE /\ Rest(o, s)
  BY <1>4, <1>5 DEF GeminiState, Rest
<1>. HIDE DEF s
<1>7. GeminiHas(s, "tool")  BY <1>4, <1>5, <1>6, GeminiFlags
<1>8. GeminiIn(s)  BY <1>4, <1>6, <1>7 DEF GeminiIn
<1>9. DeltaHere(s, "tool") = s  BY <1>5, <1>6, <1>7, GeminiDelta DEF Kinds
<1>10. StartCall(q, part) = s  BY <1>9 DEF StartCall, s, o
<1>11. Rest(p, s)  BY <1>2, <1>4, <1>6 DEF Rest
<1>. QED  BY <1>8, <1>10, <1>11 DEF q

\* What the loops over the parts of a chunk keep.
Going(p) == {q \in GeminiState : GeminiIn(q) /\ q.begun /\ Rest(p, q)}

LEMMA GoingOn ==
  ASSUME NEW p, NEW q \in Going(p), NEW r, GeminiIn(r), Rest(q, r)
  PROVE  r \in Going(p)
<1>1. r \in GeminiState  BY DEF GeminiIn, GeminiHas
<1>. QED  BY <1>1 DEF Going, Rest

LEMMA GeminiCallGoes ==
  ASSUME NEW p, GeminiIn(p), p.begun, NEW part
  PROVE  GeminiIn(GeminiCall(p, part)) /\ Rest(p, GeminiCall(p, part))
<1>. DEFINE q == [p EXCEPT !.tool = TRUE]
<1>1. CASE p.type # "tool" \/ part.call = "named"
  BY <1>1, GeminiCalls DEF GeminiCall
<1>2. CASE ~(p.type # "tool" \/ part.call = "named")
  <2>1. p \in GeminiState /\ GeminiHas(p, "tool")  BY <1>2 DEF GeminiIn, GeminiHas
  <2>2. At(p.index, "tool") \in p.reading.open  BY <2>1 DEF GeminiHas
  <2>3. p.tool = TRUE
    <3>1. At(p.index, "tool").kind = "tool"  BY DEF At
    <3>2. HasTool(p.reading)  BY <2>2, <3>1 DEF HasTool, Blocks
    <3>. QED  BY <2>1, <3>2 DEF GeminiIn, GeminiState
  <2>4. q = p  BY <2>1, <2>3 DEF GeminiState
  <2>5. DeltaHere(p, "tool") = p  BY <2>1, GeminiDelta DEF Kinds
  <2>6. GeminiCall(p, part) = p  BY <1>2, <2>4, <2>5 DEF GeminiCall
  <2>. QED  BY <2>6 DEF Rest
<1>. QED  BY <1>1, <1>2

LEMMA GeminiPartGoes ==
  ASSUME NEW p, NEW q \in Going(p), NEW part
  PROVE  GeminiPart(q, part) \in Going(p)
<1>1. GeminiIn(q) /\ q.begun  BY DEF Going
<1>2. GeminiCall(q, part) \in Going(p)  BY <1>1, GeminiCallGoes, GoingOn
<1>3. appendSignatureDelta(q) \in Going(p)  BY <1>1, GeminiSigns, GoingOn
<1>4. Say(q, "thinking") \in Going(p) /\ Say(q, "text") \in Going(p)
  BY <1>1, GeminiSays, GoingOn
<1>5. appendSignatureDelta(Say(q, "thinking")) \in Going(p)
  <2>1. GeminiIn(Say(q, "thinking")) /\ Say(q, "thinking").begun  BY <1>4 DEF Going
  <2>. QED  BY <1>4, <2>1, GeminiSigns, GoingOn
<1>. QED  BY <1>2, <1>3, <1>4, <1>5 DEF GeminiPart

\* The kinds of parts there are.
LEMMA PartKinds ==
  ASSUME NEW part \in Parts
  PROVE  /\ part.text \in {"none", "some", "empty"}
         /\ part.sig \in BOOLEAN /\ part.thought \in BOOLEAN
         /\ part.text = "empty" /\ ~part.sig => part = Part("empty", FALSE, FALSE, "none", FALSE)
         /\ part.text = "empty" => ~part.thought
<1>. DEFINE Texts   == {Part("some", thought, sig, "none", FALSE) : thought \in BOOLEAN, sig \in BOOLEAN}
            Empties == {Part("empty", FALSE, sig, "none", FALSE) : sig \in BOOLEAN}
            Rests   == {Part("none", FALSE, TRUE, "none", FALSE), Part("none", FALSE, FALSE, "nameless", TRUE)}
            Named   == {Part("none", FALSE, sig, "named", TRUE) : sig \in BOOLEAN}
<1>1. CASE part \in Texts
  <2>1. \E thought \in BOOLEAN, sig \in BOOLEAN : part = Part("some", thought, sig, "none", FALSE)
    BY <1>1 DEF Part
  <2>2. PICK thought \in BOOLEAN, sig \in BOOLEAN : part = Part("some", thought, sig, "none", FALSE)
    BY <2>1
  <2>3. part.text = "some" /\ part.sig = sig /\ part.thought = thought  BY <2>2 DEF Part
  <2>. QED  BY <2>3
<1>2. CASE part \in Empties
  <2>1. PICK sig \in BOOLEAN : part = Part("empty", FALSE, sig, "none", FALSE)  BY <1>2
  <2>2. part.text = "empty" /\ part.sig = sig /\ part.thought = FALSE  BY <2>1 DEF Part
  <2>. QED  BY <2>1, <2>2
<1>3. CASE part \in Rests
  <2>1. CASE part = Part("none", FALSE, TRUE, "none", FALSE)
    <3>1. part.text = "none" /\ part.sig = TRUE /\ part.thought = FALSE  BY <2>1 DEF Part
    <3>. QED  BY <3>1
  <2>2. CASE part = Part("none", FALSE, FALSE, "nameless", TRUE)
    <3>1. part.text = "none" /\ part.sig = FALSE /\ part.thought = FALSE  BY <2>2 DEF Part
    <3>. QED  BY <3>1
  <2>. QED  BY <1>3, <2>1, <2>2
<1>4. CASE part \in Named
  <2>1. PICK sig \in BOOLEAN : part = Part("none", FALSE, sig, "named", TRUE)  BY <1>4
  <2>2. part.text = "none" /\ part.sig = sig /\ part.thought = FALSE  BY <2>1 DEF Part
  <2>. QED  BY <2>2
<1>5. Parts = Texts \cup Empties \cup Rests \cup Named  BY DEF Parts
<1>6. part \in Texts \/ part \in Empties \/ part \in Rests \/ part \in Named
  <2>. HIDE DEF Texts, Empties, Rests, Named
  <2>. QED  BY <1>5
<1>. HIDE DEF Texts, Empties, Rests, Named
<1>. QED  BY <1>1, <1>2, <1>3, <1>4, <1>6

LEMMA AntigravityPartGoes ==
  ASSUME NEW p, NEW q \in Going(p), NEW finish, NEW part \in Parts,
         finish = "" /\ part = Part("empty", FALSE, FALSE, "none", FALSE) =>
           q.type \in {"none", "text"}
  PROVE  AntigravityPart(finish, q, part) \in Going(p)
<1>1. GeminiIn(q) /\ q.begun  BY DEF Going
<1>2. StartCall([q EXCEPT !.tool = TRUE], part) \in Going(p)  BY <1>1, GeminiCalls, GoingOn
<1>3. appendSignatureDelta(q) \in Going(p)  BY <1>1, GeminiSigns, GoingOn
<1>4. Say(q, "thinking") \in Going(p) /\ Say(q, "text") \in Going(p)
  BY <1>1, GeminiSays, GoingOn
<1>5. appendSignatureDelta(Say(q, "thinking")) \in Going(p)
  <2>1. GeminiIn(Say(q, "thinking")) /\ Say(q, "thinking").begun  BY <1>4 DEF Going
  <2>. QED  BY <1>4, <2>1, GeminiSigns, GoingOn
<1>6. part.text = "empty" /\ ~part.sig => part = Part("empty", FALSE, FALSE, "none", FALSE)
  BY PartKinds
<1>7. CASE part.text = "none"  BY <1>2, <1>3, <1>7 DEF AntigravityPart
<1>8. CASE part.text = "some"
  BY <1>4, <1>5, <1>8 DEF AntigravityPart
<1>9. CASE part.text = "empty" /\ part.sig  BY <1>3, <1>9 DEF AntigravityPart
<1>10. CASE part.text = "empty" /\ ~part.sig
  <2>0. ~part.thought  BY <1>10, PartKinds
  <2>1. AntigravityPart(finish, q, part) =
          IF finish # "" THEN q ELSE IF q.type = "text" THEN Say(q, "text") ELSE LeaveBlock(q)
    BY <1>10, <2>0 DEF AntigravityPart
  <2>2. q.type = "none" => LeaveBlock(q) = q  BY DEF LeaveBlock
  <2>3. CASE finish # ""  BY <2>1, <2>3
  <2>4. CASE finish = "" /\ q.type = "text"  BY <1>4, <2>1, <2>4
  <2>5. CASE finish = "" /\ q.type = "none"  BY <2>1, <2>2, <2>5
  <2>. QED  BY <1>6, <1>10, <2>3, <2>4, <2>5
<1>. QED  BY <1>7, <1>8, <1>9, <1>10, PartKinds

-----------------------------------------------------------------------------
(* Gemini's chunks.                                                          *)

LEMMA GeminiBegun ==
  ASSUME NEW p, GeminiIn(p)
  PROVE  LET q == BeginMessage(p)
         IN  /\ GeminiIn(q) /\ q.begun /\ q.type = p.type
             /\ Rest([p EXCEPT !.begun = TRUE], q)
<1>. DEFINE k == [p.reading EXCEPT !.begun = TRUE]
            q == [p EXCEPT !.reading = k, !.begun = TRUE]
<1>1. p \in GeminiState /\ p.reading \in Placed /\ p.begun \in BOOLEAN
  BY DEF GeminiIn, GeminiHas, GeminiState
<1>2. CASE p.begun
  <2>1. [p EXCEPT !.begun = TRUE] = p  BY <1>1, <1>2 DEF GeminiState
  <2>. QED  BY <1>2, <2>1 DEF BeginMessage, Rest
<1>3. CASE ~p.begun
  <2>1. ~p.reading.begun /\ ~p.reading.over /\ p.reading.reason = ""
    BY <1>3 DEF GeminiIn, GeminiHas
  <2>2. Read(p.reading, MessageStart) = k /\ k \in Placed  BY <1>1, <2>1, BeginRead
  <2>3. /\ k.begun = TRUE /\ k.reason = "" /\ ~k.over
        /\ k.open = p.reading.open /\ k.stopped = p.reading.stopped
    BY <1>1, <2>1 DEF Placed
  <2>. HIDE DEF k
  <2>4. BeginMessage(p) = q  BY <1>1, <1>3, <2>2 DEF BeginMessage, Emit, GeminiState
  <2>5. /\ q \in GeminiState /\ q.reading = k /\ q.index = p.index /\ q.type = p.type
        /\ q.tool = p.tool /\ q.content = p.content /\ q.begun = TRUE /\ q.told = p.told
        /\ Rest([p EXCEPT !.begun = TRUE], q)
    BY <1>1, <2>2 DEF GeminiState, Rest
  <2>. HIDE DEF q
  <2>6. GeminiHas(q, q.type)  BY <2>3, <2>5 DEF GeminiIn, GeminiHas
  <2>7. (HasTool(k) <=> HasTool(p.reading)) /\ Blocks(k) = Blocks(p.reading)
    BY <2>3 DEF HasTool, Blocks
  <2>8. GeminiIn(q)  BY <2>5, <2>6, <2>7 DEF GeminiIn
  <2>. QED  BY <2>4, <2>5, <2>8
<1>. QED  BY <1>2, <1>3

\* The block is stopped and the reason told.
LEMMA GeminiTells ==
  ASSUME NEW p, GeminiIn(p), p.content
  PROVE  LET q == FinalEvents(p)
         IN  /\ q \in GeminiState /\ q.told /\ q.begun /\ q.content /\ q.held = p.held
             /\ Told(q.reading) /\ ~q.reading.over
<1>. DEFINE s == IF p.type = "none" THEN p
                 ELSE [Emit(p, StopBlock(p.index)) EXCEPT !.type = "none"]
            why == StopReason(s)
            k == [s.reading EXCEPT !.reason = why]
            q == [s EXCEPT !.reading = k, !.told = TRUE]
<1>1. p \in GeminiState /\ GeminiHas(p, p.type) /\ p.begun /\ (p.tool <=> HasTool(p.reading))
  BY DEF GeminiIn, GeminiHas
<1>2. /\ s \in GeminiState /\ s.tool = p.tool /\ s.content = p.content /\ s.begun = p.begun
      /\ s.held = p.held /\ Amid(s.reading) /\ s.reading.open = {}
      /\ HasTool(s.reading) <=> HasTool(p.reading)
  <2>1. CASE p.type = "none"  BY <1>1, <2>1 DEF GeminiHas, Amid
  <2>2. CASE p.type # "none"
    <3>. DEFINE b == At(p.index, p.type)
                l == [p.reading EXCEPT !.open = @ \ {b}, !.stopped = @ \cup {b}]
    <3>1. p.type \in Kinds  BY <1>1, <2>2 DEF GeminiState, Kinds
    <3>2. /\ Emit(p, StopBlock(p.index)) = [p EXCEPT !.reading = l]
          /\ l \in Placed /\ Amid(l) /\ l.open = {}
          /\ HasTool(l) <=> HasTool(p.reading)
      BY <1>1, <3>1, GeminiStops
    <3>. HIDE DEF l
    <3>3. s = [p EXCEPT !.reading = l, !.type = "none"]
      BY <1>1, <2>2, <3>2 DEF GeminiState
    <3>. HIDE DEF s
    <3>4. /\ s \in GeminiState /\ s.tool = p.tool /\ s.content = p.content /\ s.begun = p.begun
          /\ s.held = p.held /\ s.reading = l
      BY <1>1, <3>2, <3>3 DEF GeminiState
    <3>. QED  BY <3>2, <3>4
  <2>. QED  BY <2>1, <2>2
<1>3. FinalEvents(p) = [Emit(s, MessageDelta(why)) EXCEPT !.told = TRUE]  BY DEF FinalEvents
<1>. HIDE DEF s
<1>4. s.reading \in Placed /\ s.tool \in BOOLEAN  BY <1>2 DEF GeminiState
<1>5. why \in Reasons /\ why # "" /\ (why = "tool_use" <=> s.tool)
  BY <1>4 DEF StopReason, Reasons
<1>. HIDE DEF why
<1>6. Read(s.reading, MessageDelta(why)) = k /\ k \in Placed
  BY <1>2, <1>4, <1>5, ReasonRead
<1>7. /\ k.begun /\ ~k.over /\ k.open = {} /\ k.open = s.reading.open /\ k.reason = why
      /\ k.stopped = s.reading.stopped
  BY <1>2, <1>4 DEF Placed, Amid
<1>. HIDE DEF k
<1>8. Told(k)  BY <1>1, <1>2, <1>5, <1>7 DEF Told, HasTool, Blocks
<1>9. [Emit(s, MessageDelta(why)) EXCEPT !.told = TRUE] = q
  BY <1>2, <1>6 DEF Emit, GeminiState
<1>10. /\ q \in GeminiState /\ q.told = TRUE /\ q.begun = s.begun /\ q.content = s.content
       /\ q.held = s.held /\ q.reading = k
  BY <1>2, <1>6 DEF GeminiState
<1>. HIDE DEF q
<1>. QED  BY <1>1, <1>2, <1>3, <1>7, <1>8, <1>9, <1>10

\* Nor do those that only the chunks set.
LEMMA GeminiSet ==
  ASSUME NEW q, GeminiIn(q), q.begun, NEW r \in GeminiState,
         r.reading = q.reading, r.index = q.index, r.begun = q.begun, r.told = q.told,
         r.type = q.type, r.tool = q.tool, r.content = q.content
  PROVE  GeminiIn(r)
<1>1. GeminiHas(q, q.type)  BY DEF GeminiIn
<1>2. GeminiHas(r, q.type)  BY <1>1, GeminiFlags
<1>. QED  BY <1>2 DEF GeminiIn

LEMMA GeminiEnds ==
  ASSUME NEW p \in GeminiState, p.reading.begun, ~p.reading.over
  PROVE  LET q == Emit(p, MessageStop)
         IN  q \in GeminiState /\ (Told(p.reading) => Told(q.reading) /\ q.reading.over)
<1>. DEFINE k == [p.reading EXCEPT !.over = TRUE]
            q == [p EXCEPT !.reading = k]
<1>1. p.reading \in Placed  BY DEF GeminiState
<1>2. Read(p.reading, MessageStop) = k /\ k \in Placed  BY <1>1, EndRead
<1>3. /\ k.over /\ k.begun = p.reading.begun /\ k.open = p.reading.open
      /\ k.stopped = p.reading.stopped /\ k.reason = p.reading.reason
  BY <1>1 DEF Placed
<1>. HIDE DEF k
<1>4. Emit(p, MessageStop) = q  BY <1>2 DEF Emit
<1>5. q \in GeminiState /\ q.reading = k  BY <1>2 DEF GeminiState
<1>6. Told(p.reading) => Told(k)  BY <1>3 DEF Told, HasTool, Blocks
<1>. QED  BY <1>3, <1>4, <1>5, <1>6

LEMMA GeminiMoves ==
  ASSUME NEW at, NEW more, NEW web, NEW late \in BOOLEAN,
         NEW s \in GeminiUpstream(at, more, web, late)
  PROVE  LET c == s.chunk
         IN  \/ /\ at = "parts" /\ ~c.done /\ c.parts \in Seq(Parts) /\ c.grounding \in {FALSE, web}
                /\ c.usage \in BOOLEAN
                /\ \/ s.next = "parts" /\ c.finish = ""
                   \/ s.next = "finished" /\ c.finish \in {"STOP", "MAX_TOKENS"}
                                         /\ c.usage \in {TRUE, ~late}
             \/ at = "parts" /\ s.next = "cut" /\ c = GeminiDone
             \/ at = "finished" /\ s.next = "done" /\ c = GeminiDone
             \/ at = "finished" /\ s.next = "finished" /\ late /\ c = UsageAlone
<1>1. ASSUME NEW finishes, NEW usage, NEW c \in Chunks(finishes, usage, web)
      PROVE  /\ ~c.done /\ c.parts \in Seq(Parts) /\ c.grounding \in {FALSE, web}
             /\ c.finish \in finishes /\ c.usage \in usage
  <2>. DEFINE Lists == UNION {[1..n -> Parts] : n \in 0..MaxParts}
  <2>1. c \in [done: {FALSE}, parts: Lists, finish: finishes, usage: usage,
               grounding: {FALSE, web}]
    BY DEF Chunks
  <2>2. c.parts \in Lists /\ ~c.done /\ c.grounding \in {FALSE, web} /\ c.finish \in finishes
        /\ c.usage \in usage
    <3>. HIDE DEF Lists
    <3>. QED  BY <2>1
  <2>3. PICK n \in 0..MaxParts : c.parts \in [1..n -> Parts]  BY <2>2
  <2>4. n \in Nat  BY <2>3
  <2>5. c.parts \in UNION {[1..m -> Parts] : m \in Nat}  BY <2>3, <2>4
  <2>6. c.parts \in Seq(Parts)  BY <2>5, SeqDef
  <2>. QED  BY <2>2, <2>6
<1>2. CASE at = "parts"
  <2>. DEFINE On == [chunk: Chunks({""}, {FALSE}, web), next: {"parts"}]
              Last == [chunk: Chunks({"STOP", "MAX_TOKENS"}, {TRUE, ~late}, web),
                       next: {"finished"}]
  <2>1. s \in On \/ s \in Last \/ s \in [chunk: {GeminiDone}, next: {"cut"}]
    BY <1>2 DEF GeminiUpstream
  <2>2. CASE s \in On
    <3>1. s.chunk \in Chunks({""}, {FALSE}, web) /\ s.next = "parts"  BY <2>2
    <3>2. /\ ~s.chunk.done /\ s.chunk.parts \in Seq(Parts) /\ s.chunk.grounding \in {FALSE, web}
          /\ s.chunk.finish \in {""} /\ s.chunk.usage \in {FALSE}
      BY <1>1, <3>1
    <3>. QED  BY <1>2, <3>1, <3>2
  <2>3. CASE s \in Last
    <3>1. s.chunk \in Chunks({"STOP", "MAX_TOKENS"}, {TRUE, ~late}, web) /\ s.next = "finished"
      BY <2>3
    <3>2. /\ ~s.chunk.done /\ s.chunk.parts \in Seq(Parts) /\ s.chunk.grounding \in {FALSE, web}
          /\ s.chunk.finish \in {"STOP", "MAX_TOKENS"} /\ s.chunk.usage \in {TRUE, ~late}
      BY <1>1, <3>1
    <3>. QED  BY <1>2, <3>1, <3>2
  <2>4. CASE s \in [chunk: {GeminiDone}, next: {"cut"}]  BY <1>2, <2>4
  <2>. QED  BY <2>1, <2>2, <2>3, <2>4
<1>3. CASE at = "finished"  BY <1>3 DEF GeminiUpstream
<1>. QED  BY <1>2, <1>3 DEF GeminiUpstream

LEMMA GeminiDoneIs == GeminiDone.done
BY DEF GeminiDone

LEMMA GeminiSaid ==
  ASSUME NEW p, GeminiIn(p), NEW parts \in Seq(Parts)
  PROVE  Trail(GeminiPart, BeginMessage(p), parts)[Len(parts)] \in Going(BeginMessage(p))
<1>. DEFINE b == BeginMessage(p)
            n == Len(parts)
            f == GeminiPath(b, parts)
            S == [k \in 0..n |-> Going(b)]
<1>1. GeminiIn(b) /\ b.begun  BY GeminiBegun
<1>. HIDE DEF b
<1>2. b \in Going(b)  BY <1>1 DEF Going, GeminiIn, GeminiHas, Rest
<1>3. n \in Nat  OBVIOUS
<1>4. f[0] = b /\ \A k \in 1..n : f[k] = GeminiPart(f[k - 1], parts[k])
  <2>1. \A q \in Going(b), k \in 1..n : GeminiPart(q, parts[k]) \in Going(b)
    BY GeminiPartGoes
  <2>2. n = Len(parts)  OBVIOUS
  <2>. HIDE DEF n
  <2>. QED  BY <1>2, <1>3, <2>1, <2>2, GeminiTrail
<1>. HIDE DEF f
<1>5. f[0] \in S[0]  BY <1>2, <1>3, <1>4
<1>6. ASSUME NEW k \in 1..n, f[k - 1] \in S[k - 1]  PROVE f[k] \in S[k]
  <2>1. k - 1 \in 0..n /\ k \in 0..n  BY <1>3
  <2>2. f[k - 1] \in Going(b)  BY <1>6, <2>1
  <2>3. f[k] = GeminiPart(f[k - 1], parts[k])  BY <1>4
  <2>4. f[k] \in Going(b)  BY <2>2, <2>3, GeminiPartGoes
  <2>. QED  BY <2>1, <2>4
<1>7. f[n] \in S[n]
  <2>. HIDE DEF S, n
  <2>1. \A k \in 0..n : f[k] \in S[k]  BY <1>3, <1>5, <1>6, StepByStep
  <2>. QED  BY <1>3, <2>1
<1>. QED  BY <1>3, <1>7 DEF f, b, GeminiPath

LEMMA GeminiKeeps ==
  ASSUME NEW at, NEW p, GeminiInv(at, p), NEW more,
         NEW s \in GeminiUpstream(at, more, FALSE, FALSE)
  PROVE  GeminiInv(s.next, ConvertGeminiResponseToClaude(p, s.chunk))
<1>. DEFINE c == s.chunk
            q == ConvertGeminiResponseToClaude(p, c)
<1>1. CASE at = "parts" /\ ~c.done /\ c.parts \in Seq(Parts)
             /\ \/ s.next = "parts" /\ c.finish = ""
                \/ s.next = "finished" /\ c.finish \in {"STOP", "MAX_TOKENS"} /\ c.usage = TRUE
  <2>. DEFINE said == Trail(GeminiPart, BeginMessage(p), c.parts)[Len(c.parts)]
              t == [said EXCEPT !.finish = c.finish]
  <2>1. GeminiIn(p)  BY <1>1 DEF GeminiInv
  <2>2. said \in GeminiState /\ GeminiIn(said) /\ said.begun
    BY <1>1, <2>1, GeminiSaid DEF Going
  <2>3. q = IF c.usage /\ c.finish # "" /\ ~t.told /\ t.content THEN FinalEvents(t) ELSE t
    BY <1>1 DEF ConvertGeminiResponseToClaude
  <2>. HIDE DEF said
  <2>4. /\ t \in GeminiState /\ t.reading = said.reading /\ t.index = said.index
        /\ t.begun = said.begun /\ t.told = said.told /\ t.type = said.type
        /\ t.tool = said.tool /\ t.content = said.content
    BY <1>1, <2>2 DEF GeminiState
  <2>. HIDE DEF t, q
  <2>5. GeminiIn(t) /\ ~t.told  BY <2>2, <2>4, GeminiSet DEF GeminiIn, GeminiHas
  <2>6. CASE s.next = "parts"  BY <1>1, <2>3, <2>5, <2>6 DEF GeminiInv, q
  <2>7. CASE s.next = "finished" /\ t.content
    <3>1. q = FinalEvents(t)  BY <1>1, <2>3, <2>5, <2>7
    <3>2. /\ q \in GeminiState /\ q.told /\ q.begun /\ q.content
          /\ Told(q.reading) /\ ~q.reading.over
      BY <2>5, <2>7, <3>1, GeminiTells
    <3>. QED  BY <2>7, <3>2 DEF GeminiInv, GeminiOver, q
  <2>8. CASE s.next = "finished" /\ ~t.content
    BY <2>3, <2>5, <2>8 DEF GeminiInv, GeminiOver, q
  <2>. QED  BY <1>1, <2>6, <2>7, <2>8
<1>2. CASE at = "parts" /\ s.next = "cut" /\ c = GeminiDone
  <2>0. c.done  BY <1>2, GeminiDoneIs
  <2>1. q = IF p.content THEN Emit(p, MessageStop) ELSE p
    BY <2>0 DEF ConvertGeminiResponseToClaude
  <2>2. p \in GeminiState /\ (p.content => p.reading.begun /\ ~p.reading.over)
    BY <1>2 DEF GeminiInv, GeminiIn, GeminiHas
  <2>3. q \in GeminiState  BY <2>1, <2>2, GeminiEnds
  <2>. QED  BY <1>2, <2>3 DEF GeminiInv
<1>3. CASE at = "finished" /\ s.next = "done" /\ c = GeminiDone
  <2>0. c.done  BY <1>3, GeminiDoneIs
  <2>1. q = IF p.content THEN Emit(p, MessageStop) ELSE p
    BY <2>0 DEF ConvertGeminiResponseToClaude
  <2>2. GeminiOver(p) /\ (p.content => p.told)  BY <1>3 DEF GeminiInv
  <2>3. CASE p.content
    <3>1. p \in GeminiState /\ Told(p.reading) /\ p.reading.begun /\ ~p.reading.over
      BY <2>2, <2>3 DEF GeminiOver, GeminiIn, GeminiHas, Told
    <3>2. q \in GeminiState /\ Told(q.reading) /\ q.reading.over
      BY <2>1, <2>3, <3>1, GeminiEnds
    <3>. QED  BY <1>3, <3>2 DEF GeminiInv
  <2>4. CASE ~p.content
    BY <1>3, <2>1, <2>2, <2>4 DEF GeminiInv, GeminiOver, GeminiIn, GeminiHas
  <2>. QED  BY <2>3, <2>4
<1>. QED  BY <1>1, <1>2, <1>3, GeminiMoves

-----------------------------------------------------------------------------
(* Antigravity's chunks.                                                     *)

\* q is p with blocks that were started and stopped.
Passed(p, q) ==
  /\ GeminiHas(q, "none") /\ q.begun /\ Rest(p, q) /\ q.tool = p.tool
  /\ HasTool(q.reading) <=> HasTool(p.reading)

LEMMA SearchBlock ==
  ASSUME NEW p, NEW q, Passed(p, q), NEW kind \in {"search", "results", "text"}
  PROVE  /\ DeltaHere(StartHere(q, kind), kind) = StartHere(q, kind)
         /\ Passed(p, StopHere(StartHere(q, kind)))
<1>. DEFINE s == StartHere(q, kind)
            r == StopHere(s)
<1>1. kind \in Kinds /\ kind # "tool"  BY DEF Kinds
<1>2. /\ GeminiHas(s, kind) /\ Rest(q, s) /\ s.tool = q.tool
      /\ HasTool(s.reading) <=> HasTool(q.reading)
  BY <1>1, GeminiStarted DEF Passed
<1>3. s.begun  BY <1>2 DEF Passed, Rest
<1>. HIDE DEF s
<1>4. DeltaHere(s, kind) = s  BY <1>1, <1>2, <1>3, GeminiDelta
<1>5. /\ GeminiHas(r, "none") /\ Rest(s, r) /\ r.tool = s.tool
      /\ HasTool(r.reading) <=> HasTool(s.reading)
  BY <1>1, <1>2, <1>3, GeminiStopped
<1>. HIDE DEF r
<1>6. Passed(p, r)  BY <1>2, <1>3, <1>5 DEF Passed, Rest
<1>. QED  BY <1>4, <1>6 DEF r, s

LEMMA SearchAppended ==
  ASSUME NEW p, GeminiIn(p), p.begun, p.type = "none", NEW text \in BOOLEAN
  PROVE  LET q == appendClaudeWebSearchStreamBlocks(p, text)
         IN  /\ GeminiIn(q) /\ q.begun /\ q.finish = p.finish /\ q.usage = p.usage
             /\ q.web = p.web /\ q.searched /\ ~q.held
<1>. DEFINE search  == StopHere(DeltaHere(StartHere(p, "search"), "search"))
            results == StopHere(StartHere(search, "results"))
            answer  == StopHere(DeltaHere(StartHere(results, "text"), "text"))
            x == IF text THEN answer ELSE results
            q == [x EXCEPT !.type = "none", !.content = TRUE, !.searched = TRUE, !.held = FALSE]
<1>1. Passed(p, p) /\ (p.tool <=> HasTool(p.reading))  BY DEF Passed, GeminiIn, Rest
<1>2. Passed(p, search)  BY <1>1, SearchBlock
<1>. HIDE DEF search
<1>3. Passed(p, results)  BY <1>2, SearchBlock
<1>. HIDE DEF results
<1>4. Passed(p, answer)  BY <1>3, SearchBlock
<1>. HIDE DEF answer
<1>5. Passed(p, x)  BY <1>3, <1>4
<1>6. appendClaudeWebSearchStreamBlocks(p, text) = q
  BY DEF appendClaudeWebSearchStreamBlocks, answer, results, search
<1>. HIDE DEF x
<1>7. x \in GeminiState /\ GeminiHas(x, "none") /\ x.begun  BY <1>5 DEF Passed, GeminiHas
<1>8. /\ q \in GeminiState /\ q.reading = x.reading /\ q.index = x.index /\ q.begun = x.begun
      /\ q.told = x.told /\ q.type = "none" /\ q.tool = x.tool /\ q.content = TRUE
      /\ q.searched = TRUE /\ q.held = FALSE /\ q.finish = x.finish /\ q.usage = x.usage
      /\ q.web = x.web
  BY <1>7 DEF GeminiState
<1>. HIDE DEF q
<1>9. GeminiHas(q, "none")  BY <1>7, <1>8, GeminiFlags
<1>10. q.tool <=> HasTool(q.reading)  BY <1>1, <1>5, <1>8 DEF Passed
<1>11. GeminiIn(q)  BY <1>8, <1>9, <1>10 DEF GeminiIn
<1>. QED  BY <1>5, <1>6, <1>8, <1>11 DEF Passed, Rest

LEMMA BufferAppended ==
  ASSUME NEW p, GeminiIn(p), p.begun, p.type = "none"
  PROVE  LET q == appendBufferedWebSearchTextBlock(p)
         IN  GeminiIn(q) /\ q.finish = p.finish /\ q.usage = p.usage /\ ~q.held
<1>. DEFINE s == StartHere(p, "text")
            q == [s EXCEPT !.type = "text", !.content = TRUE, !.held = FALSE]
<1>1. GeminiHas(p, "none") /\ (p.tool <=> HasTool(p.reading)) /\ "text" \in Kinds
  BY DEF GeminiIn, Kinds
<1>2. /\ GeminiHas(s, "text") /\ Rest(p, s) /\ s.tool = p.tool
      /\ HasTool(s.reading) <=> HasTool(p.reading)
  BY <1>1, GeminiStarted
<1>. HIDE DEF s
<1>3. s \in GeminiState /\ s.begun  BY <1>2 DEF GeminiHas, Rest
<1>4. DeltaHere(s, "text") = s  BY <1>1, <1>2, <1>3, GeminiDelta
<1>5. appendBufferedWebSearchTextBlock(p) = q
  BY <1>4 DEF appendBufferedWebSearchTextBlock, s
<1>6. /\ q \in GeminiState /\ q.reading = s.reading /\ q.index = s.index /\ q.begun = s.begun
      /\ q.told = s.told /\ q.type = "text" /\ q.tool = s.tool /\ q.content = TRUE
      /\ q.held = FALSE /\ q.finish = s.finish /\ q.usage = s.usage
  BY <1>3 DEF GeminiState
<1>. HIDE DEF q
<1>7. GeminiHas(q, "text")  BY <1>2, <1>3, <1>6, GeminiFlags
<1>8. GeminiIn(q)  BY <1>1, <1>2, <1>6, <1>7 DEF GeminiIn
<1>. QED  BY <1>2, <1>5, <1>6, <1>8 DEF Rest

LEMMA AntigravitySaid ==
  ASSUME NEW p, GeminiIn(p), NEW c, c.parts \in Seq(Parts), KeepsItsPlace(p, c)
  PROVE  AfterParts(BeginMessage(p), c)[Len(c.parts)] \in Going(BeginMessage(p))
<1>. DEFINE b == BeginMessage(p)
            n == Len(c.parts)
            f == AfterParts(b, c)
            S == [k \in 0..n |-> Going(b)]
            Empty == Part("empty", FALSE, FALSE, "none", FALSE)
<1>1. GeminiIn(b) /\ b.begun  BY GeminiBegun
<1>2. \A i \in 1..n : c.finish = "" /\ c.parts[i] = Empty => f[i - 1].type \in {"none", "text"}
  <2>1. DOMAIN c.parts = 1..n  OBVIOUS
  <2>2. c.finish = "" => \A i \in DOMAIN c.parts :
                           c.parts[i] = Empty => f[i - 1].type \in {"none", "text"}
    BY DEF KeepsItsPlace
  <2>. HIDE DEF b, n, f, Empty
  <2>. QED  BY <2>1, <2>2
<1>3. n \in Nat /\ \A i \in 1..n : c.parts[i] \in Parts  OBVIOUS
<1>. HIDE DEF b
<1>4. b \in Going(b)  BY <1>1 DEF Going, GeminiIn, GeminiHas, Rest
<1>5. f[0] = b /\ \A k \in 1..n : f[k] = AntigravityPart(c.finish, f[k - 1], c.parts[k])
  BY <1>3, AntigravityTrail
<1>. HIDE DEF f
<1>6. f[0] \in S[0]  BY <1>3, <1>4, <1>5
<1>7. ASSUME NEW k \in 1..n, f[k - 1] \in S[k - 1]  PROVE f[k] \in S[k]
  <2>1. k - 1 \in 0..n /\ k \in 0..n  BY <1>3
  <2>2. f[k - 1] \in Going(b)  BY <1>7, <2>1
  <2>3. f[k] = AntigravityPart(c.finish, f[k - 1], c.parts[k])  BY <1>5
  <2>4. c.parts[k] \in Parts  BY <1>3
  <2>5. c.finish = "" /\ c.parts[k] = Empty => f[k - 1].type \in {"none", "text"}  BY <1>2
  <2>6. f[k] \in Going(b)  BY <2>2, <2>3, <2>4, <2>5, AntigravityPartGoes
  <2>. QED  BY <2>1, <2>6
<1>8. f[n] \in S[n]
  <2>. HIDE DEF S, n
  <2>1. \A k \in 0..n : f[k] \in S[k]  BY <1>3, <1>6, <1>7, StepByStep
  <2>. QED  BY <1>3, <2>1
<1>. QED  BY <1>3, <1>8 DEF f, b

LEMMA AntigravitySays ==
  ASSUME NEW p, GeminiIn(p), Holds(p), NEW c, c.parts \in Seq(Parts), c.grounding \in BOOLEAN,
         KeepsItsPlace(p, c)
  PROVE  LET waits == p.web /\ ~p.searched
             said  == IF waits /\ c.grounding
                      THEN appendClaudeWebSearchStreamBlocks(BeginMessage(p), p.held \/ AnyText(c.parts))
                      ELSE IF waits THEN [BeginMessage(p) EXCEPT !.held = @ \/ PlainText(c.parts)]
                      ELSE AfterParts(BeginMessage(p), c)[Len(c.parts)]
         IN  GeminiIn(said) /\ said.begun /\ Holds(said) /\ said.finish = p.finish
             /\ said.usage = p.usage
<1>. DEFINE b == BeginMessage(p)
            waits == p.web /\ ~p.searched
            searched == appendClaudeWebSearchStreamBlocks(b, p.held \/ AnyText(c.parts))
            kept == [b EXCEPT !.held = @ \/ PlainText(c.parts)]
            said == AfterParts(b, c)[Len(c.parts)]
<1>1. p \in GeminiState  BY DEF GeminiIn, GeminiHas
<1>2. GeminiIn(b) /\ b.begun /\ b.type = p.type /\ Rest([p EXCEPT !.begun = TRUE], b)
  BY GeminiBegun
<1>3. said \in Going(b)  BY AntigravitySaid
<1>. HIDE DEF b
<1>4. /\ b \in GeminiState /\ b.finish = p.finish /\ b.usage = p.usage /\ b.web = p.web
      /\ b.searched = p.searched /\ b.held = p.held
  BY <1>1, <1>2 DEF GeminiIn, GeminiHas, GeminiState, Rest
<1>5. CASE waits /\ c.grounding
  <2>1. (p.held \/ AnyText(c.parts)) \in BOOLEAN  OBVIOUS
  <2>2. p.type = "none"  BY <1>5 DEF Holds
  <2>3. /\ GeminiIn(searched) /\ searched.begun /\ searched.finish = b.finish
        /\ searched.usage = b.usage /\ searched.searched /\ ~searched.held
    BY <1>2, <2>1, <2>2, SearchAppended
  <2>. HIDE DEF searched
  <2>4. Holds(searched)  BY <2>3 DEF Holds
  <2>. QED  BY <1>4, <1>5, <2>3, <2>4 DEF searched, b
<1>6. CASE waits /\ ~c.grounding
  <2>1. (b.held \/ PlainText(c.parts)) \in BOOLEAN  OBVIOUS
  <2>2. /\ kept \in GeminiState /\ kept.reading = b.reading /\ kept.index = b.index
        /\ kept.begun = b.begun /\ kept.told = b.told /\ kept.type = b.type
        /\ kept.tool = b.tool /\ kept.content = b.content /\ kept.finish = b.finish
        /\ kept.usage = b.usage /\ kept.web = b.web /\ kept.searched = b.searched
    BY <1>4, <2>1 DEF GeminiState
  <2>. HIDE DEF kept
  <2>3. GeminiIn(kept)  BY <1>2, <2>2, GeminiSet
  <2>4. Holds(kept)  BY <1>2, <1>4, <1>6, <2>2 DEF Holds
  <2>. QED  BY <1>2, <1>4, <1>6, <2>2, <2>3, <2>4 DEF kept, b
<1>7. CASE ~waits
  <2>1. GeminiIn(said) /\ said.begun /\ Rest(b, said)  BY <1>3 DEF Going
  <2>. HIDE DEF said
  <2>2. Holds(said)  BY <1>4, <1>7, <2>1 DEF Holds, Rest
  <2>. QED  BY <1>4, <1>7, <2>1, <2>2 DEF Rest, said, b
<1>. HIDE DEF searched, kept, said, waits
<1>. QED  BY <1>5, <1>6, <1>7 DEF searched, kept, said, waits, b

\* What is written once the answer is finished.
LEMMA AntigravityTells ==
  ASSUME NEW p, GeminiOver(p), NEW force \in BOOLEAN
  PROVE  LET q == appendFinalEvents(p, force)
         IN  GeminiOver(q) /\ q.held = p.held /\ (force /\ q.content => q.told)
             /\ q.content = p.content
<1>1. CASE p.told \/ ~p.content \/ ~(p.usage \/ force)
  <2>1. appendFinalEvents(p, force) = p  BY <1>1 DEF appendFinalEvents
  <2>. QED  BY <1>1, <2>1
<1>2. CASE ~(p.told \/ ~p.content \/ ~(p.usage \/ force))
  <2>. DEFINE q == FinalEvents(p)
  <2>1. appendFinalEvents(p, force) = q  BY <1>2 DEF appendFinalEvents
  <2>2. GeminiIn(p) /\ p \in GeminiState  BY <1>2 DEF GeminiOver, GeminiIn, GeminiHas
  <2>3. /\ q \in GeminiState /\ q.told /\ q.begun /\ q.content /\ q.held = p.held
        /\ Told(q.reading) /\ ~q.reading.over
    BY <1>2, <2>2, GeminiTells
  <2>4. q.content = p.content  BY <1>2, <2>2, <2>3 DEF GeminiState
  <2>. HIDE DEF q
  <2>. QED  BY <2>1, <2>3, <2>4 DEF GeminiOver
<1>. QED  BY <1>1, <1>2

LEMMA AntigravityWhole ==
  ASSUME NEW seen, GeminiOver(seen),
         seen.held => GeminiIn(seen) /\ seen.begun /\ Holds(seen) /\ seen.finish # ""
  PROVE  LET whole == IF ~seen.searched /\ seen.finish # "" /\ seen.held
                      THEN appendBufferedWebSearchTextBlock(seen) ELSE seen
             q == IF whole.usage /\ whole.finish # "" THEN appendFinalEvents(whole, FALSE)
                  ELSE whole
         IN  GeminiOver(q) /\ ~q.held
<1>. DEFINE whole == IF ~seen.searched /\ seen.finish # "" /\ seen.held
                     THEN appendBufferedWebSearchTextBlock(seen) ELSE seen
<1>1. GeminiOver(whole) /\ ~whole.held
  <2>1. CASE seen.held
    <3>1. ~seen.searched /\ seen.finish # "" /\ seen.type = "none" /\ GeminiIn(seen) /\ seen.begun
      BY <2>1 DEF Holds
    <3>2. whole = appendBufferedWebSearchTextBlock(seen)  BY <2>1, <3>1
    <3>. HIDE DEF whole
    <3>3. GeminiIn(whole) /\ ~whole.held  BY <3>1, <3>2, BufferAppended
    <3>. QED  BY <3>3 DEF GeminiOver
  <2>2. CASE ~seen.held  BY <2>2
  <2>. QED  BY <2>1, <2>2
<1>. HIDE DEF whole
<1>2. GeminiOver(appendFinalEvents(whole, FALSE)) /\ ~appendFinalEvents(whole, FALSE).held
  BY <1>1, AntigravityTells
<1>. QED  BY <1>1, <1>2 DEF whole

LEMMA AntigravityChunk ==
  ASSUME NEW p, GeminiIn(p), Holds(p), p.finish = "", NEW c, ~c.done, c.parts \in Seq(Parts),
         c.grounding \in BOOLEAN, c.usage \in BOOLEAN, c.finish \in {"", "STOP", "MAX_TOKENS"},
         KeepsItsPlace(p, c)
  PROVE  LET q == ConvertAntigravityChunk(p, c)
         IN  /\ c.finish = "" => GeminiIn(q) /\ Holds(q) /\ q.finish = ""
             /\ c.finish # "" => GeminiOver(q) /\ ~q.held
<1>. DEFINE waits == p.web /\ ~p.searched
            said  == IF waits /\ c.grounding
                     THEN appendClaudeWebSearchStreamBlocks(BeginMessage(p), p.held \/ AnyText(c.parts))
                     ELSE IF waits THEN [BeginMessage(p) EXCEPT !.held = @ \/ PlainText(c.parts)]
                     ELSE AfterParts(BeginMessage(p), c)[Len(c.parts)]
            seen  == [said EXCEPT !.finish = IF c.finish = "" THEN @ ELSE c.finish,
                                  !.usage = @ \/ c.usage]
            whole == IF ~seen.searched /\ seen.finish # "" /\ seen.held
                     THEN appendBufferedWebSearchTextBlock(seen) ELSE seen
            q == IF whole.usage /\ whole.finish # "" THEN appendFinalEvents(whole, FALSE) ELSE whole
<1>1. /\ GeminiIn(said) /\ said.begun /\ Holds(said) /\ said.finish = ""
      /\ said \in GeminiState
  <2>1. GeminiIn(said) /\ said.begun /\ Holds(said) /\ said.finish = p.finish
    BY AntigravitySays
  <2>. HIDE DEF said
  <2>. QED  BY <2>1 DEF GeminiIn, GeminiHas
<1>2. ConvertAntigravityChunk(p, c) = q  BY DEF ConvertAntigravityChunk
<1>. HIDE DEF said
<1>3. /\ seen \in GeminiState /\ seen.reading = said.reading /\ seen.index = said.index
      /\ seen.begun = said.begun /\ seen.told = said.told /\ seen.type = said.type
      /\ seen.tool = said.tool /\ seen.content = said.content /\ seen.finish = c.finish
      /\ seen.held = said.held /\ seen.web = said.web /\ seen.searched = said.searched
  <2>1. (said.usage \/ c.usage) \in BOOLEAN  OBVIOUS
  <2>. QED  BY <1>1, <2>1 DEF GeminiState
<1>. HIDE DEF seen
<1>4. GeminiIn(seen)  BY <1>1, <1>3, GeminiSet
<1>5. Holds(seen)  BY <1>1, <1>3 DEF Holds
<1>6. CASE c.finish = ""
  <2>1. whole = seen  BY <1>3, <1>6
  <2>. HIDE DEF whole
  <2>2. q = seen  BY <1>3, <1>6, <2>1
  <2>. QED  BY <1>2, <1>3, <1>4, <1>5, <1>6, <2>2
<1>7. CASE c.finish # ""
  <2>1. GeminiOver(seen)  BY <1>4 DEF GeminiOver
  <2>2. GeminiOver(q) /\ ~q.held  BY <1>1, <1>3, <1>4, <1>5, <1>7, <2>1, AntigravityWhole
  <2>. QED  BY <1>2, <1>7, <2>2
<1>. QED  BY <1>6, <1>7

\* Token counts that come after the end.
LEMMA AntigravityCounts ==
  ASSUME NEW p, GeminiOver(p), ~p.held
  PROVE  LET q == ConvertAntigravityChunk(p, UsageAlone)
         IN  GeminiOver(q) /\ ~q.held
<1>. DEFINE c == UsageAlone
            b == BeginMessage(p)
            waits == p.web /\ ~p.searched
            said  == IF waits /\ c.grounding
                     THEN appendClaudeWebSearchStreamBlocks(b, p.held \/ AnyText(c.parts))
                     ELSE IF waits THEN [b EXCEPT !.held = @ \/ PlainText(c.parts)]
                     ELSE AfterParts(b, c)[Len(c.parts)]
            seen  == [said EXCEPT !.finish = IF c.finish = "" THEN @ ELSE c.finish,
                                  !.usage = @ \/ c.usage]
            whole == IF ~seen.searched /\ seen.finish # "" /\ seen.held
                     THEN appendBufferedWebSearchTextBlock(seen) ELSE seen
            q == IF whole.usage /\ whole.finish # "" THEN appendFinalEvents(whole, FALSE) ELSE whole
<1>1. ConvertAntigravityChunk(p, c) = q  BY DEF ConvertAntigravityChunk
<1>2. c.parts = <<>> /\ ~c.grounding /\ c.finish = "" /\ c.usage
  BY DEF UsageAlone, GeminiDone
<1>3. b \in GeminiState /\ b.begun /\ ~b.held /\ GeminiOver(b)
  <2>1. CASE GeminiIn(p)
    <3>1. GeminiIn(b) /\ b.begun /\ Rest([p EXCEPT !.begun = TRUE], b)  BY <2>1, GeminiBegun
    <3>2. b \in GeminiState /\ p \in GeminiState  BY <2>1, <3>1 DEF GeminiIn, GeminiHas
    <3>. HIDE DEF b
    <3>3. b.held = p.held  BY <3>1, <3>2 DEF GeminiState, Rest
    <3>. QED  BY <3>1, <3>2, <3>3 DEF GeminiOver
  <2>2. CASE ~GeminiIn(p)
    <3>1. p \in GeminiState /\ p.begun  BY <2>2 DEF GeminiOver
    <3>2. b = p  BY <3>1 DEF BeginMessage
    <3>. QED  BY <3>1, <3>2
  <2>. QED  BY <2>1, <2>2
<1>. HIDE DEF b, c
<1>4. said = b
  <2>1. CASE waits
    <3>1. ~PlainText(c.parts)
      <4>1. DOMAIN <<>> = {}  OBVIOUS
      <4>2. ~PlainText(<<>>)  BY <4>1, Zenon DEF PlainText
      <4>. QED  BY <1>2, <4>2
    <3>2. (b.held \/ PlainText(c.parts)) = FALSE /\ b.held = FALSE
      BY <1>3, <3>1 DEF GeminiState
    <3>3. said = [b EXCEPT !.held = FALSE]  BY <1>2, <2>1, <3>2
    <3>. HIDE DEF said
    <3>. QED  BY <1>3, <3>2, <3>3 DEF GeminiState
  <2>2. CASE ~waits
    <3>0. Len(<<>>) = 0  OBVIOUS
    <3>1. Len(c.parts) = 0  BY <1>2, <3>0
    <3>2. AfterParts(b, c)[0] = b  BY <3>1, AntigravityTrail
    <3>. QED  BY <2>2, <3>1, <3>2
  <2>. QED  BY <2>1, <2>2
<1>. HIDE DEF said
<1>5. seen = [b EXCEPT !.usage = TRUE]
  <2>1. (b.usage \/ c.usage) = TRUE  BY <1>2
  <2>. QED  BY <1>2, <1>3, <1>4, <2>1 DEF GeminiState
<1>. HIDE DEF seen
<1>6. /\ seen \in GeminiState /\ seen.reading = b.reading /\ seen.index = b.index
      /\ seen.begun = b.begun /\ seen.told = b.told /\ seen.type = b.type
      /\ seen.tool = b.tool /\ seen.content = b.content /\ seen.held = b.held
  BY <1>3, <1>5 DEF GeminiState
<1>7. GeminiOver(seen)
  <2>1. GeminiIn(b) => GeminiIn(seen)  BY <1>3, <1>6, GeminiSet
  <2>. QED  BY <1>3, <1>6, <2>1 DEF GeminiOver
<1>8. GeminiOver(q) /\ ~q.held  BY <1>3, <1>6, <1>7, AntigravityWhole
<1>. QED  BY <1>1, <1>8 DEF c

LEMMA AntigravityKeeps ==
  ASSUME NEW at, NEW p, AntigravityInv(at, p), NEW more,
         NEW s \in GeminiUpstream(at, more, p.web, TRUE), KeepsItsPlace(p, s.chunk)
  PROVE  AntigravityInv(s.next, ConvertAntigravityResponseToClaude(p, s.chunk))
<1>. DEFINE c == s.chunk
            q == ConvertAntigravityResponseToClaude(p, c)
            t == appendFinalEvents(p, TRUE)
<1>1. CASE at = "parts" /\ ~c.done /\ c.parts \in Seq(Parts) /\ c.grounding \in {FALSE, p.web}
             /\ c.usage \in BOOLEAN
             /\ \/ s.next = "parts" /\ c.finish = ""
                \/ s.next = "finished" /\ c.finish \in {"STOP", "MAX_TOKENS"}
  <2>1. GeminiIn(p) /\ Holds(p) /\ p.finish = ""  BY <1>1 DEF AntigravityInv
  <2>2. c.grounding \in BOOLEAN
    BY <1>1, <2>1 DEF GeminiIn, GeminiHas, GeminiState
  <2>3. q = ConvertAntigravityChunk(p, c)  BY <1>1 DEF ConvertAntigravityResponseToClaude
  <2>. HIDE DEF q
  <2>4. /\ c.finish = "" => GeminiIn(q) /\ Holds(q) /\ q.finish = ""
        /\ c.finish # "" => GeminiOver(q) /\ ~q.held
    BY <1>1, <2>1, <2>2, <2>3, AntigravityChunk
  <2>. QED  BY <1>1, <2>4 DEF AntigravityInv, q
<1>2. CASE at = "finished" /\ s.next = "finished" /\ c = UsageAlone
  <2>1. q = ConvertAntigravityChunk(p, UsageAlone)
    BY <1>2 DEF ConvertAntigravityResponseToClaude, UsageAlone, GeminiDone
  <2>2. GeminiOver(p) /\ ~p.held  BY <1>2 DEF AntigravityInv
  <2>3. GeminiOver(q) /\ ~q.held  BY <2>1, <2>2, AntigravityCounts
  <2>. HIDE DEF q
  <2>. QED  BY <1>2, <2>3 DEF AntigravityInv, q
<1>3. CASE at \in {"parts", "finished"} /\ c = GeminiDone
             /\ s.next = (IF at = "parts" THEN "cut" ELSE "done")
  <2>0. c.done  BY <1>3, GeminiDoneIs
  <2>1. q = IF p.content THEN Emit(t, MessageStop) ELSE p
    BY <2>0 DEF ConvertAntigravityResponseToClaude
  <2>2. GeminiOver(p)  BY <1>3 DEF AntigravityInv, GeminiOver
  <2>3. CASE p.content
    <3>1. GeminiOver(t) /\ t.told  BY <2>2, <2>3, AntigravityTells
    <3>2. t \in GeminiState /\ Told(t.reading) /\ t.reading.begun /\ ~t.reading.over
      BY <3>1 DEF GeminiOver, GeminiIn, GeminiHas, Told
    <3>. HIDE DEF t
    <3>3. q \in GeminiState /\ Told(q.reading) /\ q.reading.over  BY <2>1, <2>3, <3>2, GeminiEnds
    <3>. HIDE DEF q
    <3>. QED  BY <1>3, <3>3 DEF AntigravityInv, q
  <2>4. CASE ~p.content
    BY <1>3, <2>1, <2>2, <2>4 DEF AntigravityInv, GeminiOver, GeminiIn, GeminiHas
  <2>. QED  BY <2>3, <2>4
<1>4. \/ /\ at = "parts" /\ ~c.done /\ c.parts \in Seq(Parts) /\ c.grounding \in {FALSE, p.web}
         /\ c.usage \in BOOLEAN
         /\ \/ s.next = "parts" /\ c.finish = ""
            \/ s.next = "finished" /\ c.finish \in {"STOP", "MAX_TOKENS"}
      \/ at = "parts" /\ s.next = "cut" /\ c = GeminiDone
      \/ at = "finished" /\ s.next = "done" /\ c = GeminiDone
      \/ at = "finished" /\ s.next = "finished" /\ c = UsageAlone
  BY GeminiMoves
<1>. HIDE DEF c, q, t
<1>. QED  BY <1>1, <1>2, <1>3, <1>4

-----------------------------------------------------------------------------
(* OpenAI's blocks: what stands open is what the translator remembers.       *)

LEMMA Places ==
  /\ \A b \in Block : b.index # NoBlock
  /\ \A t \in Tools : t < Calls
  /\ \A k \in 1..Calls : k - 1 \in Tools /\ k - 1 \in 0..Calls /\ k \in 0..Calls /\ k = (k - 1) + 1
BY CallsAssumption DEF Block, NoBlock, Tools

LEMMA OpenAIOpen ==
  ASSUME NEW p, OpenAIIn(p), NEW i \in Nat, NEW kind \in Kinds, OpenAt(p, i, kind)
  PROVE  At(i, kind) \in p.reading.open
<1>1. At(i, kind) \in Block /\ At(i, kind).index = i /\ At(i, kind).kind = kind
  BY DEF At, Block
<1>. QED  BY <1>1 DEF OpenAIIn

LEMMA OpenAIDelta ==
  ASSUME NEW p, OpenAIIn(p), p.begun, NEW i \in Nat, NEW kind \in Kinds, OpenAt(p, i, kind)
  PROVE  Emit(p, DeltaTo(i, kind)) = p
<1>1. p \in OpenAIState /\ p.reading \in Placed /\ Amid(p.reading)
  BY DEF OpenAIIn, OpenAIState, Amid
<1>2. At(i, kind) \in p.reading.open  BY OpenAIOpen
<1>3. Read(p.reading, DeltaTo(i, kind)) = p.reading  BY <1>1, <1>2, DeltaRead
<1>. QED  BY <1>1, <1>3 DEF Emit, OpenAIState

LEMMA OpenAIStopRead ==
  ASSUME NEW p, OpenAIIn(p), p.begun, NEW i \in Nat, NEW kind \in Kinds, OpenAt(p, i, kind)
  PROVE  LET b == At(i, kind)
             k == [p.reading EXCEPT !.open = @ \ {b}, !.stopped = @ \cup {b}]
         IN  Read(p.reading, StopBlock(i)) = k /\ k \in Placed
<1>. DEFINE b == At(i, kind)
<1>1. p.reading \in Placed /\ Amid(p.reading)  BY DEF OpenAIIn, OpenAIState, Amid
<1>2. b \in p.reading.open  BY OpenAIOpen
<1>3. b.index = i  BY DEF At
<1>4. \A c \in p.reading.open : c.index = b.index => c = b  BY <1>2 DEF OpenAIIn
<1>. HIDE DEF b
<1>5. /\ Read(p.reading, StopBlock(b.index)) =
             [p.reading EXCEPT !.open = @ \ {b}, !.stopped = @ \cup {b}]
      /\ Read(p.reading, StopBlock(b.index)) \in Placed
  BY <1>1, <1>2, <1>4, StopRead
<1>. QED  BY <1>3, <1>5 DEF b

LEMMA OpenAIStopPlaced ==
  ASSUME NEW p, OpenAIIn(p), p.begun, NEW i \in Nat, NEW kind \in Kinds, OpenAt(p, i, kind)
  PROVE  Read(p.reading, StopBlock(i)) \in Placed
<1>. DEFINE k == [p.reading EXCEPT !.open = @ \ {At(i, kind)}, !.stopped = @ \cup {At(i, kind)}]
<1>1. Read(p.reading, StopBlock(i)) = k /\ k \in Placed  BY OpenAIStopRead
<1>. HIDE DEF k
<1>. QED  BY <1>1

\* The block is stopped and forgotten.
Forgets(p, r, i, kind) ==
  /\ r \in OpenAIState /\ r.reading = Read(p.reading, StopBlock(i)) /\ Apart(r)
  /\ r.begun = p.begun /\ r.told = p.told /\ r.over = p.over /\ r.next = p.next /\ r.saw = p.saw
  /\ \A c \in Block : OpenAt(r, c.index, c.kind) <=>
                        OpenAt(p, c.index, c.kind) /\ ~(c.index = i /\ c.kind = kind)

LEMMA OpenAIStopped ==
  ASSUME NEW p, OpenAIIn(p), p.begun, NEW i \in Nat, NEW kind \in Kinds, OpenAt(p, i, kind),
         NEW r, Forgets(p, r, i, kind)
  PROVE  OpenAIIn(r)
<1>. DEFINE b == At(i, kind)
            k == [p.reading EXCEPT !.open = @ \ {b}, !.stopped = @ \cup {b}]
<1>1. p.reading \in Placed  BY DEF OpenAIIn, OpenAIState
<1>2. r.reading = k /\ k \in Placed  BY OpenAIStopRead DEF Forgets
<1>3. b \in p.reading.open /\ b.index = i /\ b.kind = kind /\ b \in Block
  BY OpenAIOpen DEF At, Block
<1>4. /\ k.begun = p.reading.begun /\ k.reason = p.reading.reason /\ k.over = p.reading.over
      /\ k.open = p.reading.open \ {b} /\ k.stopped = p.reading.stopped \cup {b}
  BY <1>1 DEF Placed
<1>5. Blocks(k) = Blocks(p.reading)  BY <1>3, <1>4 DEF Blocks
<1>6. \A c \in Block : c = b <=> c.index = i /\ c.kind = kind  BY DEF Block, At
<1>. HIDE DEF k, b
<1>7. \A c \in Block : c \in k.open <=> OpenAt(r, c.index, c.kind)
  BY <1>4, <1>6 DEF OpenAIIn, Forgets
<1>8. \A c, d \in k.open : c.index = d.index => c = d  BY <1>4 DEF OpenAIIn
<1>9. HasTool(k) <=> HasTool(p.reading)  BY <1>5 DEF HasTool
<1>. QED  BY <1>2, <1>4, <1>5, <1>7, <1>8, <1>9 DEF OpenAIIn, Forgets

LEMMA OpenAIStartRead ==
  ASSUME NEW p, OpenAIIn(p), p.begun, NEW kind \in Kinds
  PROVE  LET k == [p.reading EXCEPT !.open = @ \cup {At(p.next, kind)}]
         IN  Read(p.reading, StartBlock(p.next, kind)) = k /\ k \in Placed
<1>1. p.reading \in Placed /\ Amid(p.reading) /\ p.next \in Nat
  BY DEF OpenAIIn, OpenAIState, Amid
<1>2. \A b \in Blocks(p.reading) : b.index \in Nat /\ b.index < p.next
  BY <1>1 DEF OpenAIIn, Placed, Block, Blocks
<1>3. \A b \in Blocks(p.reading) : b.index # p.next  BY <1>1, <1>2
<1>. QED  BY ZenonT(60), <1>1, <1>3, StartRead

\* A block is started at the next index and remembered.
Remembers(p, r, kind) ==
  /\ r \in OpenAIState /\ r.reading = Read(p.reading, StartBlock(p.next, kind)) /\ Apart(r)
  /\ r.begun = p.begun /\ r.told = p.told /\ r.over = p.over /\ r.next = p.next + 1
  /\ r.saw <=> p.saw \/ kind = "tool"
  /\ \A c \in Block : OpenAt(r, c.index, c.kind) <=>
                        OpenAt(p, c.index, c.kind) \/ (c.index = p.next /\ c.kind = kind)

LEMMA OpenAIStarted ==
  ASSUME NEW p, OpenAIIn(p), p.begun, NEW kind \in Kinds, NEW r, Remembers(p, r, kind)
  PROVE  OpenAIIn(r)
<1>. DEFINE b == At(p.next, kind)
            k == [p.reading EXCEPT !.open = @ \cup {b}]
<1>1. p.reading \in Placed /\ p.next \in Nat  BY DEF OpenAIIn, OpenAIState
<1>2. r.reading = k /\ k \in Placed  BY OpenAIStartRead DEF Remembers
<1>3. b.index = p.next /\ b.kind = kind /\ b \in Block  BY <1>1 DEF At, Block
<1>4. /\ k.begun = p.reading.begun /\ k.reason = p.reading.reason /\ k.over = p.reading.over
      /\ k.open = p.reading.open \cup {b} /\ k.stopped = p.reading.stopped
  BY <1>1 DEF Placed
<1>5. Blocks(k) = Blocks(p.reading) \cup {b}  BY <1>4 DEF Blocks
<1>6. \A c \in Block : c = b <=> c.index = p.next /\ c.kind = kind  BY DEF Block, At
<1>7. \A c \in Blocks(p.reading) : c.index \in Nat /\ c.index < p.next
  BY <1>1 DEF OpenAIIn, Placed, Block, Blocks
<1>. HIDE DEF k, b
<1>8. \A c \in Block : c \in k.open <=> OpenAt(r, c.index, c.kind)
  BY <1>4, <1>6 DEF OpenAIIn, Remembers
<1>9. \A c \in Blocks(k) : c.index < r.next  BY <1>1, <1>3, <1>5, <1>7 DEF Remembers
<1>10. \A c, d \in k.open : c.index = d.index => c = d
  <2>1. \A c \in p.reading.open : c.index # p.next  BY <1>1, <1>7 DEF Blocks
  <2>2. \A c, d \in p.reading.open : c.index = d.index => c = d  BY DEF OpenAIIn
  <2>. QED  BY <1>3, <1>4, <2>1, <2>2
<1>11. HasTool(k) <=> HasTool(p.reading) \/ kind = "tool"  BY <1>3, <1>5 DEF HasTool
<1>12. r.saw <=> HasTool(k)  BY <1>11 DEF OpenAIIn, Remembers
<1>. QED  BY <1>2, <1>4, <1>8, <1>9, <1>10, <1>12 DEF OpenAIIn, Remembers

\* What it has on record beside the open thinking and text.
Beside(p, q) ==
  /\ q.begun = p.begun /\ q.calls = p.calls /\ q.at = p.at /\ q.saw = p.saw
  /\ q.stopped = p.stopped /\ q.finish = p.finish

LEMMA ThinkingStopped ==
  ASSUME NEW p, OpenAIIn(p), p.begun
  PROVE  LET q == stopThinkingContentBlock(p)
         IN  /\ OpenAIIn(q) /\ Beside(p, q) /\ q.thinking = NoBlock /\ q.text = p.text
             /\ q.next = p.next
<1>. DEFINE k == Read(p.reading, StopBlock(p.thinking))
            q == [p EXCEPT !.reading = k, !.thinking = NoBlock]
<1>1. p \in OpenAIState  BY DEF OpenAIIn
<1>2. CASE p.thinking = NoBlock  BY <1>2 DEF stopThinkingContentBlock, Beside
<1>3. CASE p.thinking # NoBlock
  <2>0. p.thinking \in Nat  BY <1>1, <1>3 DEF OpenAIState, Place
  <2>. DEFINE i == p.thinking
  <2>1. i \in Nat /\ "thinking" \in Kinds /\ OpenAt(p, i, "thinking")
    BY <2>0 DEF Kinds, OpenAt
  <2>2. k \in Placed
    <3>. HIDE DEF i
    <3>1. Read(p.reading, StopBlock(i)) \in Placed  BY <2>1, OpenAIStopPlaced
    <3>. QED  BY <3>1 DEF i
  <2>3. stopThinkingContentBlock(p) = q
    BY <1>1, <1>3 DEF stopThinkingContentBlock, Emit, OpenAIState
  <2>4. k = Read(p.reading, StopBlock(p.thinking))  OBVIOUS
  <2>. HIDE DEF k
  <2>5. NoBlock \in Place /\ NoBlock \notin Nat  BY DEF Place, NoBlock
  <2>6. /\ q \in OpenAIState /\ q.reading = k /\ q.begun = p.begun /\ q.told = p.told
        /\ q.over = p.over /\ q.next = p.next /\ q.saw = p.saw /\ q.at = p.at
        /\ q.thinking = NoBlock /\ q.text = p.text /\ Beside(p, q)
    BY <1>1, <2>2, <2>5 DEF OpenAIState, Beside
  <2>. HIDE DEF q
  <2>7. \A c \in Block : OpenAt(q, c.index, c.kind) <=>
          OpenAt(p, c.index, c.kind) /\ ~(c.index = p.thinking /\ c.kind = "thinking")
    <3>1. \A c \in Block : c.index # NoBlock  BY <2>5 DEF Block
    <3>. QED  BY <2>6, <3>1 DEF OpenAt
  <2>8. Apart(q)
    <3>1. Apart(p) /\ q.at = p.at  BY <2>6 DEF OpenAIIn
    <3>. QED  BY <3>1 DEF Apart
  <2>9. Forgets(p, q, i, "thinking")  BY <2>4, <2>6, <2>7, <2>8 DEF Forgets
  <2>10. OpenAIIn(q)
    <3>. HIDE DEF i
    <3>. QED  BY <2>1, <2>9, OpenAIStopped
  <2>. QED  BY <2>3, <2>6, <2>10
<1>. QED  BY <1>2, <1>3

LEMMA TextStopped ==
  ASSUME NEW p, OpenAIIn(p), p.begun
  PROVE  LET q == stopTextContentBlock(p)
         IN  /\ OpenAIIn(q) /\ Beside(p, q) /\ q.text = NoBlock /\ q.thinking = p.thinking
             /\ q.next = p.next
<1>. DEFINE k == Read(p.reading, StopBlock(p.text))
            q == [p EXCEPT !.reading = k, !.text = NoBlock]
<1>1. p \in OpenAIState  BY DEF OpenAIIn
<1>2. CASE p.text = NoBlock  BY <1>2 DEF stopTextContentBlock, Beside
<1>3. CASE p.text # NoBlock
  <2>0. p.text \in Nat  BY <1>1, <1>3 DEF OpenAIState, Place
  <2>. DEFINE i == p.text
  <2>1. i \in Nat /\ "text" \in Kinds /\ OpenAt(p, i, "text")
    BY <2>0 DEF Kinds, OpenAt
  <2>2. k \in Placed
    <3>. HIDE DEF i
    <3>1. Read(p.reading, StopBlock(i)) \in Placed  BY <2>1, OpenAIStopPlaced
    <3>. QED  BY <3>1 DEF i
  <2>3. stopTextContentBlock(p) = q
    BY <1>1, <1>3 DEF stopTextContentBlock, Emit, OpenAIState
  <2>4. k = Read(p.reading, StopBlock(p.text))  OBVIOUS
  <2>. HIDE DEF k
  <2>5. NoBlock \in Place /\ NoBlock \notin Nat  BY DEF Place, NoBlock
  <2>6. /\ q \in OpenAIState /\ q.reading = k /\ q.begun = p.begun /\ q.told = p.told
        /\ q.over = p.over /\ q.next = p.next /\ q.saw = p.saw /\ q.at = p.at
        /\ q.text = NoBlock /\ q.thinking = p.thinking /\ Beside(p, q)
    BY <1>1, <2>2, <2>5 DEF OpenAIState, Beside
  <2>. HIDE DEF q
  <2>7. \A c \in Block : OpenAt(q, c.index, c.kind) <=>
          OpenAt(p, c.index, c.kind) /\ ~(c.index = p.text /\ c.kind = "text")
    <3>1. \A c \in Block : c.index # NoBlock  BY <2>5 DEF Block
    <3>. QED  BY <2>6, <3>1 DEF OpenAt
  <2>8. Apart(q)
    <3>1. Apart(p) /\ q.at = p.at  BY <2>6 DEF OpenAIIn
    <3>. QED  BY <3>1 DEF Apart
  <2>9. Forgets(p, q, i, "text")  BY <2>4, <2>6, <2>7, <2>8 DEF Forgets
  <2>10. OpenAIIn(q)
    <3>. HIDE DEF i
    <3>. QED  BY <2>1, <2>9, OpenAIStopped
  <2>. QED  BY <2>3, <2>6, <2>10
<1>. QED  BY <1>2, <1>3

LEMMA ThinkingStarted ==
  ASSUME NEW p, OpenAIIn(p), p.begun, p.thinking = NoBlock
  PROVE  LET q == [Emit(p, StartBlock(p.next, "thinking")) EXCEPT !.thinking = p.next, !.next = @ + 1]
         IN  OpenAIIn(q) /\ Beside(p, q) /\ q.thinking \in Nat
<1>. DEFINE k == Read(p.reading, StartBlock(p.next, "thinking"))
            n == p.next + 1
            q == [p EXCEPT !.reading = k, !.thinking = p.next, !.next = n]
<1>1. p \in OpenAIState /\ p.next \in Nat /\ "thinking" \in Kinds
  BY DEF OpenAIIn, OpenAIState, Kinds
<1>2. k \in Placed
  <2>. DEFINE l == [p.reading EXCEPT !.open = @ \cup {At(p.next, "thinking")}]
  <2>1. k = l /\ l \in Placed  BY <1>1, OpenAIStartRead
  <2>. HIDE DEF l
  <2>. QED  BY <2>1
<1>3. [Emit(p, StartBlock(p.next, "thinking")) EXCEPT !.thinking = p.next, !.next = @ + 1] = q
  BY <1>1 DEF Emit, OpenAIState
<1>4. k = Read(p.reading, StartBlock(p.next, "thinking")) /\ n = p.next + 1 /\ n \in Nat
  BY <1>1
<1>. HIDE DEF k, n
<1>5. p.next \in Place  BY <1>1 DEF Place
<1>6. /\ q \in OpenAIState /\ q.reading = k /\ q.begun = p.begun /\ q.told = p.told
      /\ q.over = p.over /\ q.next = n /\ q.saw = p.saw /\ q.at = p.at
      /\ q.thinking = p.next /\ q.text = p.text /\ Beside(p, q)
  BY <1>1, <1>2, <1>4, <1>5 DEF OpenAIState, Beside
<1>. HIDE DEF q
<1>7. \A c \in Block : OpenAt(q, c.index, c.kind) <=>
        OpenAt(p, c.index, c.kind) \/ (c.index = p.next /\ c.kind = "thinking")
  <2>1. \A c \in Block : c.index # NoBlock  BY DEF Block, NoBlock
  <2>. QED  BY <1>6, <2>1 DEF OpenAt
<1>8. Apart(q)
  <2>1. Apart(p) /\ q.at = p.at  BY <1>6 DEF OpenAIIn
  <2>. QED  BY <2>1 DEF Apart
<1>9. Remembers(p, q, "thinking")  BY <1>4, <1>6, <1>7, <1>8 DEF Remembers
<1>10. OpenAIIn(q)  BY <1>1, <1>9, OpenAIStarted
<1>. QED  BY <1>1, <1>3, <1>6, <1>10

LEMMA TextStarted ==
  ASSUME NEW p, OpenAIIn(p), p.begun, p.text = NoBlock
  PROVE  LET q == [Emit(p, StartBlock(p.next, "text")) EXCEPT !.text = p.next, !.next = @ + 1]
         IN  OpenAIIn(q) /\ Beside(p, q) /\ q.text \in Nat
<1>. DEFINE k == Read(p.reading, StartBlock(p.next, "text"))
            n == p.next + 1
            q == [p EXCEPT !.reading = k, !.text = p.next, !.next = n]
<1>1. p \in OpenAIState /\ p.next \in Nat /\ "text" \in Kinds
  BY DEF OpenAIIn, OpenAIState, Kinds
<1>2. k \in Placed
  <2>. DEFINE l == [p.reading EXCEPT !.open = @ \cup {At(p.next, "text")}]
  <2>1. k = l /\ l \in Placed  BY <1>1, OpenAIStartRead
  <2>. HIDE DEF l
  <2>. QED  BY <2>1
<1>3. [Emit(p, StartBlock(p.next, "text")) EXCEPT !.text = p.next, !.next = @ + 1] = q
  BY <1>1 DEF Emit, OpenAIState
<1>4. k = Read(p.reading, StartBlock(p.next, "text")) /\ n = p.next + 1 /\ n \in Nat
  BY <1>1
<1>. HIDE DEF k, n
<1>5. p.next \in Place  BY <1>1 DEF Place
<1>6. /\ q \in OpenAIState /\ q.reading = k /\ q.begun = p.begun /\ q.told = p.told
      /\ q.over = p.over /\ q.next = n /\ q.saw = p.saw /\ q.at = p.at
      /\ q.text = p.next /\ q.thinking = p.thinking /\ Beside(p, q)
  BY <1>1, <1>2, <1>4, <1>5 DEF OpenAIState, Beside
<1>. HIDE DEF q
<1>7. \A c \in Block : OpenAt(q, c.index, c.kind) <=>
        OpenAt(p, c.index, c.kind) \/ (c.index = p.next /\ c.kind = "text")
  <2>1. \A c \in Block : c.index # NoBlock  BY DEF Block, NoBlock
  <2>. QED  BY <1>6, <2>1 DEF OpenAt
<1>8. Apart(q)
  <2>1. Apart(p) /\ q.at = p.at  BY <1>6 DEF OpenAIIn
  <2>. QED  BY <2>1 DEF Apart
<1>9. Remembers(p, q, "text")  BY <1>4, <1>6, <1>7, <1>8 DEF Remembers
<1>10. OpenAIIn(q)  BY <1>1, <1>9, OpenAIStarted
<1>. QED  BY <1>1, <1>3, <1>6, <1>10

LEMMA ReasoningHandled ==
  ASSUME NEW p, OpenAIIn(p), p.begun
  PROVE  OpenAIIn(HandleReasoning(p)) /\ Beside(p, HandleReasoning(p))
<1>. DEFINE q == stopTextContentBlock(p)
            r == [Emit(q, StartBlock(q.next, "thinking")) EXCEPT !.thinking = q.next, !.next = @ + 1]
            s == IF q.thinking # NoBlock THEN q ELSE r
<1>1. OpenAIIn(q) /\ Beside(p, q) /\ q.begun  BY TextStopped DEF Beside
<1>. HIDE DEF q
<1>2. OpenAIIn(s) /\ Beside(q, s) /\ s.thinking \in Nat
  <2>1. CASE q.thinking # NoBlock  BY <1>1, <2>1 DEF OpenAIIn, OpenAIState, Place, Beside
  <2>2. CASE q.thinking = NoBlock
    <3>1. OpenAIIn(r) /\ Beside(q, r) /\ r.thinking \in Nat  BY <1>1, <2>2, ThinkingStarted
    <3>. HIDE DEF r
    <3>. QED  BY <2>2, <3>1
  <2>. HIDE DEF s
  <2>. QED  BY <2>1, <2>2
<1>3. HandleReasoning(p) = Emit(s, DeltaTo(s.thinking, "thinking"))  BY DEF HandleReasoning, q
<1>. HIDE DEF s
<1>4. s.begun /\ OpenAt(s, s.thinking, "thinking") /\ "thinking" \in Kinds
  BY <1>1, <1>2 DEF Beside, OpenAt, Kinds
<1>5. Emit(s, DeltaTo(s.thinking, "thinking")) = s  BY <1>2, <1>4, OpenAIDelta
<1>6. Beside(p, s)  BY <1>1, <1>2 DEF Beside
<1>. QED  BY <1>2, <1>3, <1>5, <1>6

LEMMA ContentHandled ==
  ASSUME NEW p, OpenAIIn(p), p.begun
  PROVE  OpenAIIn(HandleContent(p)) /\ Beside(p, HandleContent(p))
<1>. DEFINE q == stopThinkingContentBlock(p)
            r == [Emit(q, StartBlock(q.next, "text")) EXCEPT !.text = q.next, !.next = @ + 1]
            s == IF p.text # NoBlock THEN p ELSE r
<1>1. OpenAIIn(q) /\ Beside(p, q) /\ q.begun /\ q.text = p.text
  BY ThinkingStopped DEF Beside
<1>. HIDE DEF q
<1>2. OpenAIIn(s) /\ Beside(p, s) /\ s.text \in Nat
  <2>1. CASE p.text # NoBlock  BY <2>1 DEF OpenAIIn, OpenAIState, Place, Beside
  <2>2. CASE p.text = NoBlock
    <3>1. OpenAIIn(r) /\ Beside(q, r) /\ r.text \in Nat  BY <1>1, <2>2, TextStarted
    <3>. HIDE DEF r
    <3>2. Beside(p, r)  BY <1>1, <3>1 DEF Beside
    <3>. QED  BY <2>2, <3>1, <3>2
  <2>. HIDE DEF s
  <2>. QED  BY <2>1, <2>2
<1>3. HandleContent(p) = Emit(s, DeltaTo(s.text, "text"))  BY DEF HandleContent, q
<1>. HIDE DEF s
<1>4. s.begun /\ OpenAt(s, s.text, "text") /\ "text" \in Kinds
  BY <1>2 DEF Beside, OpenAt, Kinds
<1>5. Emit(s, DeltaTo(s.text, "text")) = s  BY <1>2, <1>4, OpenAIDelta
<1>. QED  BY <1>2, <1>3, <1>5

LEMMA OpenAIBegun ==
  ASSUME NEW p, OpenAIIn(p), ~p.begun
  PROVE  LET q == [Emit(p, MessageStart) EXCEPT !.begun = TRUE]
         IN  /\ OpenAIIn(q) /\ q.begun /\ q.calls = p.calls /\ q.at = p.at
             /\ q.stopped = p.stopped /\ q.finish = p.finish
<1>. DEFINE k == [p.reading EXCEPT !.begun = TRUE]
            q == [p EXCEPT !.reading = k, !.begun = TRUE]
<1>1. p \in OpenAIState /\ p.reading \in Placed /\ ~p.reading.begun /\ ~p.reading.over
  BY DEF OpenAIIn, OpenAIState
<1>2. Read(p.reading, MessageStart) = k /\ k \in Placed  BY <1>1, BeginRead
<1>3. /\ k.begun = TRUE /\ k.reason = p.reading.reason /\ k.over = p.reading.over
      /\ k.open = p.reading.open /\ k.stopped = p.reading.stopped
  BY <1>1 DEF Placed
<1>. HIDE DEF k
<1>4. [Emit(p, MessageStart) EXCEPT !.begun = TRUE] = q  BY <1>1, <1>2 DEF Emit, OpenAIState
<1>5. /\ q \in OpenAIState /\ q.reading = k /\ q.begun = TRUE /\ q.told = p.told
      /\ q.over = p.over /\ q.next = p.next /\ q.saw = p.saw /\ q.at = p.at
      /\ q.thinking = p.thinking /\ q.text = p.text /\ q.calls = p.calls
      /\ q.stopped = p.stopped /\ q.finish = p.finish
  BY <1>1, <1>2 DEF OpenAIState
<1>. HIDE DEF q
<1>6. Blocks(k) = Blocks(p.reading)  BY <1>3 DEF Blocks
<1>7. HasTool(k) <=> HasTool(p.reading)  BY <1>6 DEF HasTool
<1>8. \A c \in Block : c \in k.open <=> OpenAt(q, c.index, c.kind)
  <2>1. \A c \in Block : c \in p.reading.open <=> OpenAt(p, c.index, c.kind)  BY DEF OpenAIIn
  <2>2. \A c \in Block : OpenAt(q, c.index, c.kind) <=> OpenAt(p, c.index, c.kind)
    BY <1>5 DEF OpenAt
  <2>. QED  BY <1>3, <2>1, <2>2
<1>9. Apart(q)
  <2>1. Apart(p) /\ q.at = p.at  BY <1>5 DEF OpenAIIn
  <2>. QED  BY <2>1 DEF Apart
<1>10. \A c, d \in k.open : c.index = d.index => c = d  BY <1>3 DEF OpenAIIn
<1>11. OpenAIIn(q)  BY <1>3, <1>5, <1>6, <1>7, <1>8, <1>9, <1>10 DEF OpenAIIn
<1>. QED  BY <1>4, <1>5, <1>11

-----------------------------------------------------------------------------
(* OpenAI's tool calls.                                                      *)

LEMMA OpenAISame ==
  ASSUME NEW p, OpenAIIn(p), NEW r \in OpenAIState, r.reading = p.reading,
         r.begun = p.begun, r.told = p.told, r.over = p.over, r.next = p.next, r.saw = p.saw,
         r.at = p.at, r.thinking = p.thinking, r.text = p.text
  PROVE  OpenAIIn(r)
<1>1. Apart(r)
  <2>1. Apart(p)  BY DEF OpenAIIn
  <2>. QED  BY <2>1 DEF Apart
<1>2. \A b \in Block : b \in r.reading.open <=> OpenAt(r, b.index, b.kind)
  <2>1. \A b \in Block : b \in p.reading.open <=> OpenAt(p, b.index, b.kind)  BY DEF OpenAIIn
  <2>2. \A b \in Block : OpenAt(r, b.index, b.kind) <=> OpenAt(p, b.index, b.kind)  BY DEF OpenAt
  <2>. QED  BY <2>1, <2>2
<1>3. \A b, c \in r.reading.open : b.index = c.index => b = c  BY DEF OpenAIIn
<1>4. \A b \in Blocks(r.reading) : b.index < r.next  BY DEF OpenAIIn
<1>. QED  BY <1>1, <1>2, <1>3, <1>4 DEF OpenAIIn

\* The fields of a call.
OpenAICall == [id: BOOLEAN, name: BOOLEAN, args: BOOLEAN, started: BOOLEAN]

LEMMA CallIndex ==
  ASSUME NEW p, OpenAIIn(p), NEW i \in Tools, p.at[i] # NoBlock
  PROVE  p.at[i] \in Nat /\ OpenAt(p, p.at[i], "tool") /\ p.at[i] < p.next
<1>1. p.at[i] \in Nat  BY DEF OpenAIIn, OpenAIState, Place
<1>2. OpenAt(p, p.at[i], "tool") /\ "tool" \in Kinds  BY DEF OpenAt, Kinds
<1>3. At(p.at[i], "tool") \in p.reading.open  BY <1>1, <1>2, OpenAIOpen
<1>4. At(p.at[i], "tool").index < p.next  BY <1>3 DEF OpenAIIn, Blocks
<1>. QED  BY <1>1, <1>2, <1>4 DEF At

LEMMA ToolStarted ==
  ASSUME NEW p, OpenAIIn(p), p.begun, NEW i \in Tools, p.at[i] = NoBlock
  PROVE  LET q == emitToolUseStart(p, i)
         IN  /\ OpenAIIn(q) /\ Quiet(q) /\ q.begun /\ q.saw /\ q.stopped = p.stopped
             /\ q.finish = p.finish
             /\ q.calls = [p.calls EXCEPT ![i].started = TRUE]
             /\ q.at[i] \in Nat /\ \A t \in Tools : t # i => q.at[t] = p.at[t]
<1>. DEFINE s == stopTextContentBlock(stopThinkingContentBlock(p))
            k == Read(s.reading, StartBlock(s.next, "tool"))
            n == s.next + 1
            at == [s.at EXCEPT ![i] = s.next]
            calls == [s.calls EXCEPT ![i].started = TRUE]
            q == [s EXCEPT !.reading = k, !.at = at, !.next = n, !.calls = calls, !.saw = TRUE]
<1>1. OpenAIIn(s) /\ Beside(p, s) /\ s.thinking = NoBlock /\ s.text = NoBlock
  <2>. DEFINE l == stopThinkingContentBlock(p)
  <2>1. OpenAIIn(l) /\ Beside(p, l) /\ l.begun /\ l.thinking = NoBlock
    BY ThinkingStopped DEF Beside
  <2>. HIDE DEF l
  <2>2. /\ OpenAIIn(stopTextContentBlock(l)) /\ Beside(l, stopTextContentBlock(l))
        /\ stopTextContentBlock(l).text = NoBlock
        /\ stopTextContentBlock(l).thinking = NoBlock
    BY <2>1, TextStopped
  <2>3. Beside(p, stopTextContentBlock(l))  BY <2>1, <2>2 DEF Beside
  <2>. QED  BY <2>2, <2>3 DEF l
<1>2. emitToolUseStart(p, i) =
        [Emit(s, StartBlock(s.next, "tool")) EXCEPT
           !.at[i] = s.next, !.next = @ + 1, !.calls[i].started = TRUE, !.saw = TRUE]
  BY DEF emitToolUseStart
<1>. HIDE DEF s
<1>3. /\ s \in OpenAIState /\ s.next \in Nat /\ s.begun /\ "tool" \in Kinds
      /\ s.at \in [Tools -> Place] /\ s.calls \in [Tools -> OpenAICall] /\ s.at[i] = NoBlock
  BY <1>1 DEF OpenAIIn, OpenAIState, Kinds, Beside, OpenAICall
<1>4. k \in Placed
  <2>. DEFINE l == [s.reading EXCEPT !.open = @ \cup {At(s.next, "tool")}]
  <2>1. k = l /\ l \in Placed  BY <1>1, <1>3, OpenAIStartRead
  <2>. HIDE DEF l
  <2>. QED  BY <2>1
<1>5. [Emit(s, StartBlock(s.next, "tool")) EXCEPT
         !.at[i] = s.next, !.next = @ + 1, !.calls[i].started = TRUE, !.saw = TRUE] = q
  BY <1>3 DEF Emit, OpenAIState
<1>6. k = Read(s.reading, StartBlock(s.next, "tool")) /\ n = s.next + 1 /\ n \in Nat
  BY <1>3
<1>7. at \in [Tools -> Place] /\ at[i] = s.next /\ \A t \in Tools : t # i => at[t] = s.at[t]
  BY <1>3 DEF Place
<1>8. calls \in [Tools -> OpenAICall]  BY <1>3 DEF OpenAICall
<1>9. calls = [p.calls EXCEPT ![i].started = TRUE]  BY <1>1 DEF Beside
<1>. HIDE DEF k, n, at, calls
<1>10. /\ q \in OpenAIState /\ q.reading = k /\ q.begun = s.begun /\ q.told = s.told
       /\ q.over = s.over /\ q.next = n /\ q.saw = TRUE /\ q.at = at /\ q.calls = calls
       /\ q.thinking = s.thinking /\ q.text = s.text /\ q.stopped = s.stopped
       /\ q.finish = s.finish
  BY <1>3, <1>4, <1>6, <1>7, <1>8 DEF OpenAIState, OpenAICall
<1>. HIDE DEF q
<1>11. \A c \in Block : OpenAt(q, c.index, c.kind) <=>
         OpenAt(s, c.index, c.kind) \/ (c.index = s.next /\ c.kind = "tool")
  <2>1. ASSUME NEW c \in Block
        PROVE  (\E t \in Tools : c.index = at[t]) <=> (\E t \in Tools : c.index = s.at[t]) \/ c.index = s.next
    <3>1. c.index # NoBlock  BY DEF Block, NoBlock
    <3>2. \A t \in Tools : c.index = s.at[t] => t # i  BY <1>3, <3>1
    <3>. QED  BY <1>7, <3>2
  <2>. QED  BY <1>10, <2>1 DEF OpenAt
<1>12. Apart(q)
  <2>. SUFFICES ASSUME NEW t \in Tools, NEW u \in Tools, at[t] = at[u], at[t] # NoBlock
                PROVE  t = u
    BY <1>10 DEF Apart
  <2>1. \A v \in Tools : v # i /\ at[v] # NoBlock => at[v] \in Nat /\ at[v] < s.next
    BY <1>1, <1>7, CallIndex
  <2>2. CASE t = i  BY <1>3, <1>7, <2>1, <2>2
  <2>3. CASE u = i  BY <1>3, <1>7, <2>1, <2>3
  <2>4. CASE t # i /\ u # i
    <3>1. Apart(s)  BY <1>1 DEF OpenAIIn
    <3>. QED  BY <1>7, <2>4, <3>1 DEF Apart
  <2>. QED  BY <2>2, <2>3, <2>4
<1>13. Remembers(s, q, "tool")  BY <1>6, <1>10, <1>11, <1>12 DEF Remembers
<1>14. OpenAIIn(q)  BY <1>1, <1>3, <1>13, OpenAIStarted
<1>15. Quiet(q)  BY <1>1, <1>10 DEF Quiet
<1>. QED  BY ZenonT(60), <1>1, <1>2, <1>3, <1>5, <1>7, <1>9, <1>10, <1>14, <1>15 DEF Beside

LEMMA CallStopped ==
  ASSUME NEW p, OpenAIIn(p), p.begun, NEW i \in Tools, p.at[i] # NoBlock
  PROVE  LET q == [Emit(p, StopBlock(p.at[i])) EXCEPT !.at[i] = NoBlock]
         IN  /\ OpenAIIn(q) /\ q.begun /\ q.saw = p.saw /\ q.stopped = p.stopped
             /\ q.finish = p.finish /\ q.calls = p.calls
             /\ q.thinking = p.thinking /\ q.text = p.text
             /\ q.at[i] = NoBlock /\ \A t \in Tools : t # i => q.at[t] = p.at[t]
<1>. DEFINE j == p.at[i]
            k == Read(p.reading, StopBlock(j))
            at == [p.at EXCEPT ![i] = NoBlock]
            q == [p EXCEPT !.reading = k, !.at = at]
<1>1. p \in OpenAIState /\ "tool" \in Kinds /\ p.at \in [Tools -> Place]
  BY DEF OpenAIIn, OpenAIState, Kinds
<1>2. j \in Nat /\ OpenAt(p, j, "tool")  BY CallIndex
<1>3. [Emit(p, StopBlock(j)) EXCEPT !.at[i] = NoBlock] = q  BY <1>1 DEF Emit, OpenAIState
<1>4. /\ at \in [Tools -> Place] /\ at[i] = NoBlock
      /\ \A t \in Tools : t # i => at[t] = p.at[t]
  BY <1>1 DEF Place
<1>5. Apart(p) /\ j # NoBlock /\ j = p.at[i]  BY DEF OpenAIIn
<1>. HIDE DEF j
<1>6. k \in Placed /\ k = Read(p.reading, StopBlock(j))  BY <1>1, <1>2, OpenAIStopPlaced
<1>. HIDE DEF k, at
<1>7. /\ q \in OpenAIState /\ q.reading = k /\ q.begun = p.begun /\ q.told = p.told
      /\ q.over = p.over /\ q.next = p.next /\ q.saw = p.saw /\ q.at = at /\ q.calls = p.calls
      /\ q.thinking = p.thinking /\ q.text = p.text /\ q.stopped = p.stopped
      /\ q.finish = p.finish
  BY <1>1, <1>4, <1>6 DEF OpenAIState
<1>. HIDE DEF q
<1>8. \A c \in Block : OpenAt(q, c.index, c.kind) <=>
        OpenAt(p, c.index, c.kind) /\ ~(c.index = j /\ c.kind = "tool")
  <2>1. ASSUME NEW c \in Block
        PROVE  (\E t \in Tools : c.index = at[t]) <=> (\E t \in Tools : c.index = p.at[t]) /\ c.index # j
    <3>1. c.index # NoBlock  BY DEF Block, NoBlock
    <3>2. \A t \in Tools : c.index = at[t] => t # i  BY <1>4, <3>1
    <3>3. \A t \in Tools : t # i => p.at[t] # j  BY <1>5 DEF Apart
    <3>. QED  BY <1>4, <1>5, <3>2, <3>3
  <2>. QED  BY <1>7, <2>1 DEF OpenAt
<1>9. Apart(q)
  <2>1. \A t \in Tools : at[t] # NoBlock => t # i /\ at[t] = p.at[t]  BY <1>4
  <2>. QED  BY <1>5, <1>7, <2>1 DEF Apart
<1>10. Forgets(p, q, j, "tool")  BY <1>6, <1>7, <1>8, <1>9 DEF Forgets
<1>11. OpenAIIn(q)  BY <1>1, <1>2, <1>10, OpenAIStopped
<1>. QED  BY <1>3, <1>4, <1>7, <1>11 DEF j

LEMMA CallHandled ==
  ASSUME NEW p, OpenAISays(p), p.begun, NEW c \in Piece
  PROVE  LET q == HandleToolCall(p, c)
         IN  OpenAISays(q) /\ q.begun /\ q.finish = p.finish
<1>. DEFINE i == c.index
            call == [p.calls[i] EXCEPT !.id = @ \/ c.id, !.name = @ \/ c.name, !.args = @ \/ c.args]
            calls == [p.calls EXCEPT ![i] = call]
            q == [p EXCEPT !.calls = calls]
            r == emitToolUseStart(q, i)
<1>1. /\ p \in OpenAIState /\ OpenAIIn(p) /\ i \in Tools /\ p.calls \in [Tools -> OpenAICall]
      /\ StoppedTo(p, 0) /\ ~p.stopped
  BY DEF OpenAISays, OpenAIIn, OpenAIState, Piece, OpenAICall
<1>2. [p EXCEPT !.calls[c.index].id = @ \/ c.id, !.calls[c.index].name = @ \/ c.name,
                !.calls[c.index].args = @ \/ c.args] = q
  <2>. DEFINE c1 == [p.calls[i] EXCEPT !.id = @ \/ c.id]
              c2 == [c1 EXCEPT !.name = p.calls[i].name \/ c.name]
              c3 == [c2 EXCEPT !.args = p.calls[i].args \/ c.args]
              m1 == [p.calls EXCEPT ![i] = c1]
              m2 == [m1 EXCEPT ![i] = c2]
              m3 == [m2 EXCEPT ![i] = c3]
              p1 == [p EXCEPT !.calls = m1]
              p2 == [p1 EXCEPT !.calls = m2]
              p3 == [p2 EXCEPT !.calls = m3]
  <2>1. c3 = call  BY <1>1 DEF OpenAICall
  <2>. HIDE DEF c1, c2, c3, call
  <2>2. m1[i] = c1 /\ m2[i] = c2 /\ m3 = [p.calls EXCEPT ![i] = c3]  BY <1>1
  <2>3. m3 = calls  BY <2>1, <2>2
  <2>. HIDE DEF m1, m2, m3, calls
  <2>4. p1.calls = m1 /\ p2.calls = m2 /\ p3 = [p EXCEPT !.calls = m3]  BY <1>1 DEF OpenAIState
  <2>5. p3 = q  BY <2>3, <2>4
  <2>. HIDE DEF p1, p2, p3, q
  <2>6. [p EXCEPT !.calls[c.index].id = @ \/ c.id] = p1  BY DEF p1, m1, c1
  <2>7. [p1 EXCEPT !.calls[c.index].name = p.calls[i].name \/ c.name] = p2  BY <2>2, <2>4 DEF p2, m2, c2
  <2>8. [p2 EXCEPT !.calls[c.index].args = p.calls[i].args \/ c.args] = p3  BY <2>2, <2>4 DEF p3, m3, c3
  <2>. QED  BY <2>5, <2>6, <2>7, <2>8
<1>3. call \in OpenAICall /\ call.started = p.calls[i].started
  <2>1. p.calls[i] \in OpenAICall  BY <1>1
  <2>2. /\ (p.calls[i].id \/ c.id) \in BOOLEAN /\ (p.calls[i].name \/ c.name) \in BOOLEAN
        /\ (p.calls[i].args \/ c.args) \in BOOLEAN
    OBVIOUS
  <2>. QED  BY <2>1, <2>2 DEF OpenAICall
<1>. HIDE DEF call
<1>4. /\ calls \in [Tools -> OpenAICall]
      /\ \A t \in Tools : calls[t].started = p.calls[t].started
  BY <1>1, <1>3
<1>. HIDE DEF calls
<1>5. /\ q \in OpenAIState /\ q.reading = p.reading /\ q.begun = p.begun /\ q.told = p.told
      /\ q.over = p.over /\ q.next = p.next /\ q.saw = p.saw /\ q.at = p.at /\ q.calls = calls
      /\ q.thinking = p.thinking /\ q.text = p.text /\ q.stopped = p.stopped
      /\ q.finish = p.finish
  BY <1>1, <1>4 DEF OpenAIState, OpenAICall
<1>. HIDE DEF q
<1>6. OpenAIIn(q)  BY <1>1, <1>5, OpenAISame
<1>7. StoppedTo(q, 0)  BY <1>1, <1>4, <1>5 DEF StoppedTo, Tools
<1>8. OpenAISays(q)  BY <1>1, <1>5, <1>6, <1>7 DEF OpenAISays
<1>9. CASE ~q.calls[i].started
  <2>1. q.at[i] = NoBlock /\ \A t \in Tools : q.calls[t].started <=> q.at[t] # NoBlock
    BY <1>1, <1>7, <1>9 DEF StoppedTo, Tools
  <2>2. /\ OpenAIIn(r) /\ r.begun /\ r.stopped = q.stopped /\ r.finish = q.finish
        /\ r.calls = [q.calls EXCEPT ![i].started = TRUE]
        /\ r.at[i] \in Nat /\ \A t \in Tools : t # i => r.at[t] = q.at[t]
    BY ZenonT(60), <1>1, <1>5, <1>6, <2>1, ToolStarted
  <2>. HIDE DEF r
  <2>3. r.calls[i].started /\ \A t \in Tools : t # i => r.calls[t] = q.calls[t]
    BY <1>1, <1>4, <1>5, <2>2 DEF OpenAICall
  <2>4. r.at[i] # NoBlock  BY <2>2 DEF NoBlock
  <2>5. \A t \in Tools : r.calls[t].started <=> r.at[t] # NoBlock  BY <2>1, <2>2, <2>3, <2>4
  <2>6. StoppedTo(r, 0)  BY <2>5 DEF StoppedTo, Tools
  <2>7. OpenAISays(r)  BY <1>1, <1>5, <2>2, <2>6 DEF OpenAISays
  <2>. QED  BY <1>2, <1>5, <1>8, <2>2, <2>7 DEF HandleToolCall, r
<1>10. CASE q.calls[i].started  BY <1>2, <1>5, <1>8, <1>10 DEF HandleToolCall
<1>. QED  BY <1>9, <1>10

\* What a loop over the calls of a chunk keeps.
Saying == {q \in OpenAIState : OpenAISays(q) /\ q.begun /\ q.finish = ""}

LEMMA CallsHandled ==
  ASSUME NEW p \in Saying, NEW calls \in Seq(Piece)
  PROVE  Trail(HandleToolCall, p, calls)[Len(calls)] \in Saying
<1>. DEFINE n == Len(calls)
            f == CallsPath(p, calls)
            S == [k \in 0..n |-> Saying]
<1>1. n \in Nat /\ \A i \in 1..n : calls[i] \in Piece  OBVIOUS
<1>2. ASSUME NEW q \in Saying, NEW c \in Piece  PROVE HandleToolCall(q, c) \in Saying
  <2>1. OpenAISays(q) /\ q.begun /\ q.finish = ""  BY DEF Saying
  <2>2. /\ OpenAISays(HandleToolCall(q, c)) /\ HandleToolCall(q, c).begun
        /\ HandleToolCall(q, c).finish = ""
    BY <2>1, CallHandled
  <2>. QED  BY <2>2 DEF Saying, OpenAISays, OpenAIIn
<1>3. f[0] = p /\ \A k \in 1..n : f[k] = HandleToolCall(f[k - 1], calls[k])
  <2>1. \A q \in Saying, k \in 1..n : HandleToolCall(q, calls[k]) \in Saying
    BY <1>1, <1>2
  <2>2. n = Len(calls)  OBVIOUS
  <2>. HIDE DEF n
  <2>. QED  BY <1>1, <2>1, <2>2, CallsTrail
<1>. HIDE DEF f
<1>4. f[0] \in S[0]  BY <1>1, <1>3
<1>5. ASSUME NEW k \in 1..n, f[k - 1] \in S[k - 1]  PROVE f[k] \in S[k]
  <2>1. k - 1 \in 0..n /\ k \in 0..n  BY <1>1
  <2>2. f[k - 1] \in Saying  BY <1>5, <2>1
  <2>3. f[k] = HandleToolCall(f[k - 1], calls[k]) /\ calls[k] \in Piece  BY <1>1, <1>3
  <2>4. f[k] \in Saying  BY <1>2, <2>2, <2>3
  <2>. QED  BY <2>1, <2>4
<1>6. f[n] \in S[n]
  <2>. HIDE DEF S, n
  <2>1. \A k \in 0..n : f[k] \in S[k]  BY <1>1, <1>4, <1>5, StepByStep
  <2>. QED  BY <1>1, <2>1
<1>. QED  BY <1>1, <1>6 DEF f, CallsPath

\* The calls before the k-th are stopped.
Stopping(k, reason) ==
  {q \in OpenAIState : /\ OpenAIIn(q) /\ q.begun /\ ~q.stopped /\ Quiet(q) /\ StoppedTo(q, k)
                       /\ q.finish = reason /\ (reason = "tool_calls" => q.saw)}

LEMMA CallEnded ==
  ASSUME NEW i \in Tools, NEW reason, NEW p \in Stopping(i, reason)
  PROVE  StopToolCall(p, i) \in Stopping(i + 1, reason)
<1>. DEFINE s == IF p.calls[i].started THEN p ELSE emitToolUseStart(p, i)
            d == IF s.calls[i].args THEN Emit(s, DeltaTo(s.at[i], "tool")) ELSE s
            q == [Emit(s, StopBlock(s.at[i])) EXCEPT !.at[i] = NoBlock]
<1>1. /\ p \in OpenAIState /\ OpenAIIn(p) /\ p.begun /\ ~p.stopped /\ Quiet(p) /\ StoppedTo(p, i)
      /\ p.finish = reason /\ (reason = "tool_calls" => p.saw)
  BY DEF Stopping
<1>2. /\ i \in Int /\ \A t \in Tools : t \in Int
      /\ \A t \in Tools : t < i => p.at[t] = NoBlock
      /\ \A t \in Tools : ~(t < i) => (p.calls[t].started <=> p.at[t] # NoBlock)
  BY <1>1, CallsAssumption DEF StoppedTo, Tools
<1>3. CASE ~p.calls[i].started /\ ~p.calls[i].name
  <2>1. StopToolCall(p, i) = p  BY <1>3 DEF StopToolCall
  <2>2. p.at[i] = NoBlock
    <3>1. ~(i < i)  BY <1>2
    <3>. QED  BY <1>2, <1>3, <3>1
  <2>3. ASSUME NEW t \in Tools
        PROVE  IF t < i + 1 THEN p.at[t] = NoBlock
               ELSE p.calls[t].started <=> p.at[t] # NoBlock
    <3>1. CASE t < i + 1
      <4>1. t = i \/ t < i  BY <1>2, <3>1
      <4>. QED  BY <1>2, <2>2, <3>1, <4>1
    <3>2. CASE ~(t < i + 1)
      <4>1. ~(t < i)  BY <1>2, <3>2
      <4>. QED  BY <1>2, <3>2, <4>1
    <3>. QED  BY <3>1, <3>2
  <2>4. StoppedTo(p, i + 1)  BY <2>3 DEF StoppedTo
  <2>. QED  BY <1>1, <2>1, <2>4 DEF Stopping
<1>4. CASE p.calls[i].started \/ p.calls[i].name
  <2>1. /\ OpenAIIn(s) /\ Quiet(s) /\ s.begun /\ (p.saw => s.saw) /\ s.stopped = p.stopped
        /\ s.finish = p.finish /\ s.at[i] # NoBlock
        /\ \A t \in Tools : t # i => s.at[t] = p.at[t]
        /\ \A t \in Tools : t # i => s.calls[t] = p.calls[t]
    <3>1. CASE p.calls[i].started  BY <1>1, <1>2, <3>1
    <3>2. CASE ~p.calls[i].started
      <4>. DEFINE r == emitToolUseStart(p, i)
      <4>1. p.at[i] = NoBlock  BY <1>2, <3>2
      <4>2. /\ OpenAIIn(r) /\ Quiet(r) /\ r.begun /\ r.saw /\ r.stopped = p.stopped
            /\ r.finish = p.finish
            /\ r.calls = [p.calls EXCEPT ![i].started = TRUE]
            /\ r.at[i] \in Nat /\ \A t \in Tools : t # i => r.at[t] = p.at[t]
        BY <1>1, <4>1, ToolStarted
      <4>. HIDE DEF r
      <4>3. \A t \in Tools : t # i => r.calls[t] = p.calls[t]
        BY <1>1, <4>2 DEF OpenAIState
      <4>4. r.at[i] # NoBlock  BY <4>2 DEF NoBlock
      <4>5. s = r  BY <3>2 DEF r
      <4>. QED  BY <4>2, <4>3, <4>4, <4>5
    <3>. QED  BY <3>1, <3>2
  <2>2. StopToolCall(p, i) = [Emit(d, StopBlock(s.at[i])) EXCEPT !.at[i] = NoBlock]
    BY <1>4 DEF StopToolCall
  <2>. HIDE DEF s
  <2>3. s.at[i] \in Nat /\ OpenAt(s, s.at[i], "tool") /\ "tool" \in Kinds
    BY <2>1, CallIndex DEF Kinds
  <2>4. d = s  BY <2>1, <2>3, OpenAIDelta
  <2>5. StopToolCall(p, i) = q  BY <2>2, <2>4
  <2>6. /\ OpenAIIn(q) /\ q.begun /\ q.saw = s.saw /\ q.stopped = s.stopped
        /\ q.finish = s.finish /\ q.calls = s.calls
        /\ q.thinking = s.thinking /\ q.text = s.text
        /\ q.at[i] = NoBlock /\ \A t \in Tools : t # i => q.at[t] = s.at[t]
    BY <2>1, CallStopped
  <2>. HIDE DEF q
  <2>7. StoppedTo(q, i + 1)
    <3>1. \A t \in Tools : t < i + 1 => q.at[t] = NoBlock  BY <1>2, <2>1, <2>6
    <3>2. \A t \in Tools : ~(t < i + 1) => (q.calls[t].started <=> q.at[t] # NoBlock)
      BY <1>2, <2>1, <2>6
    <3>. QED  BY <3>1, <3>2 DEF StoppedTo
  <2>8. Quiet(q)  BY <2>1, <2>6 DEF Quiet
  <2>9. q \in OpenAIState  BY <2>6 DEF OpenAIIn
  <2>. QED  BY <1>1, <2>1, <2>5, <2>6, <2>7, <2>8, <2>9 DEF Stopping
<1>. QED  BY <1>3, <1>4

\* However many calls there were, every block is stopped at the end.
LEMMA EverythingStopped ==
  ASSUME NEW p, OpenAISays(p), p.begun, p.finish = "tool_calls" => p.saw
  PROVE  OpenAIStops(StopEverything(p)) /\ StopEverything(p).finish = p.finish
<1>. DEFINE s == stopTextContentBlock(stopThinkingContentBlock(p))
            parts == [n \in 1..Calls |-> n - 1]
            f == StopPath(s, parts)
            reason == p.finish
            S == [k \in 0..Calls |-> Stopping(k, reason)]
            e == f[Calls]
            q == [e EXCEPT !.stopped = TRUE]
<1>1. OpenAIIn(p) /\ StoppedTo(p, 0) /\ ~p.stopped  BY DEF OpenAISays
<1>2. OpenAIIn(s) /\ Beside(p, s) /\ Quiet(s)
  <2>. DEFINE l == stopThinkingContentBlock(p)
  <2>1. OpenAIIn(l) /\ Beside(p, l) /\ l.begun /\ l.thinking = NoBlock
    BY <1>1, ThinkingStopped DEF Beside
  <2>. HIDE DEF l
  <2>2. /\ OpenAIIn(stopTextContentBlock(l)) /\ Beside(l, stopTextContentBlock(l))
        /\ stopTextContentBlock(l).text = NoBlock
        /\ stopTextContentBlock(l).thinking = NoBlock
    BY <2>1, TextStopped
  <2>3. Beside(p, stopTextContentBlock(l))  BY <2>1, <2>2 DEF Beside
  <2>. QED  BY <2>2, <2>3 DEF l, Quiet
<1>3. StopEverything(p) =
        IF s.stopped THEN s ELSE [Trail(StopToolCall, s, parts)[Calls] EXCEPT !.stopped = TRUE]
  BY DEF StopEverything
<1>. HIDE DEF s
<1>4. s \in Stopping(0, reason)
  <2>1. StoppedTo(s, 0)  BY <1>1, <1>2 DEF StoppedTo, Beside
  <2>. QED  BY <1>1, <1>2, <2>1 DEF Stopping, Beside, OpenAIIn
<1>5. Len(parts) = Calls /\ Calls \in Nat /\ \A k \in 1..Calls : parts[k] = k - 1 /\ k - 1 \in Tools
  BY CallsAssumption DEF Tools
<1>. HIDE DEF parts
<1>6. f[0] = s /\ \A k \in 1..Calls : f[k] = StopToolCall(f[k - 1], parts[k])
  <2>1. Calls = Len(parts) /\ Calls \in Nat  BY <1>5
  <2>. QED  BY <2>1, StopTrail
<1>7. f = Trail(StopToolCall, s, parts)  BY DEF StopPath
<1>. HIDE DEF f, reason
<1>8. f[0] \in S[0]  BY <1>4, <1>5, <1>6
<1>9. ASSUME NEW k \in 1..Calls, f[k - 1] \in S[k - 1]  PROVE f[k] \in S[k]
  <2>1. k - 1 \in 0..Calls /\ k \in 0..Calls /\ k = (k - 1) + 1 /\ k - 1 \in Tools  BY Places
  <2>2. f[k - 1] \in Stopping(k - 1, reason)  BY <1>9, <2>1
  <2>3. f[k] = StopToolCall(f[k - 1], k - 1)  BY <1>5, <1>6
  <2>. DEFINE i == k - 1
  <2>4. StopToolCall(f[i], i) \in Stopping(i + 1, reason)
    <3>1. i \in Tools /\ f[i] \in Stopping(i, reason)  BY <2>1, <2>2
    <3>. HIDE DEF i
    <3>. QED  BY <3>1, CallEnded
  <2>5. f[k] \in Stopping(k, reason)  BY <2>1, <2>3, <2>4
  <2>. QED  BY <2>1, <2>5
<1>10. e \in Stopping(Calls, reason)
  <2>1. Calls \in 0..Calls  BY <1>5
  <2>2. f[Calls] \in S[Calls]
    <3>. HIDE DEF S
    <3>1. \A k \in 0..Calls : f[k] \in S[k]  BY <1>5, <1>8, <1>9, StepByStep
    <3>. QED  BY <2>1, <3>1
  <2>. QED  BY <2>1, <2>2
<1>11. StopEverything(p) = q  BY <1>1, <1>2, <1>3, <1>7 DEF Beside
<1>. HIDE DEF e
<1>12. /\ e \in OpenAIState /\ OpenAIIn(e) /\ e.begun /\ Quiet(e) /\ StoppedTo(e, Calls)
       /\ e.finish = reason /\ (reason = "tool_calls" => e.saw)
  BY <1>10 DEF Stopping
<1>13. /\ q \in OpenAIState /\ q.reading = e.reading /\ q.begun = e.begun /\ q.told = e.told
       /\ q.over = e.over /\ q.next = e.next /\ q.saw = e.saw /\ q.at = e.at
       /\ q.calls = e.calls /\ q.thinking = e.thinking /\ q.text = e.text
       /\ q.stopped = TRUE /\ q.finish = e.finish
  BY <1>12 DEF OpenAIState
<1>. HIDE DEF q
<1>14. OpenAIIn(q)  BY <1>12, <1>13, OpenAISame
<1>15. StoppedTo(q, Calls) /\ Quiet(q)  BY <1>12, <1>13 DEF StoppedTo, Quiet
<1>. QED  BY <1>11, <1>12, <1>13, <1>14, <1>15 DEF OpenAIStops, reason

LEMMA NothingToStop ==
  ASSUME NEW p, Quiet(p), p.stopped
  PROVE  StopEverything(p) = p
BY DEF Quiet, StopEverything, stopTextContentBlock, stopThinkingContentBlock

LEMMA FinishHandled ==
  ASSUME NEW p \in Saying, NEW reason \in {"stop", "length", "tool_calls", "function_call"}
  PROVE  OpenAIStops(HandleFinish(p, reason)) /\ HandleFinish(p, reason).finish # ""
<1>. DEFINE why == IF p.saw THEN "tool_calls" ELSE IF reason = "tool_calls" THEN "stop" ELSE reason
            q == [p EXCEPT !.finish = why]
<1>1. p \in OpenAIState /\ OpenAISays(p) /\ OpenAIIn(p) /\ p.begun /\ StoppedTo(p, 0) /\ ~p.stopped
  BY DEF Saying, OpenAISays
<1>2. why \in {"stop", "length", "tool_calls", "function_call"} /\ (why = "tool_calls" => p.saw)  OBVIOUS
<1>3. HandleFinish(p, reason) = StopEverything(q)  BY DEF HandleFinish
<1>. HIDE DEF why
<1>4. /\ q \in OpenAIState /\ q.reading = p.reading /\ q.begun = p.begun /\ q.told = p.told
      /\ q.over = p.over /\ q.next = p.next /\ q.saw = p.saw /\ q.at = p.at
      /\ q.calls = p.calls /\ q.thinking = p.thinking /\ q.text = p.text
      /\ q.stopped = p.stopped /\ q.finish = why
  BY <1>1, <1>2 DEF OpenAIState
<1>. HIDE DEF q
<1>5. OpenAIIn(q)  BY <1>1, <1>4, OpenAISame
<1>6. StoppedTo(q, 0)  BY <1>1, <1>4 DEF StoppedTo
<1>7. OpenAISays(q) /\ q.begun /\ (q.finish = "tool_calls" => q.saw) /\ q.finish # ""
  BY <1>1, <1>2, <1>4, <1>5, <1>6 DEF OpenAISays
<1>8. OpenAIStops(StopEverything(q)) /\ StopEverything(q).finish = q.finish
  BY <1>7, EverythingStopped
<1>. QED  BY <1>3, <1>7, <1>8

LEMMA ReasonTold ==
  ASSUME NEW p, OpenAIStops(p), p.finish # ""
  PROVE  OpenAITold(emitMessageStopIfNeeded(TellReason(p)))
<1>. DEFINE why == mapOpenAIFinishReasonToAnthropic(IF p.saw THEN "tool_calls" ELSE p.finish)
            k == [p.reading EXCEPT !.reason = why]
            l == [k EXCEPT !.over = TRUE]
            q == [p EXCEPT !.reading = k, !.told = TRUE]
            r == [q EXCEPT !.reading = l, !.over = TRUE]
<1>1. /\ p \in OpenAIState /\ p.reading \in Placed /\ OpenAIIn(p) /\ Amid(p.reading)
      /\ Quiet(p) /\ StoppedTo(p, Calls) /\ p.stopped /\ ~p.over
      /\ (p.finish = "tool_calls" => p.saw) /\ p.saw \in BOOLEAN
      /\ p.finish \in {"", "stop", "length", "tool_calls", "function_call"}
  BY DEF OpenAIStops, OpenAIIn, OpenAIState, Amid
<1>2. p.reading.open = {}
  <2>1. \A b \in p.reading.open : b \in Block /\ OpenAt(p, b.index, b.kind)
    BY <1>1 DEF OpenAIIn, Placed
  <2>2. \A t \in Tools : p.at[t] = NoBlock
    <3>1. \A t \in Tools : t < Calls  BY Places
    <3>. QED  BY <1>1, <3>1 DEF StoppedTo
  <2>3. \A b \in Block : b.index # NoBlock  BY Places
  <2>4. \A b \in Block : ~OpenAt(p, b.index, b.kind)  BY <1>1, <2>2, <2>3 DEF OpenAt, Quiet
  <2>. QED  BY <2>1, <2>4
<1>3. /\ why \in Reasons /\ why # ""
      /\ why = "tool_use" <=> p.saw \/ p.finish = "function_call"
  <2>1. CASE p.saw
    <3>1. why = "tool_use"  BY <2>1 DEF mapOpenAIFinishReasonToAnthropic
    <3>. QED  BY <2>1, <3>1 DEF Reasons
  <2>2. CASE ~p.saw
    <3>1. p.finish \in {"stop", "length", "function_call"}  BY <1>1, <2>2
    <3>2. /\ why \in {"max_tokens", "end_turn", "tool_use"}
          /\ why = "tool_use" <=> p.finish = "function_call"
      BY <2>2, <3>1 DEF mapOpenAIFinishReasonToAnthropic
    <3>. QED  BY <2>2, <3>2 DEF Reasons
  <2>. QED  BY <2>1, <2>2
<1>4. TellReason(p) = [Emit(p, MessageDelta(why)) EXCEPT !.told = TRUE]  BY DEF TellReason
<1>. HIDE DEF why
<1>5. Read(p.reading, MessageDelta(why)) = k /\ k \in Placed
  BY <1>1, <1>2, <1>3, ReasonRead
<1>6. /\ k.begun /\ ~k.over /\ k.open = {} /\ k.open = p.reading.open /\ k.reason = why
      /\ k.stopped = p.reading.stopped
  BY <1>1, <1>2 DEF Placed, Amid
<1>. HIDE DEF k
<1>7. Read(k, MessageStop) = l /\ l \in Placed  BY <1>5, <1>6, EndRead
<1>8. /\ l.begun /\ l.over /\ l.open = {} /\ l.open = p.reading.open /\ l.reason = why
      /\ l.stopped = p.reading.stopped
  BY <1>5, <1>6 DEF Placed
<1>. HIDE DEF l
<1>9. HasTool(l) <=> p.saw  BY <1>1, <1>8 DEF OpenAIIn, HasTool, Blocks
<1>10. IF p.finish = "function_call" THEN ToldCall(l) ELSE Told(l)
  BY <1>3, <1>8, <1>9 DEF Told, ToldCall
<1>11. TellReason(p) = q  BY <1>1, <1>4, <1>5 DEF Emit, OpenAIState
<1>12. /\ q \in OpenAIState /\ q.reading = k /\ q.told = TRUE /\ q.over = p.over
       /\ q.thinking = p.thinking /\ q.text = p.text /\ q.stopped = p.stopped
       /\ q.finish = p.finish
  BY <1>1, <1>5 DEF OpenAIState
<1>. HIDE DEF q
<1>13. emitMessageStopIfNeeded(q) = r
  BY <1>1, <1>7, <1>12 DEF emitMessageStopIfNeeded, Emit, OpenAIState
<1>14. /\ r \in OpenAIState /\ r.reading = l /\ r.told = q.told /\ r.over = TRUE
       /\ r.thinking = q.thinking /\ r.text = q.text /\ r.stopped = q.stopped
       /\ r.finish = q.finish
  BY <1>7, <1>12 DEF OpenAIState
<1>. HIDE DEF r
<1>15. OpenAITold(r)  BY <1>1, <1>8, <1>10, <1>12, <1>14 DEF OpenAITold, Quiet
<1>. QED  BY <1>11, <1>13, <1>15

\* An answer that is cut gets its end all the same.
LEMMA MessageStopped ==
  ASSUME NEW p \in OpenAIState, p.reading.begun, ~p.reading.over
  PROVE  emitMessageStopIfNeeded(p) \in OpenAIState
<1>. DEFINE k == Read(p.reading, MessageStop)
<1>1. p.reading \in Placed  BY DEF OpenAIState
<1>2. k \in Placed  BY <1>1, EndRead
<1>. HIDE DEF k
<1>3. [[p EXCEPT !.reading = k] EXCEPT !.over = TRUE] \in OpenAIState  BY <1>2 DEF OpenAIState
<1>. QED  BY <1>3 DEF emitMessageStopIfNeeded, Emit, k

-----------------------------------------------------------------------------
(* OpenAI's chunks.                                                          *)

\* What reasoning and content leave as it was.
LEMMA SayingStill ==
  ASSUME NEW p \in Saying, NEW q, OpenAIIn(q), Beside(p, q)
  PROVE  q \in Saying
<1>1. StoppedTo(p, 0) /\ ~p.stopped /\ p.begun /\ p.finish = ""  BY DEF Saying, OpenAISays
<1>2. StoppedTo(q, 0)  BY <1>1 DEF StoppedTo, Beside
<1>3. q \in OpenAIState  BY DEF OpenAIIn
<1>. QED  BY <1>1, <1>2, <1>3 DEF Saying, OpenAISays, Beside

LEMMA SayingBegins ==
  ASSUME NEW p, OpenAISays(p), p.finish = ""
  PROVE  (IF ~p.begun THEN [Emit(p, MessageStart) EXCEPT !.begun = TRUE] ELSE p) \in Saying
<1>1. OpenAIIn(p) /\ StoppedTo(p, 0) /\ ~p.stopped  BY DEF OpenAISays
<1>2. CASE p.begun  BY <1>1, <1>2 DEF Saying, OpenAIIn
<1>3. CASE ~p.begun
  <2>. DEFINE q == [Emit(p, MessageStart) EXCEPT !.begun = TRUE]
  <2>1. /\ OpenAIIn(q) /\ q.begun /\ q.calls = p.calls /\ q.at = p.at
        /\ q.stopped = p.stopped /\ q.finish = p.finish
    BY <1>1, <1>3, OpenAIBegun
  <2>. HIDE DEF q
  <2>2. StoppedTo(q, 0)  BY <1>1, <2>1 DEF StoppedTo
  <2>3. q \in Saying  BY <1>1, <2>1, <2>2 DEF Saying, OpenAISays, OpenAIIn
  <2>. QED  BY <1>3, <2>3 DEF q
<1>. QED  BY <1>2, <1>3

LEMMA OpenAIChunk ==
  ASSUME NEW p, OpenAISays(p), p.finish = "", NEW c, c.delta,
         c.calls \in Seq(Piece), c.finish \in {"", "stop", "length", "tool_calls", "function_call"}
  PROVE  LET q == ConvertOpenAIChunk(p, c)
         IN  /\ c.finish = "" => q \in Saying
             /\ c.finish # "" => IF c.usage THEN OpenAITold(q) ELSE OpenAIStops(q) /\ q.finish # ""
<1>. DEFINE begun == IF ~p.begun THEN [Emit(p, MessageStart) EXCEPT !.begun = TRUE] ELSE p
            think == IF c.reasoning THEN HandleReasoning(begun) ELSE begun
            say == IF c.content THEN HandleContent(think) ELSE think
            call == Trail(HandleToolCall, say, c.calls)[Len(c.calls)]
            finish == IF c.finish = "" THEN call ELSE HandleFinish(call, c.finish)
            q == IF finish.finish # "" /\ c.usage THEN emitMessageStopIfNeeded(TellReason(finish))
                 ELSE finish
<1>1. ConvertOpenAIChunk(p, c) = q  BY DEF ConvertOpenAIChunk
<1>2. begun \in Saying  BY SayingBegins
<1>. HIDE DEF begun
<1>3. think \in Saying
  <2>1. OpenAIIn(begun) /\ begun.begun  BY <1>2 DEF Saying, OpenAISays
  <2>2. OpenAIIn(HandleReasoning(begun)) /\ Beside(begun, HandleReasoning(begun))
    BY <2>1, ReasoningHandled
  <2>3. HandleReasoning(begun) \in Saying  BY <1>2, <2>2, SayingStill
  <2>. QED  BY <1>2, <2>3
<1>. HIDE DEF think
<1>4. say \in Saying
  <2>1. OpenAIIn(think) /\ think.begun  BY <1>3 DEF Saying, OpenAISays
  <2>2. OpenAIIn(HandleContent(think)) /\ Beside(think, HandleContent(think))
    BY <2>1, ContentHandled
  <2>3. HandleContent(think) \in Saying  BY <1>3, <2>2, SayingStill
  <2>. QED  BY <1>3, <2>3
<1>. HIDE DEF say
<1>5. call \in Saying  BY <1>4, CallsHandled
<1>. HIDE DEF call
<1>6. CASE c.finish = ""
  <2>1. finish = call /\ finish.finish = ""  BY <1>5, <1>6 DEF Saying
  <2>2. q = call  BY <2>1
  <2>. HIDE DEF q
  <2>. QED  BY <1>1, <1>5, <1>6, <2>2
<1>7. CASE c.finish # ""
  <2>1. finish = HandleFinish(call, c.finish)  BY <1>7
  <2>2. c.finish \in {"stop", "length", "tool_calls", "function_call"}  BY <1>7
  <2>3. OpenAIStops(finish) /\ finish.finish # ""  BY <1>5, <2>1, <2>2, FinishHandled
  <2>. HIDE DEF finish
  <2>4. OpenAITold(emitMessageStopIfNeeded(TellReason(finish)))  BY <2>3, ReasonTold
  <2>5. IF c.usage THEN OpenAITold(q) ELSE OpenAIStops(q) /\ q.finish # ""
    BY <2>3, <2>4
  <2>. HIDE DEF q
  <2>. QED  BY <1>1, <1>7, <2>5
<1>. QED  BY <1>6, <1>7

\* A chunk without choices has no events of its own.
LEMMA NothingSaid ==
  ASSUME NEW p, NEW usage
  PROVE  ConvertOpenAIChunk(p, NoChoices(usage)) =
           IF p.finish # "" /\ usage THEN emitMessageStopIfNeeded(TellReason(p)) ELSE p
<1>. DEFINE c == NoChoices(usage)
            f == CallsPath(p, <<>>)
<1>1. /\ c.delta = FALSE /\ c.reasoning = FALSE /\ c.content = FALSE /\ c.calls = <<>>
      /\ c.finish = "" /\ c.usage = usage
  BY DEF NoChoices
<1>2. Len(<<>>) = 0  OBVIOUS
<1>3. f[0] = p
  <2>. DEFINE T == {p}
              n == 0
  <2>1. n \in Nat /\ n = Len(<<>>) /\ p \in T
        /\ \A q \in T, k \in 1..n : HandleToolCall(q, <<>>[k]) \in T
    BY <1>2
  <2>. HIDE DEF T, n
  <2>. QED  BY <2>1, CallsTrail
<1>. HIDE DEF c
<1>4. CallsPath(p, c.calls)[Len(c.calls)] = p  BY <1>1, <1>2, <1>3
<1>. DEFINE call == Trail(HandleToolCall, p, c.calls)[Len(c.calls)]
            finish == IF c.finish = "" THEN call ELSE HandleFinish(call, c.finish)
<1>5. call = p  BY <1>4 DEF CallsPath
<1>6. ConvertOpenAIChunk(p, c) =
        IF finish.finish # "" /\ c.usage THEN emitMessageStopIfNeeded(TellReason(finish)) ELSE finish
  BY <1>1 DEF ConvertOpenAIChunk
<1>. HIDE DEF call
<1>7. finish = p  BY <1>1, <1>5
<1>. HIDE DEF finish
<1>8. ConvertOpenAIChunk(p, c) =
        IF p.finish # "" /\ usage THEN emitMessageStopIfNeeded(TellReason(p)) ELSE p
  BY <1>1, <1>6, <1>7
<1>. QED  BY <1>8 DEF c

LEMMA OpenAIEnds ==
  ASSUME NEW p
  PROVE  LET q == convertOpenAIDone(p)
         IN  /\ OpenAIStops(p) /\ p.finish # "" => OpenAITold(q)
             /\ OpenAITold(p) => q = p
             /\ OpenAISays(p) /\ p.begun /\ p.finish = "" => q \in OpenAIState
<1>. DEFINE s == StopEverything(p)
            q == convertOpenAIDone(p)
<1>1. q = emitMessageStopIfNeeded(IF s.finish # "" /\ ~s.told THEN TellReason(s) ELSE s)
  BY DEF convertOpenAIDone
<1>. HIDE DEF q, s
<1>2. ASSUME OpenAIStops(p), p.finish # ""  PROVE OpenAITold(q)
  <2>1. s = p /\ ~p.told  BY <1>2, NothingToStop DEF OpenAIStops, OpenAIIn, s
  <2>2. q = emitMessageStopIfNeeded(TellReason(p))  BY <1>1, <1>2, <2>1
  <2>. QED  BY <1>2, <2>2, ReasonTold
<1>3. ASSUME OpenAITold(p)  PROVE q = p
  <2>1. s = p /\ p.told /\ p.over  BY <1>3, NothingToStop DEF OpenAITold, s
  <2>. QED  BY <1>1, <2>1 DEF emitMessageStopIfNeeded
<1>4. ASSUME OpenAISays(p), p.begun, p.finish = ""  PROVE q \in OpenAIState
  <2>1. OpenAIStops(s) /\ s.finish = ""  BY <1>4, EverythingStopped DEF s
  <2>2. s \in OpenAIState /\ s.reading.begun /\ ~s.reading.over
    BY <2>1 DEF OpenAIStops, OpenAIIn
  <2>3. q = emitMessageStopIfNeeded(s)  BY <1>1, <2>1
  <2>. QED  BY <2>2, <2>3, MessageStopped
<1>. QED  BY <1>2, <1>3, <1>4 DEF q

\* A chunk with a delta, as far as the events depend on it.
Brings(c) ==
  /\ ~c.done /\ c.delta /\ c.calls \in Seq(Piece)
  /\ c.finish \in {"", "stop", "length", "tool_calls", "function_call"}

LEMMA ShortLists ==
  ASSUME NEW S
  PROVE  /\ <<>> \in Seq(S)
         /\ \A x \in S : <<x>> \in Seq(S)
         /\ \A x, y \in S : <<x, y>> \in Seq(S)
OBVIOUS

LEMMA OpenAIDelivers ==
  ASSUME NEW finishes \in SUBSET {"", "stop", "length", "tool_calls", "function_call"}, NEW usage,
         NEW d \in Deltas(finishes, usage)
  PROVE  Brings(d) /\ d.finish \in finishes /\ d.usage = usage
<1>. DEFINE Lists == {<<>>} \cup {<<Whole(i)>> : i \in Tools}
<1>1. Lists \subseteq Seq(Piece)
  <2>1. \A i \in Tools : Whole(i) \in Piece  BY DEF Whole, Piece
  <2>. QED  BY <2>1, ShortLists
<1>2. d \in [done: {FALSE}, delta: {TRUE}, reasoning: BOOLEAN, content: BOOLEAN,
             calls: Lists, finish: finishes, usage: {usage}]
  BY DEF Deltas
<1>. HIDE DEF Lists
<1>3. ~d.done /\ d.delta /\ d.calls \in Lists /\ d.finish \in finishes /\ d.usage = usage
  BY <1>2
<1>. QED  BY <1>1, <1>3 DEF Brings

LEMMA OpenAICalls ==
  ASSUME NEW d \in CallDeltas
  PROVE  Brings(d) /\ d.finish = ""
<1>. DEFINE One == {<<c>> : c \in Piece}
            Two == {<<Whole(i), Whole(j)>> : i \in Tools, j \in Tools}
<1>1. One \subseteq Seq(Piece)  BY ShortLists
<1>2. Two \subseteq Seq(Piece)
  <2>1. \A i \in Tools : Whole(i) \in Piece  BY DEF Whole, Piece
  <2>2. \A x, y \in Piece : <<x, y>> \in Seq(Piece)  BY ShortLists
  <2>3. ASSUME NEW l \in Two  PROVE l \in Seq(Piece)
    <3>1. PICK i \in Tools, j \in Tools : l = <<Whole(i), Whole(j)>>  BY <2>3
    <3>. QED  BY <2>1, <2>2, <3>1
  <2>. QED  BY <2>3
<1>3. d \in [done: {FALSE}, delta: {TRUE}, reasoning: {FALSE}, content: {FALSE},
             calls: PiecesOfCalls, finish: {""}, usage: {FALSE}]
  BY DEF CallDeltas
<1>4. PiecesOfCalls \subseteq Seq(Piece)
  <2>1. PiecesOfCalls = One \cup Two  BY DEF PiecesOfCalls
  <2>. HIDE DEF One, Two
  <2>. QED  BY <1>1, <1>2, <2>1
<1>5. ~d.done /\ d.delta /\ d.calls \in PiecesOfCalls /\ d.finish = ""  BY <1>3
<1>. QED  BY <1>4, <1>5 DEF Brings

LEMMA OpenAIFinishes ==
  ASSUME NEW usage, NEW d \in Finishing(usage)
  PROVE  Brings(d) /\ d.finish # "" /\ d.usage = usage
<1>. DEFINE Why == {"stop", "length", "tool_calls", "function_call"}
<1>1. Why \in SUBSET {"", "stop", "length", "tool_calls", "function_call"}  OBVIOUS
<1>2. d \in Deltas(Why, usage)  BY DEF Finishing
<1>3. Brings(d) /\ d.finish \in Why /\ d.usage = usage
  <2>. HIDE DEF Why
  <2>. QED  BY <1>1, <1>2, OpenAIDelivers
<1>. QED  BY <1>3

LEMMA OpenAIMoves ==
  ASSUME NEW at, NEW more, NEW s \in OpenAIUpstream(at, more)
  PROVE  LET c == s.chunk
         IN  \/ /\ at \in {"new", "deltas"} /\ Brings(c)
                /\ \/ s.next = "deltas" /\ c.finish = ""
                   \/ s.next = "finished" /\ c.finish # "" /\ c.usage = FALSE
                   \/ s.next = "told" /\ c.finish # "" /\ c.usage = TRUE
             \/ at = "new" /\ s.next = "new" /\ c = NoChoices(FALSE)
             \/ at = "deltas" /\ s.next = "cut" /\ c = OpenAIDone
             \/ at = "finished" /\ s.next = "told" /\ c = NoChoices(TRUE)
             \/ at = "finished" /\ s.next = "done" /\ c = OpenAIDone
             \/ at = "told" /\ s.next = "done" /\ c = OpenAIDone
             \/ at = "done" /\ s.next = "closed" /\ c = OpenAIDone
<1>1. CASE at \in {"new", "deltas"}
  <2>. DEFINE On == [chunk: Deltas({""}, FALSE) \cup CallDeltas, next: {"deltas"}]
              Last == [chunk: Finishing(FALSE), next: {"finished"}]
              All == [chunk: Finishing(TRUE), next: {"told"}]
              Other == IF at = "new" THEN [chunk: {NoChoices(FALSE)}, next: {"new"}]
                                     ELSE [chunk: {OpenAIDone}, next: {"cut"}]
  <2>1. s \in On \/ s \in Last \/ s \in All \/ s \in Other  BY <1>1 DEF OpenAIUpstream
  <2>2. CASE s \in On
    <3>1. s.chunk \in Deltas({""}, FALSE) \cup CallDeltas /\ s.next = "deltas"  BY <2>2
    <3>2. {""} \in SUBSET {"", "stop", "length", "tool_calls", "function_call"}  OBVIOUS
    <3>3. CASE s.chunk \in CallDeltas  BY <1>1, <3>1, <3>3, OpenAICalls
    <3>4. CASE s.chunk \in Deltas({""}, FALSE)
      <4>1. Brings(s.chunk) /\ s.chunk.finish \in {""}  BY <3>2, <3>4, OpenAIDelivers
      <4>. QED  BY <1>1, <3>1, <4>1
    <3>. QED  BY <3>1, <3>3, <3>4
  <2>3. CASE s \in Last
    <3>1. s.chunk \in Finishing(FALSE) /\ s.next = "finished"  BY <2>3
    <3>2. Brings(s.chunk) /\ s.chunk.finish # "" /\ s.chunk.usage = FALSE
      BY <3>1, OpenAIFinishes
    <3>. QED  BY <1>1, <3>1, <3>2
  <2>4. CASE s \in All
    <3>1. s.chunk \in Finishing(TRUE) /\ s.next = "told"  BY <2>4
    <3>2. Brings(s.chunk) /\ s.chunk.finish # "" /\ s.chunk.usage = TRUE
      BY <3>1, OpenAIFinishes
    <3>. QED  BY <1>1, <3>1, <3>2
  <2>5. CASE s \in Other
    <3>1. \/ at = "new" /\ s \in [chunk: {NoChoices(FALSE)}, next: {"new"}]
          \/ at = "deltas" /\ s \in [chunk: {OpenAIDone}, next: {"cut"}]
      BY <1>1, <2>5
    <3>. QED  BY <3>1
  <2>. QED  BY <2>1, <2>2, <2>3, <2>4, <2>5
<1>2. CASE at = "finished"
  <2>1. \/ s \in [chunk: {NoChoices(TRUE)}, next: {"told"}]
        \/ s \in [chunk: {OpenAIDone}, next: {"done"}]
    BY <1>2 DEF OpenAIUpstream
  <2>. QED  BY <1>2, <2>1
<1>3. CASE at = "told"
  <2>1. s \in [chunk: {OpenAIDone}, next: {"done"}]  BY <1>3 DEF OpenAIUpstream
  <2>. QED  BY <1>3, <2>1
<1>4. CASE at = "done"
  <2>1. s \in [chunk: {OpenAIDone}, next: {"closed"}]  BY <1>4 DEF OpenAIUpstream
  <2>. QED  BY <1>4, <2>1
<1>5. at \in {"new", "deltas", "finished", "told", "done"}  BY DEF OpenAIUpstream
<1>. QED  BY <1>1, <1>2, <1>3, <1>4, <1>5

LEMMA OpenAIKeeps ==
  ASSUME NEW at, NEW p, OpenAIInv(at, p), NEW more, NEW s \in OpenAIUpstream(at, more)
  PROVE  OpenAIInv(s.next, ConvertOpenAIResponseToClaude(p, s.chunk))
<1>. DEFINE c == s.chunk
            q == ConvertOpenAIResponseToClaude(p, c)
<1>1. NoChoices(TRUE).done = FALSE /\ NoChoices(FALSE).done = FALSE /\ OpenAIDone.done = TRUE
  BY DEF NoChoices, OpenAIDone
<1>2. CASE at \in {"new", "deltas"} /\ Brings(c)
           /\ \/ s.next = "deltas" /\ c.finish = ""
              \/ s.next = "finished" /\ c.finish # "" /\ c.usage = FALSE
              \/ s.next = "told" /\ c.finish # "" /\ c.usage = TRUE
  <2>1. OpenAISays(p) /\ p.finish = ""  BY <1>2 DEF OpenAIInv
  <2>2. q = ConvertOpenAIChunk(p, c)  BY <1>2 DEF ConvertOpenAIResponseToClaude, Brings
  <2>. HIDE DEF c, q
  <2>3. /\ c.finish = "" => q \in Saying
        /\ c.finish # "" => IF c.usage THEN OpenAITold(q) ELSE OpenAIStops(q) /\ q.finish # ""
    BY <1>2, <2>1, <2>2, OpenAIChunk DEF Brings
  <2>. QED  BY <1>2, <2>3 DEF OpenAIInv, Saying, c, q
<1>3. CASE at = "new" /\ s.next = "new" /\ c = NoChoices(FALSE)
  <2>1. q = ConvertOpenAIChunk(p, NoChoices(FALSE))
    BY <1>1, <1>3 DEF ConvertOpenAIResponseToClaude
  <2>2. q = p  BY <2>1, NothingSaid
  <2>. HIDE DEF q
  <2>. QED  BY <1>3, <2>2 DEF OpenAIInv, q
<1>4. CASE at = "finished" /\ s.next = "told" /\ c = NoChoices(TRUE)
  <2>1. q = ConvertOpenAIChunk(p, NoChoices(TRUE))
    BY <1>1, <1>4 DEF ConvertOpenAIResponseToClaude
  <2>2. OpenAIStops(p) /\ p.finish # ""  BY <1>4 DEF OpenAIInv
  <2>3. q = emitMessageStopIfNeeded(TellReason(p))  BY <2>1, <2>2, NothingSaid
  <2>4. OpenAITold(q)  BY <2>2, <2>3, ReasonTold
  <2>. HIDE DEF q
  <2>. QED  BY <1>4, <2>4 DEF OpenAIInv, q
<1>5. CASE c = OpenAIDone
           /\ \/ at = "deltas" /\ s.next = "cut"
              \/ at = "finished" /\ s.next = "done"
              \/ at = "told" /\ s.next = "done"
              \/ at = "done" /\ s.next = "closed"
  <2>1. q = convertOpenAIDone(p)  BY <1>1, <1>5 DEF ConvertOpenAIResponseToClaude
  <2>. HIDE DEF q
  <2>2. /\ OpenAIStops(p) /\ p.finish # "" => OpenAITold(q)
        /\ OpenAITold(p) => q = p
        /\ OpenAISays(p) /\ p.begun /\ p.finish = "" => q \in OpenAIState
    BY <2>1, OpenAIEnds
  <2>. QED  BY <1>5, <2>2 DEF OpenAIInv, q
<1>. QED  BY <1>2, <1>3, <1>4, <1>5, OpenAIMoves

-----------------------------------------------------------------------------
(* The answers, whatever the upstream speaks.                                *)

AnswerInv(format, at, p) ==
  \/ format = "openai" /\ OpenAIInv(at, p)
  \/ format = "codex" /\ CodexInv(at, p)
  \/ format = "gemini" /\ GeminiInv(at, p)
  \/ format = "antigravity" /\ AntigravityInv(at, p)

\* The inductive invariant: what the translator remembers fits what the client has read and
\* the place that the upstream has reached.
StreamInv ==
  /\ upstream = [format |-> upstream.format, at |-> upstream.at]
  /\ AnswerInv(upstream.format, upstream.at, param)

LEMMA NewOpenAI == OpenAIInv("new", OpenAIParams)
<1>. DEFINE p == OpenAIParams
<1>1. NewReading \in Placed /\ Blocks(NewReading) = {}  BY FirstRead
<1>2. /\ NewReading.begun = FALSE /\ NewReading.reason = "" /\ NewReading.over = FALSE
      /\ NewReading.open = {}
  BY DEF NewReading
<1>3. /\ p.begun = FALSE /\ p.saw = FALSE /\ p.thinking = NoBlock /\ p.text = NoBlock
      /\ p.stopped = FALSE /\ p.finish = "" /\ p.told = FALSE /\ p.over = FALSE
      /\ p.reading = NewReading
  BY DEF OpenAIParams
<1>4. p \in OpenAIState  BY <1>1 DEF OpenAIParams, OpenAIState, Place
<1>5. \A t \in Tools : p.at[t] = NoBlock /\ p.calls[t].started = FALSE  BY DEF OpenAIParams
<1>. HIDE DEF p
<1>6. \A b \in Block : ~OpenAt(p, b.index, b.kind)
  <2>1. \A b \in Block : b.index # NoBlock  BY Places
  <2>. QED  BY <1>3, <1>5, <2>1 DEF OpenAt
<1>7. Apart(p) /\ StoppedTo(p, 0)  BY <1>5 DEF Apart, StoppedTo
<1>8. ~HasTool(p.reading)  BY <1>1, <1>3 DEF HasTool
<1>9. OpenAIIn(p)  BY <1>1, <1>2, <1>3, <1>4, <1>6, <1>7, <1>8 DEF OpenAIIn
<1>. QED  BY <1>3, <1>7, <1>9 DEF OpenAIInv, OpenAISays, p

LEMMA NewGemini ==
  ASSUME NEW web \in BOOLEAN
  PROVE  LET p == GeminiParams(web)
         IN  GeminiInv("parts", p) /\ AntigravityInv("parts", p)
<1>. DEFINE p == GeminiParams(web)
<1>1. NewReading \in Placed /\ Blocks(NewReading) = {}  BY FirstRead
<1>2. /\ NewReading.begun = FALSE /\ NewReading.reason = "" /\ NewReading.over = FALSE
      /\ NewReading.open = {} /\ NewReading.stopped = {}
  BY DEF NewReading
<1>3. /\ p.begun = FALSE /\ p.type = "none" /\ p.content = FALSE /\ p.tool = FALSE
      /\ p.finish = "" /\ p.told = FALSE /\ p.held = FALSE /\ p.reading = NewReading
  BY DEF GeminiParams
<1>4. p \in GeminiState  BY <1>1 DEF GeminiParams, GeminiState
<1>. HIDE DEF p
<1>5. GeminiHas(p, "none")  BY <1>2, <1>3, <1>4 DEF GeminiHas
<1>6. ~HasTool(p.reading)  BY <1>1, <1>3 DEF HasTool
<1>7. GeminiIn(p)  BY <1>1, <1>3, <1>5, <1>6 DEF GeminiIn
<1>8. Holds(p)  BY <1>3 DEF Holds
<1>. QED  BY <1>3, <1>7, <1>8 DEF GeminiInv, AntigravityInv, p

LEMMA NewAnswer ==
  ASSUME NEW a \in Answers
  PROVE  /\ a.upstream = [format |-> a.upstream.format, at |-> a.upstream.at]
         /\ AnswerInv(a.upstream.format, a.upstream.at, a.param)
<1>1. ASSUME NEW format, NEW at, NEW start, AnswerInv(format, at, start),
             a = Answer(format, at, start)
      PROVE  /\ a.upstream = [format |-> a.upstream.format, at |-> a.upstream.at]
             /\ AnswerInv(a.upstream.format, a.upstream.at, a.param)
  <2>1. a.upstream.format = format /\ a.upstream.at = at /\ a.param = start
        /\ a.upstream = [format |-> format, at |-> at]
    BY <1>1 DEF Answer
  <2>. QED  BY <1>1, <2>1
<1>2. AnswerInv("openai", "new", OpenAIParams)  BY NewOpenAI DEF AnswerInv
<1>3. AnswerInv("codex", "new", CodexParams)  BY DEF AnswerInv, CodexInv
<1>4. \A web \in BOOLEAN : /\ AnswerInv("gemini", "parts", GeminiParams(web))
                           /\ AnswerInv("antigravity", "parts", GeminiParams(web))
  BY NewGemini DEF AnswerInv
<1>5. \/ a = Answer("openai", "new", OpenAIParams)
      \/ a = Answer("codex", "new", CodexParams)
      \/ a = Answer("gemini", "parts", GeminiParams(FALSE))
      \/ \E web \in BOOLEAN : a = Answer("antigravity", "parts", GeminiParams(web))
  BY DEF Answers
<1>6. CASE a = Answer("openai", "new", OpenAIParams)  BY <1>1, <1>2, <1>6
<1>7. CASE a = Answer("codex", "new", CodexParams)  BY <1>1, <1>3, <1>7
<1>8. CASE a = Answer("gemini", "parts", GeminiParams(FALSE))  BY <1>1, <1>4, <1>8
<1>9. CASE \E web \in BOOLEAN : a = Answer("antigravity", "parts", GeminiParams(web))
  BY <1>1, <1>4, <1>9
<1>. QED  BY <1>5, <1>6, <1>7, <1>8, <1>9

LEMMA StreamStarts == StreamInit => StreamInv
BY NewAnswer DEF StreamInit, StreamInv

LEMMA StreamSays ==
  ASSUME StreamInv, NEW next, NEW written, Says(next, written),
         AnswerInv(upstream.format, next, written)
  PROVE  StreamInv'
<1>1. upstream = [format |-> upstream.format, at |-> upstream.at]  BY DEF StreamInv
<1>2. upstream' = [format |-> upstream.format, at |-> next]  BY <1>1 DEF Says
<1>3. upstream'.format = upstream.format /\ upstream'.at = next /\ param' = written
  BY <1>2 DEF Says
<1>. QED  BY <1>2, <1>3 DEF StreamInv

LEMMA StreamStep ==
  ASSUME StreamInv, [StreamNext]_streamVars
  PROVE  StreamInv'
<1>. DEFINE at == upstream.at
<1>1. CASE NextAnswer
  <2>1. PICK a \in Answers : upstream' = a.upstream /\ param' = a.param
    BY <1>1 DEF NextAnswer
  <2>. QED  BY <2>1, NewAnswer DEF StreamInv
<1>2. CASE OpenAIStep
  <2>1. PICK s \in OpenAIUpstream(at, More) :
          Says(s.next, ConvertOpenAIResponseToClaude(param, s.chunk))
    BY <1>2 DEF OpenAIStep
  <2>2. upstream.format = "openai"  BY <1>2 DEF OpenAIStep
  <2>3. OpenAIInv(at, param)  BY <2>2 DEF StreamInv, AnswerInv
  <2>4. OpenAIInv(s.next, ConvertOpenAIResponseToClaude(param, s.chunk))
    BY <2>1, <2>3, OpenAIKeeps
  <2>. QED  BY <2>1, <2>2, <2>4, StreamSays DEF AnswerInv
<1>3. CASE GeminiStep
  <2>1. PICK s \in GeminiUpstream(at, More, FALSE, FALSE) :
          Says(s.next, ConvertGeminiResponseToClaude(param, s.chunk))
    BY <1>3 DEF GeminiStep
  <2>2. upstream.format = "gemini"  BY <1>3 DEF GeminiStep
  <2>3. GeminiInv(at, param)  BY <2>2 DEF StreamInv, AnswerInv
  <2>4. GeminiInv(s.next, ConvertGeminiResponseToClaude(param, s.chunk))
    BY <2>1, <2>3, GeminiKeeps
  <2>. QED  BY <2>1, <2>2, <2>4, StreamSays DEF AnswerInv
<1>4. CASE AntigravityStep
  <2>1. PICK s \in GeminiUpstream(at, More, param.web, TRUE) :
          /\ KeepsItsPlace(param, s.chunk)
          /\ Says(s.next, ConvertAntigravityResponseToClaude(param, s.chunk))
    BY <1>4 DEF AntigravityStep
  <2>2. upstream.format = "antigravity"  BY <1>4 DEF AntigravityStep
  <2>3. AntigravityInv(at, param)  BY <2>2 DEF StreamInv, AnswerInv
  <2>4. AntigravityInv(s.next, ConvertAntigravityResponseToClaude(param, s.chunk))
    BY <2>1, <2>3, AntigravityKeeps
  <2>. QED  BY <2>1, <2>2, <2>4, StreamSays DEF AnswerInv
<1>5. CASE CodexStep
  <2>1. PICK s \in CodexUpstream(at, More) \cup CodexFails(at) :
          Says(s.next, ConvertCodexResponseToClaude(param, s.chunk))
    BY <1>5 DEF CodexStep
  <2>2. upstream.format = "codex" /\ More \in BOOLEAN  BY <1>5 DEF CodexStep, More
  <2>3. CodexInv(at, param)  BY <2>2 DEF StreamInv, AnswerInv
  <2>4. CodexInv(s.next, ConvertCodexResponseToClaude(param, s.chunk))
    BY <2>1, <2>2, <2>3, CodexKeeps
  <2>. QED  BY <2>1, <2>2, <2>4, StreamSays DEF AnswerInv
<1>6. CASE UNCHANGED streamVars  BY <1>6 DEF streamVars, StreamInv
<1>. QED  BY <1>1, <1>2, <1>3, <1>4, <1>5, <1>6 DEF StreamNext

LEMMA StreamReads ==
  ASSUME StreamInv
  PROVE  ProperSequence /\ EndsComplete
<1>. DEFINE k == param.reading
            Ended == (IF AsksForCall THEN ToldCall(k) ELSE Told(k)) /\ k.over
<1>1. k \in Placed
  <2>1. ASSUME OpenAIInv(upstream.at, param)  PROVE k \in Placed
    <3>1. param \in OpenAIState
      BY <2>1 DEF OpenAIInv, OpenAISays, OpenAIStops, OpenAITold, OpenAIIn
    <3>. QED  BY <3>1 DEF OpenAIState
  <2>2. ASSUME CodexInv(upstream.at, param)  PROVE k \in Placed
    <3>1. CodexParams.reading \in Placed  BY FirstRead DEF CodexParams
    <3>2. param = CodexParams \/ param \in CodexState
      BY <2>2 DEF CodexInv, CodexBetween, CodexCalls, CodexIn
    <3>. QED  BY <3>1, <3>2 DEF CodexState
  <2>3. ASSUME GeminiInv(upstream.at, param) \/ AntigravityInv(upstream.at, param)
        PROVE k \in Placed
    <3>1. param \in GeminiState
      BY <2>3 DEF GeminiInv, AntigravityInv, GeminiOver, GeminiIn, GeminiHas
    <3>. QED  BY <3>1 DEF GeminiState
  <2>. QED  BY <2>1, <2>2, <2>3 DEF StreamInv, AnswerInv
<1>2. upstream.at \in {"done", "asked", "closed"} /\ Blocks(k) # {} => Ended
  BY DEF StreamInv, AnswerInv, OpenAIInv, OpenAITold, CodexInv, GeminiInv, AntigravityInv, AsksForCall
<1>. HIDE DEF k
<1>3. ProperSequence  BY <1>1 DEF Placed, ProperSequence, k
<1>4. EndsComplete  BY <1>2 DEF EndsComplete, Told, ToldCall, HasTool, k
<1>. QED  BY <1>3, <1>4

\* Whatever an upstream says in its format, with any number of tool calls and any number of
\* parts in a chunk, and wherever it is cut, every event the four translators write is one
\* that the client can place.
THEOREM EventsInOrder == StreamSpec => []ProperSequence
<1>1. StreamInv => ProperSequence  BY StreamReads
<1>. QED  BY <1>1, StreamStarts, StreamStep, PTL DEF StreamSpec

\* An answer that the upstream has finished is finished for the client: no block left open,
\* the message stopped, the stop reason told and that of a tool use exactly when a call was
\* announced, except where the upstream's own reason names a call: it is told then too.
THEOREM AnswersComplete == StreamSpec => []EndsComplete
<1>1. StreamInv => EndsComplete  BY StreamReads
<1>. QED  BY <1>1, StreamStarts, StreamStep, PTL DEF StreamSpec
=============================================================================
