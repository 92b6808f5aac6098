----------------------------- MODULE Execution -----------------------------
(***************************************************************************)
(* One client request from the gin handler to the upstreams and back. The    *)
(* Manager tries credentials in rounds and waits for a cooldown between       *)
(* them; of a stream that has begun a goroutine passes the chunks on and      *)
(* records the result (wrapStreamResult); a second one feeds the handler's    *)
(* data and error channels and may start over while nothing was sent; the     *)
(* handler peeks at both channels and then forwards. Unbuffered channels are  *)
(* joint steps. Other requests use the same credentials.                      *)
(***************************************************************************)
EXTENDS Integers, FiniteSets, FiniteSetsExt

CONSTANTS
  Creds,     \* credentials, each with one upstream model
  Settings,  \* requests: [stream, strict (its payloads are validated), creds (that may serve
             \* it), most (max-retry-credentials, 0 = any)]
  Retry,     \* request-retry
  MaxWait,   \* max-retry-interval, in ticks
  MaxCool,   \* longest cooldown (a bound)
  Bootstrap, \* streaming.bootstrap-retries
  MaxChunks, \* chunks that an upstream sends at most (a bound)
  Recheck    \* does the handler look for an error when the data end at once?

VARIABLES
  setting,   \* the request
  cooling,   \* per credential the ticks until it may be picked again
  exec,      \* Execute or ExecuteStream: [at, attempt, tried, cred, last, boot, wait]
  wrap,      \* the stream: [at, chunk, cred, failed, left]
  pump,      \* the goroutine that feeds the handler: [at, chunk, sent, retries]
  errs,      \* errChan: [msg, closed]
  dataEnds,  \* dataChan is closed
  front,     \* the gin handler: "call", "initial", "peek", "forward" or how it ended
  gone,      \* the client has gone
  canceled,  \* the request's context is done
  attempts,  \* upstream attempts so far (history, as are the following)
  got,       \* the attempts of which the client has chunks
  marks,     \* results recorded of the last attempt, and
  verdict,   \* the last one recorded
  disturbed  \* others changed a cooldown since the Manager began to wait

\* What the proofs take the constants to be; TLC evaluates it where the module is used.
ExecutionAssumption ==
  /\ IsFiniteSet(Creds)
  /\ Settings \subseteq [stream : BOOLEAN, strict : BOOLEAN, creds : SUBSET Creds, most : Nat]
  /\ {Retry, MaxWait, MaxCool, Bootstrap} \subseteq Nat
  /\ MaxChunks \in Nat \ {0}

execVars == <<setting, cooling, exec, wrap, pump, errs, dataEnds, front, gone, canceled,
              attempts, got, marks, verdict, disturbed>>

-----------------------------------------------------------------------------
\* A request of a wrong shape is not tried again; an upstream is at its limit, or fails,
\* or refuses for a reason that another credential may not have.
Errors      == {"invalid", "limited", "failed", "refused"}
Over        == {"done", "error", "gone"}
Serving     == setting.creds
Cap         == IF setting.most = 0 THEN Cardinality(Serving) ELSE setting.most
MostTries   == (IF setting.stream THEN 1 + Bootstrap ELSE 1) * (1 + Retry) * Cap
Sole(S)     == CHOOSE e \in S : TRUE
Begin       == [at |-> "pick", attempt |-> 0, tried |-> {}, cred |-> {}, last |-> {},
                boot |-> FALSE, wait |-> 0]
NoStream    == [at |-> "none", chunk |-> "none", cred |-> {}, failed |-> FALSE, left |-> 0]
NoPump      == [at |-> "none", chunk |-> "none", sent |-> FALSE, retries |-> 0]
EndedStream == [NoStream EXCEPT !.at = "ended"]

ExecutionInit ==
  /\ setting \in Settings
  /\ cooling = [c \in Creds |-> 0]
  /\ exec = Begin
  /\ wrap = NoStream
  /\ pump = NoPump
  /\ errs = [msg |-> {}, closed |-> FALSE]
  /\ dataEnds = FALSE
  /\ front = "call"
  /\ gone = FALSE /\ canceled = FALSE
  /\ attempts = 0 /\ got = {} /\ marks = 0 /\ verdict = "none" /\ disturbed = FALSE

-----------------------------------------------------------------------------
(* Time, the client, and other requests.                                     *)

\* Cooldowns are read while the Manager picks, judges and waits. That they change only
\* then leaves nothing out: others may change them in any way.
Deciding == exec.at \in {"pick", "judge", "wait"}

CooldownsPass ==
  /\ Deciding
  /\ cooling' = [c \in Creds |-> Max({0, cooling[c] - 1})]
  /\ exec' = [exec EXCEPT !.wait = Max({0, @ - 1})]
  /\ <<cooling, exec>>' # <<cooling, exec>>
  /\ UNCHANGED <<setting, wrap, pump, errs, dataEnds, front, gone, canceled>>
  /\ UNCHANGED <<attempts, got, marks, verdict, disturbed>>

OthersMark(c, n) ==
  /\ Deciding
  /\ c \in Serving
  /\ cooling[c] # n
  /\ cooling' = [cooling EXCEPT ![c] = n]
  /\ disturbed' = TRUE
  /\ UNCHANGED <<setting, exec, wrap, pump, errs, dataEnds, front, gone, canceled>>
  /\ UNCHANGED <<attempts, got, marks, verdict>>

ClientGone ==
  /\ front \notin Over
  /\ ~gone
  /\ gone' = TRUE
  /\ UNCHANGED <<setting, cooling, exec, wrap, pump, errs, dataEnds, front, canceled>>
  /\ UNCHANGED <<attempts, got, marks, verdict, disturbed>>

\* GetContextWithCancel: the request's context follows the client's.
Propagate ==
  /\ gone /\ ~canceled
  /\ canceled' = TRUE
  /\ UNCHANGED <<setting, cooling, exec, wrap, pump, errs, dataEnds, front, gone>>
  /\ UNCHANGED <<attempts, got, marks, verdict, disturbed>>

-----------------------------------------------------------------------------
(* Execute and ExecuteStream.                                                *)

ExecOnly == UNCHANGED <<setting, pump, errs, dataEnds, front, gone, canceled, got>>

\* MarkResult: a success ends the credential's cooldown, a failure may begin one.
MarkResult(c, ok) ==
  /\ \E n \in 0..MaxCool : (ok => n = 0) /\ cooling' = [cooling EXCEPT ![c] = n]
  /\ marks' = marks + 1
  /\ verdict' = IF ok THEN "good" ELSE "bad"

NoMark == UNCHANGED <<cooling, marks, verdict>>

Pick(c) ==
  /\ exec.at = "pick"
  /\ Cardinality(exec.tried) < Cap
  /\ c \in Serving \ exec.tried
  /\ cooling[c] = 0
  /\ exec' = [exec EXCEPT !.at = "call", !.tried = @ \cup {c}, !.cred = {c}]
  /\ attempts' = Min({attempts + 1, MostTries + 1})
  /\ marks' = 0
  /\ ExecOnly /\ UNCHANGED <<cooling, wrap, verdict, disturbed>>

\* No credential is left, or the round has tried enough: it fails with its last error.
NoPick ==
  /\ exec.at = "pick"
  /\ Cardinality(exec.tried) < Cap => \A c \in Serving \ exec.tried : cooling[c] > 0
  /\ exec' = [exec EXCEPT !.at = "judge", !.last = IF @ = {} THEN {"cooling"} ELSE @]
  /\ ExecOnly /\ UNCHANGED <<cooling, wrap, attempts, marks, verdict, disturbed>>

\* The context's error takes the place of the upstream's.
Canceled == exec' = [exec EXCEPT !.at = "judge", !.last = {"canceled"}, !.boot = FALSE]

\* A failed attempt is recorded and the round goes on, unless the request is at fault.
\* When the context is done it ends, the attempt not recorded, or recorded if the
\* stream ended empty or the context did only then.
Attempt(c, e, boot) ==
  \/ canceled /\ Canceled /\ NoMark
  \/ canceled /\ setting.stream /\ Canceled /\ MarkResult(c, FALSE)
  \/ /\ ~canceled
     /\ MarkResult(c, FALSE)
     /\ exec' = [exec EXCEPT !.at = IF e = "invalid" THEN "judge" ELSE "pick",
                             !.last = {e}, !.boot = boot /\ e # "invalid"]

CallFails(c, e) ==
  /\ exec.at = "call"
  /\ exec.cred = {c}
  /\ Attempt(c, e, FALSE)
  /\ ExecOnly /\ UNCHANGED <<wrap, attempts, disturbed>>

\* An answer that is no stream is the end of it; a stream is open, but has to begin.
CallSucceeds(c) ==
  /\ exec.at = "call"
  /\ exec.cred = {c}
  /\ IF setting.stream THEN exec' = [exec EXCEPT !.at = "first"] /\ NoMark
     ELSE exec' = [exec EXCEPT !.at = "ok"] /\ MarkResult(c, TRUE)
  /\ ExecOnly /\ UNCHANGED <<wrap, attempts, disturbed>>

\* readStreamBootstrap, until the first payload: then the stream is the caller's. An
\* earlier one that failed is forgotten, nothing but its end is to come.
FirstChunk(c) ==
  /\ exec.at = "first"
  /\ exec.cred = {c}
  /\ exec' = [exec EXCEPT !.at = "ok"]
  /\ wrap' = [at |-> "emit", chunk |-> "data", cred |-> {c}, failed |-> FALSE, left |-> MaxChunks - 1]
  /\ ExecOnly /\ NoMark /\ UNCHANGED <<attempts, disturbed>>

\* An error, or the end (a failure too), comes before it.
FirstFails(c, e) ==
  /\ exec.at = "first"
  /\ exec.cred = {c}
  /\ Attempt(c, e, TRUE)
  /\ ExecOnly /\ UNCHANGED <<wrap, attempts, disturbed>>

\* closestCooldownWait, or nothing if no credential waits.
Waits == {cooling[c] : c \in Serving} \ {0}

\* Mutant of WaitAllowed: a longer wait is cut to the maximum.
WaitCut(n) == exec.last # {"invalid"} /\ exec.attempt < Retry /\ MaxWait > 0
              /\ IF Waits # {} THEN n = Min(Waits \cup {MaxWait})
                 ELSE n \in 1..MaxWait /\ exec.last = {"limited"} /\ ~exec.boot

\* shouldRetryAfterError. With no cooldown the upstream may name a time itself, which
\* the error of a stream that never began does not pass on.
WaitAllowed(n) == exec.last # {"invalid"} /\ exec.attempt < Retry /\ n \in 1..MaxWait
                  /\ IF Waits # {} THEN n = Min(Waits)
                     ELSE exec.last = {"limited"} /\ ~exec.boot

JudgeWait(n) ==
  /\ exec.at = "judge"
  /\ WaitAllowed(n)
  /\ exec' = [exec EXCEPT !.at = "wait", !.wait = n, !.cred = {}]
  /\ disturbed' = FALSE
  /\ ExecOnly /\ NoMark /\ UNCHANGED <<wrap, attempts>>

\* No retry: no wait is allowed, or the upstream has named no time. The error of a
\* stream that never began is handed over as a stream of one error.
NoRetry ==
  /\ exec.at = "judge"
  /\ (\E n \in 1..MaxWait : WaitAllowed(n)) => Waits = {}
  /\ IF exec.boot
     THEN /\ exec' = [exec EXCEPT !.at = "ok", !.cred = {}]
          /\ wrap' = [NoStream EXCEPT !.at = "ready", !.chunk = Sole(exec.last)]
     ELSE exec' = [exec EXCEPT !.at = "error", !.cred = {}] /\ UNCHANGED wrap
  /\ ExecOnly /\ NoMark /\ UNCHANGED <<attempts, disturbed>>

\* Mutant of NextRound: the attempt is not counted.
NextRoundUncounted ==
  /\ exec.at = "wait"
  /\ exec.wait = 0
  /\ exec' = [Begin EXCEPT !.attempt = exec.attempt]
  /\ ExecOnly /\ NoMark /\ UNCHANGED <<wrap, attempts, disturbed>>

\* waitForCooldown: the timer, ...
NextRound ==
  /\ exec.at = "wait"
  /\ exec.wait = 0
  /\ exec' = [Begin EXCEPT !.attempt = exec.attempt + 1]
  /\ ExecOnly /\ NoMark /\ UNCHANGED <<wrap, attempts, disturbed>>

\* ... or the context. That ends the wait for a first chunk as well.
ContextEnds ==
  /\ canceled
  /\ \/ exec.at = "wait" /\ exec' = [exec EXCEPT !.at = "error", !.last = {"canceled"}, !.wait = 0]
     \/ exec.at = "first" /\ Canceled
  /\ ExecOnly /\ NoMark /\ UNCHANGED <<wrap, attempts, disturbed>>

Exec ==
  \/ \E c \in Creds : Pick(c)
  \/ NoPick \/ NoRetry \/ NextRound \/ ContextEnds
  \/ \E n \in 1..MaxWait : JudgeWait(n)

-----------------------------------------------------------------------------
(* wrapStreamResult.                                                         *)

WrapOnly == UNCHANGED <<setting, exec, pump, errs, dataEnds, front, gone, canceled, attempts,
                        got, disturbed>>

\* Mutant of UpstreamFails: that the stream has failed is not kept.
UpstreamFailsUnkept(c, e) ==
  /\ wrap.at = "read" /\ wrap.cred = {c} /\ ~wrap.failed
  /\ MarkResult(c, FALSE)
  /\ wrap' = [wrap EXCEPT !.at = "emit", !.chunk = e]
  /\ WrapOnly

\* It passes on what the upstream sends, ...
UpstreamSends ==
  /\ wrap.at = "read" /\ ~wrap.failed
  /\ wrap.left > 0
  /\ wrap' = [wrap EXCEPT !.at = "emit", !.chunk = "data", !.left = @ - 1]
  /\ WrapOnly /\ NoMark

\* ... records its error before passing that on (nothing but the end comes after it), ...
UpstreamFails(c, e) ==
  /\ wrap.at = "read" /\ wrap.cred = {c} /\ ~wrap.failed
  /\ MarkResult(c, FALSE)
  /\ wrap' = [wrap EXCEPT !.at = "emit", !.chunk = e, !.failed = TRUE]
  /\ WrapOnly

\* ... and a success at the end.
UpstreamEnds(c) ==
  /\ wrap.at = "read" /\ wrap.cred = {c}
  /\ IF wrap.failed THEN NoMark ELSE MarkResult(c, TRUE)
  /\ wrap' = EndedStream
  /\ WrapOnly

\* Mutant of Discard: an error waits for its reader, whatever the context.
DiscardDataOnly ==
  /\ wrap.at = "emit"
  /\ wrap.chunk = "data"
  /\ canceled
  /\ wrap' = EndedStream
  /\ WrapOnly /\ NoMark

\* A chunk nobody takes once the context is done ends it; nothing is recorded.
Discard ==
  /\ wrap.at = "emit"
  /\ canceled
  /\ wrap' = EndedStream
  /\ WrapOnly /\ NoMark

\* The chunk at hand goes to the reader; a stream of one error has then ended.
Pass ==
  /\ wrap.at \in {"emit", "ready"}
  /\ wrap' = IF wrap.at = "ready" THEN EndedStream ELSE [wrap EXCEPT !.at = "read", !.chunk = "none"]

-----------------------------------------------------------------------------
(* The goroutine of executeStreamWithAuthManager.                            *)

PumpOnly == UNCHANGED <<setting, cooling, gone, canceled, attempts, got, marks, verdict, disturbed>>

Pumping(s)       == [pump EXCEPT !.at = s, !.chunk = "none"]
PumpingWith(s, m) == [pump EXCEPT !.at = s, !.chunk = m]

NextChunk ==
  /\ pump.at = "next"
  /\ \/ canceled /\ pump' = Pumping("closing") /\ UNCHANGED wrap
     \/ wrap.at = "ended" /\ pump' = Pumping("closing") /\ UNCHANGED wrap
     \/ Pass /\ pump' = PumpingWith("have", wrap.chunk)
  /\ PumpOnly /\ UNCHANGED <<exec, errs, dataEnds, front>>

\* Mutant of MayStartOver: also after the client has got a part.
MayStartOverAnyTime == pump.retries < Bootstrap /\ pump.chunk \notin {"invalid", "refused"}

\* bootstrapEligible goes by the status: other ones than those of a refusal.
MayStartOver ==
  ~pump.sent /\ pump.retries < Bootstrap /\ pump.chunk \notin {"invalid", "refused"}

\* A payload is sent, dropped by a plugin, or found invalid (an error of its own).
HandleData ==
  /\ pump.at = "have"
  /\ pump.chunk = "data"
  /\ \/ pump' = [Pumping("send") EXCEPT !.sent = TRUE]
     \/ pump' = Pumping("next")
     \/ setting.strict /\ pump' = PumpingWith("fail", "failed")
  /\ PumpOnly /\ UNCHANGED <<exec, wrap, errs, dataEnds, front>>

\* An error before anything was sent may start the whole execution over.
HandleError ==
  /\ pump.at = "have"
  /\ pump.chunk # "data"
  /\ IF MayStartOver
     THEN pump' = [Pumping("exec") EXCEPT !.retries = @ + 1] /\ exec' = Begin
     ELSE pump' = PumpingWith("fail", pump.chunk) /\ UNCHANGED exec
  /\ PumpOnly /\ UNCHANGED <<wrap, errs, dataEnds, front>>

StartedOver ==
  /\ pump.at = "exec"
  /\ \/ exec.at = "ok" /\ pump' = Pumping("next")
     \/ exec.at = "error" /\ pump' = PumpingWith("fail", Sole(exec.last))
  /\ exec' = [Begin EXCEPT !.at = "off"]
  /\ PumpOnly /\ UNCHANGED <<wrap, errs, dataEnds, front>>

\* sendErr and sendData give up with the context; errChan has room for the error.
SendError ==
  /\ pump.at = "fail"
  /\ pump' = Pumping("closing")
  /\ \/ errs' = [errs EXCEPT !.msg = {pump.chunk}]
     \/ canceled /\ UNCHANGED errs
  /\ PumpOnly /\ UNCHANGED <<exec, wrap, dataEnds, front>>

NotSent ==
  /\ pump.at = "send"
  /\ canceled
  /\ pump' = Pumping("closing")
  /\ PumpOnly /\ UNCHANGED <<exec, wrap, errs, dataEnds, front>>

\* First errChan is closed, then dataChan.
CloseErrors ==
  /\ pump.at = "closing"
  /\ errs' = [errs EXCEPT !.closed = TRUE]
  /\ pump' = Pumping("closed")
  /\ PumpOnly /\ UNCHANGED <<exec, wrap, dataEnds, front>>

CloseData ==
  /\ pump.at = "closed"
  /\ dataEnds' = TRUE
  /\ pump' = Pumping("ended")
  /\ PumpOnly /\ UNCHANGED <<exec, wrap, errs, front>>

Pump == NextChunk \/ HandleData \/ HandleError \/ StartedOver \/ SendError \/ NotSent
        \/ CloseErrors \/ CloseData

-----------------------------------------------------------------------------
(* The gin handler.                                                          *)

FrontOnly == UNCHANGED <<setting, cooling, dataEnds, gone, attempts, marks, verdict, disturbed>>

\* However it ends, it cancels the request's context.
Finish(how) == front' = how /\ canceled' = TRUE

\* The execution has returned to the handler: with an answer, a stream, or an error.
Returned ==
  /\ front = "call"
  /\ exec.at \in {"ok", "error"}
  /\ exec' = [Begin EXCEPT !.at = "off"]
  /\ IF setting.stream
     THEN /\ IF exec.at = "ok" THEN front' = "initial" /\ UNCHANGED errs
             ELSE front' = "peek" /\ errs' = [msg |-> exec.last, closed |-> TRUE]
          /\ UNCHANGED <<canceled, got>>
     ELSE /\ Finish(IF exec.at = "ok" THEN "done" ELSE "error")
          /\ got' = IF exec.at = "ok" THEN {attempts} ELSE {}
          /\ UNCHANGED errs
  /\ FrontOnly /\ UNCHANGED <<wrap, pump>>

\* readInitialStreamChunks; then the pump starts with what was read.
ReadInitial ==
  /\ front = "initial"
  /\ \/ canceled /\ pump' = Pumping("closing") /\ UNCHANGED wrap
     \/ wrap.at = "ended" /\ pump' = Pumping("closing") /\ UNCHANGED wrap
     \/ Pass /\ pump' = PumpingWith("have", wrap.chunk)
  /\ front' = "peek"
  /\ FrontOnly /\ UNCHANGED <<exec, errs, canceled, got>>

\* The peek, and ForwardStream after the first chunk, select among the client's end, ...
SeeGone ==
  /\ front \in {"peek", "forward"}
  /\ gone
  /\ Finish("gone")
  /\ FrontOnly /\ UNCHANGED <<exec, wrap, pump, errs, got>>

\* ... a chunk, ...
TakeData ==
  /\ front \in {"peek", "forward"}
  /\ pump.at = "send"
  /\ pump' = Pumping("next")
  /\ front' = "forward"
  /\ got' = got \cup {attempts}
  /\ FrontOnly /\ UNCHANGED <<exec, wrap, errs, canceled>>

\* ... an error, ...
TakeError ==
  /\ front \in {"peek", "forward"}
  /\ errs.msg # {}
  /\ errs' = [errs EXCEPT !.msg = {}]
  /\ Finish("error")
  /\ FrontOnly /\ UNCHANGED <<exec, wrap, pump, got>>

\* Mutant of LooksAgain: only the handler of the peek looks again.
LooksAgainAtFirst == front = "peek" /\ Recheck

\* When the data end, ForwardStream looks for an error once more; of the peeks only
\* some do (Recheck).
LooksAgain == front = "forward" \/ Recheck

\* ... and the end of the data.
DataEnd ==
  /\ front \in {"peek", "forward"}
  /\ dataEnds
  /\ Finish(IF LooksAgain /\ errs.msg # {} THEN "error" ELSE "done")
  /\ FrontOnly /\ UNCHANGED <<exec, wrap, pump, errs, got>>

Handler == Returned \/ ReadInitial \/ SeeGone \/ TakeData \/ TakeError \/ DataEnd

-----------------------------------------------------------------------------
Upstream ==
  \/ \E c \in Creds : CallSucceeds(c) \/ FirstChunk(c) \/ UpstreamEnds(c)
  \/ \E c \in Creds, e \in Errors : CallFails(c, e) \/ FirstFails(c, e) \/ UpstreamFails(c, e)
  \/ UpstreamSends

AllEnded == front \in Over /\ pump.at \in {"none", "ended"} /\ wrap.at \in {"none", "ready", "ended"}

\* Once all its goroutines have ended the same client asks again.
NextRequest ==
  /\ AllEnded
  /\ exec' = Begin /\ wrap' = NoStream /\ pump' = NoPump
  /\ errs' = [msg |-> {}, closed |-> FALSE] /\ dataEnds' = FALSE
  /\ front' = "call" /\ gone' = FALSE /\ canceled' = FALSE
  /\ attempts' = 0 /\ got' = {} /\ marks' = 0 /\ verdict' = "none" /\ disturbed' = FALSE
  /\ UNCHANGED <<setting, cooling>>

ExecutionNext ==
  \/ CooldownsPass \/ ClientGone \/ Propagate
  \/ \E c \in Creds, n \in 0..MaxCool : OthersMark(c, n)
  \/ Exec \/ Upstream \/ Discard \/ Pump \/ Handler \/ NextRequest

ExecutionSpec == ExecutionInit /\ [][ExecutionNext]_execVars

\* What runs by itself: the goroutines, and an upstream call once its context has ended.
GoesOn == Propagate \/ Exec \/ Discard \/ Pump \/ Handler \/ (canceled /\ Upstream)

-----------------------------------------------------------------------------
\* What the client gets comes from one attempt: nothing is tried again once a part of
\* an answer was sent.
OneVoice == Cardinality(got) <= 1

\* Every attempt is recorded once, the one whose stream breaks in the middle as well,
\* and none twice; only one whose context ended may stay unrecorded.
AttemptOver == attempts > 0 /\ exec.at \notin {"call", "first"} /\ wrap.at \notin {"emit", "read"}
MarkedOnce  == marks <= 1 /\ (AttemptOver /\ ~canceled => marks = 1)

\* A client that stays and is told its stream is complete has an answer that the
\* Manager recorded as a success, not one whose error lost a race with its end.
DoneMeansComplete == front = "done" /\ ~gone => verdict = "good"

\* However retries of the three loops nest, upstreams are tried no more often than
\* their three limits allow together.
AttemptsBounded == attempts <= MostTries

\* A request that waited for a cooldown then has a credential to try, unless others
\* changed the cooldowns meanwhile.
WaitPaysOff ==
  exec.at = "judge" /\ exec.attempt > 0 /\ exec.tried = {} => disturbed

\* What a goroutine waits for is there: the Manager has to decide, a chunk has a reader,
\* an outcome its caller, or the context has ended that all of them watch.
CanGoOn ==
  \/ gone /\ ~canceled
  \/ exec.at \in {"pick", "judge"} \/ (exec.at = "wait" /\ exec.wait = 0)
  \/ canceled /\ (exec.at \in {"wait", "call", "first"} \/ wrap.at \in {"emit", "read"})
  \/ exec.at \in {"ok", "error"} /\ (front = "call" \/ pump.at = "exec")
  \/ pump.at \in {"have", "fail", "closing", "closed"}
  \/ (pump.at = "next" \/ front = "initial") /\ (canceled \/ wrap.at \in {"emit", "ready", "ended"})
  \/ pump.at = "send" /\ canceled
  \/ front \in {"peek", "forward"} /\ (gone \/ pump.at = "send" \/ errs.msg # {} \/ dataEnds)

\* No goroutine of a request is ever left behind, waiting for another that waits too:
\* as long as they have not all ended, one of them can go on (an upstream call after
\* its context has ended), or a wait has still to pass, or the upstream is silent and
\* the client waits for it. Their steps are finite in number, so they end. A goroutine
\* that has what it waits for does take a step.
Silent           == ~canceled /\ (exec.at \in {"call", "first"} \/ wrap.at = "read")
NobodyStuck      == AllEnded \/ Silent \/ exec.wait > 0 \/ CanGoOn
NobodyLeftBehind == NobodyStuck /\ (CanGoOn => ENABLED GoesOn)
=============================================================================
