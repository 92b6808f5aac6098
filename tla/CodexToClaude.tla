---------------------------- MODULE CodexToClaude ----------------------------
(***************************************************************************)
(* The translator of a streamed Codex (Responses) answer into Claude's       *)
(* events. It counts blocks in `index`, which moves on when a block stops; a  *)
(* function call that is added without its name takes an index at once and    *)
(* is written when its item is done.                                         *)
(***************************************************************************)
EXTENDS ClaudeEvents

NoCall == [index |-> -1]

\* text, thinking: whether such a block is open; summary: ThinkingSummarySeen; heard:
\* HasTextDelta; args: HasReceivedArgumentsDelta; pending: the one call without a name.
\* Items follow one another, so it needs no key.
CodexParams ==
  [index |-> 0, text |-> FALSE, thinking |-> FALSE, stopPending |-> FALSE, sig |-> FALSE,
   summary |-> FALSE, tool |-> FALSE, heard |-> FALSE, args |-> FALSE, pending |-> NoCall,
   reading |-> NewReading]

startCodexTextBlock(p) == IF p.text THEN p ELSE [StartHere(p, "text") EXCEPT !.text = TRUE]
stopCodexTextBlock(p)  == IF p.text THEN [StopHere(p) EXCEPT !.text = FALSE] ELSE p

startCodexThinkingBlock(p) ==
  IF p.thinking THEN p
  ELSE [StartHere(p, "thinking") EXCEPT !.thinking = TRUE, !.stopPending = FALSE]

finalizeCodexThinkingBlock(p) ==
  IF ~p.thinking THEN p
  ELSE [StopHere(IF p.sig THEN DeltaHere(p, "thinking") ELSE p)
          EXCEPT !.thinking = FALSE, !.stopPending = FALSE]

finalizeIfPending(p) == IF p.stopPending THEN finalizeCodexThinkingBlock(p) ELSE p

OutputText(p) == DeltaHere(startCodexTextBlock(finalizeCodexThinkingBlock(p)), "text")

CallAdded(p, named) ==
  LET q == [stopCodexTextBlock(finalizeCodexThinkingBlock(p)) EXCEPT !.tool = TRUE, !.args = FALSE]
  IN  IF named THEN DeltaHere(StartHere(q, "tool"), "tool")
      ELSE [q EXCEPT !.pending = [index |-> q.index, args |-> FALSE, heard |-> FALSE],
                     !.index = @ + 1]

\* The item carries the name, and the arguments in case none have come.
CallDone(p, args) ==
  LET i == p.pending.index
      s == Emit(p, StartBlock(i, "tool"))
      d == IF p.pending.args \/ args THEN Emit(s, DeltaTo(i, "tool")) ELSE s
  IN  IF p.pending = NoCall THEN StopHere(p)
      ELSE [Emit(d, StopBlock(i)) EXCEPT !.pending = NoCall]

ArgumentsDelta(p) ==
  IF p.pending = NoCall THEN [DeltaHere(p, "tool") EXCEPT !.args = TRUE]
  ELSE [p EXCEPT !.pending.args = TRUE, !.pending.heard = TRUE]

ArgumentsDone(p, args) ==
  CASE p.pending # NoCall -> IF p.pending.heard THEN p ELSE [p EXCEPT !.pending.args = args]
    [] OTHER              -> IF args /\ ~p.args THEN DeltaHere(p, "tool") ELSE p

\* A reasoning item without a summary is a thinking block of its signature alone.
ReasoningDone(p, sig) ==
  LET q == [p EXCEPT !.sig = @ \/ sig]
      s == IF q.summary THEN finalizeCodexThinkingBlock(q)
           ELSE IF q.sig THEN finalizeCodexThinkingBlock(startCodexThinkingBlock(q)) ELSE q
  IN  [s EXCEPT !.sig = FALSE, !.summary = FALSE]

MessageDone(p, text) ==
  IF p.heard \/ ~text THEN p ELSE [stopCodexTextBlock(OutputText(p)) EXCEPT !.heard = TRUE]

\* The search's block has its query, if the item tells it; so is there a block of results.
SearchDone(p, query) ==
  LET s == StartHere(finalizeCodexThinkingBlock(p), "search")
  IN  IF query THEN StopHere(StartHere(StopHere(DeltaHere(s, "search")), "results")) ELSE StopHere(s)

Completions == {"completed", "incomplete"}

\* The response's own stop_reason, here whether it names a call (as tool_use, tool_calls or
\* function_call), before why it is incomplete.
codexStopReason(e) ==
  IF e.brings THEN "function_call" ELSE IF e.type = "incomplete" THEN "max_output_tokens" ELSE ""

\* All reasons that are neither a call nor a limit are one here.
mapCodexStopReasonToClaude(stopReason, hasToolCall) ==
  IF hasToolCall \/ stopReason = "function_call" THEN "tool_use"
  ELSE IF stopReason = "max_output_tokens" THEN "max_tokens" ELSE "end_turn"

\* An event: its type and whether it brings what events of its type may bring.
ConvertCodexResponseToClaude(p, e) ==
  LET q == IF e.type \in Completions \cup {"part.added"} THEN finalizeIfPending(p) ELSE p
  IN CASE e.type = "created"         -> Emit(q, MessageStart)
       [] e.type = "summary.added"   ->
            startCodexThinkingBlock([finalizeIfPending(q) EXCEPT !.summary = TRUE])
       [] e.type = "summary.delta"   -> DeltaHere(q, "thinking")
       [] e.type = "summary.done"    -> [q EXCEPT !.stopPending = TRUE]
       [] e.type = "part.added"      -> startCodexTextBlock(q)
       [] e.type = "text.delta"      -> [OutputText(q) EXCEPT !.heard = TRUE]
       [] e.type = "part.done"       -> stopCodexTextBlock(q)
       [] e.type = "reasoning.added" -> [q EXCEPT !.summary = FALSE, !.sig = e.brings]
       [] e.type = "reasoning.done"  -> ReasoningDone(q, e.brings)
       [] e.type = "message.added"   -> q
       [] e.type = "message.done"    -> MessageDone(q, e.brings)
       [] e.type = "call.added"      -> CallAdded(q, e.brings)
       [] e.type = "args.delta"      -> ArgumentsDelta(q)
       [] e.type = "args.done"       -> ArgumentsDone(q, e.brings)
       [] e.type = "call.done"       -> CallDone(q, e.brings)
       [] e.type = "search.done"     -> SearchDone(q, e.brings)
       [] e.type \in Completions     ->
            Emit(Emit(q, MessageDelta(mapCodexStopReasonToClaude(codexStopReason(e), q.tool))),
                 MessageStop)
       [] e.type = "error"           -> Emit(q, ErrorEvent)

-----------------------------------------------------------------------------
(* The upstream: items one after another, each with its parts and their       *)
(* deltas; a reasoning item that has a summary may lack its end. An error may   *)
(* end the answer anywhere.                                                   *)

To(next, type, brings) == [chunk: [type: {type}, brings: brings], next: {next}]

\* The answer is complete, or cut at a limit; it may itself say that it stops for a call.
Completed == UNION {To("done", t, {FALSE}) \cup To("asked", t, {TRUE}) : t \in Completions}

NextItem(more) ==
  Completed \cup To("message", "message.added", {FALSE})
  \cup IF ~more THEN {}
       ELSE To("reasoning", "reasoning.added", BOOLEAN) \cup To("call", "call.added", BOOLEAN)
            \cup To("items", "search.done", BOOLEAN)

NextSummary(more) == IF more THEN To("summary", "summary.added", {FALSE}) ELSE {}

\* What the upstream may say at a place of its answer, and the place after it; `more`
\* bounds the answer.
CodexUpstream(at, more) ==
  CASE at = "new"        -> To("items", "created", {FALSE})
    [] at = "items"      -> NextItem(more)
    [] at = "reasoning"  -> NextSummary(more) \cup To("items", "reasoning.done", BOOLEAN)
    [] at = "summary"    -> To("summary", "summary.delta", {FALSE})
                            \cup To("summarized", "summary.done", {FALSE})
    [] at = "summarized" -> NextSummary(more) \cup To("items", "reasoning.done", BOOLEAN)
                            \cup NextItem(more)
    [] at = "message"    -> To("items", "message.done", BOOLEAN)
                            \cup IF more THEN To("part", "part.added", {FALSE}) ELSE {}
    [] at = "part"       -> To("part", "text.delta", {FALSE}) \cup To("message", "part.done", {FALSE})
    [] at = "call"       -> To("call", "args.delta", {FALSE}) \cup To("called", "args.done", BOOLEAN)
    [] at = "called"     -> To("items", "call.done", BOOLEAN)
    [] OTHER             -> {}

CodexFails(at) == IF at \in {"done", "asked", "failed"} THEN {} ELSE To("failed", "error", {FALSE})
=============================================================================
