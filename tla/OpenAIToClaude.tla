--------------------------- MODULE OpenAIToClaude ---------------------------
(***************************************************************************)
(* The translator of a streamed OpenAI answer into Claude's events. Blocks   *)
(* get their index when they start; a tool call starts when both its name    *)
(* and its id have come, at the latest when the answer finishes, and gets     *)
(* its arguments in one delta then.                                          *)
(***************************************************************************)
EXTENDS ClaudeEvents

CONSTANT Calls  \* how many tool calls an answer may have (a bound)

ASSUME CallsAssumption == Calls \in Nat

Tools == 0..Calls - 1

NoBlock == -1

\* thinking and text: index of the open block of that kind; at: those of tool calls that
\* were announced and not stopped.
OpenAIParams ==
  [begun |-> FALSE, saw |-> FALSE, thinking |-> NoBlock, text |-> NoBlock, next |-> 0,
   calls |-> [i \in Tools |-> [id |-> FALSE, name |-> FALSE, args |-> FALSE, started |-> FALSE]],
   at |-> [i \in Tools |-> NoBlock], stopped |-> FALSE, finish |-> "",
   told |-> FALSE, over |-> FALSE, reading |-> NewReading]

stopThinkingContentBlock(p) ==
  IF p.thinking = NoBlock THEN p
  ELSE [Emit(p, StopBlock(p.thinking)) EXCEPT !.thinking = NoBlock]

\* Mutant of stopTextContentBlock: the block is stopped and still taken to be open.
StopTextForgets(p) == IF p.text = NoBlock THEN p ELSE Emit(p, StopBlock(p.text))

stopTextContentBlock(p) ==
  IF p.text = NoBlock THEN p ELSE [Emit(p, StopBlock(p.text)) EXCEPT !.text = NoBlock]

emitMessageStopIfNeeded(p) == IF p.over THEN p ELSE [Emit(p, MessageStop) EXCEPT !.over = TRUE]

HandleReasoning(p) ==
  LET q == stopTextContentBlock(p)
      s == IF q.thinking # NoBlock THEN q
           ELSE [Emit(q, StartBlock(q.next, "thinking")) EXCEPT !.thinking = q.next, !.next = @ + 1]
  IN  Emit(s, DeltaTo(s.thinking, "thinking"))

HandleContent(p) ==
  LET q == stopThinkingContentBlock(p)
      s == IF p.text # NoBlock THEN p
           ELSE [Emit(q, StartBlock(q.next, "text")) EXCEPT !.text = q.next, !.next = @ + 1]
  IN  Emit(s, DeltaTo(s.text, "text"))

emitToolUseStart(p, i) ==
  LET s == stopTextContentBlock(stopThinkingContentBlock(p))
  IN  [Emit(s, StartBlock(s.next, "tool")) EXCEPT
         !.at[i] = s.next, !.next = @ + 1, !.calls[i].started = TRUE, !.saw = TRUE]

\* c: the index of the call, and which of id, name and arguments this chunk brings.
HandleToolCall(p, c) ==
  LET q == [p EXCEPT !.calls[c.index].id = @ \/ c.id, !.calls[c.index].name = @ \/ c.name,
                     !.calls[c.index].args = @ \/ c.args]
      a == q.calls[c.index]
  IN  IF ~a.started /\ a.name /\ a.id /\ ~p.stopped THEN emitToolUseStart(q, c.index) ELSE q

\* What finish_reason and [DONE] share: every block is stopped, a call without a name
\* is dropped, one without an id announced now.
StopToolCall(p, i) ==
  IF ~p.calls[i].started /\ ~p.calls[i].name THEN p
  ELSE LET s == IF p.calls[i].started THEN p ELSE emitToolUseStart(p, i)
           d == IF s.calls[i].args THEN Emit(s, DeltaTo(s.at[i], "tool")) ELSE s
       IN  [Emit(d, StopBlock(s.at[i])) EXCEPT !.at[i] = NoBlock]

StopEverything(p) ==
  LET s == stopTextContentBlock(stopThinkingContentBlock(p))
  IN  IF s.stopped THEN s
      ELSE [Trail(StopToolCall, s, [n \in 1..Calls |-> n - 1])[Calls] EXCEPT !.stopped = TRUE]

HandleFinish(p, reason) ==
  StopEverything([p EXCEPT !.finish =
    IF p.saw THEN "tool_calls" ELSE IF reason = "tool_calls" THEN "stop" ELSE reason])

mapOpenAIFinishReasonToAnthropic(reason) ==
  CASE reason = "length"                         -> "max_tokens"
    [] reason \in {"tool_calls", "function_call"} -> "tool_use"
    [] OTHER                                     -> "end_turn"

TellReason(p) ==
  [Emit(p, MessageDelta(mapOpenAIFinishReasonToAnthropic(
              IF p.saw THEN "tool_calls" ELSE p.finish))) EXCEPT !.told = TRUE]

\* A chunk: whether it has a delta and, in it, reasoning, content and pieces of tool calls;
\* its finish_reason ("" for none); whether it has a usage object.
ConvertOpenAIChunk(p, c) ==
  LET begun  == IF c.delta /\ ~p.begun THEN [Emit(p, MessageStart) EXCEPT !.begun = TRUE] ELSE p
      think  == IF c.reasoning THEN HandleReasoning(begun) ELSE begun
      say    == IF c.content THEN HandleContent(think) ELSE think
      call   == Trail(HandleToolCall, say, c.calls)[Len(c.calls)]
      finish == IF c.finish = "" THEN call ELSE HandleFinish(call, c.finish)
  IN  IF finish.finish # "" /\ c.usage THEN emitMessageStopIfNeeded(TellReason(finish)) ELSE finish

convertOpenAIDone(p) ==
  LET s == StopEverything(p)
  IN  emitMessageStopIfNeeded(IF s.finish # "" /\ ~s.told THEN TellReason(s) ELSE s)

ConvertOpenAIResponseToClaude(p, c) == IF c.done THEN convertOpenAIDone(p) ELSE ConvertOpenAIChunk(p, c)

-----------------------------------------------------------------------------
(* The upstream: deltas, a chunk with a finish reason, the usage with it or   *)
(* once in a chunk without choices, [DONE]; and what the executor adds: a      *)
(* [DONE] of its own when the upstream has closed the stream, also one that    *)
(* was cut after its first delta.                                             *)

Piece == [index: Tools, id: BOOLEAN, name: BOOLEAN, args: BOOLEAN]

Whole(i) == [index |-> i, id |-> TRUE, name |-> TRUE, args |-> TRUE]

\* A delta with text or a whole call or both, perhaps the last; and one with a piece of a
\* call or two calls.
Deltas(finishes, usage) ==
  [done: {FALSE}, delta: {TRUE}, reasoning: BOOLEAN, content: BOOLEAN,
   calls: {<<>>} \cup {<<Whole(i)>> : i \in Tools}, finish: finishes, usage: {usage}]
PiecesOfCalls == {<<c>> : c \in Piece} \cup {<<Whole(i), Whole(j)>> : i \in Tools, j \in Tools}
CallDeltas ==
  [done: {FALSE}, delta: {TRUE}, reasoning: {FALSE}, content: {FALSE},
   calls: PiecesOfCalls, finish: {""}, usage: {FALSE}]

NoChoices(usage) ==
  [done |-> FALSE, delta |-> FALSE, reasoning |-> FALSE, content |-> FALSE, calls |-> <<>>,
   finish |-> "", usage |-> usage]
OpenAIDone == [NoChoices(FALSE) EXCEPT !.done = TRUE]

Finishing(usage) == Deltas({"stop", "length", "tool_calls", "function_call"}, usage)

\* What the upstream may say at a place of its answer, and the place after it; `more`
\* bounds the answer.
OpenAIUpstream(at, more) ==
  CASE at \in {"new", "deltas"} ->
         (IF more THEN [chunk: Deltas({""}, FALSE) \cup CallDeltas, next: {"deltas"}] ELSE {})
         \cup [chunk: Finishing(FALSE), next: {"finished"}]
         \cup [chunk: Finishing(TRUE), next: {"told"}]
         \cup (IF at = "new" THEN [chunk: {NoChoices(FALSE)}, next: {"new"}]
                            ELSE [chunk: {OpenAIDone}, next: {"cut"}])
    [] at = "finished" ->
         [chunk: {NoChoices(TRUE)}, next: {"told"}] \cup [chunk: {OpenAIDone}, next: {"done"}]
    [] at = "told" -> [chunk: {OpenAIDone}, next: {"done"}]
    [] at = "done" -> [chunk: {OpenAIDone}, next: {"closed"}]
    [] OTHER       -> {}
=============================================================================
