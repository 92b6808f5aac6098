--------------------------- MODULE GeminiToClaude ---------------------------
(***************************************************************************)
(* The translators of streamed Gemini and Antigravity answers into Claude's  *)
(* events. Both keep one block open, of kind `type` at `index`, and move to   *)
(* the next index when the kind changes; Antigravity's also turns grounding   *)
(* metadata into web search blocks and holds the text back until it comes.    *)
(***************************************************************************)
EXTENDS ClaudeEvents

CONSTANT MaxParts  \* of how many parts a chunk may have (a bound)

\* web: Antigravity's webSearchStreamMode; searched: HasWebSearchTool; held: text in
\* WebSearchTextBuffer.
GeminiParams(web) ==
  [begun |-> FALSE, type |-> "none", index |-> 0, content |-> FALSE, tool |-> FALSE,
   finish |-> "", usage |-> FALSE, told |-> FALSE,
   web |-> web, searched |-> FALSE, held |-> FALSE,
   reading |-> NewReading]

BeginMessage(p) == IF p.begun THEN p ELSE [Emit(p, MessageStart) EXCEPT !.begun = TRUE]

\* The open block is stopped and the next index taken.
LeaveBlock(p) == IF p.type = "none" THEN p ELSE StopHere(p)

\* A delta for a block of the kind; one is started unless it is the open one.
Say(p, kind) ==
  LET s == IF p.type = kind THEN p ELSE [StartHere(LeaveBlock(p), kind) EXCEPT !.type = kind]
  IN  [DeltaHere(s, kind) EXCEPT !.content = TRUE]

\* A signature belongs to the open thinking block, and is dropped without one.
appendSignatureDelta(p) ==
  IF p.type # "thinking" THEN p
  ELSE [DeltaHere(p, "thinking") EXCEPT !.content = TRUE]

\* A part's text ("none" when it has no such field), whether it is a thought and has a
\* signature, its function call.
Part(text, thought, sig, call, args) ==
  [text |-> text, thought |-> thought, sig |-> sig, call |-> call, args |-> args]

StartCall(p, part) ==
  LET s == [StartHere(LeaveBlock(p), "tool") EXCEPT !.type = "tool", !.content = TRUE]
  IN  IF part.args THEN DeltaHere(s, "tool") ELSE s

-----------------------------------------------------------------------------
(* Gemini.                                                                   *)

\* A nameless call continues the open one.
GeminiCall(p, part) ==
  LET q == [p EXCEPT !.tool = TRUE]
  IN  IF p.type # "tool" \/ part.call = "named" THEN StartCall(q, part)
      ELSE IF part.args THEN DeltaHere(q, "tool") ELSE q

GeminiPart(p, part) ==
  CASE part.text = "none"               -> IF part.call = "none" THEN appendSignatureDelta(p)
                                           ELSE GeminiCall(p, part)
    [] part.text = "empty" /\ part.sig -> appendSignatureDelta(p)
    [] part.text = "some" /\ part.sig  -> appendSignatureDelta(Say(p, "thinking"))
    [] OTHER                            -> Say(p, IF part.thought THEN "thinking" ELSE "text")

StopReason(p) ==
  IF p.tool THEN "tool_use" ELSE IF p.finish = "MAX_TOKENS" THEN "max_tokens" ELSE "end_turn"

\* The block stays at its index: nothing is to come after these.
FinalEvents(p) ==
  LET s == IF p.type = "none" THEN p ELSE [Emit(p, StopBlock(p.index)) EXCEPT !.type = "none"]
  IN  [Emit(s, MessageDelta(StopReason(s))) EXCEPT !.told = TRUE]

ConvertGeminiResponseToClaude(p, c) ==
  IF c.done THEN (IF p.content THEN Emit(p, MessageStop) ELSE p)
  ELSE LET said == Trail(GeminiPart, BeginMessage(p), c.parts)[Len(c.parts)]
           s    == [said EXCEPT !.finish = c.finish]
       IN  IF c.usage /\ c.finish # "" /\ ~s.told /\ s.content THEN FinalEvents(s) ELSE s

-----------------------------------------------------------------------------
(* Antigravity.                                                              *)

\* Text that comes with a signature is part of the thought, a signature on a call is
\* dropped; empty text is a delta of open text, ends any other block, and is ignored in
\* the chunk that finishes.
AntigravityPart(finish, p, part) ==
  CASE part.text = "none"               -> IF part.call = "none" THEN appendSignatureDelta(p)
                                           ELSE StartCall([p EXCEPT !.tool = TRUE], part)
    [] part.text = "empty" /\ part.sig -> appendSignatureDelta(p)
    [] part.text = "some" /\ part.sig  -> appendSignatureDelta(Say(p, "thinking"))
    [] ~part.sig /\ (part.text = "some" \/ (part.text = "empty" /\ part.thought)) ->
         Say(p, IF part.thought THEN "thinking" ELSE "text")
    [] OTHER -> IF finish # "" THEN p ELSE IF p.type = "text" THEN Say(p, "text") ELSE LeaveBlock(p)

AfterParts(p, c) == Trail(LAMBDA q, part : AntigravityPart(c.finish, q, part), p, c.parts)

\* Blocks of their own, each stopped at once: the search with its query, its results,
\* what was said.
appendClaudeWebSearchStreamBlocks(p, text) ==
  LET search  == StopHere(DeltaHere(StartHere(p, "search"), "search"))
      results == StopHere(StartHere(search, "results"))
      answer  == StopHere(DeltaHere(StartHere(results, "text"), "text"))
  IN  [IF text THEN answer ELSE results EXCEPT
         !.type = "none", !.content = TRUE, !.searched = TRUE, !.held = FALSE]

appendBufferedWebSearchTextBlock(p) ==
  [DeltaHere(StartHere(p, "text"), "text")
     EXCEPT !.type = "text", !.content = TRUE, !.held = FALSE]

\* Mutant of appendFinalEvents: without token counts not even [DONE] gives a stop reason.
FinalEventsNeedUsage(p, force) ==
  IF p.told \/ ~p.content \/ ~p.usage THEN p ELSE FinalEvents(p)

appendFinalEvents(p, force) ==
  IF p.told \/ ~p.content \/ ~(p.usage \/ force) THEN p ELSE FinalEvents(p)

\* What grounding takes for the answer's text, and what is held back for it.
AnyText(parts)   == \E i \in DOMAIN parts : parts[i].text = "some"
PlainText(parts) == \E i \in DOMAIN parts : parts[i].text = "some" /\ ~parts[i].thought

ConvertAntigravityChunk(p, c) ==
  LET waits == p.web /\ ~p.searched
      said  == IF waits /\ c.grounding
               THEN appendClaudeWebSearchStreamBlocks(BeginMessage(p), p.held \/ AnyText(c.parts))
               ELSE IF waits THEN [BeginMessage(p) EXCEPT !.held = @ \/ PlainText(c.parts)]
               ELSE AfterParts(BeginMessage(p), c)[Len(c.parts)]
      seen  == [said EXCEPT !.finish = IF c.finish = "" THEN @ ELSE c.finish, !.usage = @ \/ c.usage]
      whole == IF ~seen.searched /\ seen.finish # "" /\ seen.held
               THEN appendBufferedWebSearchTextBlock(seen) ELSE seen
  IN  IF whole.usage /\ whole.finish # "" THEN appendFinalEvents(whole, FALSE) ELSE whole

ConvertAntigravityResponseToClaude(p, c) ==
  IF ~c.done THEN ConvertAntigravityChunk(p, c)
  ELSE IF p.content THEN Emit(appendFinalEvents(p, TRUE), MessageStop) ELSE p

-----------------------------------------------------------------------------
(* The upstreams: chunks of a few parts, one that finishes, and the       *)
(* executor's [DONE], which also comes after a stream that was cut. Usage is   *)
(* filtered out of all chunks but the last, and Antigravity may send it in a   *)
(* chunk after that.                                                          *)

Parts ==
  {Part("some", thought, sig, "none", FALSE) : thought \in BOOLEAN, sig \in BOOLEAN}
  \cup {Part("empty", FALSE, sig, "none", FALSE) : sig \in BOOLEAN}
  \cup {Part("none", FALSE, TRUE, "none", FALSE), Part("none", FALSE, FALSE, "nameless", TRUE)}
  \cup {Part("none", FALSE, sig, "named", TRUE) : sig \in BOOLEAN}

Chunks(finishes, usage, web) ==
  [done: {FALSE}, parts: UNION {[1..n -> Parts] : n \in 0..MaxParts}, finish: finishes, usage: usage,
   grounding: {FALSE, web}]
GeminiDone ==
  [done |-> TRUE, parts |-> <<>>, finish |-> "", usage |-> FALSE, grounding |-> FALSE]
UsageAlone == [GeminiDone EXCEPT !.done = FALSE, !.usage = TRUE]

\* What the upstream may say at a place of its answer, and the place after it; `more`
\* bounds the answer, `web` is whether it was asked to search, and `late` whether its usage
\* may come late (Gemini's does not).
GeminiUpstream(at, more, web, late) ==
  CASE at = "parts" ->
         (IF more THEN [chunk: Chunks({""}, {FALSE}, web), next: {"parts"}] ELSE {})
         \cup [chunk: Chunks({"STOP", "MAX_TOKENS"}, {TRUE, ~late}, web), next: {"finished"}]
         \cup [chunk: {GeminiDone}, next: {"cut"}]
    [] at = "finished" ->
         [chunk: {GeminiDone}, next: {"done"}]
         \cup [chunk: IF late THEN {UsageAlone} ELSE {}, next: {"finished"}]
    [] OTHER -> {}

\* Antigravity's translator forgets to leave a block that is not text when it stops it for
\* an empty text, and writes to a block that is not there from then on.
KeepsItsPlace(p, c) ==
  c.finish = "" =>
    \A i \in DOMAIN c.parts :
      c.parts[i] = Part("empty", FALSE, FALSE, "none", FALSE) =>
        AfterParts(BeginMessage(p), c)[i - 1].type \in {"none", "text"}
=============================================================================
