----------------------------- MODULE ClaudeStream -----------------------------
(***************************************************************************)
(* One streamed answer to a client that speaks Claude's format: an upstream  *)
(* of any of the four formats, its translator with the state it keeps from    *)
(* chunk to chunk, and the client's reading of what it has written.           *)
(***************************************************************************)
EXTENDS OpenAIToClaude, GeminiToClaude, CodexToClaude, FiniteSets

CONSTANT MaxBlocks  \* per format, of how many blocks an upstream says no more than it
                    \* must (a bound)

VARIABLES
  upstream,    \* [format, at]: where the upstream is in its answer
  param        \* the translator's state, with the client's reading

streamVars == <<upstream, param>>

Answer(format, at, start) == [upstream |-> [format |-> format, at |-> at], param |-> start]

Answers ==
  {Answer("openai", "new", OpenAIParams), Answer("codex", "new", CodexParams),
   Answer("gemini", "parts", GeminiParams(FALSE))}
  \cup {Answer("antigravity", "parts", GeminiParams(web)) : web \in BOOLEAN}

StreamInit == \E a \in Answers : upstream = a.upstream /\ param = a.param

More == Cardinality(Blocks(param.reading)) < MaxBlocks[upstream.format]

\* The upstream has said something and is at `next`; the translator has written its events
\* and the client has read them.
Says(next, written) ==
  /\ upstream' = [upstream EXCEPT !.at = next]
  /\ param' = written

OpenAIStep ==
  /\ upstream.format = "openai"
  /\ \E s \in OpenAIUpstream(upstream.at, More) :
       Says(s.next, ConvertOpenAIResponseToClaude(param, s.chunk))

GeminiStep ==
  /\ upstream.format = "gemini"
  /\ \E s \in GeminiUpstream(upstream.at, More, FALSE, FALSE) :
       Says(s.next, ConvertGeminiResponseToClaude(param, s.chunk))

AntigravityStep ==
  /\ upstream.format = "antigravity"
  /\ \E s \in GeminiUpstream(upstream.at, More, param.web, TRUE) :
       /\ KeepsItsPlace(param, s.chunk)
       /\ Says(s.next, ConvertAntigravityResponseToClaude(param, s.chunk))

CodexStep ==
  /\ upstream.format = "codex"
  /\ \E s \in CodexUpstream(upstream.at, More) \cup CodexFails(upstream.at) :
       Says(s.next, ConvertCodexResponseToClaude(param, s.chunk))

\* The next request begins with no state at all.
NextAnswer ==
  /\ \/ upstream.at \in {"closed", "asked", "cut", "failed"}
     \/ upstream.at = "done" /\ upstream.format # "openai"
  /\ \E a \in Answers : upstream' = a.upstream /\ param' = a.param

StreamNext == NextAnswer \/ OpenAIStep \/ GeminiStep \/ AntigravityStep \/ CodexStep

StreamSpec == StreamInit /\ [][StreamNext]_streamVars

-----------------------------------------------------------------------------
\* Whatever an upstream says within its protocol, and wherever it is cut, the events come in
\* the order a client can read: the message is started first, blocks have indexes of their
\* own, deltas and stops are for open blocks of that kind, the stop reason comes once, with
\* no block open, and nothing after the end. ("The translation ensures proper sequencing of
\* SSE events", says each translator of itself.)
ProperSequence == param.reading.odd = {}

\* The upstream's own reason to stop names a call, whether it announced one or not.
AsksForCall == upstream.at = "asked" \/ (upstream.format = "openai" /\ param.finish = "function_call")

\* When the upstream has finished its answer, so has the client: no block is open, the
\* message is stopped, and the stop reason is that of a tool use exactly when a tool call
\* was announced, however late its name, its id or the token counts came. Except where the
\* upstream itself says function_call, or a Codex response that it stops for a call: that
\* is told as a tool use although no call may have been announced.
EndsComplete ==
  LET k == param.reading
  IN  upstream.at \in {"done", "asked", "closed"} /\ Blocks(k) # {} =>
        /\ k.open = {} /\ k.over /\ k.reason # ""
        /\ k.reason = "tool_use" <=> AsksForCall \/ \E b \in Blocks(k) : b.kind = "tool"
=============================================================================
