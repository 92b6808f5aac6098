---------------------------- MODULE ClaudeEvents ----------------------------
(***************************************************************************)
(* The events of a streamed answer in Claude's format, as the response       *)
(* translators write them and as a client reads them: a message of content   *)
(* blocks, each started at an index of its own, filled by deltas of its kind *)
(* and stopped. A translator is a record with a field `reading`, what the     *)
(* client has read of the events it has written.                             *)
(***************************************************************************)
EXTENDS Integers, Sequences

MessageStart        == [type |-> "message_start"]
MessageStop         == [type |-> "message_stop"]
MessageDelta(why)   == [type |-> "message_delta", reason |-> why]
StartBlock(i, kind) == [type |-> "content_block_start", block |-> [index |-> i, kind |-> kind]]
DeltaTo(i, kind)    == [type |-> "content_block_delta", block |-> [index |-> i, kind |-> kind]]
StopBlock(i)        == [type |-> "content_block_stop", index |-> i]
ErrorEvent          == [type |-> "error"]

-----------------------------------------------------------------------------
\* What a client knows of the answer: its blocks still open and those stopped, the stop
\* reason it was told ("" before), whether the answer is over, and the events it could
\* not place.
NewReading ==
  [begun |-> FALSE, open |-> {}, stopped |-> {}, reason |-> "", over |-> FALSE, odd |-> {}]

Blocks(k) == k.open \cup k.stopped

\* An event the client can place: the message first and once, blocks at indexes of their
\* own, deltas of its kind and a stop for an open block, one stop reason, when every block
\* is stopped, and nothing after the end. A message_stop that comes without a stop reason
\* is an incomplete answer, not an event out of place.
InPlace(k, e) ==
  /\ ~k.over
  /\ \/ e.type = "error"
     \/ e.type = "message_start" /\ ~k.begun
     \/ e.type = "message_stop" /\ k.begun
     \/ /\ k.begun /\ k.reason = ""
        /\ \/ /\ e.type = "content_block_start"
              /\ \A b \in Blocks(k) : b.index # e.block.index
           \/ e.type = "content_block_delta" /\ e.block \in k.open
           \/ e.type = "content_block_stop" /\ \E b \in k.open : b.index = e.index
           \/ e.type = "message_delta" /\ k.open = {}

Read(k, e) ==
  IF ~InPlace(k, e) THEN [k EXCEPT !.odd = @ \cup {e}]
  ELSE CASE e.type = "message_start"       -> [k EXCEPT !.begun = TRUE]
         [] e.type = "content_block_start" -> [k EXCEPT !.open = @ \cup {e.block}]
         [] e.type = "content_block_delta" -> k
         [] e.type = "content_block_stop"  ->
              LET it == {b \in k.open : b.index = e.index}
              IN  [k EXCEPT !.open = @ \ it, !.stopped = @ \cup it]
         [] e.type = "message_delta"       -> [k EXCEPT !.reason = e.reason]
         [] OTHER                          -> [k EXCEPT !.over = TRUE]

-----------------------------------------------------------------------------
Emit(p, e) == [p EXCEPT !.reading = Read(@, e)]

\* Events for the block at a translator's own index; stopping it moves the index on.
StartHere(p, kind) == Emit(p, StartBlock(p.index, kind))
DeltaHere(p, kind) == Emit(p, DeltaTo(p.index, kind))
StopHere(p)        == [Emit(p, StopBlock(p.index)) EXCEPT !.index = @ + 1]

\* A loop of a translator over the parts of a chunk: its state after the first n of them.
Trail(Op(_, _), p, parts) ==
  LET f[n \in 0..Len(parts)] == IF n = 0 THEN p ELSE Op(f[n - 1], parts[n]) IN f
=============================================================================
