---------------------------- MODULE RelaySession ----------------------------
(***************************************************************************)
(* One websocket session of the relay and the requests that use it: each    *)
(* stores a channel of Slots messages under its id, sends its request and    *)
(* waits; the session's reader pushes what the client answers without ever  *)
(* waiting; a cancelled context and a closed session end the wait. Four      *)
(* kinds of goroutines share the pending map, which cleanup replaces. Ids   *)
(* are fresh, so a request stands for its id.                               *)
(***************************************************************************)
EXTENDS Integers, Sequences

CONSTANTS
  Requests,  \* requests, each with its channel
  Streaming, \* those called by Stream, the others by NonStream
  Slots,     \* capacity of a request's channel
  Impatient, \* those whose callers may give up (a bound)
  MaxSaid    \* per request, how often the client may speak of it (a bound)

VARIABLES
  session,   \* "open", "cleaning" (s.closed is closed), "emptied", "gone" (forgotten)
  pending,   \* the ids in s.pending; cleanup replaces the map
  swept,     \* the ids cleanup has still to visit, and
  visited,   \* the one it is about to tell
  chan,      \* per request its channel: [msgs, closed]
  step,      \* per request: where its caller is
  canceled,  \* requests whose context is done
  watching,  \* requests whose context watcher runs
  reader,    \* the session's reader: idle, or [at, id, msg]
  said,      \* per request it was sent: what the client has answered (history)
  missed,    \* requests one of whose messages met a full channel (history)
  got,       \* requests whose callers have taken a part of the answer
  crashed    \* a send on a closed channel has ended the process

relayVars == <<session, pending, swept, visited, chan, step, canceled, watching, reader, said,
               missed, got, crashed>>

-----------------------------------------------------------------------------
Quiet       == [at |-> "idle"]
Terminal(m) == m \in {"end", "error"}
Ended       == {"whole", "partial", "failed", "panicked"}

\* A send in a select with default: dropped when the channel is full, a panic
\* when it is closed.
Push(r, m) ==
  /\ crashed' = chan[r].closed
  /\ IF Len(chan[r].msgs) < Slots
     THEN chan' = [chan EXCEPT ![r].msgs = Append(@, m)] /\ UNCHANGED missed
     ELSE missed' = missed \cup {r} /\ UNCHANGED chan

Close(r) == chan' = [chan EXCEPT ![r].closed = TRUE]

\* LoadAndDelete and close: whoever takes the id out of the map closes the channel.
TakeAndClose(r) ==
  IF r \in pending THEN pending' = pending \ {r} /\ Close(r)
  ELSE UNCHANGED <<pending, chan>>

Move(r, s) == step' = [step EXCEPT ![r] = s]

RelayInit ==
  /\ session = "open"
  /\ pending = {} /\ swept = {} /\ visited = {}
  /\ chan = [r \in Requests |-> [msgs |-> <<>>, closed |-> FALSE]]
  /\ step = [r \in Requests |-> "new"]
  /\ canceled = {} /\ watching = {}
  /\ reader = Quiet
  /\ said = [r \in {} |-> <<>>] /\ missed = {} /\ got = {}
  /\ crashed = FALSE

-----------------------------------------------------------------------------
(* A request's goroutine.                                                    *)

Others == UNCHANGED <<session, swept, visited, reader, missed, crashed>>

\* Manager.Send: a session that is forgotten is not found.
Lookup(r) ==
  /\ step[r] = "new"
  /\ Move(r, IF session = "gone" THEN "failed" ELSE "store")
  /\ Others /\ UNCHANGED <<pending, chan, canceled, watching, said, got>>

Store(r) ==
  /\ step[r] = "store"
  /\ pending' = pending \cup {r}
  /\ Move(r, "load")
  /\ Others /\ UNCHANGED <<chan, canceled, watching, said, got>>

\* The id is loaded again; the assertion on nothing panics in the caller.
LoadAgain(r) ==
  /\ step[r] = "load"
  /\ Move(r, IF r \in pending THEN "check" ELSE "panicked")
  /\ Others /\ UNCHANGED <<pending, chan, canceled, watching, said, got>>

\* Mutant of CheckClosed: the write itself is trusted to fail.
CheckClosedByWriting(r) ==
  /\ step[r] = "check"
  /\ Move(r, "write")
  /\ Others /\ UNCHANGED <<pending, chan, canceled, watching, said, got>>

\* send: a closed session refuses, ...
CheckClosed(r) ==
  /\ step[r] = "check"
  /\ Move(r, IF session = "open" THEN "write" ELSE "undo")
  /\ Others /\ UNCHANGED <<pending, chan, canceled, watching, said, got>>

\* ... and the write may fail. Once it succeeds the client knows the id.
Write(r) ==
  /\ step[r] = "write"
  /\ \/ /\ session # "gone"
        /\ Move(r, "wait")
        /\ watching' = watching \cup {r}
        /\ said' = [q \in DOMAIN said \cup {r} |-> IF q = r THEN <<>> ELSE said[q]]
     \/ Move(r, "undo") /\ UNCHANGED <<watching, said>>
  /\ Others /\ UNCHANGED <<pending, chan, canceled, got>>

Undo(r) ==
  /\ step[r] = "undo"
  /\ TakeAndClose(r)
  /\ Move(r, "failed")
  /\ Others /\ UNCHANGED <<canceled, watching, said, got>>

\* The caller's loop takes one message, or sees the closed channel: then Stream
\* reports an error, and NonStream returns what it has of a stream.
Receive(r) ==
  /\ step[r] = "wait"
  /\ IF chan[r].msgs # <<>>
     THEN LET m == Head(chan[r].msgs) IN
          /\ chan' = [chan EXCEPT ![r].msgs = Tail(@)]
          /\ got' = got \cup {r}
          /\ Move(r, CASE m = "end" -> "whole" [] m = "error" -> "failed" [] OTHER -> "wait")
     ELSE /\ chan[r].closed
          /\ Move(r, IF r \in got \ Streaming THEN "partial" ELSE "failed")
          /\ UNCHANGED <<chan, got>>
  /\ Others /\ UNCHANGED <<pending, canceled, watching, said>>

GiveUp(r) ==
  /\ step[r] = "wait"
  /\ r \in canceled
  /\ Move(r, "failed")
  /\ Others /\ UNCHANGED <<pending, chan, canceled, watching, said, got>>

\* The caller's context ends, by its own client or because it has its answer.
Cancel(r) ==
  /\ r \in Impatient \ canceled
  /\ step[r] # "new"
  /\ canceled' = canceled \cup {r}
  /\ Others /\ UNCHANGED <<pending, chan, step, watching, said, got>>

\* The goroutine that request leaves behind: context or session.
Watch(r) ==
  /\ r \in watching
  /\ \/ r \in canceled /\ TakeAndClose(r)
     \/ session # "open" /\ UNCHANGED <<pending, chan>>
  /\ watching' = watching \ {r}
  /\ Others /\ UNCHANGED <<step, canceled, said, got>>

-----------------------------------------------------------------------------
(* The session's reader.                                                     *)

Callers == UNCHANGED <<session, swept, visited, step, canceled, watching, got>>

\* ReadJSON: the client may say anything of a request it knows, also after its end.
Read(r, m) ==
  /\ reader = Quiet
  /\ session # "gone"
  /\ r \in DOMAIN said
  /\ Len(said[r]) < MaxSaid[r]
  /\ said' = [said EXCEPT ![r] = Append(@, m)]
  /\ reader' = [at |-> "load", id |-> r, msg |-> m]
  /\ Callers /\ UNCHANGED <<pending, chan, missed, crashed>>

\* dispatch: look the id up, push, and take a finished one out of the map.
Load ==
  /\ reader.at = "load"
  /\ reader' = IF reader.id \in pending THEN [reader EXCEPT !.at = "push"] ELSE Quiet
  /\ Callers /\ UNCHANGED <<pending, chan, said, missed, crashed>>

\* Mutant of Deliver: an end is told by closing the channel alone.
DeliverPartsOnly ==
  /\ reader.at = "push"
  /\ IF Terminal(reader.msg)
     THEN reader' = [reader EXCEPT !.at = "take"] /\ UNCHANGED <<chan, missed, crashed>>
     ELSE reader' = Quiet /\ Push(reader.id, reader.msg)
  /\ Callers /\ UNCHANGED <<pending, said>>

Deliver ==
  /\ reader.at = "push"
  /\ Push(reader.id, reader.msg)
  /\ reader' = IF Terminal(reader.msg) THEN [reader EXCEPT !.at = "take"] ELSE Quiet
  /\ Callers /\ UNCHANGED <<pending, said>>

\* Mutant of FinishDispatch: the channel is closed, the id stays in the map.
FinishDispatchKeepsId ==
  /\ reader.at = "take"
  /\ Close(reader.id)
  /\ reader' = Quiet
  /\ Callers /\ UNCHANGED <<pending, said, missed, crashed>>

FinishDispatch ==
  /\ reader.at = "take"
  /\ TakeAndClose(reader.id)
  /\ reader' = Quiet
  /\ Callers /\ UNCHANGED <<said, missed, crashed>>

-----------------------------------------------------------------------------
(* cleanup runs once: for the reader, the heartbeat or the manager's Stop.   *)

Bystanders == UNCHANGED <<step, canceled, watching, reader, said, got>>

\* The connection has failed, or the manager stops.
BeginCleanup ==
  /\ session = "open"
  /\ session' = "cleaning"
  /\ swept' = Requests
  /\ Bystanders /\ UNCHANGED <<pending, visited, chan, missed, crashed>>

\* Range meets an id that is in the map when it comes by, ...
Visit(r) ==
  /\ r \in swept
  /\ visited = {}
  /\ swept' = swept \ {r}
  /\ visited' = pending \cap {r}
  /\ Bystanders /\ UNCHANGED <<session, pending, chan, missed, crashed>>

\* ... pushes an error and closes the channel.
TellClosed ==
  /\ \E r \in visited :
       /\ crashed' = chan[r].closed
       /\ chan' = [chan EXCEPT ![r] =
            [msgs |-> IF Len(@.msgs) < Slots THEN Append(@.msgs, "error") ELSE @.msgs, closed |-> TRUE]]
  /\ visited' = {}
  /\ Bystanders /\ UNCHANGED <<session, pending, swept, missed>>

ReplaceMap ==
  /\ session = "cleaning"
  /\ swept = {} /\ visited = {}
  /\ session' = "emptied"
  /\ pending' = {}
  /\ Bystanders /\ UNCHANGED <<swept, visited, chan, missed, crashed>>

\* The connection is closed and the manager forgets the session.
HandleSessionClosed ==
  /\ session = "emptied"
  /\ session' = "gone"
  /\ Bystanders /\ UNCHANGED <<pending, swept, visited, chan, missed, crashed>>

-----------------------------------------------------------------------------
Caller(r) ==
  \/ Lookup(r) \/ Store(r) \/ LoadAgain(r) \/ CheckClosed(r) \/ Write(r) \/ Undo(r)
  \/ Receive(r) \/ GiveUp(r)

Reader  == Load \/ Deliver \/ FinishDispatch
Cleanup == (\E r \in Requests : Visit(r)) \/ TellClosed \/ ReplaceMap \/ HandleSessionClosed

\* What runs by itself; the rest is up to clients and the connection.
GoesByItself == (\E r \in Requests : Watch(r)) \/ Reader \/ Cleanup

RelayNext ==
  /\ ~crashed
  /\ \/ \E r \in Requests : Caller(r) \/ Cancel(r)
     \/ \E r \in Requests, m \in {"part", "end", "error"} : Read(r, m)
     \/ BeginCleanup
     \/ GoesByItself

RelaySpec == RelayInit /\ [][RelayNext]_relayVars

-----------------------------------------------------------------------------
\* A request ends once its answer has ended or its session is closed: not even one
\* that is stored while cleanup walks the map, or whose last message was dropped,
\* waits for ever.
RequestsEnd ==
  \A r \in Requests :
    \/ step[r] # "new" /\ session # "open"
    \/ r \in DOMAIN said /\ \E i \in DOMAIN said[r] : Terminal(said[r][i])
    ~> step[r] \in Ended \/ crashed

\* A caller is given a truncated answer as a success only if a message met a full
\* channel, the session was closed or the call was given up.
TruncatedForCause ==
  \A r \in Requests :
    step[r] = "partial" => r \in missed \/ r \in canceled \/ session # "open"

\* While the session is open and nobody gives up, no channel is closed under a
\* send: neither the process nor a caller panics, whatever the client sends.
PanicsOnlyWhenClosing ==
  crashed \/ (\E r \in Requests : step[r] = "panicked") => session # "open" \/ canceled # {}
=============================================================================
