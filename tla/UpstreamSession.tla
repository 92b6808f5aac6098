--------------------------- MODULE UpstreamSession ---------------------------
(***************************************************************************)
(* An execution session of the Codex websocket executor: the requests of one *)
(* downstream client use one upstream connection after the other, one at a   *)
(* time under reqMu; each puts its channel into activeCh, where the reader   *)
(* of the connection (readUpstreamLoop) finds it, a new reader per           *)
(* connection. Connections are numbered as they are dialed; readerConn is    *)
(* always conn. One session, until it leaves the store.                      *)
(***************************************************************************)
EXTENDS Integers, Sequences

CONSTANTS
  Requests,  \* requests of the session, and
  Streaming, \* those made by ExecuteStream, the others by Execute
  Slots,     \* capacity of a request's channel (4096)
  MaxConns   \* bound: connections dialed

VARIABLES
  removed,   \* the session was taken out of the store and closed
  mutex,     \* who holds reqMu
  conn,      \* sess.conn, 0 = none
  open,      \* the connections that nobody has closed here
  active,    \* whose channel is activeCh; activeDone is closed once it is not
  chan,      \* per request its channel: [msgs, closed]
  req,       \* per request: [at, conn, again (a send has failed)]
  reader,    \* per connection dialed its reader: [at, ch, msg]
  wire,      \* per connection: the requests sent on it that have no complete answer
  abandoned, \* requests that ended before their answer on a connection they left (history)
  took,      \* per request: the others whose answers it has taken a part of (history)
  unheard,   \* requests that wait or are to, though the reader had looked before (history)
  mixed,     \* a connection was dialed while the reader of another ran (history)
  crashed    \* a panic has ended the process

sessionVars == <<removed, mutex, conn, open, active, chan, req, reader, wire, abandoned, took,
                 unheard, mixed, crashed>>

-----------------------------------------------------------------------------
Dialed      == DOMAIN reader
Failing     == {"tell", "close"}
NoMsg       == [conn |-> 0, kind |-> "none", of |-> {}]
Reading     == [at |-> "read", ch |-> {}, msg |-> NoMsg]
Fresh       == [msgs |-> <<>>, closed |-> FALSE]
NewRequest  == [at |-> "lock", conn |-> 0, again |-> FALSE]
Goto(r, at) == req' = [req EXCEPT ![r].at = at]

\* Mutant of Cleared: whoever is active.
ClearedAny(ch) == {}

\* clearActive: only if it is still that channel.
Cleared(ch) == active \ ch

\* invalidateUpstreamConn: whoever takes the connection out of the session closes it.
InvalidateConn(c) ==
  IF conn = c THEN conn' = 0 /\ open' = open \ {c} ELSE UNCHANGED <<conn, open>>

SessionInit ==
  /\ removed = FALSE
  /\ mutex = {} /\ conn = 0 /\ open = {} /\ active = {}
  /\ chan = [r \in Requests |-> Fresh] /\ req = [r \in Requests |-> NewRequest]
  /\ reader = [c \in {} |-> Reading] /\ wire = <<>>
  /\ abandoned = {} /\ took = [r \in Requests |-> {}]
  /\ unheard = {} /\ mixed = FALSE /\ crashed = FALSE

-----------------------------------------------------------------------------
(* Execute and ExecuteStream with its goroutine. A request at "lock" has the  *)
(* session from the store or is still to come.                               *)

Others == UNCHANGED <<removed, crashed>>

\* ensureUpstreamConn takes the connection there is, whoever it was dialed for, ...
Lock(r) ==
  /\ req[r].at = "lock"
  /\ mutex = {}
  /\ mutex' = {r}
  /\ req' = [req EXCEPT ![r].at = IF conn = 0 THEN "dial" ELSE "active", ![r].conn = conn]
  /\ Others
  /\ UNCHANGED <<conn, open, active, chan, reader, wire, abandoned, took, unheard, mixed>>

\* ... or a new one with a reader. Who dials holds reqMu: no other has set one meanwhile.
Dial(r) ==
  /\ req[r].at = "dial"
  /\ LET c == Len(wire) + 1 IN
     /\ c <= MaxConns
     /\ conn' = c
     /\ open' = open \cup {c}
     /\ reader' = [d \in Dialed \cup {c} |-> IF d = c THEN Reading ELSE reader[d]]
     /\ wire' = Append(wire, <<>>)
     /\ mixed' = (mixed \/ \E d \in Dialed : reader[d].at # "ended")
     /\ req' = [req EXCEPT ![r].conn = c, ![r].at = IF req[r].again THEN "write" ELSE "active"]
  /\ Others /\ UNCHANGED <<mutex, active, chan, abandoned, took, unheard>>

\* The request is over: clearActive and the unlock. Nobody reads its channel any more.
End(r) ==
  /\ req' = [req EXCEPT ![r] = [NewRequest EXCEPT !.at = "ended"]]
  /\ chan' = [chan EXCEPT ![r].msgs = <<>>]
  /\ active' = Cleared({r})
  /\ mutex' = {}
  /\ unheard' = unheard \ {r}

DialFails(r) ==
  /\ req[r].at = "dial"
  /\ End(r)
  /\ Others /\ UNCHANGED <<conn, open, reader, wire, abandoned, took, mixed>>

\* The upgrade is refused with a status, on the first attempt: a stream (or its
\* fallback to HTTP) is returned without an unlock.
Refused(r) ==
  /\ req[r].at = "dial"
  /\ ~req[r].again
  /\ r \in Streaming
  /\ Goto(r, "refused")
  /\ Others
  /\ UNCHANGED <<mutex, conn, open, active, chan, reader, wire, abandoned, took, unheard, mixed>>

SetActive(r) ==
  /\ req[r].at = "active"
  /\ active' = {r}
  /\ unheard' = IF reader[req[r].conn].at \in {"read", "push"} THEN unheard ELSE unheard \cup {r}
  /\ Goto(r, "write")
  /\ Others /\ UNCHANGED <<mutex, conn, open, chan, reader, wire, abandoned, took, mixed>>

\* Mutant of Write: ExecuteStream unlocks when it returns, and not in its goroutine.
WriteUnlocks(r) ==
  /\ req[r].at = "write"
  /\ req[r].conn \in open
  /\ wire' = [wire EXCEPT ![req[r].conn] = Append(@, r)]
  /\ Goto(r, "wait")
  /\ mutex' = IF r \in Streaming THEN {} ELSE mutex
  /\ Others /\ UNCHANGED <<conn, open, active, chan, reader, abandoned, took, unheard, mixed>>

Write(r) ==
  /\ req[r].at = "write"
  /\ req[r].conn \in open
  /\ wire' = [wire EXCEPT ![req[r].conn] = Append(@, r)]
  /\ Goto(r, "wait")
  /\ Others /\ UNCHANGED <<mutex, conn, open, active, chan, reader, abandoned, took, unheard, mixed>>

\* A failed send ends the connection and is tried once more, on a fresh one: none is
\* left in the session, whoever took this one out of it.
WriteFails(r) ==
  /\ req[r].at = "write"
  /\ InvalidateConn(req[r].conn)
  /\ IF req[r].again THEN End(r)
     ELSE /\ req' = [req EXCEPT ![r].at = "dial", ![r].again = TRUE]
          /\ UNCHANGED <<chan, active, mutex, unheard>>
  /\ Others /\ UNCHANGED <<reader, wire, abandoned, took, mixed>>

Rest(r) == chan' = [chan EXCEPT ![r].msgs = Tail(@)]

\* A message of the request's own connection: an error ends that as well.
Use(r, m) ==
  /\ took' = [took EXCEPT ![r] = @ \cup (m.of \ {r})]
  /\ IF m.kind = "part" THEN Rest(r) /\ UNCHANGED <<req, active, mutex, unheard>> ELSE End(r)
  /\ abandoned' = IF m.kind = "end" /\ m.of # {r} THEN abandoned \cup {r} ELSE abandoned
  /\ IF m.kind = "error" THEN InvalidateConn(m.conn) ELSE UNCHANGED <<conn, open>>

Receive(r) ==
  /\ req[r].at = "wait"
  /\ chan[r].msgs # <<>>
  /\ Others /\ UNCHANGED <<reader, wire, mixed>>

\* Mutant of Take: whatever connection a message is of.
TakeAny(r) == Receive(r) /\ Use(r, Head(chan[r].msgs))

\* readCodexWebsocketMessage drops what another connection has sent.
Take(r) ==
  /\ Receive(r)
  /\ LET m == Head(chan[r].msgs)
     IN IF m.conn = req[r].conn THEN Use(r, m)
        ELSE Rest(r) /\ UNCHANGED <<req, active, mutex, unheard, abandoned, took, conn, open>>

\* Its channel is closed, or its context is done: the connection stays as it is.
FindClosed(r) ==
  /\ req[r].at = "wait"
  /\ chan[r].msgs = <<>> /\ chan[r].closed
  /\ End(r)
  /\ abandoned' = abandoned \cup {r}
  /\ Others /\ UNCHANGED <<conn, open, reader, wire, took, mixed>>

\* Mutant of GiveUp: the request closes its channel.
GiveUpCloses(r) ==
  /\ req[r].at = "wait"
  /\ Goto(r, "ended")
  /\ chan' = [chan EXCEPT ![r] = [msgs |-> <<>>, closed |-> TRUE]]
  /\ active' = Cleared({r})
  /\ mutex' = {}
  /\ abandoned' = abandoned \cup {r}
  /\ Others /\ UNCHANGED <<conn, open, reader, wire, took, unheard, mixed>>

GiveUp(r) ==
  /\ req[r].at = "wait"
  /\ End(r)
  /\ abandoned' = abandoned \cup {r}
  /\ Others /\ UNCHANGED <<conn, open, reader, wire, took, mixed>>

-----------------------------------------------------------------------------
(* readUpstreamLoop.                                                         *)

\* A channel's owner has left it, or others have taken its place.
Done(ch)   == active # ch

ReaderOnly == UNCHANGED <<removed, mutex, req, abandoned, took, unheard, mixed>>
Turn(c, t) == reader' = [reader EXCEPT ![c] = t]
Step(c, at) == reader' = [reader EXCEPT ![c].at = at]
Full(r)    == Len(chan[r].msgs) = Slots
Put(r, m)   == chan' = IF req[r].at = "ended" THEN chan ELSE [chan EXCEPT ![r].msgs = Append(@, m)]

\* A text message, also one received before the connection was closed: a part or the
\* end of the answer to the oldest request, or an error that ends it or comes unasked.
\* Without an active request it is dropped.
ReadText(c, kind) ==
  /\ reader[c].at = "read"
  /\ wire[c] # <<>> \/ kind = "error"
  /\ LET of == IF wire[c] = <<>> THEN {} ELSE {Head(wire[c])} IN
     /\ wire' = IF kind = "part" \/ wire[c] = <<>> THEN wire ELSE [wire EXCEPT ![c] = Tail(@)]
     /\ IF active = {} THEN UNCHANGED reader
        ELSE Turn(c, [at |-> "push", ch |-> active,
                      msg |-> [conn |-> c, kind |-> kind, of |-> IF kind = "error" THEN {} ELSE of]])
  /\ ReaderOnly /\ UNCHANGED <<conn, open, active, chan, crashed>>

\* It is pushed, or dropped once the request has left; a closed channel panics.
Push(c) ==
  /\ reader[c].at = "push"
  /\ \/ \E r \in reader[c].ch :
          \/ chan[r].closed /\ crashed' = TRUE /\ UNCHANGED chan
          \/ /\ ~chan[r].closed /\ ~Full(r)
             /\ Put(r, reader[c].msg)
             /\ UNCHANGED crashed
     \/ Done(reader[c].ch) /\ UNCHANGED <<chan, crashed>>
  /\ Turn(c, Reading)
  /\ ReaderOnly /\ UNCHANGED <<conn, open, active, wire>>

\* The read fails, times out or gives a binary message: who is active is to be told.
ReadFails(c) ==
  /\ reader[c].at = "read"
  /\ Turn(c, [Reading EXCEPT !.at = IF active = {} THEN "invalidate" ELSE "tell", !.ch = active])
  /\ wire' = [wire EXCEPT ![c] = <<>>]
  /\ ReaderOnly /\ UNCHANGED <<conn, open, active, chan, crashed>>

\* By an error if there is room, after which it is active no more, ...
Tell(c) ==
  /\ reader[c].at = "tell"
  /\ \E r \in reader[c].ch :
       \/ chan[r].closed /\ crashed' = TRUE /\ UNCHANGED chan
       \/ /\ ~chan[r].closed /\ ~Full(r)
          /\ Put(r, [NoMsg EXCEPT !.conn = c, !.kind = "failed"])
          /\ UNCHANGED crashed
       \/ /\ Done({r}) \/ (Full(r) /\ ~chan[r].closed)
          /\ UNCHANGED <<chan, crashed>>
  /\ active' = Cleared(reader[c].ch)
  /\ Step(c, "close")
  /\ ReaderOnly /\ UNCHANGED <<conn, open, wire>>

\* ... and by the closed channel.
CloseChannel(c) ==
  /\ reader[c].at = "close"
  /\ \E r \in reader[c].ch :
       IF chan[r].closed THEN crashed' = TRUE /\ UNCHANGED chan
       ELSE chan' = [chan EXCEPT ![r].closed = TRUE] /\ UNCHANGED crashed
  /\ Step(c, "invalidate")
  /\ ReaderOnly /\ UNCHANGED <<conn, open, active, wire>>

Leave(c) ==
  /\ reader[c].at = "invalidate"
  /\ InvalidateConn(c)
  /\ Turn(c, [Reading EXCEPT !.at = "ended"])
  /\ ReaderOnly /\ UNCHANGED <<active, chan, wire, crashed>>

-----------------------------------------------------------------------------
(* CloseExecutionSession, by the handler that ends, and                       *)
(* CloseCodexWebsocketSessionsForAuthID, when a credential is removed.        *)

CloserOnly ==
  UNCHANGED <<mutex, active, chan, req, reader, wire, abandoned, took, unheard, mixed, crashed>>

\* Mutant of CloseSession: the connection is only forgotten.
CloseSessionForgets ==
  /\ ~removed
  /\ removed' = TRUE
  /\ conn' = 0
  /\ CloserOnly /\ UNCHANGED open

CloseSession ==
  /\ ~removed
  /\ removed' = TRUE
  /\ conn' = 0
  /\ open' = open \ {conn}
  /\ CloserOnly

\* The process ends, by a panic or otherwise, and its next session begins.
Restart ==
  /\ crashed \/ removed
  /\ removed' = FALSE
  /\ mutex' = {} /\ conn' = 0 /\ open' = {} /\ active' = {}
  /\ chan' = [r \in Requests |-> Fresh] /\ req' = [r \in Requests |-> NewRequest]
  /\ reader' = [c \in {} |-> Reading] /\ wire' = <<>>
  /\ abandoned' = {} /\ took' = [r \in Requests |-> {}]
  /\ unheard' = {} /\ mixed' = FALSE /\ crashed' = FALSE

-----------------------------------------------------------------------------
Request(r) ==
  \/ Lock(r) \/ Dial(r) \/ DialFails(r) \/ Refused(r) \/ SetActive(r) \/ Write(r)
  \/ WriteFails(r) \/ Take(r) \/ FindClosed(r) \/ GiveUp(r)

Reader(c) ==
  \/ \E kind \in {"part", "end", "error"} : ReadText(c, kind)
  \/ Push(c) \/ ReadFails(c) \/ Tell(c) \/ CloseChannel(c) \/ Leave(c)

SessionNext ==
  \/ ~crashed /\ \E r \in Requests : Request(r)
  \/ ~crashed /\ \E c \in Dialed : Reader(c)
  \/ ~crashed /\ CloseSession
  \/ Restart

SessionSpec == SessionInit /\ [][SessionNext]_sessionVars

-----------------------------------------------------------------------------
\* A request is given no part of another's answer: what a connection that was replaced
\* says late does not reach it. Except the answer of a request that ended before it
\* did and left its connection to the next (cancelled, its channel closed, or itself
\* given such an answer as its own): that goes on there.
OwnAnswer == \A r \in Requests : took[r] \subseteq abandoned

\* A request that waits is heard: the reader of its connection reads and finds its
\* channel, or a reader that fails is about to close it. Except when that reader had
\* failed and looked for somebody to tell before the request took its place (unheard).
WaiterIsHeard ==
  \A r \in Requests \ unheard :
    req[r].at = "wait" =>
      \/ chan[r].closed
      \/ \E c \in Dialed : reader[c].at \in Failing /\ reader[c].ch = {r}
      \/ active = {r} /\ reader[req[r].conn].at \in {"read", "push"}

\* reqMu keeps exchanges apart: a connection that is still read owes no request its answer
\* ahead of another's, however requests end, dial again and pass the session on, except a
\* request that abandoned its answer there and left the connection to the next.
OneExchangeAtATime ==
  \A c \in Dialed : reader[c].at \in {"read", "push"} =>
    \A i, j \in DOMAIN wire[c] : i < j => wire[c][i] \in abandoned

\* No goroutine sends on a closed channel or closes one twice while one reader runs at
\* a time; a fresh connection after a failed send is dialed while the old one's may run.
PanicsOnlyWhenMixed == crashed => mixed

\* A connection whose reader has ended is closed, whoever took it out of the session
\* and however that raced with the reader and with a new one.
NoConnLeaks == \A c \in open : reader[c].at # "ended"
=============================================================================
