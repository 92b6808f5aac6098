----------------------- MODULE UpstreamSession_proofs -----------------------
(***************************************************************************)
(* Proofs about module UpstreamSession, for any requests, channels of any     *)
(* size and any number of connections: who waits is heard, connections and   *)
(* channels are left as they should be, exchanges do not overlap, and a       *)
(* request gets its own answer.                                               *)
(***************************************************************************)
EXTENDS UpstreamSession, SequenceTheorems, TLAPS

Message   == [conn: Nat, kind: {"none", "part", "end", "error", "failed"}, of: SUBSET Requests]
One       == {{}} \cup {{r} : r \in Requests}
RequestAt == {"lock", "dial", "active", "write", "wait", "refused", "ended"}
ReaderAt  == {"read", "push", "tell", "close", "invalidate", "ended"}

TypeOK ==
  /\ removed \in BOOLEAN /\ mixed \in BOOLEAN /\ crashed \in BOOLEAN
  /\ mutex \in One /\ active \in One /\ unheard \in SUBSET Requests
  /\ conn \in Nat /\ open \in SUBSET Nat
  /\ chan \in [Requests -> [msgs: Seq(Message), closed: BOOLEAN]]
  /\ req \in [Requests -> [at: RequestAt, conn: Nat, again: BOOLEAN]]
  /\ wire \in Seq(Seq(Requests))
  /\ reader \in [1..Len(wire) -> [at: ReaderAt, ch: One, msg: Message]]

-----------------------------------------------------------------------------
(* Sets of at most one request.                                              *)

LEMMA Singletons ==
  ASSUME NEW q, NEW r, {q} = {r}
  PROVE  q = r
  OBVIOUS

LEMMA OneMinus ==
  ASSUME NEW A \in One, NEW B \in One
  PROVE  /\ A \ B \in One
         /\ A = B => A \ B = {}
         /\ A # B => A \ B = A
  BY DEF One

LEMMA OneMember ==
  ASSUME NEW A \in One, NEW r \in A
  PROVE  r \in Requests /\ A = {r}
  BY DEF One

-----------------------------------------------------------------------------
(* Types.                                                                    *)

LEMMA TypeInit == SessionInit => TypeOK
<1>. SUFFICES ASSUME SessionInit PROVE TypeOK  OBVIOUS
<1>1. wire \in Seq(Seq(Requests)) /\ Len(wire) = 0  BY DEF SessionInit
<1>2. reader \in [1..Len(wire) -> [at: ReaderAt, ch: One, msg: Message]]
  BY <1>1 DEF SessionInit
<1>3. chan \in [Requests -> [msgs: Seq(Message), closed: BOOLEAN]]
  BY DEF SessionInit, Fresh
<1>. QED  BY <1>1, <1>2, <1>3 DEF SessionInit, TypeOK, NewRequest, RequestAt, One

\* Invalidate and End, which many steps share.
LEMMA InvalidateTypes ==
  ASSUME TypeOK, NEW c, InvalidateConn(c)
  PROVE  conn' \in Nat /\ open' \in SUBSET Nat
<1>1. CASE conn = c
  <2>1. conn' = 0 /\ open' = open \ {c}  BY <1>1 DEF InvalidateConn
  <2>. QED  BY <2>1 DEF TypeOK
<1>2. CASE conn # c
  <2>1. conn' = conn /\ open' = open  BY <1>2 DEF InvalidateConn
  <2>. QED  BY <2>1 DEF TypeOK
<1>. QED  BY <1>1, <1>2

LEMMA EndTypes ==
  ASSUME TypeOK, NEW r \in Requests, End(r)
  PROVE  /\ mutex' \in One /\ active' \in One /\ unheard' \in SUBSET Requests
         /\ chan' \in [Requests -> [msgs: Seq(Message), closed: BOOLEAN]]
         /\ req' \in [Requests -> [at: RequestAt, conn: Nat, again: BOOLEAN]]
<1>1. {r} \in One /\ {} \in One  BY DEF One
<1>2. active' \in One  BY <1>1, OneMinus DEF TypeOK, End, Cleared
<1>3. chan' \in [Requests -> [msgs: Seq(Message), closed: BOOLEAN]]
  <2>1. <<>> \in Seq(Message)  OBVIOUS
  <2>. QED  BY <2>1 DEF TypeOK, End
<1>4. req' \in [Requests -> [at: RequestAt, conn: Nat, again: BOOLEAN]]
  BY DEF TypeOK, End, NewRequest, RequestAt
<1>. QED  BY <1>1, <1>2, <1>3, <1>4 DEF TypeOK, End

\* A message put into a channel, and one taken out.
LEMMA PutTypes ==
  ASSUME TypeOK, NEW r \in Requests, NEW m \in Message, Put(r, m)
  PROVE  chan' \in [Requests -> [msgs: Seq(Message), closed: BOOLEAN]]
<1>1. Append(chan[r].msgs, m) \in Seq(Message)  BY DEF TypeOK
<1>. QED  BY <1>1 DEF TypeOK, Put

LEMMA RestTypes ==
  ASSUME TypeOK, NEW r \in Requests, Rest(r), chan[r].msgs # <<>>
  PROVE  chan' \in [Requests -> [msgs: Seq(Message), closed: BOOLEAN]]
<1>1. Tail(chan[r].msgs) \in Seq(Message)  BY DEF TypeOK
<1>. QED  BY <1>1 DEF TypeOK, Rest

\* A step of a request keeps the types.
LEMMA RequestTypes ==
  ASSUME TypeOK, NEW r \in Requests, Request(r)
  PROVE  TypeOK'
<1>. USE DEF RequestAt
<1>0. {r} \in One /\ {} \in One  BY DEF One
<1>1. CASE Lock(r)
  <2>1. req' \in [Requests -> [at: RequestAt, conn: Nat, again: BOOLEAN]]
    <3>1. CASE conn = 0
      <4>1. req' = [req EXCEPT ![r].at = "dial", ![r].conn = conn]  BY <1>1, <3>1 DEF Lock
      <4>. QED  BY <4>1 DEF TypeOK
    <3>2. CASE conn # 0
      <4>1. req' = [req EXCEPT ![r].at = "active", ![r].conn = conn]  BY <1>1, <3>2 DEF Lock
      <4>. QED  BY <4>1 DEF TypeOK
    <3>. QED  BY <3>1, <3>2
  <2>2. mutex' \in One  BY <1>0, <1>1 DEF Lock
  <2>. QED  BY <1>1, <2>1, <2>2 DEF TypeOK, Lock, Others
<1>2. CASE Dial(r)
  <2>. DEFINE c == Len(wire) + 1
  <2>1. wire' = Append(wire, <<>>) /\ wire' \in Seq(Seq(Requests)) /\ Len(wire') = c /\ c \in Nat
    BY <1>2 DEF TypeOK, Dial
  <2>2. Dialed = 1..Len(wire) /\ Dialed \cup {c} = 1..c  BY <2>1 DEF TypeOK, Dialed
  <2>3. Reading \in [at: ReaderAt, ch: One, msg: Message]
    BY DEF Reading, ReaderAt, One, NoMsg, Message
  <2>4. reader' \in [1..Len(wire') -> [at: ReaderAt, ch: One, msg: Message]]
    BY <1>2, <2>1, <2>2, <2>3 DEF TypeOK, Dial
  <2>5. conn' \in Nat /\ open' \in SUBSET Nat /\ mixed' \in BOOLEAN
    BY <1>2, <2>1 DEF TypeOK, Dial
  <2>6. req' \in [Requests -> [at: RequestAt, conn: Nat, again: BOOLEAN]]
    <3>. DEFINE a == IF req[r].again THEN "write" ELSE "active"
    <3>1. c \in Nat /\ a \in RequestAt  BY <2>1
    <3>2. req' = [req EXCEPT ![r].conn = c, ![r].at = a]  BY <1>2 DEF Dial
    <3>3. req \in [Requests -> [at: RequestAt, conn: Nat, again: BOOLEAN]]  BY DEF TypeOK
    <3>. HIDE DEF a, c
    <3>. QED  BY <3>1, <3>2, <3>3
  <2>. QED  BY <1>2, <2>1, <2>4, <2>5, <2>6 DEF TypeOK, Dial, Others
<1>3. CASE DialFails(r)  BY <1>3, EndTypes DEF TypeOK, DialFails, Others
<1>4. CASE Refused(r)  BY <1>4 DEF TypeOK, Refused, Others, Goto
<1>5. CASE SetActive(r)  BY <1>0, <1>5 DEF TypeOK, SetActive, Others, Goto
<1>6. CASE Write(r)
  <2>1. wire' \in Seq(Seq(Requests)) /\ Len(wire') = Len(wire)
    <3>. DEFINE c == req[r].conn
    <3>1. CASE c \in 1..Len(wire)
      <4>1. Append(wire[c], r) \in Seq(Requests)  BY <3>1 DEF TypeOK
      <4>. QED  BY <1>6, <3>1, <4>1, ExceptSeq DEF TypeOK, Write
    <3>2. CASE c \notin 1..Len(wire)
      <4>1. wire' = wire  BY <1>6, <3>2 DEF TypeOK, Write
      <4>. QED  BY <4>1 DEF TypeOK
    <3>. QED  BY <3>1, <3>2
  <2>. QED  BY <1>6, <2>1 DEF TypeOK, Write, Others, Goto
<1>7. CASE WriteFails(r)
  <2>1. conn' \in Nat /\ open' \in SUBSET Nat  BY <1>7, InvalidateTypes DEF WriteFails
  <2>2. /\ mutex' \in One /\ active' \in One /\ unheard' \in SUBSET Requests
        /\ chan' \in [Requests -> [msgs: Seq(Message), closed: BOOLEAN]]
        /\ req' \in [Requests -> [at: RequestAt, conn: Nat, again: BOOLEAN]]
    <3>1. CASE req[r].again
      <4>1. End(r)  BY <1>7, <3>1 DEF WriteFails
      <4>. QED  BY <4>1, EndTypes
    <3>2. CASE ~req[r].again
      <4>1. /\ req' = [req EXCEPT ![r].at = "dial", ![r].again = TRUE]
            /\ UNCHANGED <<chan, active, mutex, unheard>>
        BY <1>7, <3>2 DEF WriteFails
      <4>. QED  BY <4>1 DEF TypeOK
    <3>. QED  BY <3>1, <3>2
  <2>. QED  BY <1>7, <2>1, <2>2 DEF TypeOK, WriteFails, Others
<1>8. CASE Take(r)
  <2>. DEFINE m == Head(chan[r].msgs)
  <2>1. chan[r].msgs # <<>> /\ UNCHANGED <<removed, crashed, reader, wire, mixed>>
    BY <1>8 DEF Take, Receive, Others
  <2>2. CASE m.conn = req[r].conn
    <3>1. Use(r, m)  BY <1>8, <2>2 DEF Take
    <3>2. conn' \in Nat /\ open' \in SUBSET Nat  BY <3>1, InvalidateTypes DEF Use, TypeOK
    <3>3. /\ mutex' \in One /\ active' \in One /\ unheard' \in SUBSET Requests
          /\ chan' \in [Requests -> [msgs: Seq(Message), closed: BOOLEAN]]
          /\ req' \in [Requests -> [at: RequestAt, conn: Nat, again: BOOLEAN]]
      BY <2>1, <3>1, EndTypes, RestTypes DEF Use, TypeOK
    <3>. QED  BY <2>1, <3>2, <3>3 DEF TypeOK
  <2>3. CASE m.conn # req[r].conn
    <3>1. Rest(r) /\ UNCHANGED <<req, active, mutex, unheard, conn, open>>  BY <1>8, <2>3 DEF Take
    <3>. QED  BY <2>1, <3>1, RestTypes DEF TypeOK
  <2>. QED  BY <2>2, <2>3
<1>9. CASE FindClosed(r)  BY <1>9, EndTypes DEF TypeOK, FindClosed, Others
<1>10. CASE GiveUp(r)  BY <1>10, EndTypes DEF TypeOK, GiveUp, Others
<1>. QED
  BY <1>1, <1>2, <1>3, <1>4, <1>5, <1>6, <1>7, <1>8, <1>9, <1>10 DEF Request

\* A step of a reader keeps the types.
LEMMA ReaderTypes ==
  ASSUME TypeOK, NEW c \in Dialed, Reader(c)
  PROVE  TypeOK'
<1>. DEFINE R == [at: ReaderAt, ch: One, msg: Message]
<1>0. c \in 1..Len(wire) /\ reader[c] \in R /\ NoMsg \in Message
  BY DEF TypeOK, Dialed, NoMsg, Message
<1>1. ASSUME NEW kind \in {"part", "end", "error"}, ReadText(c, kind)  PROVE TypeOK'
  <2>1. wire' \in Seq(Seq(Requests)) /\ Len(wire') = Len(wire)
    <3>1. CASE kind = "part" \/ wire[c] = <<>>
      <4>1. wire' = wire  BY <1>1, <3>1 DEF ReadText
      <4>. QED  BY <4>1 DEF TypeOK
    <3>2. CASE ~(kind = "part" \/ wire[c] = <<>>)
      <4>1. wire[c] \in Seq(Requests)  BY <1>0 DEF TypeOK
      <4>2. Tail(wire[c]) \in Seq(Requests)  BY <3>2, <4>1
      <4>. QED  BY <1>0, <1>1, <3>2, <4>2, ExceptSeq DEF TypeOK, ReadText
    <3>. QED  BY <3>1, <3>2
  <2>2. reader' \in [1..Len(wire) -> R]
    <3>. DEFINE of == IF wire[c] = <<>> THEN {} ELSE {Head(wire[c])}
                m  == [conn |-> c, kind |-> kind, of |-> IF kind = "error" THEN {} ELSE of]
    <3>1. wire[c] \in Seq(Requests)  BY <1>0 DEF TypeOK
    <3>2. of \in SUBSET Requests  BY <3>1
    <3>3. m \in Message  BY <1>0, <3>2 DEF Message, TypeOK
    <3>4. [at |-> "push", ch |-> active, msg |-> m] \in R  BY <3>3 DEF ReaderAt, TypeOK
    <3>. HIDE DEF m
    <3>5. reader' = reader \/ reader' = [reader EXCEPT ![c] = [at |-> "push", ch |-> active, msg |-> m]]
      BY <1>1 DEF ReadText, Turn, m
    <3>. QED  BY <1>0, <3>4, <3>5 DEF TypeOK
  <2>. QED  BY <1>1, <2>1, <2>2 DEF TypeOK, ReadText, ReaderOnly
<1>2. CASE Push(c)
  <2>1. chan' \in [Requests -> [msgs: Seq(Message), closed: BOOLEAN]] /\ crashed' \in BOOLEAN
    <3>1. ASSUME NEW r \in reader[c].ch, ~chan[r].closed, Put(r, reader[c].msg), UNCHANGED crashed
          PROVE  chan' \in [Requests -> [msgs: Seq(Message), closed: BOOLEAN]] /\ crashed' \in BOOLEAN
      <4>1. r \in Requests /\ reader[c].msg \in Message  BY <1>0, OneMember
      <4>. QED  BY <3>1, <4>1, PutTypes DEF TypeOK
    <3>. QED  BY <1>2, <3>1 DEF Push, TypeOK
  <2>2. reader' \in [1..Len(wire) -> R]
    BY <1>0, <1>2 DEF TypeOK, Push, Turn, Reading, ReaderAt, One
  <2>. QED  BY <1>2, <2>1, <2>2 DEF TypeOK, Push, ReaderOnly
<1>3. CASE ReadFails(c)
  <2>1. wire' \in Seq(Seq(Requests)) /\ Len(wire') = Len(wire)
    BY <1>0, <1>3, ExceptSeq DEF TypeOK, ReadFails
  <2>2. reader' \in [1..Len(wire) -> R]
    BY <1>0, <1>3 DEF TypeOK, ReadFails, Turn, Reading, ReaderAt, One
  <2>. QED  BY <1>3, <2>1, <2>2 DEF TypeOK, ReadFails, ReaderOnly
<1>4. CASE Tell(c)
  <2>1. chan' \in [Requests -> [msgs: Seq(Message), closed: BOOLEAN]] /\ crashed' \in BOOLEAN
    <3>. DEFINE m == [NoMsg EXCEPT !.conn = c, !.kind = "failed"]
    <3>1. m \in Message
      <4>1. c \in Nat  BY <1>0 DEF TypeOK
      <4>. QED  BY <4>1 DEF Message, NoMsg
    <3>. HIDE DEF m
    <3>2. ASSUME NEW r \in reader[c].ch, ~chan[r].closed, Put(r, m), UNCHANGED crashed
          PROVE  chan' \in [Requests -> [msgs: Seq(Message), closed: BOOLEAN]] /\ crashed' \in BOOLEAN
      <4>1. r \in Requests  BY <1>0, OneMember
      <4>. QED  BY <3>1, <3>2, <4>1, PutTypes DEF TypeOK
    <3>. QED  BY <1>4, <3>2 DEF Tell, TypeOK, m
  <2>2. reader' \in [1..Len(wire) -> R]  BY <1>0, <1>4 DEF TypeOK, Tell, Step, ReaderAt
  <2>3. active' \in One  BY <1>0, <1>4, OneMinus DEF TypeOK, Tell, Cleared
  <2>. QED  BY <1>4, <2>1, <2>2, <2>3 DEF TypeOK, Tell, ReaderOnly
<1>5. CASE CloseChannel(c)
  <2>1. chan' \in [Requests -> [msgs: Seq(Message), closed: BOOLEAN]] /\ crashed' \in BOOLEAN
    <3>1. chan' = chan \/ \E r \in reader[c].ch : chan' = [chan EXCEPT ![r].closed = TRUE]
      BY <1>5 DEF CloseChannel
    <3>2. crashed' = crashed \/ crashed' = TRUE  BY <1>5 DEF CloseChannel
    <3>. QED  BY <3>1, <3>2 DEF TypeOK
  <2>2. reader' \in [1..Len(wire) -> R]  BY <1>0, <1>5 DEF TypeOK, CloseChannel, Step, ReaderAt
  <2>. QED  BY <1>5, <2>1, <2>2 DEF TypeOK, CloseChannel, ReaderOnly
<1>6. CASE Leave(c)
  <2>1. reader' \in [1..Len(wire) -> R]
    BY <1>0, <1>6 DEF TypeOK, Leave, Turn, Reading, ReaderAt, One
  <2>. QED  BY <1>6, <2>1, InvalidateTypes DEF TypeOK, Leave, ReaderOnly
<1>. QED  BY <1>1, <1>2, <1>3, <1>4, <1>5, <1>6 DEF Reader

LEMMA TypeStep ==
  ASSUME TypeOK, [SessionNext]_sessionVars
  PROVE  TypeOK'
<1>1. CASE \E r \in Requests : Request(r)  BY <1>1, RequestTypes
<1>2. CASE \E c \in Dialed : Reader(c)  BY <1>2, ReaderTypes
<1>3. CASE CloseSession  BY <1>3 DEF TypeOK, CloseSession, CloserOnly
<1>4. CASE Restart
  <2>1. SessionInit'  BY <1>4 DEF Restart, SessionInit
  <2>. QED  BY <2>1, TypeInit, PTL
<1>5. CASE UNCHANGED sessionVars  BY <1>5 DEF TypeOK, sessionVars
<1>. QED  BY <1>1, <1>2, <1>3, <1>4, <1>5 DEF SessionNext

-----------------------------------------------------------------------------
(* Who holds the session, and on which connection.                           *)

Holding  == {"dial", "active", "write", "wait", "refused"}
Chosen   == {"active", "write", "wait"}

\* A request between its lock and its end holds reqMu, nobody else does; it dials only
\* while the session has no connection, and until it waits nobody gives it another.
OwnedBy(r) ==
  /\ req[r].at \in Holding <=> mutex = {r}
  /\ req[r].at = "lock" => ~req[r].again
  /\ req[r].at = "dial" => conn = 0
  /\ req[r].at \in Chosen => req[r].conn \in Dialed
  /\ req[r].at \in {"active", "write"} => conn \in {0, req[r].conn}
Owned == \A r \in Requests : OwnedBy(r)

\* The connection of the session is one that was dialed, the only one that may be open,
\* and not without its reader.
Kept ==
  /\ conn # 0 => conn \in Dialed
  /\ \A c \in open : c = conn /\ c \in Dialed /\ reader[c].at # "ended"

\* A dialed connection is numbered, and a new one has a number of its own.
LEMMA Numbers ==
  ASSUME TypeOK
  PROVE  Dialed = 1..Len(wire) /\ Len(wire) \in Nat /\ 0 \notin Dialed /\ Len(wire) + 1 \notin Dialed
  BY DEF TypeOK, Dialed

\* What the steps of a reader leave alone.
LEMMA ReaderLeaves ==
  ASSUME TypeOK, NEW c \in Dialed, Reader(c)
  PROVE  /\ UNCHANGED <<removed, mutex, req, unheard, mixed>>
         /\ DOMAIN reader' = DOMAIN reader
         /\ \A d \in Dialed \ {c} : reader'[d] = reader[d]
<1>1. UNCHANGED <<removed, mutex, req, unheard, mixed>>
  BY DEF Reader, ReadText, Push, ReadFails, Tell, CloseChannel, Leave, ReaderOnly
<1>2. reader' = reader \/ \E t : reader' = [reader EXCEPT ![c] = t]
  <2>1. ASSUME NEW t, Turn(c, t)  PROVE \E u : reader' = [reader EXCEPT ![c] = u]
    BY <2>1 DEF Turn
  <2>2. ASSUME NEW at, Step(c, at)  PROVE \E u : reader' = [reader EXCEPT ![c] = u]
    BY <2>2 DEF Step
  <2>. QED  BY <2>1, <2>2 DEF Reader, ReadText, Push, ReadFails, Tell, CloseChannel, Leave
<1>. QED  BY <1>1, <1>2 DEF Dialed

\* Who takes a connection out of the session leaves none.
LEMMA InvalidateKeeps ==
  ASSUME TypeOK, Kept, NEW c, InvalidateConn(c)
  PROVE  /\ conn' \in {0, conn}
         /\ conn = c => conn' = 0
         /\ open' \in SUBSET open
         /\ c \notin open'
         /\ conn' = conn \/ open' = {}
<1>1. CASE conn = c  BY <1>1 DEF InvalidateConn, Kept
<1>2. CASE conn # c  BY <1>2 DEF InvalidateConn, Kept
<1>. QED  BY <1>1, <1>2

LEMMA EndOwned ==
  ASSUME TypeOK, Owned, NEW r \in Requests, req[r].at \in Holding, End(r),
         UNCHANGED reader, conn' \in {0, conn}
  PROVE  Owned'
<1>. SUFFICES ASSUME NEW q \in Requests PROVE OwnedBy(q)'  BY DEF Owned
<1>1. OwnedBy(q) /\ OwnedBy(r) /\ mutex = {r} /\ mutex' = {}  BY DEF Owned, OwnedBy, End
<1>2. Dialed' = Dialed /\ {q} # {}  BY DEF Dialed
<1>3. CASE q = r
  <2>1. req'[q].at = "ended"  BY <1>3 DEF End, NewRequest, TypeOK
  <2>. QED  BY <1>1, <1>2, <2>1 DEF OwnedBy, Holding, Chosen
<1>4. CASE q # r
  <2>1. req'[q] = req[q] /\ req[q].at \notin Holding
    BY <1>1, <1>4, Singletons DEF End, TypeOK, OwnedBy
  <2>. QED  BY <1>1, <1>2, <2>1 DEF OwnedBy, Holding, Chosen
<1>. QED  BY <1>3, <1>4

LEMMA RequestOwned ==
  ASSUME TypeOK, Owned, Kept, NEW r \in Requests, Request(r)
  PROVE  Owned'
<1>. USE DEF Holding, Chosen
<1>0. /\ Dialed = 1..Len(wire) /\ Len(wire) \in Nat /\ 0 \notin Dialed /\ Len(wire) + 1 \notin Dialed
      /\ \A q : {q} = {r} => q = r
  BY Numbers, Singletons
<1>1. CASE Lock(r)
  <2>. SUFFICES ASSUME NEW q \in Requests PROVE OwnedBy(q)'  BY DEF Owned
  <2>1. OwnedBy(q) /\ OwnedBy(r) /\ Dialed' = Dialed /\ mutex = {} /\ {q} # {} /\ mutex' = {r}
    BY <1>1 DEF Owned, Lock, Dialed
  <2>2. CASE q = r
    <3>1. /\ req'[q].at = IF conn = 0 THEN "dial" ELSE "active"
          /\ req'[q].conn = conn /\ conn' = conn
      BY <1>1, <2>2 DEF Lock, TypeOK
    <3>. QED  BY <2>1, <2>2, <3>1 DEF OwnedBy, Kept
  <2>3. CASE q # r
    <3>1. req'[q] = req[q] /\ conn' = conn  BY <1>1, <2>3 DEF Lock, TypeOK
    <3>2. mutex # {q} /\ mutex' # {q}  BY <1>0, <2>1, <2>3
    <3>. QED  BY <2>1, <3>1, <3>2 DEF OwnedBy
  <2>. QED  BY <2>2, <2>3
<1>2. CASE Dial(r)
  <2>. SUFFICES ASSUME NEW q \in Requests PROVE OwnedBy(q)'  BY DEF Owned
  <2>1. /\ OwnedBy(q) /\ OwnedBy(r) /\ Dialed \subseteq Dialed' /\ mutex' = mutex
        /\ conn' = Len(wire) + 1 /\ conn' \in Dialed' /\ req[r].at = "dial"
    BY <1>2 DEF Owned, Dial, Dialed
  <2>. QED  BY <1>0, <1>2, <2>1 DEF Dial, OwnedBy, TypeOK
<1>3. CASE DialFails(r)  BY <1>3, EndOwned DEF DialFails
<1>4. CASE Refused(r) \/ SetActive(r) \/ Write(r)
  <2>. SUFFICES ASSUME NEW q \in Requests PROVE OwnedBy(q)'  BY DEF Owned
  <2>1. OwnedBy(q) /\ OwnedBy(r) /\ UNCHANGED <<mutex, conn, reader>>
    BY <1>4 DEF Owned, Refused, SetActive, Write
  <2>2. \/ req[r].at = "dial" /\ Goto(r, "refused")
        \/ req[r].at = "active" /\ Goto(r, "write")
        \/ req[r].at = "write" /\ Goto(r, "wait")
    BY <1>4 DEF Refused, SetActive, Write
  <2>3. CASE q = r
    <3>1. /\ req'[q].conn = req[q].conn
          /\ \/ req[q].at = "dial" /\ req'[q].at = "refused"
             \/ req[q].at = "active" /\ req'[q].at = "write"
             \/ req[q].at = "write" /\ req'[q].at = "wait"
      BY <2>2, <2>3 DEF Goto, TypeOK
    <3>. QED  BY <2>1, <3>1 DEF OwnedBy, Dialed
  <2>4. CASE q # r
    <3>1. req'[q] = req[q]  BY <2>2, <2>4 DEF Goto, TypeOK
    <3>. QED  BY <2>1, <3>1 DEF OwnedBy, Dialed
  <2>. QED  BY <2>3, <2>4
<1>5. CASE WriteFails(r)
  <2>1. conn' \in {0, conn} /\ req[r].at = "write" /\ UNCHANGED reader
    BY <1>5, InvalidateKeeps DEF WriteFails
  <2>2. CASE req[r].again  BY <1>5, <2>1, <2>2, EndOwned DEF WriteFails
  <2>3. CASE ~req[r].again
    <3>. SUFFICES ASSUME NEW q \in Requests PROVE OwnedBy(q)'  BY DEF Owned
    <3>1. OwnedBy(q) /\ OwnedBy(r) /\ mutex' = mutex
          /\ req' = [req EXCEPT ![r].at = "dial", ![r].again = TRUE]
      BY <1>5, <2>3 DEF Owned, WriteFails
    <3>2. conn' = 0  BY <1>5, <2>1, <3>1, InvalidateKeeps DEF WriteFails, OwnedBy
    <3>. QED  BY <1>0, <2>1, <3>1, <3>2 DEF OwnedBy, TypeOK, Dialed
  <2>. QED  BY <2>2, <2>3
<1>6. CASE Take(r)
  <2>. DEFINE m == Head(chan[r].msgs)
  <2>1. req[r].at = "wait" /\ UNCHANGED reader  BY <1>6 DEF Take, Receive
  <2>2. \/ Use(r, m)
        \/ UNCHANGED <<req, active, mutex, conn>>
    BY <1>6 DEF Take
  <2>3. CASE UNCHANGED <<req, active, mutex, conn>>
    BY <2>1, <2>3 DEF Owned, OwnedBy, Dialed
  <2>4. CASE Use(r, m)
    <3>1. conn' \in {0, conn}  BY <2>4, InvalidateKeeps DEF Use
    <3>2. CASE End(r)  BY <2>1, <3>1, <3>2, EndOwned
    <3>3. CASE UNCHANGED <<req, mutex>> /\ m.kind = "part"
      <4>1. conn' = conn  BY <2>4, <3>3 DEF Use
      <4>. QED  BY <2>1, <3>3, <4>1 DEF Owned, OwnedBy, Dialed
    <3>. QED  BY <2>4, <3>2, <3>3 DEF Use
  <2>. QED  BY <2>2, <2>3, <2>4
<1>7. CASE FindClosed(r)  BY <1>7, EndOwned DEF FindClosed
<1>8. CASE GiveUp(r)  BY <1>8, EndOwned DEF GiveUp
<1>. QED  BY <1>1, <1>2, <1>3, <1>4, <1>5, <1>6, <1>7, <1>8 DEF Request

\* A reader takes the connection away at most.
LEMMA ReaderConn ==
  ASSUME TypeOK, Kept, NEW c \in Dialed, Reader(c)
  PROVE  conn' \in {0, conn}
BY InvalidateKeeps DEF Reader, ReadText, Push, ReadFails, Tell, CloseChannel, Leave, ReaderOnly

LEMMA OwnedStep ==
  ASSUME TypeOK, Owned, Kept, [SessionNext]_sessionVars
  PROVE  Owned'
<1>1. CASE \E r \in Requests : Request(r)  BY <1>1, RequestOwned
<1>2. ASSUME UNCHANGED <<req, mutex>>, Dialed' = Dialed, conn' \in {0, conn}
      PROVE  Owned'
  BY <1>2, Numbers DEF Owned, OwnedBy
<1>3. CASE \E c \in Dialed : Reader(c)
  BY <1>2, <1>3, ReaderLeaves, ReaderConn DEF Dialed
<1>4. CASE CloseSession  BY <1>2, <1>4 DEF CloseSession, CloserOnly, Dialed
<1>5. CASE Restart  BY <1>5 DEF Restart, Owned, OwnedBy, NewRequest, Holding, Chosen
<1>6. CASE UNCHANGED sessionVars  BY <1>2, <1>6 DEF sessionVars, Dialed
<1>. QED  BY <1>1, <1>3, <1>4, <1>5, <1>6 DEF SessionNext

LEMMA KeptStep ==
  ASSUME TypeOK, Owned, Kept, [SessionNext]_sessionVars
  PROVE  Kept'
<1>1. ASSUME NEW r \in Requests, Dial(r)  PROVE Kept'
  <2>1. conn = 0 /\ open = {}  BY <1>1, Numbers DEF Owned, OwnedBy, Kept, Dial
  <2>2. conn' = Len(wire) + 1 /\ open' = {conn'}  BY <1>1, <2>1 DEF Dial
  <2>3. conn' \in Dialed' /\ reader'[conn'] = Reading  BY <1>1, <2>2 DEF Dial, Dialed
  <2>. QED  BY <2>2, <2>3 DEF Kept, Reading
<1>2. ASSUME Dialed' = Dialed, UNCHANGED reader, NEW c, InvalidateConn(c)  PROVE Kept'
  BY <1>2, InvalidateKeeps, Numbers DEF Kept
<1>3. ASSUME UNCHANGED <<reader, conn, open>>  PROVE Kept'  BY <1>3 DEF Kept, Dialed
<1>4. ASSUME NEW r \in Requests, Request(r)  PROVE Kept'
  <2>1. CASE WriteFails(r)  BY <1>2, <2>1 DEF WriteFails, Dialed
  <2>2. CASE Take(r)
    <3>1. UNCHANGED reader  BY <2>2 DEF Take, Receive
    <3>2. UNCHANGED <<conn, open>> \/ \E c : InvalidateConn(c)  BY <2>2 DEF Take, Use
    <3>. QED  BY <1>2, <1>3, <3>1, <3>2 DEF Dialed
  <2>. QED
    BY <1>1, <1>3, <1>4, <2>1, <2>2
    DEF Request, Lock, DialFails, Refused, SetActive, Write, FindClosed, GiveUp
<1>5. ASSUME NEW c \in Dialed, Reader(c)  PROVE Kept'
  <2>1. CASE Leave(c)
    <3>1. conn' \in {0, conn} /\ open' \in SUBSET open /\ c \notin open' /\ (conn' = conn \/ open' = {})
      BY <2>1, InvalidateKeeps DEF Leave
    <3>2. Dialed' = Dialed /\ \A d \in Dialed \ {c} : reader'[d] = reader[d]
      BY <1>5, ReaderLeaves DEF Dialed
    <3>. QED  BY <3>1, <3>2, Numbers DEF Kept
  <2>2. CASE ~Leave(c)
    <3>1. UNCHANGED <<conn, open>>
      BY <1>5, <2>2 DEF Reader, ReadText, Push, ReadFails, Tell, CloseChannel
    <3>2. Dialed' = Dialed /\ \A d \in Dialed \ {c} : reader'[d] = reader[d]
      BY <1>5, ReaderLeaves DEF Dialed
    <3>3. reader'[c].at # "ended" \/ reader'[c] = reader[c]
      <4>1. reader[c] \in [at: ReaderAt, ch: One, msg: Message]  BY DEF TypeOK, Dialed
      <4>2. ASSUME NEW t, Turn(c, t), t.at # "ended"  PROVE reader'[c].at # "ended"
        BY <4>2 DEF Turn, TypeOK, Dialed
      <4>3. ASSUME NEW at, Step(c, at), at # "ended"  PROVE reader'[c].at # "ended"
        BY <4>1, <4>3 DEF Step, TypeOK, Dialed
      <4>4. ASSUME NEW kind, ReadText(c, kind)  PROVE reader'[c].at # "ended" \/ reader' = reader
        BY <4>2, <4>4 DEF ReadText
      <4>5. CASE Push(c) \/ ReadFails(c)  BY <4>2, <4>5 DEF Push, ReadFails, Reading
      <4>6. CASE Tell(c) \/ CloseChannel(c)  BY <4>3, <4>6 DEF Tell, CloseChannel
      <4>. QED  BY <1>5, <2>2, <4>4, <4>5, <4>6 DEF Reader
    <3>. QED  BY <3>1, <3>2, <3>3 DEF Kept
  <2>. QED  BY <2>1, <2>2
<1>6. CASE CloseSession  BY <1>6, Numbers DEF CloseSession, CloserOnly, Kept, Dialed
<1>7. CASE Restart  BY <1>7 DEF Restart, Kept
<1>8. CASE UNCHANGED sessionVars  BY <1>3, <1>8 DEF sessionVars
<1>. QED  BY <1>4, <1>5, <1>6, <1>7, <1>8 DEF SessionNext

-----------------------------------------------------------------------------
(* Who waits is heard.                                                       *)

\* A reader has told r, or is to tell it, that its connection is lost.
Told(r) == chan[r].closed \/ \E c \in Dialed : reader[c].at \in Failing /\ reader[c].ch = {r}

\* From its place in activeCh to its end a request is active or told, and once it is
\* about to write the reader of its connection reads. Unless unheard.
HeardBy(r) ==
  /\ req[r].at = "dial" /\ req[r].again => Told(r) \/ active = {r}
  /\ req[r].at \in {"write", "wait"} =>
       Told(r) \/ (active = {r} /\ reader[req[r].conn].at \in {"read", "push"})
AllHeard == \A r \in Requests \ unheard : HeardBy(r)

\* What the steps of a request leave alone, that it ends included.
LEMMA EndLeaves ==
  ASSUME TypeOK, NEW r \in Requests, End(r)
  PROVE  /\ \A q \in Requests : chan'[q].closed = chan[q].closed
         /\ \A q \in Requests \ {r} : req'[q] = req[q]
         /\ unheard \ {r} \subseteq unheard'
         /\ req'[r].at = "ended"
         /\ active' = active \/ active' = {}
<1>1. active' = active \/ active' = {}
  <2>1. {r} \in One /\ active \in One  BY DEF One, TypeOK
  <2>. QED  BY <2>1, OneMinus DEF End, Cleared
<1>. QED  BY <1>1 DEF End, TypeOK, NewRequest

LEMMA RequestLeaves ==
  ASSUME TypeOK, NEW r \in Requests, Request(r)
  PROVE  /\ \A q \in Requests : chan'[q].closed = chan[q].closed
         /\ \A q \in Requests \ {r} : req'[q] = req[q]
         /\ unheard \ {r} \subseteq unheard'
         /\ crashed' = crashed
         /\ Dialed \subseteq Dialed'
         /\ \A c \in Dialed : reader'[c] = reader[c]
<1>. DEFINE Same == /\ \A q \in Requests : chan'[q].closed = chan[q].closed
                    /\ \A q \in Requests \ {r} : req'[q] = req[q]
                    /\ unheard \ {r} \subseteq unheard'
<1>1. crashed' = crashed
  BY DEF Request, Lock, Dial, DialFails, Refused, SetActive, Write, WriteFails, Take, Receive,
         FindClosed, GiveUp, Others
<1>2. Dialed \subseteq Dialed' /\ \A c \in Dialed : reader'[c] = reader[c]
  <2>1. CASE Dial(r)
    <3>1. Len(wire) + 1 \notin Dialed  BY Numbers
    <3>. QED  BY <2>1, <3>1 DEF Dial, Dialed
  <2>2. CASE ~Dial(r)
    <3>1. UNCHANGED reader
      BY <2>2 DEF Request, Lock, DialFails, Refused, SetActive, Write, WriteFails, Take, Receive,
                  FindClosed, GiveUp
    <3>. QED  BY <3>1 DEF Dialed
  <2>. QED  BY <2>1, <2>2
<1>3. CASE End(r)  BY <1>1, <1>2, <1>3, EndLeaves
<1>4. CASE ~End(r)
  <2>1. ASSUME UNCHANGED <<chan, unheard>>,
               \E v : req' = [req EXCEPT ![r] = v]
        PROVE  Same
    <3>1. \A q \in Requests \ {r} : req'[q] = req[q]  BY <2>1 DEF TypeOK
    <3>. QED  BY <2>1, <3>1
  <2>2. ASSUME NEW at, Goto(r, at)  PROVE \E v : req' = [req EXCEPT ![r] = v]
    BY <2>2 DEF Goto
  <2>3. CASE Lock(r)
    <3>1. \E v : req' = [req EXCEPT ![r] = v]  BY <2>3 DEF Lock
    <3>. QED  BY <1>1, <1>2, <2>1, <2>3, <3>1 DEF Lock
  <2>4. CASE Dial(r)
    <3>1. \E v : req' = [req EXCEPT ![r] = v]  BY <2>4 DEF Dial
    <3>. QED  BY <1>1, <1>2, <2>1, <2>4, <3>1 DEF Dial
  <2>5. CASE Refused(r) \/ Write(r)
    <3>1. \E v : req' = [req EXCEPT ![r] = v]  BY <2>2, <2>5 DEF Refused, Write
    <3>. QED  BY <1>1, <1>2, <2>1, <2>5, <3>1 DEF Refused, Write
  <2>6. CASE SetActive(r)
    <3>1. chan' = chan /\ unheard \subseteq unheard'  BY <2>6 DEF SetActive
    <3>2. \A q \in Requests \ {r} : req'[q] = req[q]  BY <2>6 DEF SetActive, Goto, TypeOK
    <3>. QED  BY <1>1, <1>2, <3>1, <3>2
  <2>7. CASE WriteFails(r)
    <3>1. \E v : req' = [req EXCEPT ![r] = v]  BY <1>4, <2>7 DEF WriteFails
    <3>. QED  BY <1>1, <1>2, <1>4, <2>1, <2>7, <3>1 DEF WriteFails
  <2>8. CASE Take(r)
    <3>1. Rest(r) /\ UNCHANGED <<req, unheard>>  BY <1>4, <2>8 DEF Take, Use
    <3>2. \A q \in Requests : chan'[q].closed = chan[q].closed  BY <3>1 DEF Rest, TypeOK
    <3>. QED  BY <1>1, <1>2, <3>1, <3>2
  <2>9. Same
    BY <1>4, <2>3, <2>4, <2>5, <2>6, <2>7, <2>8 DEF Request, DialFails, FindClosed, GiveUp
  <2>. QED  BY <1>1, <1>2, <2>9
<1>. QED  BY <1>3, <1>4

LEMMA RequestToldStays ==
  ASSUME TypeOK, NEW r \in Requests, Request(r), NEW q \in Requests, Told(q)
  PROVE  Told(q)'
BY RequestLeaves DEF Told

\* One request at a time has begun and not ended.
LEMMA OneAtATime ==
  ASSUME TypeOK, Owned, NEW r \in Requests, Request(r), NEW q \in Requests \ {r}
  PROVE  req[q].at \notin Holding
<1>1. OwnedBy(r) /\ OwnedBy(q)  BY DEF Owned
<1>2. CASE Lock(r)
  <2>1. mutex = {} /\ {q} # {}  BY <1>2 DEF Lock
  <2>. QED  BY <1>1, <2>1 DEF OwnedBy
<1>3. CASE ~Lock(r)
  <2>1. req[r].at \in Holding
    BY <1>3 DEF Request, Dial, DialFails, Refused, SetActive, Write, WriteFails, Take, Receive,
                FindClosed, GiveUp, Holding
  <2>2. mutex = {r} /\ {q} # {r}  BY <1>1, <2>1, Singletons DEF OwnedBy
  <2>. QED  BY <1>1, <2>2 DEF OwnedBy
<1>. QED  BY <1>2, <1>3

LEMMA RequestHeard ==
  ASSUME TypeOK, Owned, AllHeard, NEW r \in Requests, Request(r)
  PROVE  AllHeard'
<1>. SUFFICES ASSUME NEW q \in Requests, q \notin unheard'  PROVE HeardBy(q)'  BY DEF AllHeard
<1>1. CASE q # r
  <2>1. req'[q] = req[q] /\ req[q].at \notin Holding  BY <1>1, RequestLeaves, OneAtATime
  <2>. QED  BY <2>1 DEF HeardBy, Holding
<1>2. CASE q = r /\ End(r)
  <2>1. req'[q].at = "ended"  BY <1>2, EndLeaves
  <2>. QED  BY <2>1 DEF HeardBy
<1>3. CASE q = r /\ ~End(r)
  <2>1. CASE Lock(r)
    <3>1. ~req[r].again  BY <2>1 DEF Lock, Owned, OwnedBy
    <3>2. req'[r].at \in {"dial", "active"} /\ req'[r].again = req[r].again
      BY <2>1 DEF Lock, TypeOK
    <3>. QED  BY <1>3, <3>1, <3>2 DEF HeardBy
  <2>2. CASE Dial(r)
    <3>. DEFINE c == Len(wire) + 1
    <3>1. CASE req[r].again
      <4>1. /\ req'[r].at = "write" /\ req'[r].conn = c /\ reader'[c] = Reading
            /\ UNCHANGED <<active, unheard>> /\ req[r].at = "dial"
        BY <2>2, <3>1 DEF Dial, TypeOK
      <4>2. Told(r) \/ active = {r}  BY <1>3, <3>1, <4>1 DEF AllHeard, HeardBy
      <4>. QED  BY <1>3, <4>1, <4>2, RequestToldStays DEF HeardBy, Reading
    <3>2. CASE ~req[r].again
      <4>1. req'[r].at = "active"  BY <2>2, <3>2 DEF Dial, TypeOK
      <4>. QED  BY <1>3, <4>1 DEF HeardBy
    <3>. QED  BY <3>1, <3>2
  <2>3. CASE Refused(r)
    <3>1. req'[r].at = "refused"  BY <2>3 DEF Refused, Goto, TypeOK
    <3>. QED  BY <1>3, <3>1 DEF HeardBy
  <2>4. CASE SetActive(r)
    <3>1. req'[r].at = "write" /\ req'[r].conn = req[r].conn /\ active' = {r} /\ reader' = reader
      BY <2>4 DEF SetActive, Goto, TypeOK
    <3>2. reader[req[r].conn].at \in {"read", "push"}  BY <1>3, <2>4 DEF SetActive
    <3>. QED  BY <1>3, <3>1, <3>2 DEF HeardBy
  <2>5. CASE Write(r)
    <3>1. /\ req[r].at = "write" /\ req'[r].at = "wait" /\ req'[r].conn = req[r].conn
          /\ UNCHANGED <<active, reader, unheard>>
      BY <2>5 DEF Write, Goto, TypeOK
    <3>2. HeardBy(r)  BY <1>3, <3>1 DEF AllHeard
    <3>. QED  BY <1>3, <3>1, <3>2, RequestToldStays DEF HeardBy
  <2>6. CASE WriteFails(r)
    <3>1. /\ req[r].at = "write" /\ req'[r].at = "dial" /\ UNCHANGED <<active, unheard>>
      BY <1>3, <2>6 DEF WriteFails, TypeOK
    <3>2. HeardBy(r)  BY <1>3, <3>1 DEF AllHeard
    <3>. QED  BY <1>3, <3>1, <3>2, RequestToldStays DEF HeardBy
  <2>7. CASE Take(r)
    <3>1. UNCHANGED <<req, active, unheard, reader>> /\ req[r].at = "wait"
      BY <1>3, <2>7 DEF Take, Receive, Use
    <3>2. HeardBy(r)  BY <1>3, <3>1 DEF AllHeard
    <3>. QED  BY <1>3, <3>1, <3>2, RequestToldStays DEF HeardBy
  <2>. QED
    BY <1>3, <2>1, <2>2, <2>3, <2>4, <2>5, <2>6, <2>7 DEF Request, DialFails, FindClosed, GiveUp
<1>. QED  BY <1>1, <1>2, <1>3

\* The steps of a reader, one by one: what it moves on to, who stays active, whose
\* channel it closes, and when it panics.
LEMMA ReaderSteps ==
  ASSUME TypeOK, NEW c \in Dialed, Reader(c)
  PROVE  \/ reader' = reader /\ active' = active /\ crashed' = crashed
            /\ \A q \in Requests : chan'[q].closed = chan[q].closed
         \/ /\ reader[c].at = "read" /\ active' = active /\ crashed' = crashed
            /\ \A q \in Requests : chan'[q].closed = chan[q].closed
            /\ reader'[c].ch = active
            /\ \/ reader'[c].at \in {"push", "tell"}
               \/ reader'[c].at = "invalidate" /\ active = {}
         \/ /\ reader[c].at = "push" /\ active' = active
            /\ \A q \in Requests : chan'[q].closed = chan[q].closed
            /\ reader'[c] = Reading
            /\ crashed' = crashed \/ \E r \in reader[c].ch : chan[r].closed
         \/ /\ reader[c].at = "tell" /\ active' = active \ reader[c].ch /\ reader[c].ch # {}
            /\ \A q \in Requests : chan'[q].closed = chan[q].closed
            /\ reader'[c].at = "close" /\ reader'[c].ch = reader[c].ch
            /\ crashed' = crashed \/ \E r \in reader[c].ch : chan[r].closed
         \/ /\ reader[c].at = "close" /\ active' = active
            /\ \A q \in Requests : chan'[q].closed <=> chan[q].closed \/ reader[c].ch = {q}
            /\ reader'[c].at = "invalidate" /\ reader'[c].ch = reader[c].ch
            /\ crashed' = crashed \/ \E r \in reader[c].ch : chan[r].closed
         \/ /\ reader[c].at = "invalidate" /\ active' = active /\ crashed' = crashed
            /\ \A q \in Requests : chan'[q].closed = chan[q].closed
            /\ reader'[c] = [Reading EXCEPT !.at = "ended"]
<1>0. /\ reader[c] \in [at: ReaderAt, ch: One, msg: Message] /\ c \in DOMAIN reader
      /\ \A r \in reader[c].ch : r \in Requests /\ reader[c].ch = {r}
  <2>1. reader[c] \in [at: ReaderAt, ch: One, msg: Message] /\ c \in DOMAIN reader
    BY DEF TypeOK, Dialed
  <2>. QED  BY <2>1, OneMember
<1>a. ASSUME NEW t, Turn(c, t)  PROVE reader'[c] = t  BY <1>0, <1>a DEF Turn
<1>b. ASSUME NEW at, Step(c, at)  PROVE reader'[c].at = at /\ reader'[c].ch = reader[c].ch
  BY <1>0, <1>b DEF Step
<1>c. ASSUME NEW r \in Requests, NEW m, Put(r, m)
      PROVE  \A q \in Requests : chan'[q].closed = chan[q].closed
  BY <1>c DEF Put, TypeOK
<1>1. ASSUME NEW kind, ReadText(c, kind)
      PROVE  /\ reader[c].at = "read" /\ active' = active /\ crashed' = crashed /\ chan' = chan
             /\ reader' = reader \/ (reader'[c].at = "push" /\ reader'[c].ch = active)
  BY <1>1, <1>a DEF ReadText
<1>2. CASE Push(c)
  <2>1. reader[c].at = "push" /\ active' = active /\ reader'[c] = Reading
    BY <1>2, <1>a DEF Push
  <2>2. /\ \A q \in Requests : chan'[q].closed = chan[q].closed
        /\ crashed' = crashed \/ \E r \in reader[c].ch : chan[r].closed
    BY <1>0, <1>2, <1>c DEF Push
  <2>. QED  BY <2>1, <2>2
<1>3. CASE ReadFails(c)
  <2>1. /\ reader[c].at = "read" /\ active' = active /\ crashed' = crashed /\ chan' = chan
        /\ reader'[c].ch = active
        /\ reader'[c].at = IF active = {} THEN "invalidate" ELSE "tell"
    BY <1>3, <1>a DEF ReadFails, Reading
  <2>. QED  BY <2>1
<1>4. CASE Tell(c)
  <2>1. reader[c].at = "tell" /\ active' = active \ reader[c].ch /\ reader[c].ch # {}
    BY <1>4 DEF Tell, Cleared
  <2>2. reader'[c].at = "close" /\ reader'[c].ch = reader[c].ch  BY <1>4, <1>b DEF Tell
  <2>3. /\ \A q \in Requests : chan'[q].closed = chan[q].closed
        /\ crashed' = crashed \/ \E r \in reader[c].ch : chan[r].closed
    BY <1>0, <1>4, <1>c DEF Tell
  <2>. QED  BY <2>1, <2>2, <2>3
<1>5. CASE CloseChannel(c)
  <2>1. reader[c].at = "close" /\ active' = active  BY <1>5 DEF CloseChannel
  <2>2. reader'[c].at = "invalidate" /\ reader'[c].ch = reader[c].ch
    BY <1>5, <1>b DEF CloseChannel
  <2>3. PICK r \in reader[c].ch :
          IF chan[r].closed THEN crashed' = TRUE /\ UNCHANGED chan
          ELSE chan' = [chan EXCEPT ![r].closed = TRUE] /\ UNCHANGED crashed
    BY <1>5 DEF CloseChannel
  <2>4. \A q \in Requests : chan'[q].closed <=> chan[q].closed \/ q = r
    <3>1. CASE chan[r].closed  BY <2>3, <3>1
    <3>2. CASE ~chan[r].closed  BY <1>0, <2>3, <3>2 DEF TypeOK
    <3>. QED  BY <3>1, <3>2
  <2>5. \A q \in Requests : reader[c].ch = {q} <=> q = r  BY <1>0, <2>3, Singletons
  <2>6. crashed' = crashed \/ \E q \in reader[c].ch : chan[q].closed  BY <2>3
  <2>. QED  BY <2>1, <2>2, <2>4, <2>5, <2>6
<1>6. CASE Leave(c)
  <2>1. /\ reader[c].at = "invalidate" /\ active' = active /\ crashed' = crashed /\ chan' = chan
        /\ reader'[c] = [Reading EXCEPT !.at = "ended"]
    BY <1>6, <1>a DEF Leave
  <2>. QED  BY <2>1
<1>. QED  BY <1>1, <1>2, <1>3, <1>4, <1>5, <1>6 DEF Reader

LEMMA ReaderHeard ==
  ASSUME TypeOK, Owned, AllHeard, NEW c \in Dialed, Reader(c)
  PROVE  AllHeard'
<1>. SUFFICES ASSUME NEW q \in Requests, q \notin unheard'  PROVE HeardBy(q)'  BY DEF AllHeard
<1>1. /\ req' = req /\ q \notin unheard /\ Dialed' = Dialed
      /\ \A d \in Dialed \ {c} : reader'[d] = reader[d]
  BY ReaderLeaves DEF Dialed
<1>2. HeardBy(q)  BY <1>1 DEF AllHeard
<1>3. Told(q) => Told(q)'  BY <1>1, ReaderSteps DEF Told, Failing
<1>4. active = {q} => active' = {q} \/ Told(q)
  <2>1. reader[c].ch \in One /\ active \in One  BY DEF TypeOK, Dialed
  <2>2. CASE reader[c].at = "tell" /\ active' = active \ reader[c].ch
    <3>1. CASE reader[c].ch = active  BY <2>2, <3>1 DEF Told, Failing
    <3>2. CASE reader[c].ch # active
      <4>1. active' = active  BY <2>1, <2>2, <3>2, OneMinus
      <4>. QED  BY <4>1
    <3>. QED  BY <3>1, <3>2
  <2>. QED  BY <2>2, ReaderSteps
<1>5. ASSUME active = {q}, NEW d \in Dialed, reader[d].at \in {"read", "push"}
      PROVE  reader'[d].at \in {"read", "push"} \/ Told(q)'
  <2>1. CASE d = c  BY <1>1, <1>5, <2>1, ReaderSteps DEF Told, Failing, Reading
  <2>2. CASE d # c
    <3>1. reader'[d] = reader[d]  BY <1>1, <2>2
    <3>. QED  BY <1>5, <3>1
  <2>. QED  BY <2>1, <2>2
<1>6. req[q].at \in {"write", "wait"} => req[q].conn \in Dialed
  BY DEF Owned, OwnedBy, Chosen
<1>. QED  BY <1>1, <1>2, <1>3, <1>4, <1>5, <1>6 DEF HeardBy

LEMMA HeardStep ==
  ASSUME TypeOK, Owned, AllHeard, [SessionNext]_sessionVars
  PROVE  AllHeard'
<1>1. CASE \E r \in Requests : Request(r)  BY <1>1, RequestHeard
<1>2. CASE \E c \in Dialed : Reader(c)  BY <1>2, ReaderHeard
<1>3. CASE CloseSession
  BY <1>3 DEF CloseSession, CloserOnly, AllHeard, HeardBy, Told, Dialed
<1>4. CASE Restart  BY <1>4 DEF Restart, AllHeard, HeardBy, NewRequest
<1>5. CASE UNCHANGED sessionVars
  BY <1>5 DEF sessionVars, AllHeard, HeardBy, Told, Dialed
<1>. QED  BY <1>1, <1>2, <1>3, <1>4, <1>5 DEF SessionNext

-----------------------------------------------------------------------------
(* Nobody sends on a closed channel while one reader runs at a time.         *)

\* A request is early until it is in activeCh for the first time. No reader knows it
\* then, and who is in activeCh has its channel open.
Early(r) == req[r].at \in {"lock", "active"} \/ (req[r].at = "dial" /\ ~req[r].again)
FreshBy(r) ==
  /\ Early(r) => ~chan[r].closed /\ active # {r} /\ \A c \in Dialed : reader[c].ch # {r}
  /\ chan[r].closed => active # {r}
AllFresh == \A r \in Requests : FreshBy(r)

\* A reader closes the channel of one who is active no more.
ClosersDone == \A c \in Dialed : reader[c].at = "close" => reader[c].ch # {} /\ active # reader[c].ch

\* A reader that runs alone uses channels that are open.
Using == {"push", "tell", "close"}
Alone ==
  ~mixed =>
    /\ ~crashed
    /\ \A c, d \in Dialed : reader[c].at # "ended" /\ reader[d].at # "ended" => c = d
    /\ \A c \in Dialed : reader[c].at \in Using => \A r \in reader[c].ch : ~chan[r].closed

\* What a request does to activeCh, to the readers, and to whether it is early.
LEMMA RequestActive ==
  ASSUME TypeOK, NEW r \in Requests, Request(r)
  PROVE  active' \in {active, {}} \/ (active' = {r} /\ Early(r))
<1>1. CASE End(r)  BY <1>1, EndLeaves
<1>2. CASE SetActive(r)  BY <1>2 DEF SetActive, Early
<1>3. CASE ~End(r) /\ ~SetActive(r)
  BY <1>3 DEF Request, Lock, Dial, DialFails, Refused, Write, WriteFails, Take, Use, FindClosed, GiveUp
<1>. QED  BY <1>1, <1>2, <1>3

LEMMA RequestReaders ==
  ASSUME TypeOK, NEW r \in Requests, Request(r)
  PROVE  \/ reader' = reader /\ mixed' = mixed
         \/ /\ \A c \in Dialed : reader'[c] = reader[c]
            /\ Dialed' = Dialed \cup {Len(wire) + 1} /\ reader'[Len(wire) + 1] = Reading
            /\ mixed' = (mixed \/ \E d \in Dialed : reader[d].at # "ended")
<1>1. CASE Dial(r)
  <2>1. Len(wire) + 1 \notin Dialed  BY Numbers
  <2>. QED  BY <1>1, <2>1 DEF Dial, Dialed
<1>2. CASE ~Dial(r)
  BY <1>2 DEF Request, Lock, DialFails, Refused, SetActive, Write, WriteFails, Take, Receive,
              FindClosed, GiveUp
<1>. QED  BY <1>1, <1>2

LEMMA RequestEarly ==
  ASSUME TypeOK, NEW r \in Requests, Request(r), Early(r)'
  PROVE  Early(r)
<1>1. CASE End(r)
  <2>1. req'[r].at = "ended"  BY <1>1, EndLeaves
  <2>. QED  BY <2>1 DEF Early
<1>2. CASE ~End(r)
  <2>1. CASE Lock(r)  BY <2>1 DEF Lock, Early
  <2>2. CASE Dial(r)
    <3>1. CASE req[r].again
      <4>1. req'[r].at = "write"  BY <2>2, <3>1 DEF Dial, TypeOK
      <4>. QED  BY <4>1 DEF Early
    <3>2. CASE ~req[r].again  BY <2>2, <3>2 DEF Dial, Early
    <3>. QED  BY <3>1, <3>2
  <2>3. CASE Refused(r) \/ SetActive(r) \/ Write(r)
    <3>1. req'[r].at \in {"refused", "write", "wait"}
      BY <2>3 DEF Refused, SetActive, Write, Goto, TypeOK
    <3>. QED  BY <3>1 DEF Early
  <2>4. CASE WriteFails(r)
    <3>1. req'[r].at = "dial" /\ req'[r].again  BY <1>2, <2>4 DEF WriteFails, TypeOK
    <3>. QED  BY <3>1 DEF Early
  <2>5. CASE Take(r)
    <3>1. req' = req /\ req[r].at = "wait"  BY <1>2, <2>5 DEF Take, Receive, Use
    <3>. QED  BY <3>1 DEF Early
  <2>. QED
    BY <1>2, <2>1, <2>2, <2>3, <2>4, <2>5 DEF Request, DialFails, FindClosed, GiveUp
<1>. QED  BY <1>1, <1>2

LEMMA RequestFresh ==
  ASSUME TypeOK, AllFresh, NEW r \in Requests, Request(r)
  PROVE  AllFresh'
<1>. SUFFICES ASSUME NEW q \in Requests PROVE FreshBy(q)'  BY DEF AllFresh
<1>1. FreshBy(q) /\ FreshBy(r) /\ chan'[q].closed = chan[q].closed
  BY RequestLeaves DEF AllFresh
<1>2. Early(q)' => Early(q)
  <2>1. CASE q = r  BY <2>1, RequestEarly
  <2>2. CASE q # r
    <3>1. req'[q] = req[q]  BY <2>2, RequestLeaves
    <3>. QED  BY <3>1 DEF Early
  <2>. QED  BY <2>1, <2>2
<1>3. active # {q} => active' # {q} \/ (q = r /\ Early(q))
  <2>1. {} # {q}  OBVIOUS
  <2>. QED  BY <2>1, RequestActive, Singletons
<1>4. (\A c \in Dialed : reader[c].ch # {q}) => (\A c \in Dialed : reader[c].ch # {q})'
  <2>1. Reading.ch # {q}  BY DEF Reading
  <2>. QED  BY <2>1, RequestReaders DEF Dialed
<1>5. Early(q)' => active' # {q}
  <2>1. SUFFICES ASSUME Early(q)', active' = {q} PROVE FALSE  OBVIOUS
  <2>2. active # {q} /\ {q} # {}  BY <1>1, <1>2, <2>1 DEF FreshBy
  <2>3. q = r /\ ~End(r)
    <3>1. q = r  BY <2>1, <2>2, RequestActive, Singletons
    <3>2. CASE End(r)
      <4>1. req'[r].at = "ended"  BY <3>2, EndLeaves
      <4>. QED  BY <2>1, <3>1, <4>1 DEF Early
    <3>. QED  BY <3>1, <3>2
  <2>4. CASE SetActive(r)
    <3>1. req'[r].at = "write"  BY <2>4 DEF SetActive, Goto, TypeOK
    <3>. QED  BY <2>1, <2>3, <3>1 DEF Early
  <2>5. CASE ~SetActive(r)
    <3>1. active' = active
      BY <2>3, <2>5 DEF Request, Lock, Dial, DialFails, Refused, Write, WriteFails, Take, Use,
                        FindClosed, GiveUp
    <3>. QED  BY <2>1, <2>2, <3>1
  <2>. QED  BY <2>4, <2>5
<1>6. Early(q) => ~chan[q].closed  BY <1>1 DEF FreshBy
<1>. QED  BY <1>1, <1>2, <1>3, <1>4, <1>5, <1>6 DEF FreshBy

\* The readers stand where they stood, but for the one whose step it is.
LEMMA ReaderMoves ==
  ASSUME TypeOK, NEW c \in Dialed, Reader(c)
  PROVE  /\ Dialed' = Dialed /\ UNCHANGED <<req, mixed>>
         /\ \A d \in Dialed \ {c} : reader'[d] = reader[d]
         /\ reader[c].ch \in One /\ active \in One
  BY ReaderLeaves DEF TypeOK, Dialed

LEMMA ReaderActive ==
  ASSUME TypeOK, NEW c \in Dialed, Reader(c)
  PROVE  active' \in {active, {}}
<1>1. active' = active \/ active' = active \ reader[c].ch  BY ReaderSteps
<1>2. reader[c].ch \in One /\ active \in One  BY ReaderMoves
<1>3. active \ reader[c].ch \in {active, {}}
  <2>1. CASE active = reader[c].ch  BY <2>1
  <2>2. CASE active # reader[c].ch
    <3>1. active \ reader[c].ch = active  BY <1>2, <2>2, OneMinus
    <3>. QED  BY <3>1
  <2>. QED  BY <2>1, <2>2
<1>. QED  BY <1>1, <1>3

LEMMA ReaderFresh ==
  ASSUME TypeOK, AllFresh, ClosersDone, NEW c \in Dialed, Reader(c)
  PROVE  AllFresh'
<1>. SUFFICES ASSUME NEW q \in Requests PROVE FreshBy(q)'  BY DEF AllFresh
<1>1. FreshBy(q) /\ (Early(q)' <=> Early(q))  BY ReaderMoves DEF AllFresh, Early
<1>2. {q} # {} /\ (active # {q} => active' # {q})  BY ReaderActive
<1>3. ASSUME Early(q)
      PROVE  ~chan'[q].closed /\ \A d \in Dialed : reader'[d].ch # {q}
  <2>1. ~chan[q].closed /\ active # {q} /\ \A d \in Dialed : reader[d].ch # {q}
    BY <1>1, <1>3 DEF FreshBy
  <2>2. ~chan'[q].closed  BY <2>1, ReaderSteps
  <2>3. reader'[c].ch # {q}  BY <1>2, <2>1, ReaderSteps DEF Reading
  <2>. QED  BY <2>1, <2>2, <2>3, ReaderMoves
<1>4. ASSUME chan'[q].closed  PROVE active' # {q}
  <2>1. CASE chan[q].closed  BY <1>1, <1>2, <2>1 DEF FreshBy
  <2>2. CASE ~chan[q].closed
    <3>1. reader[c].at = "close" /\ reader[c].ch = {q}  BY <1>4, <2>2, ReaderSteps
    <3>. QED  BY <1>2, <3>1 DEF ClosersDone
  <2>. QED  BY <2>1, <2>2
<1>. QED  BY <1>1, <1>2, <1>3, <1>4, ReaderMoves DEF FreshBy

LEMMA FreshStep ==
  ASSUME TypeOK, AllFresh, ClosersDone, [SessionNext]_sessionVars
  PROVE  AllFresh'
<1>1. CASE \E r \in Requests : Request(r)  BY <1>1, RequestFresh
<1>2. CASE \E c \in Dialed : Reader(c)  BY <1>2, ReaderFresh
<1>3. ASSUME UNCHANGED <<req, chan, active, reader>>  PROVE AllFresh'
  BY <1>3 DEF AllFresh, FreshBy, Early, Dialed
<1>4. CASE CloseSession  BY <1>3, <1>4 DEF CloseSession, CloserOnly
<1>5. CASE Restart
  <2>1. \A r \in Requests : ~chan'[r].closed /\ active' # {r} /\ Dialed' = {}
    BY <1>5 DEF Restart, Fresh, Dialed
  <2>. QED  BY <2>1 DEF AllFresh, FreshBy
<1>6. CASE UNCHANGED sessionVars  BY <1>3, <1>6 DEF sessionVars
<1>. QED  BY <1>1, <1>2, <1>4, <1>5, <1>6 DEF SessionNext

LEMMA ClosersStep ==
  ASSUME TypeOK, AllFresh, ClosersDone, [SessionNext]_sessionVars
  PROVE  ClosersDone'
<1>1. ASSUME NEW r \in Requests, Request(r)  PROVE ClosersDone'
  <2>. SUFFICES ASSUME NEW d \in Dialed', reader'[d].at = "close"
                PROVE  reader'[d].ch # {} /\ active' # reader'[d].ch
    BY DEF ClosersDone
  <2>1. d \in Dialed /\ reader'[d] = reader[d]
    BY <1>1, RequestReaders DEF Reading, Dialed
  <2>2. reader[d].ch # {} /\ active # reader[d].ch  BY <2>1 DEF ClosersDone
  <2>3. Early(r) => reader[d].ch # {r}  BY <2>1 DEF AllFresh, FreshBy
  <2>. QED  BY <1>1, <2>1, <2>2, <2>3, RequestActive
<1>2. ASSUME NEW c \in Dialed, Reader(c)  PROVE ClosersDone'
  <2>. SUFFICES ASSUME NEW d \in Dialed, reader'[d].at = "close"
                PROVE  reader'[d].ch # {} /\ active' # reader'[d].ch
    BY <1>2, ReaderMoves DEF ClosersDone
  <2>1. CASE d = c /\ reader' # reader
    <3>1. active' = active \ reader[c].ch /\ reader[c].ch # {} /\ reader'[c].ch = reader[c].ch
      BY <1>2, <2>1, ReaderSteps DEF Reading
    <3>. QED  BY <1>2, <2>1, <3>1
  <2>2. CASE d # c \/ reader' = reader
    <3>1. reader'[d] = reader[d]  BY <1>2, <2>2, ReaderMoves
    <3>2. reader[d].ch # {} /\ active # reader[d].ch  BY <3>1 DEF ClosersDone
    <3>. QED  BY <1>2, <3>1, <3>2, ReaderActive
  <2>. QED  BY <2>1, <2>2
<1>3. CASE CloseSession  BY <1>3 DEF CloseSession, CloserOnly, ClosersDone, Dialed
<1>4. CASE Restart  BY <1>4 DEF Restart, ClosersDone, Dialed
<1>5. CASE UNCHANGED sessionVars  BY <1>5 DEF sessionVars, ClosersDone, Dialed
<1>. QED  BY <1>1, <1>2, <1>3, <1>4, <1>5 DEF SessionNext

LEMMA AloneStep ==
  ASSUME TypeOK, AllFresh, Alone, [SessionNext]_sessionVars
  PROVE  Alone'
<1>1. ASSUME NEW r \in Requests, Request(r), ~mixed'  PROVE Alone'
  <2>1. /\ ~mixed /\ crashed' = crashed
        /\ \A q \in Requests : chan'[q].closed = chan[q].closed
    BY <1>1, RequestReaders, RequestLeaves
  <2>2. CASE reader' = reader
    <3>1. ASSUME NEW c \in Dialed  PROVE reader[c].ch \subseteq Requests
      <4>1. reader[c].ch \in One  BY DEF TypeOK, Dialed
      <4>. QED  BY <4>1 DEF One
    <3>. QED  BY <2>1, <2>2, <3>1 DEF Alone, Dialed
  <2>3. CASE reader' # reader
    <3>1. /\ Dialed' = Dialed \cup {Len(wire) + 1} /\ reader'[Len(wire) + 1] = Reading
          /\ \A d \in Dialed : reader'[d].at = "ended"
      BY <1>1, <2>3, RequestReaders
    <3>2. Reading.at \notin Using  BY DEF Reading, Using
    <3>. QED  BY <2>1, <3>1, <3>2 DEF Alone, Using
  <2>. QED  BY <2>2, <2>3
<1>2. ASSUME NEW c \in Dialed, Reader(c), ~mixed'  PROVE Alone'
  <2>1. ~mixed /\ Dialed' = Dialed /\ \A d \in Dialed \ {c} : reader'[d] = reader[d]
    BY <1>2, ReaderMoves
  <2>2. reader[c].at # "ended" /\ \A d \in Dialed \ {c} : reader[d].at = "ended"
    <3>1. reader[c].at # "ended"
      BY <1>2 DEF Reader, ReadText, Push, ReadFails, Tell, CloseChannel, Leave
    <3>. QED  BY <2>1, <3>1 DEF Alone
  <2>3. reader[c].at \in Using => \A r \in reader[c].ch : ~chan[r].closed
    BY <2>1 DEF Alone
  <2>4. ~crashed /\ ~crashed'  BY <1>2, <2>1, <2>3, ReaderSteps DEF Alone, Using
  <2>5. ASSUME reader'[c].at \in Using, NEW r \in reader'[c].ch  PROVE ~chan'[r].closed
    <3>1. reader[c].ch \in One /\ active \in One  BY <1>2, ReaderMoves
    <3>2. CASE reader[c].at = "read" /\ reader' # reader
      <4>1. reader'[c].ch = active /\ \A q \in Requests : chan'[q].closed = chan[q].closed
        BY <1>2, <3>2, ReaderSteps
      <4>2. r \in Requests /\ active = {r}  BY <2>5, <3>1, <4>1, OneMember
      <4>. QED  BY <4>1, <4>2 DEF AllFresh, FreshBy
    <3>3. CASE reader' = reader
      <4>1. r \in Requests  BY <2>5, <3>1, <3>3, OneMember
      <4>2. reader[c].at = "close" \/ ~chan[r].closed
        BY <2>3, <2>5, <3>3
      <4>. QED  BY <1>2, <2>3, <2>5, <3>3, <4>1, <4>2, ReaderSteps DEF Using, Reading
    <3>4. CASE reader[c].at = "tell"
      <4>1. reader'[c].ch = reader[c].ch /\ \A q \in Requests : chan'[q].closed = chan[q].closed
        BY <1>2, <3>4, ReaderSteps DEF Reading
      <4>2. r \in Requests  BY <2>5, <3>1, <4>1, OneMember
      <4>. QED  BY <2>3, <2>5, <3>4, <4>1, <4>2 DEF Using
    <3>. QED  BY <1>2, <2>5, <3>2, <3>3, <3>4, ReaderSteps DEF Using, Reading
  <2>6. \A d \in Dialed \ {c} : reader'[d].at = "ended"  BY <2>1, <2>2
  <2>. QED  BY <2>1, <2>4, <2>5, <2>6 DEF Alone, Using
<1>3. CASE CloseSession  BY <1>3 DEF CloseSession, CloserOnly, Alone, Dialed
<1>4. CASE Restart  BY <1>4 DEF Restart, Alone, Dialed
<1>5. CASE UNCHANGED sessionVars  BY <1>5 DEF sessionVars, Alone, Dialed
<1>6. CASE mixed'  BY <1>6 DEF Alone
<1>. QED  BY <1>1, <1>2, <1>3, <1>4, <1>5, <1>6 DEF SessionNext

-----------------------------------------------------------------------------
(* The inductive invariant, and what follows from it.                        *)

Inv == TypeOK /\ Owned /\ Kept /\ AllHeard /\ AllFresh /\ ClosersDone /\ Alone

LEMMA InvInit == SessionInit => Inv
<1>. SUFFICES ASSUME SessionInit PROVE Inv  OBVIOUS
<1>1. TypeOK  BY TypeInit
<1>2. /\ \A r \in Requests : req[r].at = "lock" /\ ~req[r].again /\ ~chan[r].closed
      /\ \A r \in Requests : mutex # {r} /\ active # {r}
      /\ conn = 0 /\ open = {} /\ Dialed = {} /\ ~crashed
  BY DEF SessionInit, Dialed, NewRequest, Fresh
<1>3. Owned  BY <1>2 DEF Owned, OwnedBy, Holding, Chosen
<1>4. Kept /\ ClosersDone /\ Alone  BY <1>2 DEF Kept, ClosersDone, Alone
<1>5. AllHeard  BY <1>2 DEF AllHeard, HeardBy
<1>6. AllFresh  BY <1>2 DEF AllFresh, FreshBy
<1>. QED  BY <1>1, <1>3, <1>4, <1>5, <1>6 DEF Inv

LEMMA InvStep == Inv /\ [SessionNext]_sessionVars => Inv'
  BY TypeStep, OwnedStep, KeptStep, HeardStep, FreshStep, ClosersStep, AloneStep DEF Inv

\* The invariant holds of every execution session.
THEOREM SessionInv == SessionSpec => []Inv
  BY InvInit, InvStep, PTL DEF SessionSpec

\* A request that waits for its answer has a reader that will find it, one that is to
\* tell it of the failure, or its channel closed, unless that reader had failed before
\* (readUpstreamLoop, setActive).
THEOREM WaitersAreHeard == SessionSpec => []WaiterIsHeard
<1>1. Inv => WaiterIsHeard
  BY DEF Inv, AllHeard, HeardBy, Told, WaiterIsHeard
<1>. QED  BY <1>1, SessionInv, PTL

\* Whoever takes a connection out of the session, no connection stays open whose
\* reader has ended (invalidateUpstreamConn, closeExecutionSession).
THEOREM ConnsAreClosed == SessionSpec => []NoConnLeaks
<1>1. Inv => NoConnLeaks  BY DEF Inv, Kept, NoConnLeaks
<1>. QED  BY <1>1, SessionInv, PTL

\* Only readers of two connections at once can send on a closed channel or close one
\* twice (readUpstreamLoop).
THEOREM PanicsNeedTwoReaders == SessionSpec => []PanicsOnlyWhenMixed
<1>1. Inv => PanicsOnlyWhenMixed  BY DEF Inv, Alone, PanicsOnlyWhenMixed
<1>. QED  BY <1>1, SessionInv, PTL

-----------------------------------------------------------------------------
(* Whose answers reach a request.                                            *)

Elements(s) == {s[i] : i \in 1..Len(s)}
Distinct(s) == \A i, j \in 1..Len(s) : s[i] = s[j] => i = j
Live        == {"read", "push"}

\* A request sends on one connection and once, and then waits there until it ends.
SentOnce ==
  \A c \in Dialed :
    /\ Distinct(wire[c])
    /\ \A q \in Elements(wire[c]) : req[q].at = "ended" \/ (req[q].at = "wait" /\ req[q].conn = c)

\* As long as a connection is read and a request may come to use it, what its wire still
\* owes is owed to the request that waits or to one that has abandoned it.
Served(c) == conn = c \/ \E r \in Requests : req[r].at \in Chosen /\ req[r].conn = c
LeftBehind ==
  \A c \in Dialed :
    reader[c].at \in Live /\ Served(c) =>
      \A q \in Elements(wire[c]) : q \in abandoned \/ req[q].at = "wait"

\* A message for r: if it is of the connection that r uses, it is part of no answer but
\* its own or an abandoned one. A last part has left the wire, a failed reader reads no more.
Right(m, r) ==
  /\ m.conn \in Dialed /\ m.kind # "none"
  /\ m.kind = "failed" => reader[m.conn].at \notin Live
  /\ \A q \in m.of : req[q].at \in {"wait", "ended"}
  /\ m.kind = "end" => \A q \in m.of : q \notin Elements(wire[m.conn])
  /\ req[r].at \in Chosen /\ req[r].conn = m.conn => m.of \ {r} \subseteq abandoned

Queued(r) ==
  /\ Early(r) => chan[r].msgs = <<>>
  /\ \A m \in Elements(chan[r].msgs) : Right(m, r)
InHand(c) ==
  reader[c].at = "push" =>
    reader[c].msg.conn = c /\ \A r \in reader[c].ch : Right(reader[c].msg, r)
Answers == (\A r \in Requests : Queued(r)) /\ (\A c \in Dialed : InHand(c))

History == took \in [Requests -> SUBSET Requests]

LEMMA Appended ==
  ASSUME NEW S, NEW s \in Seq(S), NEW x \in S
  PROVE  /\ Elements(Append(s, x)) = Elements(s) \cup {x}
         /\ Distinct(s) /\ x \notin Elements(s) => Distinct(Append(s, x))
<1>. DEFINE t == Append(s, x)
<1>1. /\ Len(s) \in Nat /\ Len(t) = Len(s) + 1 /\ t[Len(s) + 1] = x
      /\ \A i \in 1..Len(s) : t[i] = s[i]
  OBVIOUS
<1>. HIDE DEF t
<1>2. 1..Len(t) = 1..Len(s) \cup {Len(s) + 1}  BY <1>1
<1>3. Elements(t) = Elements(s) \cup {x}  BY <1>1, <1>2 DEF Elements
<1>4. ASSUME Distinct(s), x \notin Elements(s)  PROVE Distinct(t)
  <2>. SUFFICES ASSUME NEW i \in 1..Len(t), NEW j \in 1..Len(t), t[i] = t[j]  PROVE i = j
    BY DEF Distinct
  <2>1. \A k \in 1..Len(s) : t[k] # x  BY <1>1, <1>4 DEF Elements
  <2>2. CASE i \in 1..Len(s) /\ j \in 1..Len(s)  BY <1>1, <1>4, <2>2 DEF Distinct
  <2>3. CASE i = Len(s) + 1 \/ j = Len(s) + 1  BY <1>1, <1>2, <2>1, <2>3
  <2>. QED  BY <1>2, <2>2, <2>3
<1>. QED  BY <1>3, <1>4 DEF t

LEMMA WithoutHead ==
  ASSUME NEW S, NEW s \in Seq(S), s # <<>>
  PROVE  /\ Elements(Tail(s)) \subseteq Elements(s) /\ Head(s) \in Elements(s)
         /\ Distinct(s) => Distinct(Tail(s)) /\ Head(s) \notin Elements(Tail(s))
<1>. DEFINE t == Tail(s)
<1>1. /\ Len(s) \in Nat /\ Len(s) > 0 /\ Len(t) = Len(s) - 1 /\ Head(s) = s[1]
      /\ \A i \in 1..Len(t) : t[i] = s[i + 1]
  OBVIOUS
<1>. HIDE DEF t
<1>2. \A i \in 1..Len(t) : i + 1 \in 1..Len(s) /\ i + 1 # 1  BY <1>1
<1>3. 1 \in 1..Len(s)  BY <1>1
<1>4. Elements(t) \subseteq Elements(s) /\ s[1] \in Elements(s)  BY <1>1, <1>2, <1>3 DEF Elements
<1>5. ASSUME Distinct(s)  PROVE Distinct(t) /\ s[1] \notin Elements(t)
  <2>1. s[1] \notin Elements(t)  BY <1>1, <1>2, <1>3, <1>5 DEF Elements, Distinct
  <2>2. ASSUME NEW i \in 1..Len(t), NEW j \in 1..Len(t), t[i] = t[j]  PROVE i = j
    <3>1. s[i + 1] = s[j + 1] /\ i + 1 \in 1..Len(s) /\ j + 1 \in 1..Len(s)  BY <1>1, <1>2, <2>2
    <3>2. i + 1 = j + 1  BY <1>5, <3>1 DEF Distinct
    <3>. QED  BY <3>2
  <2>. QED  BY <2>1, <2>2 DEF Distinct
<1>. QED  BY <1>1, <1>4, <1>5 DEF t

LEMMA NothingSent == Elements(<<>>) = {} /\ Distinct(<<>>)
  BY DEF Elements, Distinct

\* What a step of a request does to the wires, ...
LEMMA RequestWires ==
  ASSUME TypeOK, NEW r \in Requests, Request(r)
  PROVE  /\ \A c \in Dialed' \ Dialed : wire'[c] = <<>>
         /\ \A c \in Dialed :
              \/ wire'[c] = wire[c]
              \/ /\ req[r].at = "write" /\ req[r].conn = c
                 /\ wire'[c] = Append(wire[c], r)
                 /\ req'[r].at = "wait" /\ req'[r].conn = c
<1>0. Dialed = 1..Len(wire) /\ Len(wire) \in Nat /\ wire \in Seq(Seq(Requests))
  BY Numbers DEF TypeOK
<1>1. CASE Dial(r)
  <2>1. Dialed' = Dialed \cup {Len(wire) + 1} /\ wire' = Append(wire, <<>>)
    BY <1>1 DEF Dial, Dialed
  <2>2. wire'[Len(wire) + 1] = <<>> /\ \A c \in 1..Len(wire) : wire'[c] = wire[c]
    BY <1>0, <2>1
  <2>. QED  BY <1>0, <2>1, <2>2
<1>2. CASE Write(r)
  <2>1. /\ wire' = [wire EXCEPT ![req[r].conn] = Append(@, r)] /\ reader' = reader
        /\ req[r].at = "write" /\ req'[r].at = "wait" /\ req'[r].conn = req[r].conn
    BY <1>2 DEF Write, Goto, TypeOK
  <2>2. \A c \in 1..Len(wire) :
          wire'[c] = IF c = req[r].conn THEN Append(wire[c], r) ELSE wire[c]
    BY <1>0, <2>1
  <2>. QED  BY <1>0, <2>1, <2>2 DEF Dialed
<1>3. CASE ~Dial(r) /\ ~Write(r)
  <2>1. wire' = wire /\ reader' = reader
    BY <1>3 DEF Request, Lock, DialFails, Refused, SetActive, WriteFails, Take, Receive,
                FindClosed, GiveUp
  <2>. QED  BY <2>1 DEF Dialed
<1>. QED  BY <1>1, <1>2, <1>3

\* ... to the session's connection and to its own, ...
LEMMA RequestConns ==
  ASSUME TypeOK, Kept, NEW r \in Requests, Request(r)
  PROVE  /\ conn' \in {conn, 0, Len(wire) + 1}
         /\ req'[r].at \in Chosen =>
              \/ req[r].at \in Chosen /\ req'[r].conn = req[r].conn
              \/ req[r].at = "lock" /\ req'[r].conn = conn
              \/ req'[r].conn = Len(wire) + 1
<1>. USE DEF Chosen
<1>1. ASSUME End(r), conn' \in {conn, 0}
      PROVE  /\ conn' \in {conn, 0, Len(wire) + 1}
             /\ req'[r].at \notin Chosen
  BY <1>1, EndLeaves
<1>2. CASE Lock(r)  BY <1>2 DEF Lock, TypeOK
<1>3. CASE Dial(r)  BY <1>3 DEF Dial, TypeOK
<1>4. CASE DialFails(r)  BY <1>1, <1>4 DEF DialFails
<1>5. CASE Refused(r) \/ SetActive(r) \/ Write(r)
  <2>1. conn' = conn /\ req'[r].conn = req[r].conn
    BY <1>5 DEF Refused, SetActive, Write, Goto, TypeOK
  <2>2. req[r].at \in Chosen \/ req'[r].at = "refused"
    BY <1>5 DEF Refused, SetActive, Write, Goto, TypeOK
  <2>. QED  BY <2>1, <2>2
<1>6. CASE WriteFails(r)
  <2>1. conn' \in {conn, 0}  BY <1>6, InvalidateKeeps DEF WriteFails
  <2>2. CASE End(r)  BY <1>1, <2>1, <2>2
  <2>3. CASE ~End(r)
    <3>1. req'[r].at = "dial"  BY <1>6, <2>3 DEF WriteFails, TypeOK
    <3>. QED  BY <2>1, <3>1
  <2>. QED  BY <2>2, <2>3
<1>7. CASE Take(r)
  <2>1. conn' \in {conn, 0}  BY <1>7, InvalidateKeeps DEF Take, Use
  <2>2. CASE End(r)  BY <1>1, <2>1, <2>2
  <2>3. CASE ~End(r)
    <3>1. req' = req  BY <1>7, <2>3 DEF Take, Use
    <3>. QED  BY <2>1, <3>1
  <2>. QED  BY <2>2, <2>3
<1>8. CASE FindClosed(r)  BY <1>1, <1>8 DEF FindClosed
<1>9. CASE GiveUp(r)  BY <1>1, <1>9 DEF GiveUp
<1>. QED  BY <1>2, <1>3, <1>4, <1>5, <1>6, <1>7, <1>8, <1>9 DEF Request

\* ... to what is waiting in the channels and to the history, ...
LEMMA RequestHistory ==
  ASSUME TypeOK, History, NEW r \in Requests, Request(r)
  PROVE  /\ abandoned \subseteq abandoned'
         /\ History'
         /\ \A q \in Requests :
              \/ took'[q] = took[q]
              \/ /\ q = r /\ req[r].at = "wait" /\ chan[r].msgs # <<>>
                 /\ Head(chan[r].msgs).conn = req[r].conn
                 /\ took'[q] = took[q] \cup (Head(chan[r].msgs).of \ {r})
<1>1. CASE Take(r)
  <2>. DEFINE m == Head(chan[r].msgs)
  <2>1. req[r].at = "wait" /\ chan[r].msgs # <<>>  BY <1>1 DEF Take, Receive
  <2>2. m.of \in SUBSET Requests
    <3>1. chan[r].msgs \in Seq(Message)  BY DEF TypeOK
    <3>2. m \in Message  BY <2>1, <3>1
    <3>. QED  BY <3>2 DEF Message
  <2>3. CASE m.conn = req[r].conn
    <3>1. Use(r, m)  BY <1>1, <2>3 DEF Take
    <3>2. took' = [took EXCEPT ![r] = @ \cup (m.of \ {r})] /\ abandoned \subseteq abandoned'
      BY <3>1 DEF Use
    <3>. HIDE DEF m
    <3>3. \A q \in Requests : took'[q] = IF q = r THEN took[q] \cup (m.of \ {r}) ELSE took[q]
      BY <3>2 DEF History
    <3>4. History'  BY <2>2, <3>2 DEF History
    <3>. QED  BY <2>1, <2>3, <3>2, <3>3, <3>4 DEF m
  <2>4. CASE m.conn # req[r].conn
    <3>1. UNCHANGED <<abandoned, took>>  BY <1>1, <2>4 DEF Take
    <3>. QED  BY <3>1 DEF History
  <2>. QED  BY <2>3, <2>4
<1>2. CASE ~Take(r)
  <2>1. took' = took /\ abandoned \subseteq abandoned'
    BY <1>2 DEF Request, Lock, Dial, DialFails, Refused, SetActive, Write, WriteFails,
                FindClosed, GiveUp
  <2>. QED  BY <2>1 DEF History
<1>. QED  BY <1>1, <1>2

LEMMA RequestQueues ==
  ASSUME TypeOK, NEW r \in Requests, Request(r), NEW q \in Requests
  PROVE  \/ chan'[q].msgs = chan[q].msgs
         \/ chan'[q].msgs = <<>>
         \/ /\ q = r /\ req[r].at = "wait" /\ chan[q].msgs # <<>>
            /\ chan'[q].msgs = Tail(chan[q].msgs) /\ req' = req
<1>1. ASSUME End(r)  PROVE chan'[q].msgs = chan[q].msgs \/ chan'[q].msgs = <<>>
  BY <1>1 DEF End, TypeOK
<1>2. ASSUME Rest(r)  PROVE chan'[q].msgs = chan[q].msgs \/ (q = r /\ chan'[q].msgs = Tail(chan[q].msgs))
  BY <1>2 DEF Rest, TypeOK
<1>3. CASE WriteFails(r)  BY <1>1, <1>3 DEF WriteFails
<1>4. CASE Take(r)
  <2>1. req[r].at = "wait" /\ chan[r].msgs # <<>>  BY <1>4 DEF Take, Receive
  <2>2. End(r) \/ (Rest(r) /\ req' = req)  BY <1>4 DEF Take, Use
  <2>. QED  BY <1>1, <1>2, <2>1, <2>2
<1>5. CASE DialFails(r) \/ FindClosed(r) \/ GiveUp(r)
  BY <1>1, <1>5 DEF DialFails, FindClosed, GiveUp
<1>. QED
  BY <1>3, <1>4, <1>5 DEF Request, Lock, Dial, Refused, SetActive, Write

\* ... and, if it waits, when it ends.
LEMMA RequestEnds ==
  ASSUME TypeOK, Kept, NEW r \in Requests, Request(r)
  PROVE  /\ req[r].at # "ended"
         /\ req[r].at = "wait" =>
              \/ req' = req
              \/ req'[r].at = "ended" /\ r \in abandoned'
              \/ LET m == Head(chan[r].msgs) IN
                 /\ req'[r].at = "ended" /\ chan[r].msgs # <<>> /\ m.conn = req[r].conn
                 /\ m.kind # "part" /\ (m.kind = "end" => m.of = {r})
                 /\ m.kind = "error" => conn' # m.conn \/ m.conn = 0
<1>1. req[r].at # "ended"
  BY DEF Request, Lock, Dial, DialFails, Refused, SetActive, Write, WriteFails, Take, Receive,
         FindClosed, GiveUp
<1>2. CASE req[r].at = "wait"
  <2>. DEFINE m == Head(chan[r].msgs)
  <2>1. Take(r) \/ FindClosed(r) \/ GiveUp(r)
    BY <1>2 DEF Request, Lock, Dial, DialFails, Refused, SetActive, Write, WriteFails
  <2>2. CASE Take(r)
    <3>1. chan[r].msgs # <<>>  BY <2>2 DEF Take, Receive
    <3>2. CASE req' # req
      <4>1. m.conn = req[r].conn /\ Use(r, m)  BY <2>2, <3>2 DEF Take
      <4>2. End(r) /\ m.kind # "part"  BY <3>2, <4>1 DEF Use
      <4>3. m.kind = "end" /\ m.of # {r} => r \in abandoned'  BY <4>1 DEF Use
      <4>4. m.kind = "error" => conn' # m.conn \/ m.conn = 0
        <5>1. SUFFICES ASSUME InvalidateConn(m.conn)  PROVE conn' # m.conn \/ m.conn = 0
          BY <4>1 DEF Use
        <5>. QED  BY <5>1 DEF InvalidateConn
      <4>. QED  BY <1>1, <3>1, <4>1, <4>2, <4>3, <4>4, EndLeaves
    <3>. QED  BY <1>1, <3>2
  <2>3. CASE FindClosed(r) \/ GiveUp(r)
    <3>1. End(r) /\ r \in abandoned'  BY <2>3 DEF FindClosed, GiveUp
    <3>. QED  BY <1>1, <3>1, EndLeaves
  <2>. QED  BY <2>1, <2>2, <2>3
<1>. QED  BY <1>1, <1>2

\* What is bound for a request stays right for it, whoever moves.
LEMMA RequestSends ==
  ASSUME TypeOK, Owned, Kept, SentOnce, NEW r \in Requests, Request(r)
  PROVE  SentOnce'
<1>. SUFFICES ASSUME NEW c \in Dialed'
              PROVE  /\ Distinct(wire'[c])
                     /\ \A q \in Elements(wire'[c]) :
                          req'[q].at = "ended" \/ (req'[q].at = "wait" /\ req'[q].conn = c)
  BY DEF SentOnce
<1>1. CASE c \notin Dialed
  <2>1. wire'[c] = <<>>  BY <1>1, RequestWires
  <2>. QED  BY <2>1, NothingSent
<1>2. CASE c \in Dialed
  <2>1. wire[c] \in Seq(Requests)  BY <1>2, Numbers DEF TypeOK
  <2>2. /\ Distinct(wire[c])
        /\ \A q \in Elements(wire[c]) : req[q].at = "ended" \/ (req[q].at = "wait" /\ req[q].conn = c)
    BY <1>2 DEF SentOnce
  <2>3. Elements(wire[c]) \subseteq Requests  BY <2>1 DEF Elements
  <2>4. ASSUME NEW q \in Elements(wire[c])
        PROVE  req'[q].at = "ended" \/ (req'[q].at = "wait" /\ req'[q].conn = c)
    <3>1. CASE q = r  BY <2>2, <3>1, RequestEnds
    <3>2. CASE q # r
      <4>1. req'[q] = req[q]  BY <2>3, <3>2, RequestLeaves
      <4>. QED  BY <2>2, <4>1
    <3>. QED  BY <3>1, <3>2
  <2>5. CASE wire'[c] = wire[c]  BY <2>2, <2>4, <2>5
  <2>6. CASE req[r].at = "write" /\ wire'[c] = Append(wire[c], r) /\ req'[r].at = "wait" /\ req'[r].conn = c
    <3>1. r \notin Elements(wire[c])  BY <2>2, <2>6
    <3>. QED  BY <2>1, <2>2, <2>4, <2>6, <3>1, Appended
  <2>. QED  BY <1>2, <2>5, <2>6, RequestWires
<1>. QED  BY <1>1, <1>2

\* Of two requests one at most has begun.
LEMMA OneHolds ==
  ASSUME Owned, NEW q \in Requests, NEW r \in Requests, req[q].at \in Holding, req[r].at \in Holding
  PROVE  q = r
<1>1. mutex = {q} /\ mutex = {r}  BY DEF Owned, OwnedBy
<1>. QED  BY <1>1, Singletons

LEMMA RequestBehind ==
  ASSUME TypeOK, Owned, Kept, SentOnce, LeftBehind, Answers, History, NEW r \in Requests, Request(r)
  PROVE  LeftBehind'
<1>. SUFFICES ASSUME NEW c \in Dialed', reader'[c].at \in Live, Served(c)',
                     NEW q \in Elements(wire'[c])
              PROVE  q \in abandoned' \/ req'[q].at = "wait"
  BY DEF LeftBehind
<1>1. c \in Dialed
  <2>1. CASE c \notin Dialed  BY <2>1, RequestWires, NothingSent
  <2>. QED  BY <2>1
<1>2. reader[c].at \in Live /\ c # 0 /\ c # Len(wire) + 1  BY <1>1, RequestLeaves, Numbers
<1>3. Served(c)
  <2>1. CASE conn' = c  BY <1>2, <2>1, RequestConns DEF Served
  <2>2. ASSUME NEW p \in Requests, req'[p].at \in Chosen, req'[p].conn = c  PROVE Served(c)
    <3>1. CASE p = r  BY <1>2, <2>2, <3>1, RequestConns DEF Served
    <3>2. CASE p # r
      <4>1. req'[p] = req[p]  BY <3>2, RequestLeaves
      <4>. QED  BY <2>2, <4>1 DEF Served
    <3>. QED  BY <3>1, <3>2
  <2>. QED  BY <2>1, <2>2 DEF Served
<1>4. \A p \in Elements(wire[c]) : p \in abandoned \/ req[p].at = "wait"
  BY <1>1, <1>2, <1>3 DEF LeftBehind
<1>5. wire[c] \in Seq(Requests) /\ Elements(wire[c]) \subseteq Requests
  <2>1. wire[c] \in Seq(Requests)  BY <1>1, Numbers DEF TypeOK
  <2>. QED  BY <2>1 DEF Elements
<1>6. CASE q \notin Elements(wire[c])
  <2>1. wire'[c] = Append(wire[c], r) /\ req'[r].at = "wait"  BY <1>1, <1>6, RequestWires
  <2>2. q = r  BY <1>5, <1>6, <2>1, Appended
  <2>. QED  BY <2>1, <2>2
<1>7. CASE q \in Elements(wire[c]) /\ q # r
  <2>1. req'[q] = req[q]  BY <1>5, <1>7, RequestLeaves
  <2>. QED  BY <1>4, <1>7, <2>1, RequestHistory
<1>8. CASE q \in Elements(wire[c]) /\ q = r
  <2>1. CASE q \in abandoned  BY <2>1, RequestHistory
  <2>2. CASE req[r].at = "wait"
    <3>. DEFINE m == Head(chan[r].msgs)
    <3>1. req[r].conn = c  BY <1>1, <1>8, <2>2 DEF SentOnce
    <3>2. ASSUME req'[r].at = "ended", chan[r].msgs # <<>>, m.conn = req[r].conn, m.kind # "part",
                 m.kind = "end" => m.of = {r}, m.kind = "error" => conn' # m.conn \/ m.conn = 0
          PROVE  FALSE
      <4>1. chan[r].msgs \in Seq(Message)  BY DEF TypeOK
      <4>2. m \in Elements(chan[r].msgs) /\ m \in Message  BY <3>2, <4>1, WithoutHead
      <4>3. Right(m, r)  BY <4>2 DEF Answers, Queued
      <4>4. m.kind \in {"end", "error", "failed"}  BY <3>2, <4>2, <4>3 DEF Message, Right
      <4>5. CASE m.kind = "end"  BY <1>8, <3>1, <3>2, <4>3, <4>5 DEF Right
      <4>6. CASE m.kind = "failed"  BY <1>2, <3>1, <3>2, <4>3, <4>6 DEF Right
      <4>7. CASE m.kind = "error"
        <5>1. conn' # c  BY <1>2, <3>1, <3>2, <4>7
        <5>2. PICK p \in Requests : req'[p].at \in Chosen /\ req'[p].conn = c
          BY <5>1 DEF Served
        <5>3. p # r  BY <3>2, <5>2 DEF Chosen
        <5>4. req'[p] = req[p]  BY <5>3, RequestLeaves
        <5>. QED  BY <2>2, <5>2, <5>3, <5>4, OneHolds DEF Chosen, Holding
      <4>. QED  BY <4>4, <4>5, <4>6, <4>7
    <3>. HIDE DEF m
    <3>3. \/ req' = req
          \/ req'[r].at = "ended" /\ r \in abandoned'
          \/ /\ req'[r].at = "ended" /\ chan[r].msgs # <<>> /\ m.conn = req[r].conn
             /\ m.kind # "part" /\ (m.kind = "end" => m.of = {r})
             /\ m.kind = "error" => conn' # m.conn \/ m.conn = 0
      BY <2>2, RequestEnds DEF m
    <3>. QED  BY <1>8, <2>2, <3>2, <3>3
  <2>. QED  BY <1>4, <1>8, <2>1, <2>2
<1>. QED  BY <1>6, <1>7, <1>8

LEMMA RequestRight ==
  ASSUME TypeOK, Owned, Kept, SentOnce, History, NEW r \in Requests, Request(r),
         NEW q \in Requests, NEW m \in Message, Right(m, q), q = r => ~Early(r)
  PROVE  Right(m, q)'
<1>1. m.conn \in Dialed /\ m.conn \in Dialed' /\ reader'[m.conn] = reader[m.conn] /\ m.kind # "none"
  BY RequestLeaves DEF Right
<1>2. m.of \subseteq Requests /\ m.conn # Len(wire) + 1  BY <1>1, Numbers DEF Message
<1>3. ASSUME NEW p \in m.of  PROVE req'[p].at \in {"wait", "ended"}
  <2>1. req[p].at \in {"wait", "ended"} /\ p \in Requests  BY <1>2 DEF Right
  <2>2. CASE p = r  BY <2>1, <2>2, RequestEnds
  <2>3. CASE p # r
    <3>1. req'[p] = req[p]  BY <2>1, <2>3, RequestLeaves
    <3>. QED  BY <2>1, <3>1
  <2>. QED  BY <2>2, <2>3
<1>4. ASSUME m.kind = "end", NEW p \in m.of  PROVE p \notin Elements(wire'[m.conn])
  <2>1. p \notin Elements(wire[m.conn]) /\ req[p].at # "write"  BY <1>4 DEF Right
  <2>2. wire[m.conn] \in Seq(Requests)  BY <1>1, Numbers DEF TypeOK
  <2>3. CASE wire'[m.conn] = wire[m.conn]  BY <2>1, <2>3
  <2>4. CASE req[r].at = "write" /\ wire'[m.conn] = Append(wire[m.conn], r)
    <3>1. Elements(wire'[m.conn]) = Elements(wire[m.conn]) \cup {r} /\ p # r
      BY <2>1, <2>2, <2>4, Appended
    <3>. QED  BY <2>1, <3>1
  <2>. QED  BY <1>1, <2>3, <2>4, RequestWires
<1>5. ASSUME req'[q].at \in Chosen, req'[q].conn = m.conn  PROVE m.of \ {q} \subseteq abandoned'
  <2>1. req[q].at \in Chosen /\ req[q].conn = m.conn
    <3>1. CASE q = r
      <4>1. req[r].at # "lock"  BY <3>1 DEF Early
      <4>. QED  BY <1>2, <1>5, <3>1, <4>1, RequestConns
    <3>2. CASE q # r
      <4>1. req'[q] = req[q]  BY <3>2, RequestLeaves
      <4>. QED  BY <1>5, <4>1
    <3>. QED  BY <3>1, <3>2
  <2>. QED  BY <2>1, RequestHistory DEF Right
<1>6. m.kind = "failed" => reader'[m.conn].at \notin Live  BY <1>1 DEF Right
<1>. QED  BY <1>1, <1>3, <1>4, <1>5, <1>6 DEF Right

LEMMA RequestAnswers ==
  ASSUME TypeOK, Owned, Kept, AllFresh, SentOnce, Answers, History, NEW r \in Requests, Request(r)
  PROVE  Answers'
<1>1. ASSUME NEW q \in Requests  PROVE Queued(q)'
  <2>1. chan[q].msgs \in Seq(Message) /\ Queued(q)  BY <1>1 DEF TypeOK, Answers
  <2>2. Early(q)' => Early(q)
    <3>1. CASE q = r  BY <3>1, RequestEarly
    <3>2. CASE q # r
      <4>1. req'[q] = req[q]  BY <3>2, RequestLeaves
      <4>. QED  BY <4>1 DEF Early
    <3>. QED  BY <3>1, <3>2
  <2>3. Elements(chan[q].msgs) \subseteq Message /\ Elements(<<>>) = {}
    BY <2>1, NothingSent DEF Elements
  <2>4. \/ chan'[q].msgs = chan[q].msgs \/ chan'[q].msgs = <<>>
        \/ /\ chan[q].msgs # <<>> /\ chan'[q].msgs = Tail(chan[q].msgs)
           /\ q = r /\ req[r].at = "wait" /\ req' = req
    BY <1>1, RequestQueues
  <2>5. Elements(chan'[q].msgs) \subseteq Elements(chan[q].msgs)
    BY <2>1, <2>3, <2>4, WithoutHead
  <2>6. ASSUME NEW m \in Elements(chan'[q].msgs)  PROVE Right(m, q)'
    <3>1. m \in Elements(chan[q].msgs) /\ m \in Message /\ Right(m, q)
      BY <2>1, <2>3, <2>5, <2>6 DEF Queued
    <3>2. q = r => ~Early(r)  BY <2>1, <2>3, <3>1 DEF Queued
    <3>. QED  BY <1>1, <3>1, <3>2, RequestRight
  <2>7. Early(q)' => chan'[q].msgs = <<>>  BY <2>1, <2>2, <2>4 DEF Queued, Early
  <2>. QED  BY <2>6, <2>7 DEF Queued
<1>2. ASSUME NEW c \in Dialed'  PROVE InHand(c)'
  <2>1. CASE c \in Dialed
    <3>1. reader'[c] = reader[c] /\ InHand(c) /\ reader[c].msg \in Message
      BY <2>1, RequestLeaves DEF Answers, TypeOK, Dialed
    <3>2. ASSUME reader[c].at = "push", NEW q \in reader[c].ch,
                 NEW m \in Message, m = reader[c].msg
          PROVE  Right(m, q)'
      <4>1. reader[c].ch \in One  BY <2>1 DEF TypeOK, Dialed
      <4>2. q \in Requests /\ reader[c].ch = {q} /\ Right(m, q)
        BY <3>1, <3>2, <4>1, OneMember DEF InHand
      <4>3. q = r => ~Early(r)  BY <2>1, <4>2 DEF AllFresh, FreshBy
      <4>. QED  BY <4>2, <4>3, RequestRight
    <3>. QED  BY <3>1, <3>2 DEF InHand
  <2>2. CASE c \notin Dialed
    <3>1. reader'[c] = Reading  BY <2>2, RequestReaders DEF Dialed
    <3>. QED  BY <3>1 DEF InHand, Reading
  <2>. QED  BY <2>1, <2>2
<1>. QED  BY <1>1, <1>2 DEF Answers

LEMMA RequestOwn ==
  ASSUME TypeOK, OwnAnswer, Answers, History, NEW r \in Requests, Request(r)
  PROVE  OwnAnswer'
<1>. SUFFICES ASSUME NEW q \in Requests PROVE took'[q] \subseteq abandoned'  BY DEF OwnAnswer
<1>1. took[q] \subseteq abandoned /\ abandoned \subseteq abandoned'
  BY RequestHistory DEF OwnAnswer
<1>2. CASE took'[q] = took[q]  BY <1>1, <1>2
<1>3. CASE took'[q] # took[q]
  <2>. DEFINE m == Head(chan[r].msgs)
  <2>1. /\ q = r /\ req[r].at = "wait" /\ chan[r].msgs # <<>> /\ m.conn = req[r].conn
        /\ took'[q] = took[q] \cup (m.of \ {r})
    BY <1>3, RequestHistory
  <2>2. chan[r].msgs \in Seq(Message)  BY DEF TypeOK
  <2>3. m \in Elements(chan[r].msgs)  BY <2>1, <2>2, WithoutHead
  <2>4. Right(m, r)  BY <2>3 DEF Answers, Queued
  <2>. QED  BY <1>1, <2>1, <2>4 DEF Right, Chosen
<1>. QED  BY <1>2, <1>3

\* A reader takes from its wire at most, and does not come back to life.
LEMMA ReaderWires ==
  ASSUME TypeOK, Kept, NEW c \in Dialed, Reader(c)
  PROVE  /\ UNCHANGED <<req, abandoned, took>> /\ conn' \in {0, conn}
         /\ \A d \in Dialed :
              /\ reader'[d].at \in Live => reader[d].at \in Live
              /\ \/ wire'[d] = wire[d]
                 \/ wire'[d] = <<>>
                 \/ wire[d] # <<>> /\ wire'[d] = Tail(wire[d])
<1>0. wire \in Seq(Seq(Requests)) /\ c \in 1..Len(wire) /\ Dialed = 1..Len(wire)
  BY Numbers DEF TypeOK
<1>1. UNCHANGED <<req, abandoned, took>>
  BY DEF Reader, ReadText, Push, ReadFails, Tell, CloseChannel, Leave, ReaderOnly
<1>2. ASSUME NEW d \in Dialed, reader'[d].at \in Live  PROVE reader[d].at \in Live
  <2>1. CASE d = c  BY <1>2, <2>1, ReaderSteps DEF Live, Reading
  <2>2. CASE d # c
    <3>1. reader'[d] = reader[d]  BY <2>2, ReaderMoves
    <3>. QED  BY <1>2, <3>1
  <2>. QED  BY <2>1, <2>2
<1>3. \/ wire' = wire
      \/ wire' = [wire EXCEPT ![c] = <<>>]
      \/ wire[c] # <<>> /\ wire' = [wire EXCEPT ![c] = Tail(wire[c])]
  BY DEF Reader, ReadText, Push, ReadFails, Tell, CloseChannel, Leave
<1>4. ASSUME NEW d \in Dialed
      PROVE  \/ wire'[d] = wire[d]
             \/ wire'[d] = <<>>
             \/ wire[d] # <<>> /\ wire'[d] = Tail(wire[d])
  <2>1. wire \in [1..Len(wire) -> Seq(Requests)] /\ d \in 1..Len(wire)  BY <1>0
  <2>2. ASSUME NEW v, wire' = [wire EXCEPT ![c] = v]
        PROVE  wire'[d] = IF d = c THEN v ELSE wire[d]
    BY <1>0, <2>1, <2>2
  <2>. QED  BY <1>3, <2>2
<1>. QED  BY <1>1, <1>2, <1>4, ReaderConn

LEMMA ReaderShrinks ==
  ASSUME TypeOK, Kept, NEW c \in Dialed, Reader(c), NEW d \in Dialed
  PROVE  /\ Elements(wire'[d]) \subseteq Elements(wire[d])
         /\ Distinct(wire[d]) => Distinct(wire'[d])
<1>1. wire[d] \in Seq(Requests)  BY Numbers DEF TypeOK
<1>2. CASE wire'[d] = wire[d]  BY <1>2
<1>3. CASE wire'[d] = <<>>  BY <1>3, NothingSent
<1>4. CASE wire[d] # <<>> /\ wire'[d] = Tail(wire[d])  BY <1>1, <1>4, WithoutHead
<1>. QED  BY <1>2, <1>3, <1>4, ReaderWires

LEMMA ReaderSends ==
  ASSUME TypeOK, Kept, SentOnce, LeftBehind, NEW c \in Dialed, Reader(c)
  PROVE  SentOnce' /\ LeftBehind'
<1>1. req' = req /\ abandoned' = abandoned /\ Dialed' = Dialed  BY ReaderWires, ReaderMoves
<1>2. SentOnce'  BY <1>1, ReaderShrinks DEF SentOnce
<1>3. ASSUME NEW d \in Dialed, Served(d)'  PROVE Served(d)
  BY <1>1, <1>3, ReaderWires, Numbers DEF Served
<1>4. LeftBehind'
  <2>. SUFFICES ASSUME NEW d \in Dialed, reader'[d].at \in Live, Served(d)',
                       NEW q \in Elements(wire'[d])
                PROVE  q \in abandoned \/ req[q].at = "wait"
    BY <1>1 DEF LeftBehind
  <2>1. reader[d].at \in Live /\ q \in Elements(wire[d])  BY ReaderWires, ReaderShrinks
  <2>. QED  BY <1>3, <2>1 DEF LeftBehind
<1>. QED  BY <1>2, <1>4

LEMMA ReaderRight ==
  ASSUME TypeOK, Kept, NEW c \in Dialed, Reader(c), NEW q, NEW m, Right(m, q)
  PROVE  Right(m, q)'
<1>1. req' = req /\ abandoned' = abandoned /\ Dialed' = Dialed  BY ReaderWires, ReaderMoves
<1>2. m.conn \in Dialed  BY DEF Right
<1>3. reader'[m.conn].at \in Live => reader[m.conn].at \in Live  BY <1>2, ReaderWires
<1>4. Elements(wire'[m.conn]) \subseteq Elements(wire[m.conn])  BY <1>2, ReaderShrinks
<1>. QED  BY <1>1, <1>2, <1>3, <1>4 DEF Right

\* What a reader has read for who is active.
LEMMA ReadRight ==
  ASSUME TypeOK, Owned, Kept, SentOnce, LeftBehind, NEW c \in Dialed, Reader(c),
         NEW kind \in {"part", "end", "error"}, ReadText(c, kind), active # {}
  PROVE  /\ reader'[c].at = "push" /\ reader'[c].ch = active /\ reader'[c].msg.conn = c
         /\ \A r \in active : Right(reader[c].msg, r)'
<1>. DEFINE of == IF wire[c] = <<>> THEN {} ELSE {Head(wire[c])}
<1>a. PICK m : m = [conn |-> c, kind |-> kind, of |-> IF kind = "error" THEN {} ELSE of]
  OBVIOUS
<1>b. m.conn = c /\ m.kind = kind /\ m.of = IF kind = "error" THEN {} ELSE of  BY <1>a
<1>0. /\ wire \in Seq(Seq(Requests)) /\ c \in 1..Len(wire) /\ Dialed = 1..Len(wire)
      /\ wire[c] \in Seq(Requests) /\ Dialed' = Dialed
      /\ req' = req /\ abandoned' = abandoned
  BY Numbers, ReaderMoves, ReaderWires DEF TypeOK
<1>1. reader'[c] = [at |-> "push", ch |-> active, msg |-> m] /\ reader[c].at = "read"
  BY <1>0, <1>a DEF ReadText, Turn, Dialed
<1>2. wire[c] # <<>> \/ kind = "error"  BY DEF ReadText
<1>3. kind = "end" => wire'[c] = Tail(wire[c])
  <2>1. ASSUME kind = "end"  PROVE wire' = [wire EXCEPT ![c] = Tail(wire[c])]
    BY <1>2, <2>1 DEF ReadText
  <2>2. wire \in [1..Len(wire) -> Seq(Requests)]  BY <1>0
  <2>. QED  BY <1>0, <2>1, <2>2
<1>4. ASSUME NEW r \in active  PROVE Right(m, r)'
  <2>1. /\ \A q \in Elements(wire[c]) : req[q].at = "ended" \/ (req[q].at = "wait" /\ req[q].conn = c)
        /\ Distinct(wire[c])
    BY DEF SentOnce
  <2>2. r \in Requests
    <3>1. active \in One  BY DEF TypeOK
    <3>. QED  BY <1>4, <3>1, OneMember
  <2>3. CASE m.of = {}  BY <1>0, <1>b, <2>3 DEF Right
  <2>4. CASE m.of # {}
    <3>. DEFINE h == Head(wire[c])
    <3>1. m.of = {h} /\ wire[c] # <<>> /\ h \in Elements(wire[c])
      <4>1. kind # "error" /\ wire[c] # <<>>  BY <1>2, <1>b, <2>4
      <4>. QED  BY <1>0, <1>b, <4>1, WithoutHead
    <3>2. req[h].at \in {"wait", "ended"} /\ h \in Requests  BY <1>0, <2>1, <3>1 DEF Elements
    <3>3. kind = "end" => h \notin Elements(wire'[c])  BY <1>0, <1>3, <2>1, <3>1, WithoutHead
    <3>4. ASSUME req[r].at \in Chosen, req[r].conn = c, h # r  PROVE h \in abandoned
      <4>1. Served(c)  BY <2>2, <3>4 DEF Served
      <4>2. h \in abandoned \/ req[h].at = "wait"  BY <1>1, <3>1, <4>1 DEF LeftBehind, Live
      <4>3. req[h].at # "wait"  BY <2>2, <3>2, <3>4, OneHolds DEF Chosen, Holding
      <4>. QED  BY <4>2, <4>3
    <3>. HIDE DEF h
    <3>5. m.of \ {r} \subseteq abandoned \/ req[r].at \notin Chosen \/ req[r].conn # c
      BY <3>1, <3>4
    <3>. QED  BY <1>0, <1>b, <3>1, <3>2, <3>3, <3>5 DEF Right
  <2>. QED  BY <2>3, <2>4
<1>5. reader'[c].at = "push" /\ reader'[c].ch = active /\ reader'[c].msg = m  BY <1>1
<1>. QED  BY <1>b, <1>4, <1>5

LEMMA ReaderInHand ==
  ASSUME TypeOK, Owned, Kept, SentOnce, LeftBehind, Answers, NEW c \in Dialed, Reader(c),
         NEW d \in Dialed
  PROVE  InHand(d)'
<1>1. CASE reader'[d] = reader[d]
  <2>1. InHand(d)  BY DEF Answers
  <2>2. ASSUME NEW m, NEW q, Right(m, q)  PROVE Right(m, q)'  BY <2>2, ReaderRight
  <2>3. ASSUME NEW m, m = reader[d].msg, reader[d].at = "push", NEW q \in reader[d].ch
        PROVE  Right(m, q)'
    BY <2>1, <2>2, <2>3 DEF InHand
  <2>. QED  BY <1>1, <2>1, <2>3 DEF InHand
<1>2. CASE reader'[d] # reader[d]
  <2>1. d = c  BY <1>2, ReaderMoves
  <2>2. CASE \E kind \in {"part", "end", "error"} : ReadText(c, kind)
    <3>1. active # {}  BY <1>2, <2>2 DEF ReadText
    <3>. QED  BY <2>1, <2>2, <3>1, ReadRight DEF InHand
  <2>3. CASE ~\E kind \in {"part", "end", "error"} : ReadText(c, kind)
    <3>1. reader[c] \in [at: ReaderAt, ch: One, msg: Message] /\ c \in DOMAIN reader
      BY DEF TypeOK, Dialed
    <3>2. reader'[c].at # "push"
      <4>0. ASSUME NEW t, Turn(c, t)  PROVE reader'[c] = t  BY <3>1, <4>0 DEF Turn
      <4>1. CASE Push(c) \/ Leave(c)  BY <4>0, <4>1 DEF Push, Leave, Reading
      <4>3. CASE ReadFails(c)
        <5>1. reader'[c].at = IF active = {} THEN "invalidate" ELSE "tell"
          BY <4>0, <4>3 DEF ReadFails, Reading
        <5>. QED  BY <5>1
      <4>2. CASE Tell(c) \/ CloseChannel(c)  BY <3>1, <4>2 DEF Tell, CloseChannel, Step
      <4>. QED  BY <2>3, <4>1, <4>2, <4>3 DEF Reader
    <3>. QED  BY <2>1, <3>2 DEF InHand
  <2>. QED  BY <2>2, <2>3
<1>. QED  BY <1>1, <1>2

\* What a reader puts into a channel is right for its owner.
LEMMA ReaderPuts ==
  ASSUME TypeOK, Kept, Answers, NEW c \in Dialed, Reader(c), NEW q \in Requests
  PROVE  \/ chan'[q].msgs = chan[q].msgs
         \/ /\ reader[c].ch = {q}
            /\ \E m \in Message : chan'[q].msgs = Append(chan[q].msgs, m) /\ Right(m, q)'
<1>0. reader[c] \in [at: ReaderAt, ch: One, msg: Message] /\ NoMsg \in Message /\ c \in Nat
  BY Numbers DEF TypeOK, Dialed, NoMsg, Message
<1>1. ASSUME NEW r \in reader[c].ch, NEW m, Put(r, m)
      PROVE  \/ chan'[q].msgs = chan[q].msgs
             \/ reader[c].ch = {q} /\ chan'[q].msgs = Append(chan[q].msgs, m)
  <2>1. r \in Requests /\ reader[c].ch = {r}  BY <1>0, <1>1, OneMember
  <2>. QED  BY <1>1, <2>1 DEF Put, TypeOK
<1>2. CASE Push(c)
  <2>1. CASE chan' = chan  BY <2>1
  <2>2. CASE chan' # chan
    <3>1. PICK r \in reader[c].ch : Put(r, reader[c].msg)  BY <1>2, <2>2 DEF Push
    <3>2. PICK m \in Message : m = reader[c].msg  BY <1>0
    <3>3. reader[c].ch = {q} => Right(m, q)  BY <1>2, <3>2 DEF Answers, InHand, Push
    <3>4. reader[c].ch = {q} => Right(m, q)'  BY <3>3, ReaderRight
    <3>. QED  BY <1>1, <3>1, <3>2, <3>4
  <2>. QED  BY <2>1, <2>2
<1>3. CASE Tell(c)
  <2>. DEFINE m == [NoMsg EXCEPT !.conn = c, !.kind = "failed"]
  <2>1. m \in Message /\ m.conn = c /\ m.kind = "failed" /\ m.of = {}  BY <1>0 DEF Message, NoMsg
  <2>. HIDE DEF m
  <2>2. CASE chan' = chan  BY <2>2
  <2>3. CASE chan' # chan
    <3>1. PICK r \in reader[c].ch : Put(r, m)  BY <1>3, <2>3 DEF Tell, m
    <3>2. reader'[c].at = "close" /\ Dialed' = Dialed
      BY <1>0, <1>3, ReaderMoves DEF Tell, Step, Dialed
    <3>3. Right(m, q)'  BY <2>1, <3>2 DEF Right, Live
    <3>. QED  BY <1>1, <2>1, <3>1, <3>3
  <2>. QED  BY <2>2, <2>3
<1>4. CASE CloseChannel(c)
  <2>1. chan' = chan \/ \E r \in reader[c].ch : chan' = [chan EXCEPT ![r].closed = TRUE]
    BY <1>4 DEF CloseChannel
  <2>2. ASSUME NEW r, chan' = [chan EXCEPT ![r].closed = TRUE]  PROVE chan'[q].msgs = chan[q].msgs
    BY <2>2 DEF TypeOK
  <2>. QED  BY <2>1, <2>2
<1>5. CASE chan' = chan  BY <1>5
<1>. QED
  BY <1>2, <1>3, <1>4, <1>5 DEF Reader, ReadText, ReadFails, Leave

LEMMA ReaderAnswers ==
  ASSUME TypeOK, Owned, Kept, AllFresh, SentOnce, LeftBehind, Answers, NEW c \in Dialed, Reader(c)
  PROVE  Answers'
<1>1. ASSUME NEW q \in Requests  PROVE Queued(q)'
  <2>1. chan[q].msgs \in Seq(Message) /\ Queued(q) /\ (Early(q)' <=> Early(q))
    BY <1>1, ReaderMoves DEF TypeOK, Answers, Early
  <2>2. ASSUME NEW m \in Elements(chan[q].msgs)  PROVE Right(m, q)'
    BY <2>1, <2>2, ReaderRight DEF Queued
  <2>3. CASE chan'[q].msgs = chan[q].msgs  BY <2>1, <2>2, <2>3 DEF Queued
  <2>4. ASSUME reader[c].ch = {q}, NEW m \in Message,
               chan'[q].msgs = Append(chan[q].msgs, m), Right(m, q)'
        PROVE  Queued(q)'
    <3>1. ~Early(q)  BY <1>1, <2>4 DEF AllFresh, FreshBy
    <3>2. Elements(chan'[q].msgs) = Elements(chan[q].msgs) \cup {m}  BY <2>1, <2>4, Appended
    <3>. QED  BY <2>1, <2>2, <2>4, <3>1, <3>2 DEF Queued
  <2>. QED  BY <1>1, <2>3, <2>4, ReaderPuts
<1>2. Dialed' = Dialed  BY ReaderMoves
<1>. QED  BY <1>1, <1>2, ReaderInHand DEF Answers

-----------------------------------------------------------------------------
(* Own answers.                                                              *)

Own == SentOnce /\ LeftBehind /\ Answers /\ History /\ OwnAnswer

LEMMA OwnInit == SessionInit => Own
<1>. SUFFICES ASSUME SessionInit PROVE Own  OBVIOUS
<1>1. Dialed = {} /\ \A r \in Requests : chan[r].msgs = <<>> /\ took[r] = {}
  BY DEF SessionInit, Dialed, Fresh
<1>2. Answers  BY <1>1, NothingSent DEF Answers, Queued
<1>3. SentOnce /\ LeftBehind /\ OwnAnswer  BY <1>1 DEF SentOnce, LeftBehind, OwnAnswer
<1>4. History  BY DEF SessionInit, History
<1>. QED  BY <1>2, <1>3, <1>4 DEF Own

LEMMA OwnStep ==
  ASSUME TypeOK, Owned, Kept, AllFresh, Own, [SessionNext]_sessionVars
  PROVE  Own'
<1>. USE DEF Own
<1>1. ASSUME NEW r \in Requests, Request(r)  PROVE Own'
  <2>1. SentOnce' /\ LeftBehind' /\ Answers'
    BY <1>1, RequestSends, RequestBehind, RequestAnswers
  <2>. QED  BY <1>1, <2>1, RequestHistory, RequestOwn
<1>2. ASSUME NEW c \in Dialed, Reader(c)  PROVE Own'
  <2>1. SentOnce' /\ LeftBehind' /\ Answers'  BY <1>2, ReaderSends, ReaderAnswers
  <2>2. abandoned' = abandoned /\ took' = took  BY <1>2, ReaderWires
  <2>. QED  BY <2>1, <2>2 DEF OwnAnswer, History
<1>3. ASSUME UNCHANGED <<req, reader, chan, wire, abandoned, took>>, conn' \in {0, conn}
      PROVE  Own'
  <2>1. Dialed' = Dialed  BY <1>3 DEF Dialed
  <2>2. \A c \in Dialed : Served(c)' => Served(c)  BY <1>3, Numbers DEF Served
  <2>3. SentOnce' /\ LeftBehind'  BY <1>3, <2>1, <2>2 DEF SentOnce, LeftBehind
  <2>4. \A m, r : Right(m, r)' <=> Right(m, r)  BY <1>3, <2>1 DEF Right
  <2>5. ASSUME NEW r \in Requests  PROVE Queued(r)'
    BY <1>3, <2>4, <2>5 DEF Answers, Queued, Early
  <2>6. ASSUME NEW c \in Dialed  PROVE InHand(c)'
    <3>1. PICK m : m = reader[c].msg  OBVIOUS
    <3>2. InHand(c) /\ reader' = reader  BY <1>3, <2>6 DEF Answers
    <3>3. reader[c].at = "push" => m.conn = c /\ \A r \in reader[c].ch : Right(m, r)'
      BY <2>4, <3>1, <3>2 DEF InHand
    <3>. QED  BY <3>1, <3>2, <3>3 DEF InHand
  <2>7. Answers'  BY <2>1, <2>5, <2>6 DEF Answers
  <2>. QED  BY <1>3, <2>3, <2>7 DEF History, OwnAnswer
<1>4. CASE CloseSession  BY <1>3, <1>4 DEF CloseSession, CloserOnly
<1>5. CASE Restart
  <2>1. SessionInit'  BY <1>5 DEF Restart, SessionInit
  <2>. QED  BY <2>1, OwnInit, PTL
<1>6. CASE UNCHANGED sessionVars  BY <1>3, <1>6 DEF sessionVars
<1>. QED  BY <1>1, <1>2, <1>4, <1>5, <1>6 DEF SessionNext

\* A request is given no part of another's answer, however requests end early, leave
\* their connection to the next and dial again (readUpstreamLoop,
\* readCodexWebsocketMessage), but of the answer of one that abandoned it on the way.
THEOREM AnswersAreOwn == SessionSpec => []OwnAnswer
<1>1. SessionInit => Inv /\ Own  BY InvInit, OwnInit
<1>2. Inv /\ Own /\ [SessionNext]_sessionVars => (Inv /\ Own)'
  BY InvStep, OwnStep DEF Inv
<1>3. Own => OwnAnswer  BY DEF Own
<1>. QED  BY <1>1, <1>2, <1>3, PTL DEF SessionSpec

-----------------------------------------------------------------------------
(* One exchange at a time.                                                   *)

LEMMA RequestExchanges ==
  ASSUME TypeOK, Owned, SentOnce, LeftBehind, History, OneExchangeAtATime,
         NEW r \in Requests, Request(r)
  PROVE  OneExchangeAtATime'
<1>. SUFFICES ASSUME NEW c \in Dialed', reader'[c].at \in Live,
                     NEW i \in DOMAIN wire'[c], NEW j \in DOMAIN wire'[c], i < j
              PROVE  wire'[c][i] \in abandoned'
  BY DEF OneExchangeAtATime, Live
<1>1. c \in Dialed
  <2>1. CASE c \notin Dialed  BY <2>1, RequestWires
  <2>. QED  BY <2>1
<1>2. reader[c].at \in Live  BY <1>1, RequestLeaves
<1>3. abandoned \subseteq abandoned'  BY RequestHistory
<1>4. CASE wire'[c] = wire[c]  BY <1>1, <1>2, <1>3, <1>4 DEF OneExchangeAtATime, Live
<1>5. CASE req[r].at = "write" /\ req[r].conn = c /\ wire'[c] = Append(wire[c], r)
  <2>1. wire[c] \in Seq(Requests)  BY <1>1, Numbers DEF TypeOK
  <2>2. i \in 1..Len(wire[c]) /\ wire'[c][i] = wire[c][i]  BY <1>5, <2>1
  <2>. DEFINE q == wire[c][i]
  <2>3. q \in Elements(wire[c]) /\ q \in Requests  BY <2>1, <2>2 DEF Elements
  <2>4. Served(c)  BY <1>5 DEF Served, Chosen
  <2>5. q \in abandoned \/ req[q].at = "wait"  BY <1>1, <1>2, <2>3, <2>4 DEF LeftBehind
  <2>6. req[q].at # "wait"  BY <1>5, <2>3, OneHolds DEF Holding
  <2>. QED  BY <1>3, <2>2, <2>5, <2>6
<1>. QED  BY <1>1, <1>4, <1>5, RequestWires

LEMMA ReaderExchanges ==
  ASSUME TypeOK, Kept, OneExchangeAtATime, NEW c \in Dialed, Reader(c)
  PROVE  OneExchangeAtATime'
<1>. SUFFICES ASSUME NEW d \in Dialed', reader'[d].at \in Live,
                     NEW i \in DOMAIN wire'[d], NEW j \in DOMAIN wire'[d], i < j
              PROVE  wire'[d][i] \in abandoned'
  BY DEF OneExchangeAtATime, Live
<1>1. d \in Dialed /\ reader[d].at \in Live /\ abandoned' = abandoned  BY ReaderMoves, ReaderWires
<1>2. wire[d] \in Seq(Requests)  BY <1>1, Numbers DEF TypeOK
<1>3. \A k, l \in 1..Len(wire[d]) : k < l => wire[d][k] \in abandoned
  BY <1>1, <1>2 DEF OneExchangeAtATime, Live
<1>4. CASE wire'[d] = wire[d]  BY <1>1, <1>2, <1>3, <1>4
<1>5. CASE wire'[d] = <<>>  BY <1>5
<1>6. CASE wire[d] # <<>> /\ wire'[d] = Tail(wire[d])
  <2>1. i + 1 \in 1..Len(wire[d]) /\ j + 1 \in 1..Len(wire[d]) /\ i + 1 < j + 1
        /\ wire'[d][i] = wire[d][i + 1]
    BY <1>2, <1>6
  <2>. QED  BY <1>1, <1>3, <2>1
<1>. QED  BY <1>1, <1>4, <1>5, <1>6, ReaderWires

LEMMA ExchangesStep ==
  ASSUME TypeOK, Owned, Kept, Own, OneExchangeAtATime, [SessionNext]_sessionVars
  PROVE  OneExchangeAtATime'
<1>. USE DEF Own
<1>1. CASE \E r \in Requests : Request(r)  BY <1>1, RequestExchanges
<1>2. CASE \E c \in Dialed : Reader(c)  BY <1>2, ReaderExchanges
<1>3. CASE CloseSession  BY <1>3 DEF CloseSession, CloserOnly, OneExchangeAtATime, Dialed
<1>4. CASE Restart  BY <1>4 DEF Restart, OneExchangeAtATime, Dialed
<1>5. CASE UNCHANGED sessionVars  BY <1>5 DEF sessionVars, OneExchangeAtATime, Dialed
<1>. QED  BY <1>1, <1>2, <1>3, <1>4, <1>5 DEF SessionNext

\* Two requests share a connection only where the earlier one abandoned its answer
\* there: reqMu is held from taking the connection to the end of the answer, on every
\* path (Execute, ExecuteStream and its goroutine).
THEOREM ExchangesAlternate == SessionSpec => []OneExchangeAtATime
<1>1. SessionInit => Inv /\ Own /\ OneExchangeAtATime
  BY InvInit, OwnInit DEF SessionInit, OneExchangeAtATime, Dialed
<1>2. Inv /\ Own /\ OneExchangeAtATime /\ [SessionNext]_sessionVars
      => (Inv /\ Own /\ OneExchangeAtATime)'
  BY InvStep, OwnStep, ExchangesStep DEF Inv
<1>. QED  BY <1>1, <1>2, PTL DEF SessionSpec
=============================================================================
