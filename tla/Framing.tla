-------------------------------- MODULE Framing --------------------------------
(* How a message crosses a connection of tcpsocket, in either direction:      *)
(* Connection::send_request (connection.h, under mtx) and recv_request        *)
(* (clientp.h) upwards, Clientp::send_response (no lock) and recv_and_decode  *)
(* downwards.  A frame is ten digits of size and a body, cut here into three  *)
(* cells: two halves of the header and the body.  TCP moves cells in order,   *)
(* as many at a time as it likes; a send may return a short count.            *)
EXTENDS Naturals, Sequences, FiniteSets

CONSTANTS
  Peers,     \* the server's threads of other clients, which send to this one
  NoThread,  \* nobody holds mtx
  Messages,  \* what is sent: strings
  Room,      \* the cells a direction holds that have not been read
  MaxFaults  \* bound: the faults of both directions together

Dirs    == {"up", "down"}
Ends    == {"client", "server"}
Writers == {"keys", "recv", "own"} \cup Peers

\* The client's own thread in the server sends, among its messages, to other clients.
Elsewhere == "elsewhere"
Entries   == Messages \cup {Elsewhere}
Words(w)  == IF w = "own" THEN Entries ELSE Messages

ASSUME FramingAssumption ==
  /\ Peers \cap {"keys", "recv", "own"} = {} /\ NoThread \notin Writers
  /\ Messages \subseteq STRING /\ {"junk", Elsewhere} \cap Messages = {}
  /\ Room \in Nat \ {0} /\ MaxFaults \in Nat

\* The client's keyboard thread and receiver send up, the server's threads down.
Way(w)    == IF w \in {"keys", "recv"} THEN "up" ELSE "down"
Host(w)   == IF w \in {"keys", "recv"} THEN "client" ELSE "server"
Reader(d) == IF d = "up" THEN "own" ELSE "recv"

VARIABLES
  open,     \* the ends whose process still serves the connection
  stream,   \* the cells under way
  buff,     \* the message whose frame is in send_buff, or send_buffer
  mtx,      \* the thread that holds Connection::mtx
  todo,     \* what a thread has still to send, the first one under way
  call,     \* its call of send
  reading,  \* what the reader of a direction waits for
  sent,     \* history: the messages in the order in which their sending began
  rcvd,     \* history: the messages loaded
  fault     \* history: what has happened to a direction

history == <<sent, rcvd, fault>>
sending == <<buff, mtx, todo, call>>
frameVars == <<open, stream, reading, sending, history>>

FrameLen == 3
Cells == [msg : Messages \cup {"junk"}, part : 1..FrameLen]

\* from: where in the frame the call began; rest: the cells it was asked to
\* send; done: those it has sent.  No call: rest = 0.
Calls  == [from : 0..FrameLen, rest : 0..FrameLen, done : 0..FrameLen]
NoCall == [from |-> 0, rest |-> 0, done |-> 0]

FrameInit ==
  /\ open = Ends
  /\ stream = [d \in Dirs |-> <<>>]
  /\ buff = [d \in Dirs |-> "junk"]
  /\ mtx = NoThread
  /\ todo = [w \in Writers |-> <<>>]
  /\ call = [w \in Writers |-> NoCall]
  /\ reading = [d \in Dirs |-> "header"]
  /\ sent = [d \in Dirs |-> <<>>]
  /\ rcvd = [d \in Dirs |-> <<>>]
  /\ fault = [d \in Dirs |-> {}]

Idle(w) == call[w].rest = 0

Blame(d, fs) == /\ fault' = [fault EXCEPT ![d] = @ \cup fs]
                /\ Cardinality(fault'["up"]) + Cardinality(fault'["down"]) <= MaxFaults

-------------------------------------------------------------------------------
(* send_request and send_response.                                            *)

\* Mutant of MayFill: send_request does not lock.
MayFillMutant(w) == TRUE

MayFill(w) == Way(w) = "up" => mtx = NoThread

\* The next send is on this connection, or on another.
Here(w) == todo[w] # <<>> /\ Head(todo[w]) # Elsewhere
Away(w) == todo[w] # <<>> /\ Head(todo[w]) = Elsewhere

\* Lock (upwards), fill the buffer, call send for the whole frame.  Downwards
\* another thread may be in the middle of its own frame.
Fill(w) ==
  LET d == Way(w) IN
  /\ Host(w) \in open /\ Here(w) /\ Idle(w) /\ MayFill(w)
  /\ mtx' = IF d = "up" THEN w ELSE mtx
  /\ buff' = [buff EXCEPT ![d] = Head(todo[w])]
  /\ call' = [call EXCEPT ![w] = [NoCall EXCEPT !.rest = FrameLen]]
  /\ sent' = [sent EXCEPT ![d] = Append(@, Head(todo[w]))]
  /\ Blame(d, IF d = "down" /\ \E v \in Writers : Way(v) = d /\ ~Idle(v)
                THEN {"raced"} ELSE {})
  /\ UNCHANGED <<open, stream, todo, reading, rcvd>>

\* Mutant of Unlock: the lock is kept at the end.
UnlockMutant(w) == mtx

Unlock(w) == IF mtx = w THEN NoThread ELSE mtx

\* send moves the next k cells.  If another thread has refilled the buffer since,
\* they are of either message: send reads memory that was freed.  The last
\* cell ends the loop.
Copy(w, k) ==
  LET d == Way(w)
      c == call[w]
  IN
  /\ Host(w) \in open
  /\ k \in 1..(c.rest - c.done) /\ Len(stream[d]) + k <= Room
  /\ \E m \in {buff[d], Head(todo[w])} :
       stream' = [stream EXCEPT ![d] =
                    @ \o [i \in 1..k |-> [msg |-> m, part |-> c.from + c.done + i]]]
  /\ IF c.done + k = c.rest
       THEN /\ call' = [call EXCEPT ![w] = NoCall]
            /\ todo' = [todo EXCEPT ![w] = Tail(@)]
            /\ mtx' = Unlock(w)
       ELSE /\ call' = [call EXCEPT ![w].done = c.done + k]
            /\ UNCHANGED <<todo, mtx>>
  /\ UNCHANGED <<open, buff, reading, history>>

\* Mutants of Again: the whole frame is asked for again; the next send starts
\* at the beginning of the buffer.
AgainMutant(c) == [from |-> c.done, rest |-> c.rest, done |-> 0]
AgainStart(c)  == [from |-> 0, rest |-> c.rest - c.done, done |-> 0]

\* The next call of send starts at the size of the last piece, which is the
\* total sent only the first time.
Again(c) == [from |-> c.done, rest |-> c.rest - c.done, done |-> 0]

\* send returns a short count.
ShortCount(w) ==
  /\ Host(w) \in open
  /\ call[w].done \in 1..(call[w].rest - 1)
  /\ call' = [call EXCEPT ![w] = Again(call[w])]
  /\ Blame(Way(w), IF call[w].from = 0 THEN {} ELSE {"skewed"})
  /\ UNCHANGED <<open, stream, buff, mtx, todo, reading, sent, rcvd>>

\* send_response of another Clientp returns, or ends the program: the peer is gone,
\* or there is no such client any more.
SendElsewhere(w) ==
  /\ Host(w) \in open /\ Away(w)
  /\ \/ todo' = [todo EXCEPT ![w] = Tail(@)] /\ UNCHANGED open
     \/ open' = open \ {Host(w)} /\ UNCHANGED todo
  /\ UNCHANGED <<stream, reading, buff, mtx, call, history>>

-------------------------------------------------------------------------------
(* recv_request and recv_and_decode.                                          *)

\* A reader reads only when it has sent all it had to.
AtRecv(d) == /\ Host(Reader(d)) \in open
             /\ todo[Reader(d)] = <<>>

\* recv takes what is there, up to ten bytes.
Header(d) == SubSeq(stream[d], 1, IF Len(stream[d]) < 2 THEN 1 ELSE 2)

\* What stoi makes of the cells h: the first half of a header is all zeros, the
\* second has the size, a body begins with a letter.  A second half with more
\* digits after it gives a size no message has.
StoI(h) == IF h[1].part = 3 THEN "throws"
           ELSE IF h[1].part = 2 THEN IF Len(h) = 2 /\ h[2].part # 3 THEN "huge" ELSE "body"
           ELSE IF Len(h) = 2 /\ h[2].part = 2 THEN "body" ELSE "empty"

\* The server gives up on a short header, the client takes the digits it got.
Parsed(d) == IF d = "up" /\ Len(Header(d)) = 1 THEN "short" ELSE StoI(Header(d))

\* The reader of d goes on to send ans, in answer to m.
Load(d, m, ans) ==
  /\ rcvd' = [rcvd EXCEPT ![d] = Append(@, m)]
  /\ todo' = [todo EXCEPT ![Reader(d)] = ans]
  /\ reading' = [reading EXCEPT ![d] = "header"]

\* The header; a message without a body is loaded at once, a short header loads
\* nothing, and either way the reader answers with ans.
RecvHeader(d, ans) ==
  LET p == Parsed(d) IN
  /\ AtRecv(d) /\ reading[d] = "header" /\ stream[d] # <<>>
  /\ stream' = [stream EXCEPT ![d] = SubSeq(@, Len(Header(d)) + 1, Len(@))]
  /\ Blame(d, IF Len(Header(d)) = 2 THEN {} ELSE {"split"})
  /\ open' = IF p = "throws" THEN open \ {Host(Reader(d))} ELSE open
  /\ CASE p = "empty" -> Load(d, "junk", ans)
       [] p = "short" -> /\ todo' = [todo EXCEPT ![Reader(d)] = ans]
                         /\ UNCHANGED <<rcvd, reading>>
       [] p \in {"body", "huge"} ->
                         /\ reading' = [reading EXCEPT ![d] = p]
                         /\ UNCHANGED <<rcvd, todo>>
       [] OTHER       -> UNCHANGED <<rcvd, todo, reading>>
  /\ UNCHANGED <<buff, mtx, call, sent>>

\* The message a body cell is read as.
Body(cell) == IF cell.part = 3 THEN cell.msg ELSE "junk"

RecvBody(d, ans) ==
  /\ AtRecv(d) /\ reading[d] = "body" /\ stream[d] # <<>>
  /\ stream' = [stream EXCEPT ![d] = Tail(@)]
  /\ Load(d, Body(Head(stream[d])), ans)
  /\ UNCHANGED <<open, buff, mtx, call, sent, fault>>

\* A reader that waits for a size no message has takes all that comes.
Swallow(d) ==
  /\ AtRecv(d) /\ reading[d] = "huge" /\ stream[d] # <<>>
  /\ stream' = [stream EXCEPT ![d] = <<>>]
  /\ UNCHANGED <<open, reading, sending, history>>

\* The other end is gone: recv returns 0 once all is read, and the reader's
\* program is done with the connection.
RecvEnd(d) ==
  /\ AtRecv(d) /\ stream[d] = <<>> /\ open = {Host(Reader(d))}
  /\ open' = {}
  /\ UNCHANGED <<stream, reading, sending, history>>

\* A send to an end that is gone: the signal ends the sender's program.
SendEnd(w) ==
  /\ ~Idle(w) /\ open = {Host(w)}
  /\ open' = {}
  /\ UNCHANGED <<stream, reading, sending, history>>
===============================================================================
