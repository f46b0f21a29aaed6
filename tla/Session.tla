-------------------------------- MODULE Session --------------------------------
(* A client of tcpsocket and the server's end of its connection: the threads  *)
(* of client.cpp (thread_sender on the keyboard, main on the socket), the     *)
(* client's own thread in the server, which reads its requests, answers them  *)
(* and relays to other clients, and the threads of those, which relay to it.  *)
(* What requests do to the server's state is in ChatServer; here they are the *)
(* messages they make the thread send.                                        *)
EXTENDS Framing, SequencesExt

CONSTANTS
  Lines,      \* the lines that may be typed: a letter, "blank" or "empty"
  Letters,    \* what the uninitialised `type` of Connection may hold
  Relayed,    \* what other clients may send to this one
  Stale,      \* what the uninitialised `type` of processing may hold
  MaxTyped,   \* bound: the lines that are typed
  MaxRelayed  \* bound: the messages each of the other threads relays

VARIABLES
  type,     \* Connection::type, the letter read last
  typed,    \* how many lines have been typed
  relayed   \* how many messages a thread has relayed

vars == <<frameVars, type, typed, relayed>>

\* change_nickname and the messages to one and to all send whatever was typed.
Text(k) == {<<k>>}

\* send_file_to_one needs a file that is there, play_game a number from 1 to 9.
FileRequest == {<<>>, <<"F">>}
PlayRequest == {<<>>, <<"P">>}

\* The requests encoding sends for a letter; c clears the screen, x is any other.
Requests == [n |-> Text("N"), m |-> Text("M"), w |-> Text("W"), f |-> FileRequest,
             p |-> PlayRequest, l |-> {<<"L">>}, v |-> {<<"V">>}, b |-> {<<"B">>},
             q |-> {<<"Q">>}, c |-> {<<>>}, x |-> {<<>>}]

\* A message to one client, which may be this one, and to some, which it may be among.
Then(A, B) == {a \o b : a \in A, b \in B}
Others     == {<<>>, <<Elsewhere>>}
One(m)     == {<<m>>, <<Elsewhere>>}
Some(m)    == Then(Others, Then({<<>>, <<m>>}, Others))

\* send_board_state: both players and the viewers; between two sends they may change.
Boards == Then(One("V"), Then(One("V"), Some("V")))

\* What a handler sends to the client itself, notifications, boards, lists and what it
\* relays, and, in between, to others: its thread comes back when all that is sent.
Replies == [N |-> {<<"N">>}, M |-> {<<"N">>} \cup One("M"), F |-> {<<"N">>} \cup One("F"),
            R |-> One("R"), W |-> Then(Others, Then({<<"W">>}, Others)),
            L |-> {<<"L">>}, C |-> {<<>>},
            B |-> {<<"N">>} \cup Then(One("N"), Then(Boards, One("N"))),
            P |-> {<<"N">>} \cup Then(Boards, One("N"))
                  \cup Then(Boards, Then(One("N"), Then(One("N"), Some("N")))),
            V |-> {<<"N">>, <<"N", "V">>},
            Q |-> {<<>>}, junk |-> {<<>>}, none |-> {<<>>}]

ASSUME SessionAssumption ==
  /\ Lines \subseteq DOMAIN Requests \cup {"blank", "empty"}
  /\ Letters \subseteq DOMAIN Requests /\ Letters # {}
  /\ Relayed \subseteq Messages
  /\ Stale \subseteq DOMAIN Replies /\ Stale # {}
  /\ Messages = DOMAIN Replies \ {"junk", "none"}
  /\ {MaxTyped, MaxRelayed} \subseteq Nat

Init ==
  /\ FrameInit
  /\ type \in Letters
  /\ typed = 0
  /\ relayed = [p \in Peers |-> 0]

-------------------------------------------------------------------------------
(* The client.                                                                *)

\* The letter encoding works with: a line of blanks leaves the one before.
TypeOf(l) == IF l \in {"blank", "empty"} THEN type ELSE l

\* thread_sender and encoding: a line is typed and encoded.
Type(l) ==
  /\ "client" \in open /\ typed < MaxTyped
  /\ todo["keys"] = <<>>
  /\ \E rs \in IF l = "empty" THEN {<<>>} ELSE Requests[TypeOf(l)] :
       todo' = [todo EXCEPT !["keys"] = rs]
  /\ type' = TypeOf(l)
  /\ typed' = typed + 1
  /\ UNCHANGED <<open, stream, buff, mtx, call, reading, history, relayed>>

\* read_file_one answers with the hash of the file; the other messages are printed.
HashReply   == <<"R">>
Decoding(m) == IF m = "F" THEN HashReply ELSE <<>>

Confirmation == <<"C">>

\* Mutant of Confirmed: decoding comes before the confirmation.
ConfirmedMutant(m) == Decoding(m) \o Confirmation

\* A message is confirmed, then decoded.
Confirmed(m) == Confirmation \o Decoding(m)

\* recv_and_decode; the type of an empty message is whatever the stack holds.
ClientRecv ==
  /\ stream["down"] # <<>>
  /\ \/ Parsed("down") = "empty" /\ \E m \in {"junk", "F"} : RecvHeader("down", Confirmed(m))
     \/ Parsed("down") # "empty" /\ RecvHeader("down", <<>>)
     \/ RecvBody("down", Confirmed(Body(Head(stream["down"]))))
  /\ UNCHANGED <<type, typed, relayed>>

-------------------------------------------------------------------------------
(* The server.                                                                *)

\* Another client's thread relays a message.
Relay(p, m) ==
  /\ "server" \in open /\ relayed[p] < MaxRelayed
  /\ todo[p] = <<>>
  /\ todo' = [todo EXCEPT ![p] = <<m>>]
  /\ relayed' = [relayed EXCEPT ![p] = @ + 1]
  /\ UNCHANGED <<open, stream, buff, mtx, call, reading, history, type, typed>>

\* thread_reader on a loaded request: Q closes the connection, the others answer.
ServerRecv ==
  /\ stream["up"] # <<>>
  /\ \/ \E s \in Stale : \E ans \in Replies[s] :
          Parsed("up") \in {"short", "empty"} /\ RecvHeader("up", ans)
     \/ Parsed("up") \notin {"short", "empty"} /\ RecvHeader("up", <<>>)
     \/ /\ Body(Head(stream["up"])) # "Q"
        /\ \E ans \in Replies[Body(Head(stream["up"]))] : RecvBody("up", ans)
  /\ UNCHANGED <<type, typed, relayed>>

Quit ==
  /\ AtRecv("up") /\ reading["up"] = "body" /\ stream["up"] # <<>>
  /\ Body(Head(stream["up"])) = "Q"
  /\ stream' = [stream EXCEPT !["up"] = Tail(@)]
  /\ Load("up", "Q", <<>>)
  /\ open' = open \ {"server"}
  /\ UNCHANGED <<buff, mtx, call, sent, fault, type, typed, relayed>>

-------------------------------------------------------------------------------
Sends(w) == /\ Fill(w) \/ \E k \in 1..FrameLen : Copy(w, k)
            /\ UNCHANGED <<type, typed, relayed>>

\* What the network, the end of a program and the connections of others do to this
\* one: a send to another client may never return, for that client does not read, or
\* its descriptor is closed.
Disturb == /\ \/ \E w \in Writers : ShortCount(w) \/ SendEnd(w)
              \/ \E d \in Dirs : Swallow(d) \/ RecvEnd(d)
             \/ SendElsewhere("own")
           /\ UNCHANGED <<type, typed, relayed>>

Next == \/ \E l \in Lines : Type(l)
        \/ \E p \in Peers, m \in Relayed : Relay(p, m)
        \/ \E w \in Writers : Sends(w)
        \/ ClientRecv \/ ServerRecv \/ Quit \/ Disturb

Fairness == /\ \A w \in Writers : WF_vars(Sends(w))
            /\ WF_vars(ClientRecv) /\ WF_vars(ServerRecv \/ Quit)

Spec == Init /\ [][Next]_vars /\ Fairness
-------------------------------------------------------------------------------
(* Properties.                                                                *)

\* Every variable holds a value of the kind the code gives it.
SessionTypeOK ==
  /\ open \subseteq Ends
  /\ stream \in [Dirs -> Seq(Cells)] /\ \A d \in Dirs : Len(stream[d]) <= Room
  /\ buff \in [Dirs -> Messages \cup {"junk"}]
  /\ mtx \in {"keys", "recv", NoThread}
  /\ todo \in [Writers -> Seq(Entries)] /\ \A w \in Writers : todo[w] \in Seq(Words(w))
  /\ call \in [Writers -> Calls]
  /\ reading \in [Dirs -> {"header", "body", "huge"}]
  /\ {sent, rcvd} \subseteq [Dirs -> Seq(Messages \cup {"junk"})]
  /\ fault \in [Dirs -> SUBSET {"split", "skewed", "raced"}]
  /\ type \in DOMAIN Requests /\ typed \in 0..MaxTyped
  /\ relayed \in [Peers -> 0..MaxRelayed]

\* The loop of send_request and send_response restarts at the size of the last
\* piece, not at the total sent: for all that it never reads beyond the frame,
\* nor sends more than is left of it.
WithinFrame ==
  \A w \in Writers : call[w].from + call[w].rest <= FrameLen /\ call[w].done <= call[w].rest

\* Upwards two threads of the client share send_buff under mtx: whatever their
\* order, and also when one send returns a short count, the server gets every
\* message whole, once, and in the order of sending, unless a frame takes a third call of
\* send or its header arrives in two pieces.
Up == INSTANCE Channel WITH sent <- sent["up"], rcvd <- rcvd["up"]

UpIsChannel ==
  /\ Up!ChannelInit
  /\ [][fault'["up"] # {} \/ Up!ChannelNext]_<<sent["up"], rcvd["up"]>>

\* Downwards the buffer is not locked: the same holds unless, besides, one of the
\* server's threads refills the buffer while another is sending from it.
Down == INSTANCE Channel WITH sent <- sent["down"], rcvd <- rcvd["down"]

DownIsChannel ==
  /\ Down!ChannelInit
  /\ [][fault'["down"] # {} \/ Down!ChannelNext]_<<sent["down"], rcvd["down"]>>

\* The answers among the messages s, and those the client owes to the messages s:
\* one confirmation for each, and the hash of a file right after the file's own.
Answers(s) == FlattenSeq([i \in 1..Len(s) |-> IF s[i] \in {"C", "R"} THEN <<s[i]>> ELSE <<>>])
Owed(s)    == FlattenSeq([i \in 1..Len(s) |-> IF s[i] = "F" THEN <<"C", "R">> ELSE <<"C">>])

\* End to end: as long as neither direction has failed, the answers the server
\* has got are those owed to what it has sent, in that order.
AnswersInOrder ==
  (\A d \in Dirs : fault[d] = {}) => IsPrefix(Answers(rcvd["up"]), Owed(sent["down"]))

\* Both directions are full: the client's receiver waits for room, or for mtx, which
\* the keyboard thread holds while it waits for room; the server's thread,
\* which would make that room, waits for room itself.
Full(d) == Len(stream[d]) = Room
Jam == /\ \A d \in Dirs : Full(d)
       /\ mtx # NoThread /\ todo["recv"] # <<>> /\ ~Idle("own")

\* A thread can go on if it may begin a frame, or is in a call of send and there is
\* room; a reader if it has nothing to send and there is something to read.
MaySend(w) == IF Idle(w) THEN Here(w) /\ MayFill(w)
                         ELSE call[w].done < call[w].rest /\ ~Full(Way(w))
MayRead(d) == todo[Reader(d)] = <<>> /\ stream[d] # <<>>

Delivered == (\A w \in Writers : todo[w] = <<>>) /\ (\A d \in Dirs : stream[d] = <<>>)

\* Nobody reads while it sends, and the client's threads share a lock: whatever the
\* connection has been through, the only circle in which its threads can wait for one another
\* is that one.  Otherwise, if none can go on, the server's thread is held up in a send
\* to another client, or all that was to be sent has been read.
OnlyJamStops ==
  open = Ends /\ (\A w \in Writers : ~MaySend(w)) /\ (\A d \in Dirs : ~MayRead(d))
    => Jam \/ Away("own") \/ Delivered

\* Every message to the client is answered in the end, unless the connection
\* ends, a direction has failed, both directions are full of what neither
\* end reads, or the server's thread is held up in a send to another client: the
\* threads have no other way to wait for ever.
\* Only so many messages are ever sent (MaxTyped, MaxRelayed), so that it is enough
\* to say that again and again none is left to answer.
Confirmations == Len(SelectSeq(rcvd["up"], LAMBDA m : m = "C"))

Answered ==
  []<>(\/ Confirmations >= Len(sent["down"]) \/ Jam \/ Away("own")
       \/ open # Ends \/ \E d \in Dirs : fault[d] # {})
===============================================================================
