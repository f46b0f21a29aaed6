----------------------------- MODULE SessionProofs -----------------------------
(* Proofs about Session and the frames it is built on (Framing), for any      *)
(* number of other clients, any capacity of the network, and any bounds: the  *)
(* variables are typed; no call of send reads beyond the frame; each           *)
(* direction is a Channel until one of the faults of Framing happens to it; and *)
(* until then the answers of the client come in the order of what they answer. *)
EXTENDS Session, SequenceTheorems, WellFoundedInduction, TLAPS

(* What holds whatever happens to the directions.                             *)

FrameTypeOK ==
  /\ open \subseteq Ends
  /\ stream \in [Dirs -> Seq(Cells)] /\ \A d \in Dirs : Len(stream[d]) <= Room
  /\ buff \in [Dirs -> Messages \cup {"junk"}]
  /\ mtx \in {"keys", "recv", NoThread}
  /\ todo \in [Writers -> Seq(Entries)] /\ \A w \in Writers : todo[w] \in Seq(Words(w))
  /\ call \in [Writers -> Calls]
  /\ reading \in [Dirs -> {"header", "body", "huge"}]
  /\ sent \in [Dirs -> Seq(Messages \cup {"junk"})]
  /\ rcvd \in [Dirs -> Seq(Messages \cup {"junk"})]
  /\ fault \in [Dirs -> SUBSET {"split", "skewed", "raced"}]

\* A thread inside send has the message it sends at the head of its list.
Busy == \A w \in Writers : ~Idle(w) => Here(w)

\* A thread of the client inside send holds the mutex.
Locked == \A w \in Writers : ~Idle(w) /\ Way(w) = "up" => mtx = w

FrameInv == FrameTypeOK /\ WithinFrame /\ Busy /\ Locked

(* What holds of a direction to which nothing has happened.  The cells of its *)
(* frames are numbered from 1 in the order of sending; Consumed is how many   *)
(* have been read, and the part-th cell of the k-th frame is Cell(k, part).   *)

Consumed(d) == FrameLen * Len(rcvd[d]) + (IF reading[d] = "body" THEN 2 ELSE 0)

Cell(k, part) == FrameLen * (k - 1) + part

Sender(d) == {w \in Writers : Way(w) = d /\ ~Idle(w)}

InOrder(d) ==
  \A j \in 1..Len(stream[d]), k \in 1..Len(sent[d]), part \in 1..FrameLen :
    Cell(k, part) = Consumed(d) + j => stream[d][j] = [msg |-> sent[d][k], part |-> part]

\* At most one thread is sending; it sends the frame begun last, from the cell
\* after the last in the stream.
Whole(d) ==
  /\ \A v, w \in Sender(d) : v = w
  /\ Sender(d) = {} => Consumed(d) + Len(stream[d]) = FrameLen * Len(sent[d])
  /\ \A w \in Sender(d) :
       /\ sent[d] # <<>>
       /\ buff[d] = sent[d][Len(sent[d])] /\ Head(todo[w]) = buff[d]
       /\ call[w].from + call[w].rest = FrameLen
       /\ Consumed(d) + Len(stream[d]) = Cell(Len(sent[d]), call[w].from + call[w].done)

Intact(d) == reading[d] # "huge" /\ InOrder(d) /\ Whole(d)

ChannelInv == \A d \in Dirs : fault[d] = {} => Intact(d)

-------------------------------------------------------------------------------
(* What is sent are messages.                                                 *)

LEMMA Letter == {"N", "M", "F", "R", "W", "L", "C", "B", "P", "V", "Q"} \subseteq Messages
  BY SessionAssumption DEF Replies

LEMMA Brief ==
  /\ <<>> \in Seq(Messages)
  /\ \A m \in {"N", "M", "F", "R", "W", "L", "C", "B", "P", "V", "Q"} : <<m>> \in Seq(Messages)
  BY Letter

LEMMA Wording ==
  ASSUME NEW w
  PROVE  /\ \A s \in Seq(Messages) : s \in Seq(Words(w)) /\ s \in Seq(Entries)
         /\ \A s \in Seq(Words(w)) : s \in Seq(Entries)
         /\ w # "own" => \A s \in Seq(Words(w)) : s \in Seq(Messages)
  BY DEF Words, Entries

LEMMA ThenType ==
  ASSUME NEW A \in SUBSET Seq(Entries), NEW B \in SUBSET Seq(Entries)
  PROVE  Then(A, B) \in SUBSET Seq(Entries)
  <1>1. ASSUME NEW x \in Then(A, B) PROVE x \in Seq(Entries)
    <2>1. PICK a \in A, b \in B : x = a \o b
      BY DEF Then
    <2>2. a \in Seq(Entries) /\ b \in Seq(Entries)
      OBVIOUS
    <2>3. a \o b \in Seq(Entries)
      BY <2>2, ConcatProperties
    <2>4. QED
      BY <2>1, <2>3
  <1>2. QED
    BY <1>1

LEMMA ReplyType == \A m \in DOMAIN Replies : Replies[m] \subseteq Seq(Entries)
  <1> DEFINE Sets == SUBSET Seq(Entries)
             Known == {"N", "M", "F", "R", "W", "L", "C", "B", "P", "V", "Q"}
  <1>1. /\ {<<>>} \in Sets /\ Others \in Sets
        /\ \A m \in Known : {<<m>>} \in Sets /\ {<<>>, <<m>>} \in Sets /\ One(m) \in Sets
    BY Letter DEF Entries, Others, One
  <1>2. {<<"N">>, <<"N", "V">>} \in Sets
    BY Letter DEF Entries
  <1>3. \A A, B \in Sets : Then(A, B) \in Sets /\ A \cup B \in Sets
    BY ThenType
  <1>4. \A m \in Known : Some(m) \in Sets
    <2> HIDE DEF Sets
    <2>1. \A m \in Known : Then({<<>>, <<m>>}, Others) \in Sets
      BY <1>1, <1>3
    <2>2. QED
      BY <1>1, <1>3, <2>1 DEF Some
  <1> HIDE DEF Sets
  <1>5. Boards \in Sets
    <2>1. Then(One("V"), Some("V")) \in Sets
      BY <1>1, <1>3, <1>4
    <2>2. QED
      BY <1>1, <1>3, <2>1 DEF Boards
  <1>6. Replies["N"] \in Sets /\ Replies["M"] \in Sets /\ Replies["F"] \in Sets
    BY <1>1, <1>3 DEF Replies
  <1>7. Replies["R"] \in Sets /\ Replies["L"] \in Sets /\ Replies["C"] \in Sets
    BY <1>1 DEF Replies
  <1>8. Replies["Q"] \in Sets /\ Replies["junk"] \in Sets /\ Replies["none"] \in Sets
    BY <1>1 DEF Replies
  <1>9. Replies["W"] \in Sets /\ Replies["V"] \in Sets
    <2>1. Then({<<"W">>}, Others) \in Sets
      BY <1>1, <1>3
    <2>2. QED
      BY <1>1, <1>2, <1>3, <2>1 DEF Replies
  <1>10. Replies["B"] \in Sets
    <2>1. Then(Boards, One("N")) \in Sets
      BY <1>1, <1>3, <1>5
    <2>2. Then(One("N"), Then(Boards, One("N"))) \in Sets
      BY <1>1, <1>3, <2>1
    <2>3. QED
      BY <1>1, <1>3, <2>2 DEF Replies
  <1>11. Replies["P"] \in Sets
    <2>1. Then(Boards, One("N")) \in Sets /\ Then(One("N"), Some("N")) \in Sets
      BY <1>1, <1>3, <1>4, <1>5
    <2>2. Then(One("N"), Then(One("N"), Some("N"))) \in Sets
      BY <1>1, <1>3, <2>1
    <2>3. Then(Boards, Then(One("N"), Then(One("N"), Some("N")))) \in Sets
      BY <1>3, <1>5, <2>2
    <2>4. QED
      BY <1>1, <1>3, <2>1, <2>3 DEF Replies
  <1>12. DOMAIN Replies = Known \cup {"junk", "none"}
    BY DEF Replies
  <1>13. \A m \in DOMAIN Replies : Replies[m] \in Sets
    BY <1>6, <1>7, <1>8, <1>9, <1>10, <1>11, <1>12
  <1>14. QED
    BY <1>13 DEF Sets

LEMMA KnownMessages == Messages \cup {"junk"} \subseteq DOMAIN Replies
  BY SessionAssumption DEF Replies

LEMMA ConfirmedType == \A m : Confirmed(m) \in Seq(Messages)
  BY Letter DEF Confirmed, Decoding, HashReply, Confirmation

LEMMA RequestsType == \A k \in DOMAIN Requests : Requests[k] \subseteq Seq(Messages)
  <1>1. Requests["n"] \subseteq Seq(Messages) /\ Requests["m"] \subseteq Seq(Messages)
    BY Brief DEF Requests, Text
  <1>2. Requests["w"] \subseteq Seq(Messages) /\ Requests["f"] \subseteq Seq(Messages)
    BY Brief DEF Requests, Text, FileRequest
  <1>3. Requests["p"] \subseteq Seq(Messages) /\ Requests["l"] \subseteq Seq(Messages)
    BY Brief DEF Requests, PlayRequest
  <1>4. Requests["v"] \subseteq Seq(Messages) /\ Requests["b"] \subseteq Seq(Messages)
    BY Brief DEF Requests
  <1>5. Requests["q"] \subseteq Seq(Messages) /\ Requests["c"] \subseteq Seq(Messages)
    BY Brief DEF Requests
  <1>6. Requests["x"] \subseteq Seq(Messages)
    BY Brief DEF Requests
  <1>7. DOMAIN Requests = {"n", "m", "w", "f", "p", "l", "v", "b", "q", "c", "x"}
    BY DEF Requests
  <1>8. QED
    BY <1>1, <1>2, <1>3, <1>4, <1>5, <1>6, <1>7

LEMMA BodyType == ASSUME NEW x \in Cells PROVE Body(x) \in Messages \cup {"junk"}
  BY DEF Body, Cells

-------------------------------------------------------------------------------
(* The steps of Session, as seen from the frames.                             *)

\* A thread that owes nothing takes on the messages ms.
Owe(w, ms) ==
  /\ todo[w] = <<>> /\ todo' = [todo EXCEPT ![w] = ms]
  /\ UNCHANGED <<open, stream, buff, mtx, call, reading, history>>

\* A send to another client is over.
Skip(w) ==
  /\ Away(w) /\ todo' = [todo EXCEPT ![w] = Tail(@)]
  /\ UNCHANGED <<open, stream, buff, mtx, call, reading, history>>

\* RecvBody, or the last body a client that quits is read.
TakeBody(d, ans) ==
  /\ todo[Reader(d)] = <<>> /\ reading[d] = "body" /\ stream[d] # <<>>
  /\ stream' = [stream EXCEPT ![d] = Tail(@)]
  /\ Load(d, Body(Head(stream[d])), ans)
  /\ open' \subseteq open
  /\ UNCHANGED <<buff, mtx, call, sent, fault>>

\* Somebody gives up.
Part == open' \subseteq open /\ UNCHANGED <<stream, reading, sending, history>>

FrameStep ==
  \/ \E w \in Writers : Skip(w) \/ \E ms \in Seq(Words(w)) : Owe(w, ms)
  \/ \E w \in Writers : Fill(w) \/ ShortCount(w) \/ \E k \in 1..FrameLen : Copy(w, k)
  \/ \E d \in Dirs : \E ans \in Seq(Words(Reader(d))) : RecvHeader(d, ans) \/ TakeBody(d, ans)
  \/ \E d \in Dirs : Swallow(d)
  \/ Part

\* What is read makes the client's receiver send messages, or the server's thread send
\* messages and go elsewhere.
LEMMA WhatIsRead ==
  /\ \A ans \in Seq(Messages) :
       /\ RecvHeader("down", ans) => FrameStep
       /\ TakeBody("down", ans) => FrameStep
  /\ \A ans \in Seq(Entries) :
       /\ RecvHeader("up", ans) => FrameStep
       /\ TakeBody("up", ans) => FrameStep
  <1>1. /\ Words(Reader("down")) = Messages /\ Words(Reader("up")) = Entries
        /\ "up" \in Dirs /\ "down" \in Dirs
    BY DEF Words, Reader, Dirs
  <1>2. QED
    BY <1>1 DEF FrameStep

LEMMA HeadType ==
  ASSUME FrameTypeOK, NEW d \in Dirs, stream[d] # <<>>
  PROVE  /\ Head(stream[d]) \in Cells
         /\ Body(Head(stream[d])) \in Messages \cup {"junk"}
  <1>1. Head(stream[d]) \in Cells
    BY HeadTailProperties DEF FrameTypeOK
  <1>2. QED
    BY <1>1, BodyType

LEMMA ClientSteps == ASSUME FrameTypeOK, ClientRecv PROVE FrameStep
  <1>1. CASE \E m : RecvHeader("down", Confirmed(m))
    <2>1. PICK m : RecvHeader("down", Confirmed(m))
      BY <1>1
    <2>2. Confirmed(m) \in Seq(Messages)
      BY ConfirmedType
    <2>3. QED
      BY <2>1, <2>2, WhatIsRead
  <1>2. CASE RecvHeader("down", <<>>)
    BY <1>2, EmptySeq, WhatIsRead
  <1>3. CASE RecvBody("down", Confirmed(Body(Head(stream["down"]))))
    <2>1. TakeBody("down", Confirmed(Body(Head(stream["down"]))))
      BY <1>3 DEF RecvBody, AtRecv, TakeBody
    <2>2. Confirmed(Body(Head(stream["down"]))) \in Seq(Messages)
      BY ConfirmedType
    <2>3. QED
      BY <2>1, <2>2, WhatIsRead
  <1>4. QED
    BY <1>1, <1>2, <1>3 DEF ClientRecv

LEMMA ServerSteps == ASSUME FrameTypeOK, ServerRecv PROVE FrameStep
  <1>1. CASE \E s \in Stale : \E ans \in Replies[s] : RecvHeader("up", ans)
    <2>1. PICK s \in Stale : \E ans \in Replies[s] : RecvHeader("up", ans)
      BY <1>1
    <2>2. Replies[s] \subseteq Seq(Entries)
      BY SessionAssumption, ReplyType
    <2>3. QED
      BY <2>1, <2>2, WhatIsRead
  <1>2. CASE RecvHeader("up", <<>>)
    BY <1>2, EmptySeq, WhatIsRead
  <1>3. CASE /\ stream["up"] # <<>>
             /\ \E ans \in Replies[Body(Head(stream["up"]))] : RecvBody("up", ans)
    <2>1. Replies[Body(Head(stream["up"]))] \subseteq Seq(Entries)
      BY <1>3, HeadType, KnownMessages, ReplyType DEF Dirs
    <2>2. PICK ans \in Seq(Entries) : RecvBody("up", ans)
      BY <1>3, <2>1
    <2>3. TakeBody("up", ans)
      BY <2>2 DEF RecvBody, AtRecv, TakeBody
    <2>4. QED
      BY <2>3, WhatIsRead
  <1>4. QED
    BY <1>1, <1>2, <1>3 DEF ServerRecv

LEMMA QuitSteps == ASSUME FrameTypeOK, Quit PROVE FrameStep
  <1>1. TakeBody("up", <<>>)
    BY DEF Quit, AtRecv, TakeBody
  <1>2. QED
    BY <1>1, EmptySeq, WhatIsRead

LEMMA Steps == ASSUME SessionTypeOK, FrameTypeOK, [Next]_vars PROVE FrameStep
  <1>1. ASSUME NEW l \in Lines, Type(l) PROVE FrameStep
    <2>1. "keys" \in Writers
      BY DEF Writers
    <2>2. PICK rs \in IF l = "empty" THEN {<<>>} ELSE Requests[TypeOf(l)] :
            todo' = [todo EXCEPT !["keys"] = rs]
      BY <1>1 DEF Type
    <2>3. TypeOf(l) \in DOMAIN Requests
      BY SessionAssumption DEF TypeOf, SessionTypeOK
    <2>4. rs \in Seq(Words("keys"))
      <3>1. Requests[TypeOf(l)] \subseteq Seq(Messages)
        BY <2>3, RequestsType
      <3>2. QED
        BY <2>2, <3>1, EmptySeq, Wording
    <2>5. Owe("keys", rs)
      BY <1>1, <2>2 DEF Type, Owe
    <2>6. QED
      BY <2>1, <2>4, <2>5 DEF FrameStep
  <1>2. ASSUME NEW p \in Peers, NEW m \in Relayed, Relay(p, m) PROVE FrameStep
    <2>1. p \in Writers
      BY DEF Writers
    <2>2. <<m>> \in Seq(Words(p))
      <3>1. m \in Messages
        BY SessionAssumption
      <3>2. <<m>> \in Seq(Messages)
        BY <3>1
      <3>3. QED
        BY <3>2, Wording
    <2>3. Owe(p, <<m>>)
      BY <1>2 DEF Relay, Owe
    <2>4. QED
      BY <2>1, <2>2, <2>3 DEF FrameStep
  <1>3. ASSUME NEW w \in Writers, Sends(w) PROVE FrameStep
    BY <1>3 DEF Sends, FrameStep
  <1>4. CASE Disturb
    <2>1. CASE SendElsewhere("own")
      <3>1. "own" \in Writers
        BY DEF Writers
      <3>2. Skip("own") \/ Part
        BY <2>1 DEF SendElsewhere, Skip, Part, sending
      <3>3. QED
        BY <3>1, <3>2 DEF FrameStep
    <2>2. QED
      BY <1>4, <2>1 DEF Disturb, FrameStep, SendEnd, RecvEnd, Part
  <1>5. CASE UNCHANGED vars
    BY <1>5 DEF vars, frameVars, FrameStep, Part, sending, history
  <1>6. QED
    BY <1>1, <1>2, <1>3, <1>4, <1>5, ClientSteps, ServerSteps, QuitSteps DEF Next

-------------------------------------------------------------------------------
(* FrameInv: one lemma per way of a step.                                     *)

LEMMA FrameInvInit == FrameInit => FrameInv
  <1> SUFFICES ASSUME FrameInit PROVE FrameInv
    OBVIOUS
  <1>1. \A w \in Writers : Idle(w)
    BY DEF FrameInit, Idle, NoCall
  <1>2. \A d \in Dirs : stream[d] = <<>> /\ Len(stream[d]) = 0
    BY DEF FrameInit
  <1>3. stream \in [Dirs -> Seq(Cells)] /\ \A d \in Dirs : Len(stream[d]) <= Room
    BY <1>2, FramingAssumption, EmptySeq DEF FrameInit
  <1>4. todo \in [Writers -> Seq(Entries)] /\ \A w \in Writers : todo[w] \in Seq(Words(w))
    BY EmptySeq DEF FrameInit
  <1>5. call \in [Writers -> Calls]
    BY DEF FrameInit, Calls, NoCall, FrameLen
  <1>6. FrameTypeOK
    BY <1>3, <1>4, <1>5, EmptySeq DEF FrameInit, FrameTypeOK
  <1>7. WithinFrame
    BY DEF FrameInit, WithinFrame, NoCall, FrameLen
  <1>8. QED
    BY <1>1, <1>6, <1>7 DEF FrameInv, Busy, Locked

\* A call of send, field by field.
LEMMA CallFields ==
  ASSUME FrameInv, NEW w \in Writers
  PROVE  /\ call[w].from \in Nat /\ call[w].rest \in Nat /\ call[w].done \in Nat
         /\ call[w].from + call[w].rest <= 3 /\ call[w].done <= call[w].rest
  <1>1. call[w] \in Calls
    BY DEF FrameInv, FrameTypeOK
  <1>2. call[w].from \in 0..3 /\ call[w].rest \in 0..3 /\ call[w].done \in 0..3
    BY <1>1 DEF Calls, FrameLen
  <1>3. call[w].from + call[w].rest <= 3 /\ call[w].done <= call[w].rest
    BY DEF FrameInv, WithinFrame, FrameLen
  <1>4. QED
    BY <1>2, <1>3

\* The calls of send that stay within the frame, and a step from one to another.
GoodCalls == {c \in Calls : c.from + c.rest <= 3 /\ c.done <= c.rest}

LEMMA CallIsGood ==
  ASSUME NEW f \in Nat, NEW r \in Nat, NEW n \in Nat, f + r <= 3, n <= r
  PROVE  [from |-> f, rest |-> r, done |-> n] \in GoodCalls
  BY DEF GoodCalls, Calls, FrameLen

LEMMA CallStep ==
  ASSUME FrameInv, NEW w \in Writers, NEW c \in GoodCalls, call' = [call EXCEPT ![w] = c]
  PROVE  /\ call' \in [Writers -> Calls] /\ WithinFrame'
         /\ \A v \in Writers : call'[v] = IF v = w THEN c ELSE call[v]
  <1>1. c \in Calls /\ c.from + c.rest <= 3 /\ c.done <= c.rest
    BY DEF GoodCalls
  <1>2. call' \in [Writers -> Calls]
    BY <1>1 DEF FrameInv, FrameTypeOK
  <1>3. \A v \in Writers : call'[v] = IF v = w THEN c ELSE call[v]
    BY DEF FrameInv, FrameTypeOK
  <1>4. QED
    BY <1>1, <1>2, <1>3 DEF FrameInv, WithinFrame, FrameLen

\* What a thread still has to send, before and after a step.
LEMMA HereIs ==
  ASSUME FrameTypeOK, NEW w \in Writers, Here(w)
  PROVE  todo[w] \in Seq(Entries) /\ todo[w] # <<>> /\ Head(todo[w]) \in Messages
  <1>1. todo[w] \in Seq(Entries) /\ todo[w] # <<>>
    BY DEF FrameTypeOK, Here
  <1>2. Head(todo[w]) \in Entries
    BY <1>1, HeadTailProperties
  <1>3. QED
    BY <1>1, <1>2 DEF Here, Entries

LEMMA TodoStep ==
  ASSUME FrameTypeOK, NEW w \in Writers, NEW ms \in Seq(Words(w)),
         todo' = [todo EXCEPT ![w] = ms]
  PROVE  /\ todo' \in [Writers -> Seq(Entries)] /\ \A v \in Writers : todo'[v] \in Seq(Words(v))
         /\ \A v \in Writers : todo'[v] = IF v = w THEN ms ELSE todo[v]
  <1>1. ms \in Seq(Entries)
    BY Wording
  <1>2. todo \in [Writers -> Seq(Entries)] /\ \A v \in Writers : todo[v] \in Seq(Words(v))
    BY DEF FrameTypeOK
  <1>3. \A v \in Writers : todo'[v] = IF v = w THEN ms ELSE todo[v]
    BY <1>2
  <1>4. QED
    BY <1>1, <1>2, <1>3

LEMMA OweInv ==
  ASSUME FrameInv, NEW w \in Writers, NEW ms \in Seq(Words(w)), Owe(w, ms)
  PROVE  FrameInv'
  <1>1. /\ todo' \in [Writers -> Seq(Entries)] /\ \A v \in Writers : todo'[v] \in Seq(Words(v))
        /\ \A v \in Writers : todo[v] # <<>> => todo'[v] = todo[v]
    BY TodoStep DEF FrameInv, Owe
  <1>2. FrameTypeOK'
    BY <1>1 DEF FrameInv, FrameTypeOK, Owe, history
  <1>3. \A v \in Writers : Here(v) => Here(v)'
    BY <1>1 DEF Here
  <1>4. QED
    BY <1>2, <1>3 DEF FrameInv, Owe, WithinFrame, Busy, Locked, Idle

LEMMA SkipInv ==
  ASSUME FrameInv, NEW w \in Writers, Skip(w)
  PROVE  FrameInv' /\ \A v \in Writers : ~Idle(v) => todo'[v] = todo[v]
  <1>1. todo[w] # <<>> /\ todo[w] \in Seq(Words(w))
    BY DEF FrameInv, FrameTypeOK, Skip, Away
  <1>2. Tail(todo[w]) \in Seq(Words(w))
    BY <1>1, HeadTailProperties
  <1>3. /\ todo' \in [Writers -> Seq(Entries)] /\ \A v \in Writers : todo'[v] \in Seq(Words(v))
        /\ \A v \in Writers : v # w => todo'[v] = todo[v]
    BY <1>2, TodoStep DEF FrameInv, Skip
  <1>4. FrameTypeOK'
    BY <1>3 DEF FrameInv, FrameTypeOK, Skip, history
  <1>5. \A v \in Writers : ~Idle(v) => Here(v) /\ todo'[v] = todo[v]
    BY <1>3 DEF FrameInv, Busy, Skip, Away, Here
  <1>6. \A v \in Writers : ~Idle(v) => Here(v)'
    BY <1>5 DEF Here
  <1>7. QED
    BY <1>4, <1>5, <1>6 DEF FrameInv, Skip, WithinFrame, Busy, Locked, Idle

LEMMA FillInv == ASSUME FrameInv, NEW w \in Writers, Fill(w) PROVE FrameInv'
  <1>1. Way(w) \in Dirs /\ Head(todo[w]) \in Messages
    BY HereIs DEF FrameInv, Fill, Way, Dirs
  <1>2. call' = [call EXCEPT ![w] = [from |-> 0, rest |-> 3, done |-> 0]]
    <2>1. [NoCall EXCEPT !.rest = FrameLen] = [from |-> 0, rest |-> 3, done |-> 0]
      BY DEF NoCall, FrameLen
    <2>2. QED
      BY <2>1 DEF Fill
  <1>3. call' \in [Writers -> Calls] /\ WithinFrame'
    <2>1. [from |-> 0, rest |-> 3, done |-> 0] \in GoodCalls
      BY CallIsGood
    <2>2. QED
      BY <1>2, <2>1, CallStep
  <1>4. sent' \in [Dirs -> Seq(Messages \cup {"junk"})]
    <2>1. Append(sent[Way(w)], Head(todo[w])) \in Seq(Messages \cup {"junk"})
      BY <1>1, AppendProperties DEF FrameInv, FrameTypeOK
    <2>2. QED
      BY <1>1, <2>1 DEF FrameInv, FrameTypeOK, Fill
  <1>5. mtx' \in {"keys", "recv", NoThread}
    BY DEF FrameInv, FrameTypeOK, Fill, Way
  <1>6. fault' \in [Dirs -> SUBSET {"split", "skewed", "raced"}]
    BY <1>1 DEF FrameInv, FrameTypeOK, Fill, Blame
  <1>7. buff' \in [Dirs -> Messages \cup {"junk"}]
    BY <1>1 DEF FrameInv, FrameTypeOK, Fill
  <1>8. FrameTypeOK'
    BY <1>3, <1>4, <1>5, <1>6, <1>7 DEF FrameInv, FrameTypeOK, Fill
  <1>9. \A v \in Writers : v # w => call'[v] = call[v]
    BY <1>2 DEF FrameInv, FrameTypeOK
  <1>10. Busy' /\ Locked'
    <2>1. todo' = todo /\ Here(w)
      BY DEF Fill
    <2>2. Busy'
      BY <1>9, <2>1 DEF FrameInv, Busy, Idle, Here
    <2>3. CASE Way(w) = "up"
      <3>1. mtx' = w /\ mtx = NoThread
        BY <2>3 DEF Fill, MayFill
      <3>2. \A v \in Writers : Way(v) = "up" => Idle(v)
        BY <3>1, FramingAssumption DEF FrameInv, Locked
      <3>3. QED
        BY <1>9, <2>2, <3>1, <3>2 DEF Locked, Idle
    <2>4. CASE Way(w) # "up"
      <3>1. mtx' = mtx
        BY <2>4 DEF Fill
      <3>2. QED
        BY <1>9, <2>2, <2>4, <3>1 DEF FrameInv, Locked, Idle
    <2>5. QED
      BY <2>3, <2>4
  <1>11. QED
    BY <1>3, <1>8, <1>10 DEF FrameInv

LEMMA ShortCountInv == ASSUME FrameInv, NEW w \in Writers, ShortCount(w) PROVE FrameInv'
  <1> DEFINE c == call[w]
  <1>1. /\ call' = [call EXCEPT ![w] = [from |-> c.done, rest |-> c.rest - c.done, done |-> 0]]
        /\ c.done \in 1..(c.rest - 1)
    BY DEF ShortCount, Again
  <1>2. call' \in [Writers -> Calls] /\ WithinFrame' /\ ~Idle(w)
    <2>1. c.rest - c.done \in Nat /\ c.done \in Nat /\ c.done + (c.rest - c.done) <= 3
      BY <1>1, CallFields
    <2>2. ~Idle(w)
      BY <1>1, CallFields DEF Idle
    <2>3. [from |-> c.done, rest |-> c.rest - c.done, done |-> 0] \in GoodCalls
      BY <2>1, CallIsGood
    <2>4. QED
      BY <1>1, <2>2, <2>3, CallStep
  <1>3. Way(w) \in Dirs
    BY DEF Way, Dirs
  <1>4. FrameTypeOK'
    BY <1>2, <1>3 DEF FrameInv, FrameTypeOK, ShortCount, Blame
  <1>5. \A v \in Writers : v # w => call'[v] = call[v]
    BY <1>1 DEF FrameInv, FrameTypeOK
  <1>6. Busy' /\ Locked'
    BY <1>2, <1>5 DEF FrameInv, Busy, Locked, Idle, ShortCount, Here
  <1>7. QED
    BY <1>2, <1>4, <1>6 DEF FrameInv

\* The cells a call of send moves next.
Piece(w, k, m) ==
  [i \in 1..k |-> [msg |-> m, part |-> call[w].from + call[w].done + i]]

LEMMA PieceIs ==
  ASSUME FrameInv, NEW w \in Writers, NEW k \in 1..FrameLen, NEW m \in Messages \cup {"junk"},
         k <= call[w].rest - call[w].done
  PROVE  /\ Piece(w, k, m) \in Seq(Cells) /\ Len(Piece(w, k, m)) = k
         /\ \A i \in 1..k :
              Piece(w, k, m)[i] = [msg |-> m, part |-> call[w].from + call[w].done + i]
  <1>1. \A i \in 1..k : call[w].from + call[w].done + i \in 1..3
    <2>1. /\ call[w].from \in Nat /\ call[w].rest \in Nat /\ call[w].done \in Nat
          /\ call[w].from + call[w].rest <= 3
      BY CallFields
    <2>2. k \in Nat
      BY DEF FrameLen
    <2>3. QED
      BY <2>1, <2>2
  <1>2. \A i \in 1..k : [msg |-> m, part |-> call[w].from + call[w].done + i] \in Cells
    BY <1>1 DEF Cells, FrameLen
  <1>3. k \in Nat
    BY DEF FrameLen
  <1>4. Piece(w, k, m) \in [1..k -> Cells]
    BY <1>2 DEF Piece
  <1>5. Piece(w, k, m) \in Seq(Cells)
    BY <1>3, <1>4, SeqDef
  <1>6. Len(Piece(w, k, m)) = k
    <2>1. DOMAIN Piece(w, k, m) = 1..k
      BY DEF Piece
    <2>2. Len(Piece(w, k, m)) \in Nat /\ DOMAIN Piece(w, k, m) = 1..Len(Piece(w, k, m))
      BY <1>5, LenProperties
    <2>3. QED
      BY <1>3, <2>1, <2>2
  <1>7. \A i \in 1..k :
          Piece(w, k, m)[i] = [msg |-> m, part |-> call[w].from + call[w].done + i]
    BY DEF Piece
  <1>8. QED
    BY <1>5, <1>6, <1>7

LEMMA CopyIs ==
  ASSUME FrameInv, NEW w \in Writers, NEW k \in 1..FrameLen, Copy(w, k)
  PROVE  /\ Way(w) \in Dirs /\ k <= call[w].rest - call[w].done /\ ~Idle(w)
         /\ todo[w] \in Seq(Entries) \ {<<>>} /\ Head(todo[w]) \in Messages
         /\ \E m \in {buff[Way(w)], Head(todo[w])} :
              /\ m \in Messages \cup {"junk"}
              /\ stream' = [stream EXCEPT ![Way(w)] = @ \o Piece(w, k, m)]
         /\ Len(stream[Way(w)]) + k <= Room
         /\ UNCHANGED <<open, buff, reading, history>>
  <1>1. Way(w) \in Dirs
    BY DEF Way, Dirs
  <1>2. k <= call[w].rest - call[w].done /\ ~Idle(w)
    BY CallFields DEF Copy, Idle, FrameLen
  <1>3. todo[w] \in Seq(Entries) \ {<<>>} /\ Head(todo[w]) \in Messages
    BY <1>2, HereIs DEF FrameInv, Busy
  <1>4. buff[Way(w)] \in Messages \cup {"junk"}
    BY <1>1 DEF FrameInv, FrameTypeOK
  <1>5. QED
    BY <1>1, <1>2, <1>3, <1>4 DEF Copy, Piece

LEMMA CopyInv ==
  ASSUME FrameInv, NEW w \in Writers, NEW k \in 1..FrameLen, Copy(w, k)
  PROVE  FrameInv'
  <1> DEFINE d == Way(w)
             c == call[w]
  <1>1. d \in Dirs /\ k <= c.rest - c.done /\ ~Idle(w) /\ todo[w] \in Seq(Entries) \ {<<>>}
    BY CopyIs
  <1>2. UNCHANGED <<open, buff, reading, history>>
    BY CopyIs
  <1>3. stream' \in [Dirs -> Seq(Cells)] /\ \A e \in Dirs : Len(stream'[e]) <= Room
    <2>1. PICK m \in Messages \cup {"junk"} :
            stream' = [stream EXCEPT ![d] = @ \o Piece(w, k, m)]
      BY CopyIs
    <2>2. Piece(w, k, m) \in Seq(Cells) /\ Len(Piece(w, k, m)) = k
      BY <1>1, PieceIs
    <2>3. stream[d] \in Seq(Cells)
      BY <1>1 DEF FrameInv, FrameTypeOK
    <2>4. /\ stream[d] \o Piece(w, k, m) \in Seq(Cells)
          /\ Len(stream[d] \o Piece(w, k, m)) = Len(stream[d]) + k
      <3>1. \A p \in Seq(Cells) :
              stream[d] \o p \in Seq(Cells) /\ Len(stream[d] \o p) = Len(stream[d]) + Len(p)
        BY <2>3, ConcatProperties
      <3>2. QED
        BY <2>2, <3>1
    <2>5. Len(stream[d]) + k <= Room
      BY CopyIs
    <2>6. QED
      BY <1>1, <2>1, <2>4, <2>5 DEF FrameInv, FrameTypeOK
  <1>4. CASE c.done + k = c.rest
    <2>1. /\ call' = [call EXCEPT ![w] = NoCall]
          /\ todo' = [todo EXCEPT ![w] = Tail(@)]
          /\ mtx' = Unlock(w)
      BY <1>4 DEF Copy
    <2>2. NoCall \in GoodCalls
      BY CallIsGood DEF NoCall
    <2>3. /\ call' \in [Writers -> Calls] /\ WithinFrame'
          /\ \A v \in Writers : call'[v] = IF v = w THEN NoCall ELSE call[v]
      BY <2>1, <2>2, CallStep
    <2>4. Tail(todo[w]) \in Seq(Words(w))
      BY <1>1, HeadTailProperties DEF FrameInv, FrameTypeOK
    <2>5. /\ todo' \in [Writers -> Seq(Entries)] /\ \A v \in Writers : todo'[v] \in Seq(Words(v))
          /\ \A v \in Writers : v # w => todo'[v] = todo[v]
      BY <2>1, <2>4, TodoStep DEF FrameInv
    <2>6. mtx' \in {"keys", "recv", NoThread}
      BY <2>1 DEF FrameInv, FrameTypeOK, Unlock
    <2>7. FrameTypeOK'
      BY <1>2, <1>3, <2>3, <2>5, <2>6 DEF FrameInv, FrameTypeOK, history
    <2>8. \A v \in Writers : ~Idle(v)' => v # w /\ ~Idle(v)
      BY <2>3 DEF Idle, NoCall
    <2>9. Busy'
      BY <2>5, <2>8 DEF FrameInv, Busy, Here
    <2>10. Locked'
      BY <2>1, <2>8 DEF FrameInv, Locked, Unlock
    <2>11. QED
      BY <2>3, <2>7, <2>9, <2>10 DEF FrameInv
  <1>5. CASE c.done + k # c.rest
    <2>1. /\ call' = [call EXCEPT ![w].done = c.done + k]
          /\ UNCHANGED <<todo, mtx>>
      BY <1>5 DEF Copy
    <2> DEFINE e == [from |-> c.from, rest |-> c.rest, done |-> c.done + k]
    <2>2. c = [from |-> c.from, rest |-> c.rest, done |-> c.done]
      BY DEF FrameInv, FrameTypeOK, Calls
    <2>3. call' = [call EXCEPT ![w] = e]
      <3>1. [c EXCEPT !.done = c.done + k] = e
        BY <2>2
      <3>2. call' = [call EXCEPT ![w] = [c EXCEPT !.done = c.done + k]]
        BY <2>1
      <3>3. QED
        BY <3>1, <3>2
    <2>4. e \in GoodCalls
      BY SMTT(60), <1>1, CallFields, CallIsGood DEF FrameLen
    <2>5. /\ call' \in [Writers -> Calls] /\ WithinFrame'
          /\ \A v \in Writers : call'[v] = IF v = w THEN e ELSE call[v]
      <3> HIDE DEF e
      <3>1. QED
        BY <2>3, <2>4, CallStep
    <2>6. FrameTypeOK'
      BY <1>2, <1>3, <2>1, <2>5 DEF FrameInv, FrameTypeOK, history
    <2>7. \A v \in Writers : Idle(v)' = Idle(v)
      BY <2>5 DEF Idle
    <2>8. QED
      BY <2>1, <2>5, <2>6, <2>7 DEF FrameInv, Busy, Locked, Here
  <1>6. QED
    BY <1>4, <1>5

\* What a reader finds at the front of its stream.
LEMMA HeaderIs ==
  ASSUME FrameInv, NEW d \in Dirs, stream[d] # <<>>
  PROVE  /\ Len(Header(d)) = IF Len(stream[d]) < 2 THEN 1 ELSE 2
         /\ Len(stream[d]) \in Nat /\ Len(Header(d)) <= Len(stream[d])
         /\ \A i \in 1..Len(Header(d)) : Header(d)[i] = stream[d][i]
  <1>1. stream[d] \in Seq(Cells) /\ Len(stream[d]) \in Nat \ {0}
    BY EmptySeq DEF FrameInv, FrameTypeOK
  <1>2. ASSUME NEW n \in 1..2, n <= Len(stream[d])
        PROVE  /\ Len(SubSeq(stream[d], 1, n)) = n
               /\ \A i \in 1..n : SubSeq(stream[d], 1, n)[i] = stream[d][i]
    BY <1>1, <1>2, SubSeqProperties, ElementOfSeq
  <1>3. QED
    BY <1>1, <1>2 DEF Header

LEMMA RemainderIs ==
  ASSUME FrameInv, NEW d \in Dirs, NEW n \in Nat, n <= Len(stream[d])
  PROVE  LET rest == SubSeq(stream[d], n + 1, Len(stream[d]))
         IN  /\ rest \in Seq(Cells) /\ Len(rest) = Len(stream[d]) - n
             /\ \A i \in 1..Len(rest) : rest[i] = stream[d][n + i]
  <1>1. stream[d] \in Seq(Cells) /\ Len(stream[d]) \in Nat
    BY DEF FrameInv, FrameTypeOK
  <1>2. \A i \in (n + 1)..Len(stream[d]) : stream[d][i] \in Cells
    BY <1>1, ElementOfSeq
  <1>3. QED
    BY <1>1, <1>2, SubSeqProperties

\* A thread that owed nothing is not sending, whatever it owes now.
LEMMA TakesOn ==
  ASSUME FrameInv, NEW r \in Writers, NEW ms \in Seq(Words(r)), todo[r] = <<>>,
         todo' = todo \/ todo' = [todo EXCEPT ![r] = ms], UNCHANGED <<mtx, call>>
  PROVE  /\ todo' \in [Writers -> Seq(Entries)] /\ \A v \in Writers : todo'[v] \in Seq(Words(v))
         /\ \A v \in Writers : ~Idle(v) => todo'[v] = todo[v]
         /\ WithinFrame' /\ Busy' /\ Locked'
  <1>1. /\ todo' \in [Writers -> Seq(Entries)] /\ \A v \in Writers : todo'[v] \in Seq(Words(v))
        /\ \A v \in Writers : v # r => todo'[v] = todo[v]
    BY TodoStep DEF FrameInv, FrameTypeOK
  <1>2. \A v \in Writers : ~Idle(v) => todo'[v] = todo[v]
    BY <1>1 DEF FrameInv, Busy, Here
  <1>3. \A v \in Writers : ~Idle(v) => Here(v)'
    BY <1>2 DEF FrameInv, Busy, Here
  <1>4. QED
    BY <1>1, <1>2, <1>3 DEF FrameInv, WithinFrame, Busy, Locked, Idle

LEMMA ReaderType == ASSUME NEW d \in Dirs PROVE Reader(d) \in Writers /\ Host(Reader(d)) \in Ends
  BY DEF Reader, Writers, Host, Ends

LEMMA RecvHeaderInv ==
  ASSUME FrameInv, NEW d \in Dirs, NEW ans \in Seq(Words(Reader(d))), RecvHeader(d, ans)
  PROVE  FrameInv'
  <1> DEFINE rest == SubSeq(stream[d], Len(Header(d)) + 1, Len(stream[d]))
  <1>1. /\ stream[d] # <<>> /\ stream' = [stream EXCEPT ![d] = rest]
        /\ todo[Reader(d)] = <<>> /\ UNCHANGED <<buff, mtx, call, sent>>
    BY DEF RecvHeader, AtRecv
  <1>2. stream' \in [Dirs -> Seq(Cells)] /\ \A e \in Dirs : Len(stream'[e]) <= Room
    <2>1. Len(Header(d)) \in Nat /\ Len(Header(d)) <= Len(stream[d]) /\ Len(stream[d]) \in Nat
      BY <1>1, HeaderIs
    <2>2. rest \in Seq(Cells) /\ Len(rest) = Len(stream[d]) - Len(Header(d))
      BY <2>1, RemainderIs
    <2> HIDE DEF rest
    <2>3. Len(rest) <= Room
      BY <2>1, <2>2, FramingAssumption DEF FrameInv, FrameTypeOK
    <2>4. QED
      BY <1>1, <2>2, <2>3 DEF FrameInv, FrameTypeOK
  <1>3. todo' = todo \/ todo' = [todo EXCEPT ![Reader(d)] = ans]
    BY DEF RecvHeader, Load
  <1>4. /\ todo' \in [Writers -> Seq(Entries)] /\ \A v \in Writers : todo'[v] \in Seq(Words(v))
        /\ WithinFrame' /\ Busy' /\ Locked'
    BY <1>1, <1>3, ReaderType, TakesOn
  <1>5. rcvd' \in [Dirs -> Seq(Messages \cup {"junk"})]
    <2>1. Append(rcvd[d], "junk") \in Seq(Messages \cup {"junk"})
      BY AppendProperties DEF FrameInv, FrameTypeOK
    <2>2. rcvd' = rcvd \/ rcvd' = [rcvd EXCEPT ![d] = Append(@, "junk")]
      BY DEF RecvHeader, Load
    <2>3. QED
      BY <2>1, <2>2 DEF FrameInv, FrameTypeOK
  <1>6. reading' \in [Dirs -> {"header", "body", "huge"}]
    <2>1. \/ reading' = reading
          \/ \E x \in {"header", "body", "huge"} : reading' = [reading EXCEPT ![d] = x]
      BY DEF RecvHeader, Load
    <2>2. QED
      BY <2>1 DEF FrameInv, FrameTypeOK
  <1>7. fault' \in [Dirs -> SUBSET {"split", "skewed", "raced"}]
    BY DEF FrameInv, FrameTypeOK, RecvHeader, Blame
  <1>8. open' \subseteq Ends
    BY DEF FrameInv, FrameTypeOK, RecvHeader
  <1>9. FrameTypeOK'
    BY <1>1, <1>2, <1>4, <1>5, <1>6, <1>7, <1>8 DEF FrameInv, FrameTypeOK
  <1>10. QED
    BY <1>4, <1>9 DEF FrameInv

LEMMA TakeBodyInv ==
  ASSUME FrameInv, NEW d \in Dirs, NEW ans \in Seq(Words(Reader(d))), TakeBody(d, ans)
  PROVE  FrameInv'
  <1>1. /\ stream[d] # <<>> /\ stream' = [stream EXCEPT ![d] = Tail(@)]
        /\ todo[Reader(d)] = <<>> /\ todo' = [todo EXCEPT ![Reader(d)] = ans]
        /\ rcvd' = [rcvd EXCEPT ![d] = Append(@, Body(Head(stream[d])))]
        /\ reading' = [reading EXCEPT ![d] = "header"]
        /\ open' \subseteq open /\ UNCHANGED <<buff, mtx, call, sent, fault>>
    BY DEF TakeBody, Load
  <1>2. stream' \in [Dirs -> Seq(Cells)] /\ \A e \in Dirs : Len(stream'[e]) <= Room
    <2>1. /\ stream[d] \in Seq(Cells) /\ Len(stream[d]) \in Nat
          /\ Tail(stream[d]) \in Seq(Cells) /\ Len(Tail(stream[d])) = Len(stream[d]) - 1
      BY <1>1, HeadTailProperties DEF FrameInv, FrameTypeOK
    <2>2. Len(Tail(stream[d])) <= Room
      BY <2>1, FramingAssumption DEF FrameInv, FrameTypeOK
    <2>3. QED
      BY <1>1, <2>1, <2>2 DEF FrameInv, FrameTypeOK
  <1>3. /\ todo' \in [Writers -> Seq(Entries)] /\ \A v \in Writers : todo'[v] \in Seq(Words(v))
        /\ WithinFrame' /\ Busy' /\ Locked'
    BY <1>1, ReaderType, TakesOn
  <1>4. rcvd' \in [Dirs -> Seq(Messages \cup {"junk"})]
    <2>1. Append(rcvd[d], Body(Head(stream[d]))) \in Seq(Messages \cup {"junk"})
      BY <1>1, HeadType, AppendProperties DEF FrameInv, FrameTypeOK
    <2>2. QED
      BY <1>1, <2>1 DEF FrameInv, FrameTypeOK
  <1>5. FrameTypeOK'
    BY <1>1, <1>2, <1>3, <1>4 DEF FrameInv, FrameTypeOK
  <1>6. QED
    BY <1>3, <1>5 DEF FrameInv

LEMMA SwallowInv == ASSUME FrameInv, NEW d \in Dirs, Swallow(d) PROVE FrameInv'
  <1>1. stream' = [stream EXCEPT ![d] = <<>>] /\ UNCHANGED <<open, reading, sending, history>>
    BY DEF Swallow
  <1>2. stream' \in [Dirs -> Seq(Cells)] /\ \A e \in Dirs : Len(stream'[e]) <= Room
    BY <1>1, EmptySeq, FramingAssumption DEF FrameInv, FrameTypeOK
  <1>3. FrameTypeOK'
    BY <1>1, <1>2 DEF FrameInv, FrameTypeOK, sending, history
  <1>4. QED
    BY <1>1, <1>3 DEF FrameInv, WithinFrame, Busy, Locked, Idle, Here, sending

LEMMA PartInv == ASSUME FrameInv, Part PROVE FrameInv'
  <1>1. FrameTypeOK'
    BY DEF FrameInv, FrameTypeOK, Part, sending, history
  <1>2. QED
    BY <1>1 DEF FrameInv, WithinFrame, Busy, Locked, Idle, Here, Part, sending

LEMMA FrameInvStep == FrameInv /\ FrameStep => FrameInv'
  BY OweInv, SkipInv, FillInv, ShortCountInv, CopyInv, RecvHeaderInv, TakeBodyInv, SwallowInv,
     PartInv DEF FrameStep

-------------------------------------------------------------------------------
(* ChannelInv, and what a step does to the messages of a direction.           *)

Delivers(d) ==
  \/ UNCHANGED <<sent[d], rcvd[d]>>
  \/ /\ \E m \in Messages : sent'[d] = Append(sent[d], m)
     /\ rcvd'[d] = rcvd[d]
  \/ /\ Len(rcvd[d]) < Len(sent[d])
     /\ rcvd'[d] = Append(rcvd[d], sent[d][Len(rcvd[d]) + 1])
     /\ sent'[d] = sent[d]

\* No two cells have one number.
LEMMA CellsDiffer ==
  ASSUME NEW j \in Nat, NEW k \in Nat, NEW p \in 1..3, NEW q \in 1..3, Cell(j, p) = Cell(k, q)
  PROVE  j = k /\ p = q
  BY DEF Cell, FrameLen

\* The part of a frame that the i-th cell of a piece is.
LEMMA PartOf ==
  \A f, r, n \in Nat : \A k \in 1..3 : f + r = 3 /\ k <= r - n =>
    \A i \in 1..k : i \in Nat /\ f + n + i \in 1..3
  OBVIOUS

LEMMA Numbers ==
  ASSUME FrameInv, NEW d \in Dirs
  PROVE  /\ Len(stream[d]) \in Nat /\ Len(sent[d]) \in Nat /\ Len(rcvd[d]) \in Nat
         /\ Consumed(d) = 3 * Len(rcvd[d]) + (IF reading[d] = "body" THEN 2 ELSE 0)
         /\ Consumed(d) \in Nat
  <1>1. Len(stream[d]) \in Nat /\ Len(sent[d]) \in Nat /\ Len(rcvd[d]) \in Nat
    BY DEF FrameInv, FrameTypeOK
  <1>2. Consumed(d) = 3 * Len(rcvd[d]) + (IF reading[d] = "body" THEN 2 ELSE 0)
    BY DEF Consumed, FrameLen
  <1>3. Consumed(d) \in Nat
    <2>1. CASE reading[d] = "body"
      BY <1>1, <1>2, <2>1
    <2>2. CASE reading[d] # "body"
      BY <1>1, <1>2, <2>2
    <2>3. QED
      BY <2>1, <2>2
  <1>4. QED
    BY <1>1, <1>2, <1>3

\* A direction that has failed in nothing holds no more than was sent.
LEMMA NoMore ==
  ASSUME FrameInv, NEW d \in Dirs, Intact(d)
  PROVE  Consumed(d) + Len(stream[d]) <= 3 * Len(sent[d])
  <1>1. CASE Sender(d) = {}
    BY <1>1, Numbers DEF Intact, Whole, FrameLen
  <1>2. ASSUME NEW w \in Sender(d) PROVE Consumed(d) + Len(stream[d]) <= 3 * Len(sent[d])
    <2>1. w \in Writers
      BY DEF Sender
    <2>2. Consumed(d) + Len(stream[d]) = Cell(Len(sent[d]), call[w].from + call[w].done)
      BY DEF Intact, Whole
    <2>3. call[w].from + call[w].done <= 3 /\ call[w].from + call[w].done \in Nat
      BY <2>1, CallFields
    <2>4. QED
      BY <2>2, <2>3, Numbers DEF Cell, FrameLen
  <1>3. QED
    BY <1>1, <1>2

\* A step that leaves a direction alone.
LEMMA Apart ==
  ASSUME NEW d \in Dirs, Intact(d),
         stream'[d] = stream[d], buff'[d] = buff[d], reading'[d] = reading[d],
         sent'[d] = sent[d], rcvd'[d] = rcvd[d],
         \A w \in Writers : Way(w) = d =>
           call'[w] = call[w] /\ (~Idle(w) => todo'[w] = todo[w])
  PROVE  Intact(d)' /\ Delivers(d)
  <1>1. Sender(d)' = Sender(d)
    BY DEF Sender, Idle
  <1>2. Consumed(d)' = Consumed(d)
    BY DEF Consumed
  <1>3. \A w \in Sender(d) : call'[w] = call[w] /\ todo'[w] = todo[w]
    BY DEF Sender
  <1>4. InOrder(d)'
    BY <1>2 DEF Intact, InOrder
  <1>5. Whole(d)'
    BY <1>1, <1>2, <1>3 DEF Intact, Whole
  <1>6. QED
    BY <1>4, <1>5 DEF Intact, Delivers

\* The sending of a message begins.
LEMMA FillIntact ==
  ASSUME FrameInv, NEW w \in Writers, NEW d \in Dirs, d = Way(w), Intact(d), Fill(w), fault'[d] = {}
  PROVE  Intact(d)' /\ Delivers(d)
  <1> DEFINE m == Head(todo[w])
             n == Len(sent[d])
  <1>1. /\ m \in Messages /\ todo' = todo /\ rcvd' = rcvd /\ reading' = reading
        /\ stream' = stream /\ buff'[d] = m /\ sent'[d] = Append(sent[d], m)
    BY HereIs DEF Fill, FrameInv, FrameTypeOK
  <1>2. /\ n \in Nat /\ Len(sent'[d]) = n + 1 /\ sent'[d][n + 1] = m
        /\ \A k \in 1..n : sent'[d][k] = sent[d][k]
    BY <1>1, AppendProperties DEF FrameInv, FrameTypeOK
  <1>3. Sender(d) = {}
    <2>1. CASE d = "up"
      <3>1. mtx = NoThread
        BY <2>1 DEF Fill, MayFill
      <3>2. QED
        BY <2>1, <3>1, FramingAssumption DEF FrameInv, Locked, Sender
    <2>2. CASE d = "down"
      <3>1. fault[d] \cup (IF \E v \in Writers : Way(v) = d /\ ~Idle(v) THEN {"raced"} ELSE {}) = {}
        BY <2>2 DEF Fill, Blame, FrameInv, FrameTypeOK
      <3>2. QED
        BY <3>1 DEF Sender
    <2>3. QED
      BY <2>1, <2>2 DEF Dirs
  <1>4. call' = [call EXCEPT ![w] = [from |-> 0, rest |-> 3, done |-> 0]]
    <2>1. [NoCall EXCEPT !.rest = FrameLen] = [from |-> 0, rest |-> 3, done |-> 0]
      BY DEF NoCall, FrameLen
    <2>2. QED
      BY <2>1 DEF Fill
  <1>5. /\ call'[w].from = 0 /\ call'[w].rest = 3 /\ call'[w].done = 0
        /\ \A v \in Writers : v # w => call'[v] = call[v]
    BY <1>4 DEF FrameInv, FrameTypeOK
  <1>6. Sender(d)' = {w}
    BY <1>3, <1>5 DEF Sender, Idle
  <1>7. Consumed(d)' = Consumed(d) /\ Consumed(d) + Len(stream[d]) = 3 * n
    BY <1>1, <1>3 DEF Consumed, Intact, Whole, FrameLen
  <1>8. InOrder(d)'
    <2> SUFFICES ASSUME NEW j \in 1..Len(stream[d])', NEW k \in 1..Len(sent[d])',
                        NEW part \in 1..FrameLen, Cell(k, part) = Consumed(d)' + j
                 PROVE  stream'[d][j] = [msg |-> sent'[d][k], part |-> part]
      BY DEF InOrder
    <2>1. j \in 1..Len(stream[d]) /\ k \in 1..(n + 1) /\ part \in 1..3
      BY <1>1, <1>2 DEF FrameLen
    <2>2. 3 * (k - 1) + part <= 3 * n
      <3>1. Len(stream[d]) \in Nat /\ Consumed(d) \in Nat
        BY Numbers
      <3>2. 3 * (k - 1) + part = Consumed(d) + j
        BY <1>7 DEF Cell, FrameLen
      <3> HIDE DEF n
      <3>3. QED
        BY <1>2, <1>7, <2>1, <3>1, <3>2
    <2>3. k \in 1..n
      <3> HIDE DEF n
      <3>1. QED
        BY <1>2, <2>1, <2>2
    <2>4. stream'[d][j] = stream[d][j] /\ sent'[d][k] = sent[d][k]
      BY <1>1, <1>2, <2>3
    <2>5. Cell(k, part) = Consumed(d) + j
      BY <1>7
    <2>6. stream[d][j] = [msg |-> sent[d][k], part |-> part]
      BY <2>1, <2>3, <2>5 DEF Intact, InOrder
    <2>7. QED
      BY <2>4, <2>6
  <1>9. Whole(d)'
    <2>1. sent'[d] # <<>>
      <3>1. Len(<<>>) = 0
        OBVIOUS
      <3> HIDE DEF n
      <3>2. QED
        BY <1>2, <3>1
    <2>2. Consumed(d) + Len(stream[d]) = Cell(n + 1, 0)
      BY <1>2, <1>7 DEF Cell, FrameLen
    <2>3. QED
      BY <1>1, <1>2, <1>5, <1>6, <1>7, <2>1, <2>2 DEF Whole, FrameLen
  <1>10. QED
    BY <1>1, <1>8, <1>9 DEF Intact, Delivers

\* Some cells of the frame under way move.
LEMMA CopyIntact ==
  ASSUME FrameInv, NEW w \in Writers, NEW d \in Dirs, d = Way(w), Intact(d),
         NEW k \in 1..FrameLen, Copy(w, k)
  PROVE  Intact(d)' /\ Delivers(d)
  <1> DEFINE n == Len(sent[d])
             c == call[w]
             len == Len(stream[d])
  <1>1. w \in Sender(d) /\ k <= c.rest - c.done /\ UNCHANGED <<open, buff, reading, history>>
    BY CopyIs DEF Sender
  <1>2. /\ sent[d] # <<>> /\ buff[d] = sent[d][n] /\ Head(todo[w]) = buff[d]
        /\ \A v \in Sender(d) : v = w
    BY <1>1 DEF Intact, Whole
  <1>3. /\ len \in Nat /\ Consumed(d) \in Nat /\ n \in Nat \ {0} /\ k \in 1..3
        /\ c.from \in Nat /\ c.rest \in Nat /\ c.done \in Nat
        /\ c.from + c.rest = 3 /\ k <= c.rest - c.done
        /\ Consumed(d) + len = 3 * (n - 1) + (c.from + c.done)
    <2>1. n \in Nat \ {0}
      BY <1>2, EmptySeq DEF FrameInv, FrameTypeOK
    <2>2. c.from + c.rest = 3 /\ Consumed(d) + len = 3 * (n - 1) + (c.from + c.done)
      BY <1>1 DEF Intact, Whole, Cell, FrameLen
    <2>3. QED
      BY <1>1, <2>1, <2>2, CallFields, Numbers DEF FrameLen
  <1> DEFINE m == sent[d][n]
  <1>4. stream' = [stream EXCEPT ![d] = @ \o Piece(w, k, m)] /\ m \in Messages \cup {"junk"}
    <2>1. \A x \in {buff[d], Head(todo[w])} : x = m
      BY <1>2
    <2> HIDE DEF m
    <2>2. QED
      BY <2>1, CopyIs
  <1>5. /\ Len(stream'[d]) = len + k
        /\ \A i \in 1..len : stream'[d][i] = stream[d][i]
        /\ \A i \in 1..k : stream'[d][len + i] = [msg |-> m, part |-> c.from + c.done + i]
    <2>1. /\ Piece(w, k, m) \in Seq(Cells) /\ Len(Piece(w, k, m)) = k
          /\ \A i \in 1..k : Piece(w, k, m)[i] = [msg |-> m, part |-> c.from + c.done + i]
      BY <1>1, <1>4, PieceIs
    <2>2. stream[d] \in Seq(Cells) /\ stream'[d] = stream[d] \o Piece(w, k, m)
      BY <1>4 DEF FrameInv, FrameTypeOK
    <2> DEFINE x == Piece(w, k, m)
    <2> HIDE DEF x, m
    <2>3. /\ Len(stream[d] \o x) = Len(stream[d]) + Len(x)
          /\ \A i \in 1..(Len(stream[d]) + Len(x)) :
               (stream[d] \o x)[i] = IF i <= Len(stream[d]) THEN stream[d][i]
                                     ELSE x[i - Len(stream[d])]
      BY ZenonT(60), <2>1, <2>2, ConcatProperties DEF x
    <2>4. Len(x) = k /\ stream'[d] = stream[d] \o x
      BY <2>1, <2>2 DEF x
    <2>5. ASSUME NEW i \in 1..len PROVE stream'[d][i] = stream[d][i]
      BY <1>3, <2>3, <2>4
    <2>6. ASSUME NEW i \in 1..k PROVE stream'[d][len + i] = x[i]
      <3>1. len + i \in 1..(len + k) /\ ~(len + i <= len) /\ len + i - len = i
        BY <1>3
      <3>2. QED
        BY <2>3, <2>4, <3>1
    <2>7. QED
      BY <2>1, <2>3, <2>4, <2>5, <2>6 DEF x
  <1>6. Consumed(d)' = Consumed(d) /\ sent' = sent /\ rcvd' = rcvd
    BY <1>1 DEF Consumed, history
  <1>p. ASSUME NEW i \in 1..k
        PROVE  /\ c.from + c.done + i \in 1..3
               /\ Consumed(d) + (len + i) = Cell(n, c.from + c.done + i)
    <2>1. c.from + c.done + i \in 1..3 /\ i \in Nat
      BY <1>3, PartOf
    <2>2. c.from + c.done \in Nat
      BY CallFields
    <2> DEFINE a == Consumed(d)
               f == c.from + c.done
    <2>3. a \in Nat /\ len \in Nat /\ n \in Nat /\ f \in Nat /\ a + len = 3 * (n - 1) + f
      BY <1>3, <2>2
    <2> HIDE DEF a, f, len, n
    <2>4. a + (len + i) = 3 * (n - 1) + (f + i)
      BY <2>1, <2>3
    <2>5. QED
      BY <2>1, <2>4 DEF Cell, FrameLen, a, f, n
  <1>7. InOrder(d)'
    <2> SUFFICES ASSUME NEW j \in 1..Len(stream[d])', NEW q \in 1..Len(sent[d])',
                        NEW part \in 1..FrameLen, Cell(q, part) = Consumed(d)' + j
                 PROVE  stream'[d][j] = [msg |-> sent'[d][q], part |-> part]
      BY DEF InOrder
    <2>1. q \in 1..n /\ Cell(q, part) = Consumed(d) + j
      BY <1>6
    <2>2. CASE j \in 1..len
      BY <1>5, <1>6, <2>1, <2>2 DEF Intact, InOrder
    <2>3. CASE j \notin 1..len
      <3>1. PICK i \in 1..k : j = len + i
        <4> HIDE DEF len
        <4>1. j \in 1..(len + k)
          BY <1>5
        <4>2. j - len \in 1..k
          BY <1>3, <2>3, <4>1
        <4>3. QED
          BY <1>3, <4>1, <4>2
      <3> DEFINE p == c.from + c.done + i
      <3>2. p \in 1..3
        BY <1>p
      <3>3. Cell(q, part) = Cell(n, p)
        BY <1>p, <2>1, <3>1
      <3>4. q = n /\ part = p
        <4> HIDE DEF n, p
        <4>1. q \in Nat /\ n \in Nat /\ part \in 1..3
          BY <1>3, <2>1 DEF FrameLen
        <4>2. QED
          BY <3>2, <3>3, <4>1, CellsDiffer
      <3>5. QED
        BY <1>5, <1>6, <3>1, <3>4
    <2>4. QED
      BY <2>2, <2>3
  <1>8. \A v \in Writers : v # w => call'[v] = call[v]
    BY DEF Copy, FrameInv, FrameTypeOK
  <1>9. Whole(d)'
    <2>1. CASE c.done + k = c.rest
      <3>1. call'[w] = NoCall
        BY <2>1 DEF Copy, FrameInv, FrameTypeOK
      <3>2. Sender(d)' = {}
        BY <1>2, <1>8, <3>1 DEF Sender, Idle, NoCall
      <3>3. Consumed(d) + len + k = 3 * n
        <4> HIDE DEF n, c, len
        <4>1. QED
          BY <1>3, <2>1
      <3>4. Consumed(d)' + Len(stream'[d]) = 3 * Len(sent'[d])
        <4> HIDE DEF n, c
        <4>1. Consumed(d) + (len + k) = 3 * n
          <5> HIDE DEF len
          <5>1. QED
            BY <1>3, <3>3
        <4>2. QED
          BY <1>5, <1>6, <4>1 DEF n
      <3>5. QED
        BY <3>2, <3>4 DEF Whole, FrameLen
    <2>2. CASE c.done + k # c.rest
      <3>1. todo' = todo /\ call'[w] = [c EXCEPT !.done = c.done + k]
        BY <2>2 DEF Copy, FrameInv, FrameTypeOK
      <3>2. c \in Calls
        BY DEF FrameInv, FrameTypeOK
      <3>3. call'[w].from = c.from /\ call'[w].rest = c.rest /\ call'[w].done = c.done + k
        BY <3>1, <3>2 DEF Calls
      <3>4. Sender(d)' = {w}
        BY <1>1, <1>2, <1>8, <3>3 DEF Sender, Idle
      <3>5. Consumed(d) + (len + k) = Cell(n, c.from + (c.done + k))
        <4> HIDE DEF n, c, len
        <4>1. QED
          BY <1>3 DEF Cell, FrameLen
      <3>6. QED
        BY <1>1, <1>2, <1>3, <1>5, <1>6, <3>1, <3>3, <3>4, <3>5 DEF Whole, FrameLen
    <2>3. QED
      BY <2>1, <2>2
  <1>10. QED
    BY <1>1, <1>6, <1>7, <1>9 DEF Intact, Delivers

\* The first short count: the next call goes on where this one stopped.
LEMMA ShortCountIntact ==
  ASSUME FrameInv, NEW w \in Writers, NEW d \in Dirs, d = Way(w), Intact(d), ShortCount(w),
         fault'[d] = {}
  PROVE  Intact(d)' /\ Delivers(d)
  <1> DEFINE c == call[w]
  <1>1. c.from = 0
    <2>1. fault[d] \cup (IF c.from = 0 THEN {} ELSE {"skewed"}) = {}
      BY DEF ShortCount, Blame, FrameInv, FrameTypeOK
    <2>2. QED
      BY <2>1
  <1>2. c.done \in 1..(c.rest - 1) /\ ~Idle(w) /\ w \in Sender(d)
    BY CallFields DEF ShortCount, Idle, Sender
  <1>3. /\ c.rest = 3 /\ Consumed(d) + Len(stream[d]) = Cell(Len(sent[d]), c.done)
        /\ \A v \in Sender(d) : v = w
    BY <1>1, <1>2, CallFields DEF Intact, Whole, FrameLen
  <1>4. /\ call'[w].from = c.done /\ call'[w].rest = 3 - c.done /\ call'[w].done = 0
        /\ \A v \in Writers : v # w => call'[v] = call[v]
    BY <1>3 DEF ShortCount, Again, FrameInv, FrameTypeOK
  <1>5. Sender(d)' = {w}
    BY <1>2, <1>3, <1>4, CallFields DEF Sender, Idle
  <1>6. /\ UNCHANGED <<stream, buff, todo, reading, sent, rcvd>>
        /\ Consumed(d)' = Consumed(d)
    BY DEF ShortCount, Consumed
  <1>7. InOrder(d)'
    BY <1>6 DEF Intact, InOrder
  <1>8. Whole(d)'
    <2>1. c.done \in Nat /\ call'[w].from + call'[w].rest = 3
          /\ call'[w].from + call'[w].done = c.done
      BY <1>4, CallFields
    <2>2. QED
      BY <1>2, <1>3, <1>5, <1>6, <2>1 DEF Intact, Whole, FrameLen
  <1>9. QED
    BY <1>6, <1>7, <1>8 DEF Intact, Delivers

\* The first n cells of a stream are taken.
LEMMA TakeIntact ==
  ASSUME FrameInv, NEW d \in Dirs, Intact(d), NEW n \in 1..2, n <= Len(stream[d]),
         Len(stream'[d]) = Len(stream[d]) - n,
         \A i \in 1..Len(stream'[d]) : stream'[d][i] = stream[d][n + i],
         Consumed(d)' = Consumed(d) + n, reading'[d] # "huge",
         UNCHANGED <<buff, call, sent>>,
         \A w \in Writers : ~Idle(w) => todo'[w] = todo[w]
  PROVE  Intact(d)'
  <1>1. Len(stream[d]) \in Nat /\ Consumed(d) \in Nat
    BY Numbers
  <1>s. \A j \in 1..Len(stream'[d]) :
          n + j \in 1..Len(stream[d]) /\ Consumed(d)' + j = Consumed(d) + (n + j)
    <2> DEFINE a == Consumed(d)
               len == Len(stream[d])
    <2>1. Consumed(d)' = a + n /\ Len(stream'[d]) = len - n /\ len \in Nat /\ a \in Nat
      BY <1>1
    <2> HIDE DEF a, len
    <2>2. \A j \in 1..(len - n) : n + j \in 1..len /\ (a + n) + j = a + (n + j)
      BY <2>1
    <2>3. QED
      BY <2>1, <2>2 DEF a, len
  <1>2. InOrder(d)'
    <2> SUFFICES ASSUME NEW j \in 1..Len(stream'[d]), NEW q \in 1..Len(sent[d]),
                        NEW part \in 1..FrameLen, Cell(q, part) = Consumed(d)' + j
                 PROVE  stream'[d][j] = [msg |-> sent[d][q], part |-> part]
      BY DEF InOrder
    <2>1. n + j \in 1..Len(stream[d]) /\ Consumed(d)' + j = Consumed(d) + (n + j)
      BY <1>s
    <2>2. stream[d][n + j] = [msg |-> sent[d][q], part |-> part]
      BY <2>1 DEF Intact, InOrder
    <2>3. QED
      BY <2>2
  <1>3. Sender(d)' = Sender(d)
    BY DEF Sender, Idle
  <1>4. \A w \in Sender(d) : todo'[w] = todo[w]
    BY DEF Sender
  <1>5. Consumed(d)' + Len(stream'[d]) = Consumed(d) + Len(stream[d])
    BY <1>1
  <1>6. Whole(d)'
    BY <1>3, <1>4, <1>5 DEF Intact, Whole
  <1>7. QED
    BY <1>2, <1>6 DEF Intact

LEMMA NextFrame ==
  \A a, len, n, r \in Nat : \A j \in 1..len, part \in 1..3 :
    a + len <= 3 * n /\ a + j = 3 * r + part => r + 1 \in 1..n
  OBVIOUS

\* The next cells of a stream that has failed in nothing.
LEMMA NextCells ==
  ASSUME FrameInv, NEW d \in Dirs, Intact(d), NEW j \in 1..Len(stream[d]), NEW part \in 1..3,
         Consumed(d) + j = 3 * Len(rcvd[d]) + part
  PROVE  /\ Len(rcvd[d]) + 1 \in 1..Len(sent[d])
         /\ stream[d][j] = [msg |-> sent[d][Len(rcvd[d]) + 1], part |-> part]
  <1> DEFINE r == Len(rcvd[d])
             n == Len(sent[d])
             len == Len(stream[d])
             a == Consumed(d)
  <1>1. /\ r \in Nat /\ n \in Nat /\ len \in Nat /\ a \in Nat /\ a + len <= 3 * n
        /\ a + j = 3 * r + part /\ j \in 1..len
    BY Numbers, NoMore
  <1>2. r + 1 \in 1..n
    <2> HIDE DEF r, n, len, a
    <2>1. QED
      BY <1>1, NextFrame
  <1>3. Cell(r + 1, part) = Consumed(d) + j
    <2>1. r + 1 - 1 = r
      BY <1>1
    <2>2. QED
      BY <2>1 DEF Cell, FrameLen
  <1>4. QED
    BY <1>2, <1>3 DEF Intact, InOrder, FrameLen

\* A header that arrives in one piece is a header, and nothing is loaded yet.
LEMMA HeaderReads ==
  ASSUME FrameInv, NEW d \in Dirs, Intact(d), NEW ans \in Seq(Words(Reader(d))), RecvHeader(d, ans),
         fault'[d] = {}
  PROVE  /\ Len(Header(d)) = 2 /\ Len(stream[d]) \in Nat /\ 2 <= Len(stream[d])
         /\ reading' = [reading EXCEPT ![d] = "body"] /\ UNCHANGED <<rcvd, todo>>
  <1>1. /\ stream[d] # <<>> /\ reading[d] = "header" /\ todo[Reader(d)] = <<>>
        /\ stream' = [stream EXCEPT ![d] = SubSeq(@, Len(Header(d)) + 1, Len(@))]
        /\ UNCHANGED <<buff, mtx, call, sent>>
    BY DEF RecvHeader, AtRecv
  <1>2. Len(Header(d)) = 2
    <2>1. fault[d] \cup (IF Len(Header(d)) = 2 THEN {} ELSE {"split"}) = {}
      BY DEF RecvHeader, Blame, FrameInv, FrameTypeOK
    <2>2. QED
      BY <2>1
  <1>3. /\ Len(stream[d]) \in Nat /\ 2 <= Len(stream[d])
        /\ Header(d)[1] = stream[d][1] /\ Header(d)[2] = stream[d][2]
    <2>1. /\ Len(Header(d)) = IF Len(stream[d]) < 2 THEN 1 ELSE 2
          /\ Len(stream[d]) \in Nat /\ Len(Header(d)) <= Len(stream[d])
      BY <1>1, HeaderIs
    <2>2. \A i \in 1..2 : Header(d)[i] = stream[d][i]
      BY <1>1, <1>2, HeaderIs
    <2>3. QED
      BY <1>2, <2>1, <2>2
  <1>4. Consumed(d) = 3 * Len(rcvd[d]) /\ Len(rcvd[d]) \in Nat
    <2>1. Len(rcvd[d]) \in Nat
      BY Numbers
    <2>2. Consumed(d) = 3 * Len(rcvd[d]) + 0
      BY <1>1 DEF Consumed, FrameLen
    <2>3. QED
      BY <2>1, <2>2
  <1>5. stream[d][1].part = 1 /\ stream[d][2].part = 2
    <2>1. 1 \in 1..Len(stream[d]) /\ 2 \in 1..Len(stream[d])
      BY <1>3
    <2>2. Consumed(d) + 1 = 3 * Len(rcvd[d]) + 1 /\ Consumed(d) + 2 = 3 * Len(rcvd[d]) + 2
      BY <1>4
    <2>n. \A j \in 1..Len(stream[d]), part \in 1..3 :
            Consumed(d) + j = 3 * Len(rcvd[d]) + part =>
              stream[d][j] = [msg |-> sent[d][Len(rcvd[d]) + 1], part |-> part]
      BY ZenonT(60), NextCells
    <2>3. stream[d][1] = [msg |-> sent[d][Len(rcvd[d]) + 1], part |-> 1]
      BY <2>1, <2>2, <2>n
    <2>4. stream[d][2] = [msg |-> sent[d][Len(rcvd[d]) + 1], part |-> 2]
      BY <2>1, <2>2, <2>n
    <2>5. QED
      BY <2>3, <2>4
  <1>6. Parsed(d) = "body"
    BY <1>2, <1>3, <1>5 DEF Parsed, StoI
  <1>7. reading' = [reading EXCEPT ![d] = "body"] /\ UNCHANGED <<rcvd, todo>>
    BY <1>6 DEF RecvHeader
  <1>8. QED
    BY <1>2, <1>3, <1>7

LEMMA HeaderIntact ==
  ASSUME FrameInv, NEW d \in Dirs, Intact(d), NEW ans \in Seq(Words(Reader(d))), RecvHeader(d, ans),
         fault'[d] = {}
  PROVE  Intact(d)' /\ Delivers(d)
  <1>1. /\ stream[d] # <<>> /\ reading[d] = "header"
        /\ stream' = [stream EXCEPT ![d] = SubSeq(@, Len(Header(d)) + 1, Len(@))]
        /\ UNCHANGED <<buff, mtx, call, sent>>
    BY DEF RecvHeader, AtRecv
  <1>2. Len(Header(d)) = 2 /\ Len(stream[d]) \in Nat /\ 2 <= Len(stream[d])
    BY HeaderReads
  <1>3. reading' = [reading EXCEPT ![d] = "body"] /\ UNCHANGED <<rcvd, todo>>
    BY HeaderReads
  <1>4. Consumed(d) = 3 * Len(rcvd[d]) /\ Len(rcvd[d]) \in Nat
    <2>1. Len(rcvd[d]) \in Nat
      BY Numbers
    <2>2. Consumed(d) = 3 * Len(rcvd[d]) + 0
      BY <1>1 DEF Consumed, FrameLen
    <2>3. QED
      BY <2>1, <2>2
  <1>5. reading'[d] = "body" /\ Consumed(d)' = Consumed(d) + 2
    BY <1>1, <1>3, <1>4 DEF Consumed, FrameLen, FrameInv, FrameTypeOK
  <1>6. /\ Len(stream'[d]) = Len(stream[d]) - 2
        /\ \A i \in 1..Len(stream'[d]) : stream'[d][i] = stream[d][2 + i]
    <2>1. stream'[d] = SubSeq(stream[d], 2 + 1, Len(stream[d]))
      BY <1>1, <1>2 DEF FrameInv, FrameTypeOK
    <2>2. QED
      BY <1>2, <2>1, RemainderIs
  <1>7. Intact(d)'
    BY <1>1, <1>2, <1>3, <1>5, <1>6, TakeIntact
  <1>8. QED
    BY <1>1, <1>3, <1>7 DEF Delivers

LEMMA BodyIntact ==
  ASSUME FrameInv, NEW d \in Dirs, Intact(d), NEW ans \in Seq(Words(Reader(d))), TakeBody(d, ans)
  PROVE  Intact(d)' /\ Delivers(d)
  <1> DEFINE r == Len(rcvd[d])
  <1>1. /\ stream[d] # <<>> /\ stream' = [stream EXCEPT ![d] = Tail(@)]
        /\ reading[d] = "body" /\ reading' = [reading EXCEPT ![d] = "header"]
        /\ todo[Reader(d)] = <<>> /\ todo' = [todo EXCEPT ![Reader(d)] = ans]
        /\ rcvd' = [rcvd EXCEPT ![d] = Append(@, Body(Head(stream[d])))]
        /\ UNCHANGED <<buff, mtx, call, sent, fault>>
    BY DEF TakeBody, Load
  <1>2. r \in Nat /\ Consumed(d) = 3 * r + 2
    BY <1>1, Numbers
  <1>3. /\ Len(stream[d]) \in Nat \ {0} /\ Len(stream'[d]) = Len(stream[d]) - 1
        /\ \A i \in 1..Len(stream'[d]) : stream'[d][i] = stream[d][1 + i]
        /\ Head(stream[d]) = stream[d][1]
    <2>1. stream[d] \in Seq(Cells) /\ stream'[d] = Tail(stream[d])
      BY <1>1 DEF FrameInv, FrameTypeOK
    <2>2. /\ Len(Tail(stream[d])) = Len(stream[d]) - 1
          /\ \A i \in 1..Len(Tail(stream[d])) : Tail(stream[d])[i] = stream[d][i + 1]
      BY <1>1, <2>1, HeadTailProperties
    <2>3. Len(stream[d]) \in Nat \ {0}
      BY <1>1, <2>1, EmptySeq
    <2>4. Head(stream[d]) = stream[d][1]
      BY <2>1
    <2>5. \A i \in 1..Len(stream'[d]) : i + 1 = 1 + i
      BY <2>1, <2>2, <2>3
    <2>6. QED
      BY <2>1, <2>2, <2>3, <2>4, <2>5
  <1>4. r + 1 \in 1..Len(sent[d]) /\ stream[d][1] = [msg |-> sent[d][r + 1], part |-> 3]
    <2>1. 1 \in 1..Len(stream[d])
      BY <1>3
    <2>2. Consumed(d) + 1 = 3 * r + 3
      BY <1>2
    <2>3. \A j \in 1..Len(stream[d]), part \in 1..3 : Consumed(d) + j = 3 * r + part =>
            r + 1 \in 1..Len(sent[d]) /\ stream[d][j] = [msg |-> sent[d][r + 1], part |-> part]
      BY NextCells
    <2>4. QED
      BY <2>1, <2>2, <2>3
  <1>5. Body(Head(stream[d])) = sent[d][r + 1]
    BY <1>3, <1>4 DEF Body
  <1>6. rcvd'[d] = Append(rcvd[d], sent[d][r + 1]) /\ reading'[d] = "header"
    BY <1>1, <1>5 DEF FrameInv, FrameTypeOK
  <1>7. Len(rcvd'[d]) = r + 1
    BY <1>6 DEF FrameInv, FrameTypeOK
  <1>8. Consumed(d)' = Consumed(d) + 1
    <2>1. Consumed(d)' = 3 * (r + 1) + 0
      BY <1>6, <1>7 DEF Consumed, FrameLen
    <2> HIDE DEF r
    <2>2. QED
      BY <1>2, <2>1
  <1>9. \A w \in Writers : ~Idle(w) => todo'[w] = todo[w]
    BY <1>1, ReaderType, TakesOn
  <1>10. Intact(d)'
    BY SMTT(60), <1>1, <1>3, <1>6, <1>8, <1>9, TakeIntact
  <1>11. r < Len(sent[d])
    BY <1>2, <1>4, Numbers
  <1>12. QED
    BY <1>1, <1>6, <1>10, <1>11 DEF Delivers

\* A thread of the other direction, or a reader that has just begun to answer,
\* leaves a direction alone.
LEMMA ElsewhereIntact ==
  ASSUME FrameInv, FrameInv', NEW d \in Dirs, Intact(d), NEW e \in Dirs, e # d,
         NEW w \in Writers, Way(w) = e,
         Fill(w) \/ ShortCount(w) \/ \E k \in 1..FrameLen : Copy(w, k)
  PROVE  Intact(d)' /\ Delivers(d)
  <1>1. /\ stream'[d] = stream[d] /\ buff'[d] = buff[d] /\ reading'[d] = reading[d]
        /\ sent'[d] = sent[d] /\ rcvd'[d] = rcvd[d]
    BY DEF Fill, ShortCount, Copy, history, FrameInv, FrameTypeOK
  <1>2. \A v \in Writers : v # w => call'[v] = call[v] /\ todo'[v] = todo[v]
    BY SMTT(60) DEF Fill, ShortCount, Copy, FrameInv, FrameTypeOK
  <1>3. QED
    BY <1>1, <1>2, Apart

LEMMA ReadElsewhere ==
  ASSUME FrameInv, NEW d \in Dirs, Intact(d), NEW e \in Dirs, e # d,
         NEW ans \in Seq(Words(Reader(e))), RecvHeader(e, ans) \/ TakeBody(e, ans)
  PROVE  Intact(d)' /\ Delivers(d)
  <1>1. /\ stream'[d] = stream[d] /\ buff'[d] = buff[d] /\ reading'[d] = reading[d]
        /\ sent'[d] = sent[d] /\ rcvd'[d] = rcvd[d] /\ UNCHANGED <<mtx, call>>
    BY DEF RecvHeader, TakeBody, Load, FrameInv, FrameTypeOK
  <1>2. todo[Reader(e)] = <<>> /\ (todo' = todo \/ todo' = [todo EXCEPT ![Reader(e)] = ans])
    BY DEF RecvHeader, TakeBody, Load, AtRecv
  <1>3. \A w \in Writers : ~Idle(w) => todo'[w] = todo[w]
    BY <1>1, <1>2, ReaderType, TakesOn
  <1>4. QED
    BY <1>1, <1>3, Apart

\* Every step keeps a direction to which nothing has happened by then intact.
LEMMA IntactStep ==
  ASSUME FrameInv, FrameInv', FrameStep, NEW d \in Dirs, Intact(d), fault'[d] = {}
  PROVE  Intact(d)' /\ Delivers(d)
  <1>1. ASSUME NEW w \in Writers, NEW ms \in Seq(Words(w)), Owe(w, ms)
        PROVE  Intact(d)' /\ Delivers(d)
    <2>1. \A v \in Writers : ~Idle(v) => todo'[v] = todo[v]
      BY <1>1, TakesOn DEF Owe
    <2>2. QED
      BY <1>1, <2>1, Apart DEF Owe, history
  <1>2. ASSUME NEW w \in Writers, Fill(w) \/ ShortCount(w) \/ \E k \in 1..FrameLen : Copy(w, k)
        PROVE  Intact(d)' /\ Delivers(d)
    <2>1. Way(w) \in Dirs
      BY DEF Way, Dirs
    <2>2. QED
      BY <1>2, <2>1, FillIntact, ShortCountIntact, CopyIntact, ElsewhereIntact
  <1>3. ASSUME NEW e \in Dirs, NEW ans \in Seq(Words(Reader(e))),
               RecvHeader(e, ans) \/ TakeBody(e, ans)
        PROVE  Intact(d)' /\ Delivers(d)
    BY <1>3, HeaderIntact, BodyIntact, ReadElsewhere
  <1>4. ASSUME NEW e \in Dirs, Swallow(e) PROVE Intact(d)' /\ Delivers(d)
    <2>1. e # d
      BY <1>4 DEF Swallow, Intact
    <2>2. stream'[d] = stream[d]
      BY <1>4, <2>1 DEF Swallow, FrameInv, FrameTypeOK
    <2>3. QED
      BY <1>4, <2>2, Apart DEF Swallow, sending, history
  <1>5. CASE Part
    BY <1>5, Apart DEF Part, sending, history
  <1>6. ASSUME NEW w \in Writers, Skip(w) PROVE Intact(d)' /\ Delivers(d)
    <2>1. \A v \in Writers : ~Idle(v) => todo'[v] = todo[v]
      BY <1>6, SkipInv
    <2>2. QED
      BY <1>6, <2>1, Apart DEF Skip, history
  <1>7. QED
    BY <1>1, <1>2, <1>3, <1>4, <1>5, <1>6 DEF FrameStep

\* What has happened to a direction is not forgotten.
LEMMA FaultsStay ==
  ASSUME FrameInv, FrameStep, NEW d \in Dirs
  PROVE  fault[d] \subseteq fault'[d]
  <1>1. \A e \in Dirs : \A fs : Blame(e, fs) => fault[d] \subseteq fault'[d]
    BY DEF Blame, FrameInv, FrameTypeOK
  <1>2. \A w \in Writers : Way(w) \in Dirs
    BY DEF Way, Dirs
  <1>3. fault' = fault \/ \E e \in Dirs : \E fs : Blame(e, fs)
    <2>1. ASSUME NEW w \in Writers, Fill(w) \/ ShortCount(w)
          PROVE  \E e \in Dirs : \E fs : Blame(e, fs)
      BY <1>2, <2>1 DEF Fill, ShortCount
    <2>2. ASSUME NEW e \in Dirs, NEW ans, RecvHeader(e, ans) PROVE \E fs : Blame(e, fs)
      BY <2>2 DEF RecvHeader
    <2>3. QED
      BY <2>1, <2>2 DEF FrameStep, Owe, Skip, Copy, TakeBody, Swallow, Part, history
  <1>4. QED
    BY <1>1, <1>3

LEMMA ChannelStep ==
  ASSUME FrameInv, FrameInv', ChannelInv, FrameStep
  PROVE  ChannelInv' /\ \A d \in Dirs : fault'[d] # {} \/ Delivers(d)
  <1>1. ASSUME NEW d \in Dirs, fault'[d] = {} PROVE Intact(d)' /\ Delivers(d)
    <2>1. Intact(d)
      BY <1>1, FaultsStay DEF ChannelInv
    <2>2. QED
      BY <1>1, <2>1, IntactStep
  <1>2. QED
    BY <1>1 DEF ChannelInv

LEMMA ChannelInvInit == FrameInit => ChannelInv
  <1> SUFFICES ASSUME FrameInit, NEW d \in Dirs PROVE Intact(d)
    BY DEF ChannelInv
  <1>1. Sender(d) = {}
    BY DEF FrameInit, Sender, Idle, NoCall
  <1>2. Len(stream[d]) = 0 /\ Len(sent[d]) = 0 /\ Consumed(d) = 0 /\ reading[d] = "header"
    BY DEF FrameInit, Consumed, FrameLen
  <1>3. QED
    BY <1>1, <1>2 DEF Intact, InOrder, Whole, FrameLen

-------------------------------------------------------------------------------
(* The theorems.                                                              *)

\* The variables Session adds to those of Framing.
LEMMA CountersStep ==
  ASSUME SessionTypeOK, [Next]_vars
  PROVE  /\ type' \in DOMAIN Requests /\ typed' \in 0..MaxTyped
         /\ relayed' \in [Peers -> 0..MaxRelayed]
  <1>1. CASE UNCHANGED <<type, typed, relayed>>
    BY <1>1 DEF SessionTypeOK
  <1>2. ASSUME NEW l \in Lines, Type(l)
        PROVE  type' \in DOMAIN Requests /\ typed' \in 0..MaxTyped /\ UNCHANGED relayed
    <2>1. TypeOf(l) \in DOMAIN Requests
      BY SessionAssumption DEF TypeOf, SessionTypeOK
    <2>2. typed' \in 0..MaxTyped
      BY <1>2, SessionAssumption DEF Type, SessionTypeOK
    <2>3. QED
      BY <1>2, <2>1, <2>2 DEF Type
  <1>3. ASSUME NEW p \in Peers, NEW m \in Relayed, Relay(p, m)
        PROVE  relayed' \in [Peers -> 0..MaxRelayed] /\ UNCHANGED <<type, typed>>
    <2>1. relayed[p] + 1 \in 0..MaxRelayed
      BY <1>3, SessionAssumption DEF Relay, SessionTypeOK
    <2>2. QED
      BY <1>3, <2>1 DEF Relay, SessionTypeOK
  <1>4. ASSUME ClientRecv \/ ServerRecv \/ Quit \/ Disturb \/ UNCHANGED vars
               \/ \E w \in Writers : Sends(w)
        PROVE  UNCHANGED <<type, typed, relayed>>
    BY <1>4 DEF ClientRecv, ServerRecv, Quit, Disturb, Sends, vars
  <1>5. QED
    BY <1>1, <1>2, <1>3, <1>4 DEF Next, SessionTypeOK

LEMMA FrameTypes == SessionTypeOK <=>
  /\ FrameTypeOK /\ type \in DOMAIN Requests /\ typed \in 0..MaxTyped
  /\ relayed \in [Peers -> 0..MaxRelayed]
  BY DEF SessionTypeOK, FrameTypeOK

\* The inductive invariant.
Inv == SessionTypeOK /\ FrameInv /\ ChannelInv

LEMMA InvInit == Init => Inv
  <1> SUFFICES ASSUME Init PROVE Inv
    OBVIOUS
  <1>1. FrameInv /\ ChannelInv
    BY FrameInvInit, ChannelInvInit DEF Init
  <1>2. type \in DOMAIN Requests /\ typed \in 0..MaxTyped /\ relayed \in [Peers -> 0..MaxRelayed]
    BY SessionAssumption DEF Init
  <1>3. QED
    BY <1>1, <1>2, FrameTypes DEF Inv, FrameInv

LEMMA InvStep ==
  ASSUME Inv, [Next]_vars
  PROVE  Inv' /\ \A d \in Dirs : fault'[d] # {} \/ Delivers(d)
  <1>1. FrameStep
    BY Steps DEF Inv, FrameInv
  <1>2. FrameInv'
    BY <1>1, FrameInvStep DEF Inv
  <1>3. ChannelInv' /\ \A d \in Dirs : fault'[d] # {} \/ Delivers(d)
    BY <1>1, <1>2, ChannelStep DEF Inv
  <1>4. SessionTypeOK'
    <2>1. FrameTypeOK'
      BY <1>2 DEF FrameInv
    <2>2. /\ type' \in DOMAIN Requests /\ typed' \in 0..MaxTyped
          /\ relayed' \in [Peers -> 0..MaxRelayed]
      BY CountersStep DEF Inv
    <2>3. QED
      BY <2>1, <2>2 DEF SessionTypeOK, FrameTypeOK
  <1>5. QED
    BY <1>2, <1>3, <1>4 DEF Inv

LEMMA Invariance == Spec => []Inv
  <1>1. Inv /\ [Next]_vars => Inv'
    BY InvStep
  <1>2. QED
    BY <1>1, InvInit, PTL DEF Spec

\* Type correctness: in particular no reader ever takes something for a message
\* that was neither sent nor junk, and no direction holds more than Room.
THEOREM SessionTyping == Spec => []SessionTypeOK
  <1>1. Inv => SessionTypeOK
    BY DEF Inv
  <1>2. QED
    BY <1>1, Invariance, PTL

\* The loop of send_request and send_response restarts each call at the size of
\* the last piece: however many short counts a frame meets, no call reads beyond
\* the end of the buffer.
THEOREM FrameTheorem == Spec => []WithinFrame
  <1>1. Inv => WithinFrame
    BY DEF Inv, FrameInv
  <1>2. QED
    BY <1>1, Invariance, PTL

\* Upwards, with two threads on one buffer and its mutex: every message arrives
\* whole, once and in order until the direction meets one of its faults.
THEOREM UpTheorem == Spec => UpIsChannel
  <1>1. Init => Up!ChannelInit
    BY DEF Init, FrameInit, Up!ChannelInit, Dirs
  <1>2. Inv /\ [Next]_vars =>
          [fault'["up"] # {} \/ Up!ChannelNext]_<<sent["up"], rcvd["up"]>>
    <2> SUFFICES ASSUME Inv, [Next]_vars, fault'["up"] = {}
                 PROVE  Up!ChannelNext \/ UNCHANGED <<sent["up"], rcvd["up"]>>
      OBVIOUS
    <2>1. Delivers("up")
      BY InvStep DEF Dirs
    <2>2. QED
      BY <2>1 DEF Delivers, Up!ChannelNext, Up!Send, Up!Receive
  <1>3. QED
    BY <1>1, <1>2, Invariance, PTL DEF Spec, UpIsChannel

\* Downwards, with any number of the server's threads and no mutex: the same,
\* where the refilling of a buffer that is being sent counts as a fault too.
THEOREM DownTheorem == Spec => DownIsChannel
  <1>1. Init => Down!ChannelInit
    BY DEF Init, FrameInit, Down!ChannelInit, Dirs
  <1>2. Inv /\ [Next]_vars =>
          [fault'["down"] # {} \/ Down!ChannelNext]_<<sent["down"], rcvd["down"]>>
    <2> SUFFICES ASSUME Inv, [Next]_vars, fault'["down"] = {}
                 PROVE  Down!ChannelNext \/ UNCHANGED <<sent["down"], rcvd["down"]>>
      OBVIOUS
    <2>1. Delivers("down")
      BY InvStep DEF Dirs
    <2>2. QED
      BY <2>1 DEF Delivers, Down!ChannelNext, Down!Send, Down!Receive
  <1>3. QED
    BY <1>1, <1>2, Invariance, PTL DEF Spec, DownIsChannel

-------------------------------------------------------------------------------
(* Sequences put together from shorter ones.                                  *)

\* Induction on the natural numbers, for sets.
LEMMA Least == ASSUME NEW T, T \subseteq Nat, T # {} PROVE \E n \in T : \A m \in T : ~(m < n)
  <1>1. PICK n \in T : \A m \in T : <<m, n>> \notin OpToRel(<, Nat)
    BY NatLessThanWellFounded, WFMin
  <1>2. \A m \in Nat : m < n => <<m, n>> \in OpToRel(<, Nat)
    BY DEF OpToRel
  <1>3. QED
    BY <1>1, <1>2

LEMMA Induction ==
  ASSUME NEW S, 0 \in S, \A n \in Nat : n \in S => n + 1 \in S
  PROVE  Nat \subseteq S
  <1> SUFFICES ASSUME Nat \ S # {} PROVE FALSE
    OBVIOUS
  <1>1. PICK n \in Nat \ S : \A m \in Nat \ S : ~(m < n)
    BY Least
  <1>2. n - 1 \in Nat /\ n - 1 < n /\ n = (n - 1) + 1
    BY <1>1
  <1>3. QED
    BY <1>1, <1>2

\* What FlattenSeq builds from the first n of the sequences ss.
Flat(f, ss, n) == f = [i \in 1..n |-> IF i = 1 THEN ss[i] ELSE f[i-1] \o ss[i]]

LEMMA FlatExists == ASSUME NEW ss, NEW n \in Nat PROVE \E f : Flat(f, ss, n)
  <1> DEFINE S == {k \in Nat : \E f : Flat(f, ss, k)}
  <1>1. 0 \in S
    <2>1. Flat([i \in 1..0 |-> ss], ss, 0)
      BY DEF Flat
    <2>2. QED
      BY <2>1
  <1>2. ASSUME NEW k \in Nat, k \in S PROVE k + 1 \in S
    <2>1. PICK f : Flat(f, ss, k)
      BY <1>2
    <2> DEFINE g == [i \in 1..(k + 1) |-> IF i = 1 THEN ss[i] ELSE f[i-1] \o ss[i]]
    <2>2. \A i \in 1..k : f[i] = IF i = 1 THEN ss[i] ELSE f[i-1] \o ss[i]
      BY <2>1, Zenon DEF Flat
    <2>3. \A i \in 1..(k + 1) : g[i] = IF i = 1 THEN ss[i] ELSE f[i-1] \o ss[i]
      OBVIOUS
    <2>4. ASSUME NEW i \in 1..(k + 1), i # 1 PROVE g[i-1] = f[i-1]
      <3>1. i - 1 \in 1..k /\ i - 1 \in 1..(k + 1)
        BY <2>4
      <3>2. QED
        BY <2>2, <2>3, <3>1
    <2>5. g = [i \in 1..(k + 1) |-> IF i = 1 THEN ss[i] ELSE g[i-1] \o ss[i]]
      BY <2>4
    <2> HIDE DEF g
    <2>6. Flat(g, ss, k + 1)
      BY <2>5, Zenon DEF Flat
    <2>7. QED
      BY <2>6
  <1>3. QED
    BY <1>1, <1>2, Induction

LEMMA FlattenIs ==
  ASSUME NEW ss, Len(ss) \in Nat \ {0}
  PROVE  \E f : Flat(f, ss, Len(ss)) /\ FlattenSeq(ss) = f[Len(ss)]
  <1> DEFINE g == CHOOSE f : Flat(f, ss, Len(ss))
  <1>1. Flat(g, ss, Len(ss))
    BY FlatExists
  <1>2. FlattenSeq(ss) = g[Len(ss)]
    BY DEF FlattenSeq, Flat
  <1>3. QED
    BY <1>1, <1>2

\* Element by element: what Flat says of the first n, and that they decide it.
LEMMA FlatElements ==
  ASSUME NEW ss, NEW n \in Nat, NEW f, Flat(f, ss, n)
  PROVE  \A i \in 1..n : f[i] = IF i = 1 THEN ss[i] ELSE f[i-1] \o ss[i]
  BY Zenon DEF Flat

LEMMA FlatAgree ==
  ASSUME NEW n \in Nat, NEW m \in Nat, n <= m, NEW ss, NEW f, Flat(f, ss, n),
         NEW tt, NEW g, Flat(g, tt, m), \A i \in 1..n : ss[i] = tt[i]
  PROVE  \A i \in 1..n : f[i] = g[i]
  <1> DEFINE S == {k \in Nat : k + 1 \in 1..n => f[k + 1] = g[k + 1]}
  <1>a. \A i \in 1..n : f[i] = IF i = 1 THEN ss[i] ELSE f[i-1] \o ss[i]
    BY FlatElements
  <1>b. \A i \in 1..m : g[i] = IF i = 1 THEN tt[i] ELSE g[i-1] \o tt[i]
    BY FlatElements
  <1>1. 0 \in S
    <2>1. 0 + 1 \in 1..n => f[1] = ss[1] /\ g[1] = tt[1]
      BY <1>a, <1>b
    <2>2. QED
      BY <2>1
  <1>2. ASSUME NEW k \in Nat, k \in S PROVE k + 1 \in S
    <2> SUFFICES ASSUME (k + 1) + 1 \in 1..n PROVE f[(k + 1) + 1] = g[(k + 1) + 1]
      OBVIOUS
    <2> DEFINE i == (k + 1) + 1
    <2>1. i \in 1..n /\ i \in 1..m /\ i # 1 /\ i - 1 = k + 1 /\ k + 1 \in 1..n
      OBVIOUS
    <2> HIDE DEF i
    <2>2. f[i] = f[i-1] \o ss[i] /\ g[i] = g[i-1] \o tt[i]
      BY <2>1, <1>a, <1>b
    <2>3. f[i-1] = g[i-1]
      BY <1>2, <2>1
    <2>4. f[i] = g[i]
      BY <2>1, <2>2, <2>3
    <2>5. QED
      BY <2>4 DEF i
  <1>3. Nat \subseteq S
    BY <1>1, <1>2, Induction
  <1>4. ASSUME NEW i \in 1..n PROVE f[i] = g[i]
    <2>1. i - 1 \in S /\ (i - 1) + 1 = i
      BY <1>3
    <2>2. QED
      BY <2>1
  <1>5. QED
    BY <1>4

LEMMA FlatType ==
  ASSUME NEW S, NEW n \in Nat, NEW ss, \A i \in 1..n : ss[i] \in Seq(S), NEW f, Flat(f, ss, n)
  PROVE  \A i \in 1..n : f[i] \in Seq(S)
  <1> DEFINE T == {k \in Nat : k + 1 \in 1..n => f[k + 1] \in Seq(S)}
  <1>a. \A i \in 1..n : f[i] = IF i = 1 THEN ss[i] ELSE f[i-1] \o ss[i]
    BY FlatElements
  <1>1. 0 \in T
    <2>1. 0 + 1 \in 1..n => f[1] = ss[1]
      BY <1>a
    <2>2. QED
      BY <2>1
  <1>2. ASSUME NEW k \in Nat, k \in T PROVE k + 1 \in T
    <2> SUFFICES ASSUME (k + 1) + 1 \in 1..n PROVE f[(k + 1) + 1] \in Seq(S)
      OBVIOUS
    <2> DEFINE i == (k + 1) + 1
    <2>1. i \in 1..n /\ i # 1 /\ i - 1 = k + 1 /\ k + 1 \in 1..n
      OBVIOUS
    <2> HIDE DEF i
    <2>2. f[i] = f[i-1] \o ss[i]
      BY <2>1, <1>a
    <2>3. f[i-1] \in Seq(S) /\ ss[i] \in Seq(S)
      BY <1>2, <2>1
    <2>4. f[i] \in Seq(S)
      BY <2>2, <2>3, ConcatProperties
    <2>5. QED
      BY <2>4 DEF i
  <1>3. Nat \subseteq T
    BY <1>1, <1>2, Induction
  <1>4. ASSUME NEW i \in 1..n PROVE f[i] \in Seq(S)
    <2>1. i - 1 \in Nat /\ (i - 1) + 1 = i
      OBVIOUS
    <2>2. i - 1 \in T
      BY <1>3, <2>1
    <2>3. QED
      BY <2>1, <2>2
  <1>5. QED
    BY <1>4

\* FlattenSeq of a sequence that grows.
LEMMA FlattenType ==
  ASSUME NEW S, NEW ss \in Seq(Seq(S))
  PROVE  FlattenSeq(ss) \in Seq(S)
  <1>1. Len(ss) \in Nat /\ \A i \in 1..Len(ss) : ss[i] \in Seq(S)
    BY LenProperties, ElementOfSeq
  <1>2. CASE Len(ss) = 0
    <2>1. FlattenSeq(ss) = ss /\ ss = <<>>
      BY <1>2, EmptySeq DEF FlattenSeq
    <2>2. QED
      BY <2>1, EmptySeq
  <1>3. CASE Len(ss) # 0
    <2>1. PICK f : Flat(f, ss, Len(ss)) /\ FlattenSeq(ss) = f[Len(ss)]
      BY <1>1, <1>3, FlattenIs
    <2>2. QED
      BY <1>1, <1>3, <2>1, FlatType
  <1>4. QED
    BY <1>2, <1>3

LEMMA FlattenAppend ==
  ASSUME NEW S, NEW ss \in Seq(Seq(S)), NEW s \in Seq(S)
  PROVE  FlattenSeq(Append(ss, s)) = FlattenSeq(ss) \o s
  <1> DEFINE tt == Append(ss, s)
             n  == Len(ss)
  <1>1. /\ n \in Nat /\ Len(tt) = n + 1 /\ tt[n + 1] = s
        /\ \A i \in 1..n : ss[i] = tt[i]
    BY LenProperties, AppendProperties
  <1> HIDE DEF tt, n
  <1>2. PICK g : Flat(g, tt, n + 1) /\ FlattenSeq(tt) = g[n + 1]
    <2>1. Len(tt) \in Nat \ {0}
      BY <1>1
    <2>2. QED
      BY <1>1, <2>1, FlattenIs
  <1>3. g[n + 1] = IF n + 1 = 1 THEN s ELSE g[n] \o s
    <2>1. n + 1 \in 1..(n + 1) /\ (n + 1) - 1 = n /\ n + 1 \in Nat
      BY <1>1
    <2>2. g[n + 1] = IF n + 1 = 1 THEN tt[n + 1] ELSE g[(n + 1) - 1] \o tt[n + 1]
      BY <1>2, <2>1, FlatElements
    <2>3. QED
      BY <1>1, <2>1, <2>2
  <1>4. CASE n = 0
    <2>1. FlattenSeq(ss) = ss /\ ss = <<>>
      BY <1>4, EmptySeq DEF FlattenSeq, n
    <2>2. <<>> \o s = s
      BY ConcatEmptySeq
    <2>3. QED
      BY <1>2, <1>3, <1>4, <2>1, <2>2 DEF tt
  <1>5. CASE n # 0
    <2>1. PICK f : Flat(f, ss, n) /\ FlattenSeq(ss) = f[n]
      BY <1>1, <1>5, FlattenIs DEF n
    <2>2. f[n] = g[n]
      <3>1. n \in 1..n /\ n <= n + 1 /\ n + 1 \in Nat
        BY <1>1, <1>5
      <3>2. \A i \in 1..n : f[i] = g[i]
        BY SMTT(60), <1>1, <1>2, <2>1, <3>1, FlatAgree
      <3>3. QED
        BY <3>1, <3>2
    <2>3. n + 1 # 1
      BY <1>1, <1>5
    <2>4. QED
      BY <1>2, <1>3, <2>1, <2>2, <2>3 DEF tt
  <1>6. QED
    BY <1>4, <1>5

\* Prefixes.
LEMMA PrefixIs ==
  ASSUME NEW S, NEW s \in Seq(S), NEW t \in Seq(S)
  PROVE  IsPrefix(s, t) <=> Len(s) <= Len(t) /\ \A i \in 1..Len(s) : s[i] = t[i]
  <1>1. Len(s) \in Nat /\ Len(t) \in Nat /\ SubSeq(s, 1, Len(s)) = s
    BY LenProperties, SubSeqFull
  <1>2. ASSUME Len(s) <= Len(t)
        PROVE  /\ SubSeq(t, 1, Len(s)) \in Seq(S) /\ Len(SubSeq(t, 1, Len(s))) = Len(s)
               /\ \A i \in 1..Len(s) : SubSeq(t, 1, Len(s))[i] = t[i]
    BY <1>1, <1>2
  <1>3. Len(s) <= Len(t) /\ (\A i \in 1..Len(s) : s[i] = t[i]) => s = SubSeq(t, 1, Len(s))
    BY <1>1, <1>2, SeqEqual
  <1>4. Len(s) <= Len(t) /\ s = SubSeq(t, 1, Len(s)) => \A i \in 1..Len(s) : s[i] = t[i]
    BY <1>2
  <1>5. QED
    BY <1>1, <1>3, <1>4, Zenon DEF IsPrefix

LEMMA PrefixConcat ==
  ASSUME NEW S, NEW s \in Seq(S), NEW t \in Seq(S), NEW u \in Seq(S), IsPrefix(s, t)
  PROVE  t \o u \in Seq(S) /\ IsPrefix(s, t \o u)
  <1>1. Len(s) \in Nat /\ Len(t) \in Nat /\ Len(u) \in Nat
    BY LenProperties
  <1>2. Len(s) <= Len(t) /\ \A i \in 1..Len(s) : s[i] = t[i]
    BY PrefixIs
  <1>3. /\ t \o u \in Seq(S) /\ Len(t \o u) = Len(t) + Len(u)
        /\ \A i \in 1..(Len(t) + Len(u)) : (t \o u)[i] = IF i <= Len(t) THEN t[i]
                                                                  ELSE u[i - Len(t)]
    BY ConcatProperties
  <1>4. Len(s) <= Len(t \o u)
    BY <1>1, <1>2, <1>3
  <1>5. ASSUME NEW i \in 1..Len(s) PROVE s[i] = (t \o u)[i]
    <2>1. i \in 1..(Len(t) + Len(u)) /\ i <= Len(t)
      BY <1>1, <1>2
    <2>2. QED
      BY <1>2, <1>3, <2>1
  <1>6. QED
    BY <1>3, <1>4, <1>5, PrefixIs

LEMMA PrefixTransitive ==
  ASSUME NEW S, NEW s \in Seq(S), NEW t \in Seq(S), NEW u \in Seq(S),
         IsPrefix(s, t), IsPrefix(t, u)
  PROVE  IsPrefix(s, u)
  <1>1. Len(s) \in Nat /\ Len(t) \in Nat /\ Len(u) \in Nat
    BY LenProperties
  <1>2. Len(s) <= Len(t) /\ \A i \in 1..Len(s) : s[i] = t[i]
    BY PrefixIs
  <1>3. Len(t) <= Len(u) /\ \A i \in 1..Len(t) : t[i] = u[i]
    BY PrefixIs
  <1>4. Len(s) <= Len(u) /\ \A i \in 1..Len(s) : i \in 1..Len(t)
    BY <1>1, <1>2, <1>3
  <1>5. QED
    BY <1>2, <1>3, <1>4, PrefixIs

\* What each message of s contributes by the table G, in a row.
Gather(G, s) == FlattenSeq([i \in 1..Len(s) |-> G[s[i]]])

LEMMA GatherType ==
  ASSUME NEW M, NEW S, NEW G \in [M -> Seq(S)], NEW s \in Seq(M)
  PROVE  /\ [i \in 1..Len(s) |-> G[s[i]]] \in Seq(Seq(S))
         /\ Gather(G, s) \in Seq(S)
  <1>1. [i \in 1..Len(s) |-> G[s[i]]] \in Seq(Seq(S))
    OBVIOUS
  <1>2. QED
    BY <1>1, FlattenType DEF Gather

LEMMA GatherAppend ==
  ASSUME NEW M, NEW S, NEW G \in [M -> Seq(S)], NEW s \in Seq(M), NEW m \in M
  PROVE  Gather(G, Append(s, m)) = Gather(G, s) \o G[m]
  <1> DEFINE ss == [i \in 1..Len(s) |-> G[s[i]]]
             t  == Append(s, m)
  <1>1. ss \in Seq(Seq(S)) /\ Len(ss) = Len(s) /\ G[m] \in Seq(S)
    OBVIOUS
  <1>2. /\ t \in Seq(M) /\ Len(s) \in Nat /\ Len(t) = Len(s) + 1 /\ t[Len(s) + 1] = m
        /\ \A i \in 1..Len(s) : t[i] = s[i]
    BY AppendProperties, LenProperties
  <1>3. [i \in 1..Len(t) |-> G[t[i]]] \in Seq(Seq(S))
    BY <1>2, GatherType
  <1>4. [i \in 1..Len(t) |-> G[t[i]]] = Append(ss, G[m])
    <2>1. /\ Append(ss, G[m]) \in Seq(Seq(S)) /\ Len(Append(ss, G[m])) = Len(s) + 1
          /\ \A i \in 1..Len(s) : Append(ss, G[m])[i] = ss[i]
          /\ Append(ss, G[m])[Len(s) + 1] = G[m]
      BY <1>1, AppendProperties
    <2>2. \A i \in 1..Len(s) : ss[i] = G[s[i]]
      OBVIOUS
    <2> HIDE DEF ss, t
    <2>3. \A i \in 1..(Len(s) + 1) : i \in 1..Len(s) \/ i = Len(s) + 1
      BY <1>2
    <2>4. \A i \in 1..(Len(s) + 1) : G[t[i]] = Append(ss, G[m])[i]
      BY <1>2, <2>1, <2>2, <2>3
    <2>5. Len([i \in 1..Len(t) |-> G[t[i]]]) = Len(s) + 1
      BY <1>2, <1>3
    <2>6. QED
      BY <1>2, <1>3, <2>1, <2>4, <2>5, SeqEqual
  <1>5. QED
    BY <1>1, <1>4, FlattenAppend DEF Gather

LEMMA GatherPrefix ==
  ASSUME NEW M, NEW S, NEW G \in [M -> Seq(S)], NEW r \in Seq(M), NEW s \in Seq(M),
         Len(r) <= Len(s), \A i \in 1..Len(r) : r[i] = s[i]
  PROVE  IsPrefix(Gather(G, r), Gather(G, s))
  <1> DEFINE Longer(k) == {t \in Seq(M) : Len(t) = Len(r) + k /\ \A i \in 1..Len(r) : r[i] = t[i]}
             T == {k \in Nat : \A t \in Longer(k) : IsPrefix(Gather(G, r), Gather(G, t))}
  <1>0. Len(r) \in Nat /\ Len(s) \in Nat /\ Gather(G, r) \in Seq(S)
    BY LenProperties, GatherType
  <1>1. 0 \in T
    <2>1. ASSUME NEW t \in Longer(0) PROVE IsPrefix(Gather(G, r), Gather(G, t))
      <3>1. t = r
        BY <1>0, SeqEqual
      <3>2. IsPrefix(Gather(G, r), Gather(G, r))
        BY <1>0, PrefixIs
      <3>3. QED
        BY <3>1, <3>2
    <2>2. QED
      BY <2>1
  <1>2. ASSUME NEW k \in Nat, k \in T PROVE k + 1 \in T
    <2>1. ASSUME NEW t \in Longer(k + 1) PROVE IsPrefix(Gather(G, r), Gather(G, t))
      <3>1. t \in Seq(M) /\ Len(t) = Len(r) + (k + 1) /\ \A i \in 1..Len(r) : r[i] = t[i]
        OBVIOUS
      <3>2. t # <<>>
        BY <1>0, <3>1, EmptySeq
      <3>3. PICK u \in Seq(M), m \in M : t = Append(u, m)
        BY <3>1, <3>2, SequenceEmptyOrAppend
      <3>4. Len(u) \in Nat /\ Len(t) = Len(u) + 1 /\ \A i \in 1..Len(u) : t[i] = u[i]
        BY <3>3, AppendProperties, LenProperties
      <3>5. Len(u) = Len(r) + k /\ \A i \in 1..Len(r) : i \in 1..Len(u)
        BY <1>0, <3>1, <3>4
      <3>6. u \in Longer(k)
        BY <3>1, <3>4, <3>5
      <3>7. IsPrefix(Gather(G, r), Gather(G, u))
        BY <1>2, <3>6
      <3>8. Gather(G, t) = Gather(G, u) \o G[m]
        BY ZenonT(60), <3>3, GatherAppend
      <3>9. Gather(G, u) \in Seq(S) /\ G[m] \in Seq(S)
        BY GatherType
      <3>10. QED
        BY <1>0, <3>7, <3>8, <3>9, PrefixConcat
    <2> HIDE DEF Longer
    <2>2. QED
      BY <2>1
  <1>3. Nat \subseteq T
    BY <1>1, <1>2, Induction
  <1>4. Len(s) - Len(r) \in T /\ s \in Longer(Len(s) - Len(r))
    <2>1. Len(s) - Len(r) \in Nat /\ Len(s) = Len(r) + (Len(s) - Len(r))
      BY <1>0
    <2>2. s \in Longer(Len(s) - Len(r))
      BY <2>1
    <2> HIDE DEF T
    <2>3. QED
      BY <1>3, <2>1, <2>2
  <1>5. QED
    BY <1>4

-------------------------------------------------------------------------------
(* The answers of the client.                                                 *)

Loaded == Messages \cup {"junk"}

AnswerTable == [m \in Loaded |-> IF m \in {"C", "R"} THEN <<m>> ELSE <<>>]
OweTable    == [m \in Loaded |-> IF m = "F" THEN <<"C", "R">> ELSE <<"C">>]

LEMMA Tables ==
  /\ AnswerTable \in [Loaded -> Seq({"C", "R"})] /\ OweTable \in [Loaded -> Seq({"C", "R"})]
  /\ \A s \in Seq(Loaded) : Answers(s) = Gather(AnswerTable, s) /\ Owed(s) = Gather(OweTable, s)
  <1>1. AnswerTable \in [Loaded -> Seq({"C", "R"})]
    <2>1. \A m \in {"C", "R"} : <<m>> \in Seq({"C", "R"})
      OBVIOUS
    <2>2. QED
      BY <2>1, EmptySeq DEF AnswerTable
  <1>2. OweTable \in [Loaded -> Seq({"C", "R"})]
    <2>1. <<"C", "R">> \in Seq({"C", "R"}) /\ <<"C">> \in Seq({"C", "R"})
      OBVIOUS
    <2>2. QED
      BY <2>1 DEF OweTable
  <1>3. ASSUME NEW s \in Seq(Loaded)
        PROVE  Answers(s) = Gather(AnswerTable, s) /\ Owed(s) = Gather(OweTable, s)
    <2>1. \A i \in 1..Len(s) : s[i] \in Loaded
      BY ElementOfSeq
    <2>2. [i \in 1..Len(s) |-> IF s[i] \in {"C", "R"} THEN <<s[i]>> ELSE <<>>]
            = [i \in 1..Len(s) |-> AnswerTable[s[i]]]
      BY <2>1 DEF AnswerTable
    <2>3. [i \in 1..Len(s) |-> IF s[i] = "F" THEN <<"C", "R">> ELSE <<"C">>]
            = [i \in 1..Len(s) |-> OweTable[s[i]]]
      BY <2>1 DEF OweTable
    <2>4. QED
      BY <2>2, <2>3 DEF Answers, Owed, Gather
  <1>4. QED
    BY <1>1, <1>2, <1>3

LEMMA AnswersAre ==
  ASSUME NEW s \in Seq(Loaded), NEW m \in Loaded
  PROVE  /\ Answers(s) \in Seq({"C", "R"})
         /\ m \in {"C", "R"} => Answers(Append(s, m)) = Answers(s) \o <<m>>
         /\ m \notin {"C", "R"} => Answers(Append(s, m)) = Answers(s)
  <1>1. Append(s, m) \in Seq(Loaded)
    BY AppendProperties
  <1>2. AnswerTable[m] = IF m \in {"C", "R"} THEN <<m>> ELSE <<>>
    BY DEF AnswerTable
  <1>3. /\ Gather(AnswerTable, s) \in Seq({"C", "R"})
        /\ Gather(AnswerTable, Append(s, m)) = Gather(AnswerTable, s) \o AnswerTable[m]
    BY ZenonT(60), Tables, GatherType, GatherAppend
  <1>4. Gather(AnswerTable, s) \o <<>> = Gather(AnswerTable, s)
    BY <1>3, ConcatEmptySeq
  <1>5. /\ Answers(s) = Gather(AnswerTable, s)
        /\ Answers(Append(s, m)) = Gather(AnswerTable, Append(s, m))
    BY <1>1, Tables
  <1>6. QED
    BY <1>2, <1>3, <1>4, <1>5

LEMMA OwedIs ==
  ASSUME NEW s \in Seq(Loaded), NEW m \in Loaded
  PROVE  /\ Owed(s) \in Seq({"C", "R"})
         /\ Owed(Append(s, m)) = Owed(s) \o Confirmed(m)
  <1>1. Append(s, m) \in Seq(Loaded)
    BY AppendProperties
  <1>2. OweTable[m] = Confirmed(m)
    <2>1. <<"C">> \o <<"R">> = <<"C", "R">>
      <3>1. <<"C">> \in Seq({"C", "R"}) /\ <<"R">> \in Seq({"C", "R"})
        OBVIOUS
      <3>2. Append(<<"C">>, "R") = <<"C">> \o <<"R">>
        BY <3>1, AppendIsConcat
      <3>3. Append(<<"C">>, "R") = <<"C", "R">>
        <4>1. /\ Append(<<"C">>, "R") \in Seq({"C", "R"}) /\ Len(Append(<<"C">>, "R")) = 2
              /\ Append(<<"C">>, "R")[1] = "C" /\ Append(<<"C">>, "R")[2] = "R"
          BY <3>1, AppendProperties
        <4>2. /\ <<"C", "R">> \in Seq({"C", "R"}) /\ Len(<<"C", "R">>) = 2
              /\ <<"C", "R">>[1] = "C" /\ <<"C", "R">>[2] = "R"
          OBVIOUS
        <4>3. \A i \in 1..2 : i = 1 \/ i = 2
          OBVIOUS
        <4>4. QED
          BY <4>1, <4>2, <4>3, SeqEqual
      <3>4. QED
        BY <3>2, <3>3
    <2>2. <<"C">> \o <<>> = <<"C">>
      <3>1. <<"C">> \in Seq({"C", "R"})
        OBVIOUS
      <3>2. QED
        BY <3>1, ConcatEmptySeq
    <2>3. QED
      BY <2>1, <2>2 DEF OweTable, Confirmed, Confirmation, Decoding, HashReply
  <1>3. /\ Gather(OweTable, s) \in Seq({"C", "R"})
        /\ Gather(OweTable, Append(s, m)) = Gather(OweTable, s) \o OweTable[m]
    BY ZenonT(60), Tables, GatherType, GatherAppend
  <1>4. Owed(s) = Gather(OweTable, s) /\ Owed(Append(s, m)) = Gather(OweTable, Append(s, m))
    BY <1>1, Tables
  <1>5. QED
    BY <1>2, <1>3, <1>4

\* What arrives is the beginning of what was sent.
Arrives(d) == Len(rcvd[d]) <= Len(sent[d]) /\ \A i \in 1..Len(rcvd[d]) : rcvd[d][i] = sent[d][i]

LEMMA ArrivesPrefix ==
  ASSUME FrameTypeOK, \A d \in Dirs : Arrives(d)
  PROVE  /\ IsPrefix(Answers(rcvd["up"]), Answers(sent["up"]))
         /\ IsPrefix(Owed(rcvd["down"]), Owed(sent["down"]))
  <1>1. \A d \in Dirs : rcvd[d] \in Seq(Loaded) /\ sent[d] \in Seq(Loaded)
    BY DEF FrameTypeOK, Loaded
  <1>2. IsPrefix(Gather(AnswerTable, rcvd["up"]), Gather(AnswerTable, sent["up"]))
    BY <1>1, Tables, GatherPrefix DEF Arrives, Dirs
  <1>3. IsPrefix(Gather(OweTable, rcvd["down"]), Gather(OweTable, sent["down"]))
    BY <1>1, Tables, GatherPrefix DEF Arrives, Dirs
  <1>4. QED
    BY <1>1, <1>2, <1>3, Tables DEF Dirs

LEMMA ArrivesStep ==
  ASSUME FrameTypeOK, NEW d \in Dirs, Arrives(d), Delivers(d)
  PROVE  Arrives(d)'
  <1>1. rcvd[d] \in Seq(Loaded) /\ sent[d] \in Seq(Loaded)
    BY DEF FrameTypeOK, Loaded
  <1>2. Len(rcvd[d]) \in Nat /\ Len(sent[d]) \in Nat
    BY <1>1, LenProperties
  <1>3. CASE UNCHANGED <<sent[d], rcvd[d]>>
    BY <1>3 DEF Arrives
  <1>4. CASE (\E m \in Messages : sent'[d] = Append(sent[d], m)) /\ rcvd'[d] = rcvd[d]
    <2>1. PICK m \in Messages : sent'[d] = Append(sent[d], m)
      BY <1>4
    <2>2. Len(sent'[d]) = Len(sent[d]) + 1 /\ \A i \in 1..Len(sent[d]) : sent'[d][i] = sent[d][i]
      BY <1>1, <2>1, AppendProperties DEF Loaded
    <2>3. \A i \in 1..Len(rcvd[d]) : i \in 1..Len(sent[d])
      BY <1>2 DEF Arrives
    <2>4. Len(rcvd[d]) <= Len(sent[d]) + 1
      BY <1>2 DEF Arrives
    <2>5. QED
      BY <1>4, <2>2, <2>3, <2>4 DEF Arrives
  <1>5. CASE /\ Len(rcvd[d]) < Len(sent[d]) /\ sent'[d] = sent[d]
             /\ rcvd'[d] = Append(rcvd[d], sent[d][Len(rcvd[d]) + 1])
    <2>1. Len(rcvd[d]) + 1 \in 1..Len(sent[d])
      BY <1>2, <1>5
    <2>2. sent[d][Len(rcvd[d]) + 1] \in Loaded
      BY <1>1, <2>1, ElementOfSeq
    <2>3. /\ Len(rcvd'[d]) = Len(rcvd[d]) + 1
          /\ \A i \in 1..Len(rcvd[d]) : rcvd'[d][i] = rcvd[d][i]
          /\ rcvd'[d][Len(rcvd[d]) + 1] = sent[d][Len(rcvd[d]) + 1]
      BY <1>1, <1>5, <2>2, AppendProperties
    <2>4. \A i \in 1..(Len(rcvd[d]) + 1) : i \in 1..Len(rcvd[d]) \/ i = Len(rcvd[d]) + 1
      BY <1>2
    <2>5. Len(rcvd[d]) + 1 <= Len(sent[d])
      BY <2>1
    <2>6. QED
      BY <1>5, <2>3, <2>4, <2>5 DEF Arrives
  <1>6. QED
    BY <1>3, <1>4, <1>5 DEF Delivers

\* The keyboard thread sends no answers, the receiver nothing else; and the answers it has
\* begun to send, with those it has still to send, are those owed to what it has read.
Pending == IF Idle("recv") THEN todo["recv"] ELSE Tail(todo["recv"])

Answering ==
  /\ \A i \in 1..Len(todo["keys"]) : todo["keys"][i] \notin {"C", "R"}
  /\ todo["recv"] \in Seq({"C", "R"})
  /\ (\A d \in Dirs : fault[d] = {}) =>
       /\ \A d \in Dirs : Arrives(d)
       /\ Answers(sent["up"]) \o Pending = Owed(rcvd["down"])

LEMMA AnsweringIsOrdered == FrameInv /\ Answering => AnswersInOrder
  <1> SUFFICES ASSUME FrameInv, Answering, \A d \in Dirs : fault[d] = {}
               PROVE  IsPrefix(Answers(rcvd["up"]), Owed(sent["down"]))
    BY DEF AnswersInOrder
  <1>1. \A d \in Dirs : rcvd[d] \in Seq(Loaded) /\ sent[d] \in Seq(Loaded)
    BY DEF FrameInv, FrameTypeOK, Loaded
  <1>2. /\ Answers(rcvd["up"]) \in Seq({"C", "R"}) /\ Answers(sent["up"]) \in Seq({"C", "R"})
        /\ Owed(rcvd["down"]) \in Seq({"C", "R"}) /\ Owed(sent["down"]) \in Seq({"C", "R"})
    <2>1. ASSUME NEW s \in Seq(Loaded)
          PROVE  Answers(s) \in Seq({"C", "R"}) /\ Owed(s) \in Seq({"C", "R"})
      <3>1. Gather(AnswerTable, s) \in Seq({"C", "R"})
        BY Tables, GatherType
      <3>2. Gather(OweTable, s) \in Seq({"C", "R"})
        BY Tables, GatherType
      <3>3. QED
        BY <3>1, <3>2, Tables
    <2>2. QED
      BY <1>1, <2>1 DEF Dirs
  <1>3. /\ IsPrefix(Answers(rcvd["up"]), Answers(sent["up"]))
        /\ IsPrefix(Owed(rcvd["down"]), Owed(sent["down"]))
    BY ArrivesPrefix DEF FrameInv, Answering
  <1>4. Pending \in Seq({"C", "R"})
    BY HeadTailProperties DEF FrameInv, Busy, Here, Answering, Pending, Writers
  <1>5. IsPrefix(Answers(rcvd["up"]), Owed(rcvd["down"]))
    <2>1. IsPrefix(Answers(rcvd["up"]), Answers(sent["up"]) \o Pending)
      BY <1>2, <1>3, <1>4, PrefixConcat
    <2>2. QED
      BY <2>1 DEF Answering
  <1>6. QED
    BY <1>2, <1>3, <1>5, PrefixTransitive

LEMMA AnsweringInit == Init => Answering
  <1> SUFFICES ASSUME Init PROVE Answering
    OBVIOUS
  <1>1. /\ todo["keys"] = <<>> /\ todo["recv"] = <<>> /\ Idle("recv")
        /\ \A d \in Dirs : sent[d] = <<>> /\ rcvd[d] = <<>>
    BY DEF Init, FrameInit, Writers, Idle, NoCall
  <1>2. Answers(<<>>) = <<>> /\ Owed(<<>>) = <<>>
    <2>1. Len(<<>>) = 0
      OBVIOUS
    <2>2. [i \in 1..Len(<<>>) |-> IF <<>>[i] \in {"C", "R"} THEN <<<<>>[i]>> ELSE <<>>] = <<>>
      BY <2>1
    <2>3. [i \in 1..Len(<<>>) |-> IF <<>>[i] = "F" THEN <<"C", "R">> ELSE <<"C">>] = <<>>
      BY <2>1
    <2>4. FlattenSeq(<<>>) = <<>>
      BY <2>1 DEF FlattenSeq
    <2>5. QED
      BY <2>2, <2>3, <2>4 DEF Answers, Owed
  <1>3. Len(<<>>) = 0 /\ <<>> \o <<>> = <<>> /\ <<>> \in Seq({"C", "R"})
    BY EmptySeq, ConcatEmptySeq
  <1>4. \A d \in Dirs : Arrives(d)
    BY <1>1, <1>3 DEF Arrives
  <1>5. Answers(sent["up"]) \o Pending = Owed(rcvd["down"])
    BY <1>1, <1>2, <1>3 DEF Pending, Dirs
  <1>6. QED
    BY <1>1, <1>3, <1>4, <1>5 DEF Answering

\* What is left to show of a step: the rest of Answering is about the channels.
LEMMA AnsweringStays ==
  ASSUME Inv, [Next]_vars, Answering,
         \A i \in 1..Len(todo'["keys"]) : todo'["keys"][i] \notin {"C", "R"},
         todo'["recv"] \in Seq({"C", "R"}),
         (\A d \in Dirs : fault[d] = {} /\ fault'[d] = {}) =>
           Answers(sent["up"])' \o Pending' = Owed(rcvd["down"])'
  PROVE  Answering'
  <1>1. FrameInv /\ FrameTypeOK /\ FrameStep
    BY Steps DEF Inv, FrameInv
  <1>2. ASSUME \A d \in Dirs : fault'[d] = {} PROVE \A d \in Dirs : fault[d] = {}
    BY <1>1, <1>2, FaultsStay
  <1>3. ASSUME \A d \in Dirs : fault'[d] = {}, NEW d \in Dirs PROVE Arrives(d)'
    <2>1. Arrives(d)
      BY <1>2, <1>3 DEF Answering
    <2>2. Delivers(d)
      BY <1>3, InvStep
    <2>3. QED
      BY <1>1, <2>1, <2>2, ArrivesStep
  <1>4. QED
    BY <1>2, <1>3 DEF Answering

\* A step that leaves the sending up and the reading down alone.
LEMMA AnsweringKept ==
  ASSUME Inv, [Next]_vars, Answering,
         \A i \in 1..Len(todo'["keys"]) : todo'["keys"][i] \notin {"C", "R"},
         todo'["recv"] \in Seq({"C", "R"}),
         (\A d \in Dirs : fault[d] = {} /\ fault'[d] = {}) =>
           sent'["up"] = sent["up"] /\ Pending' = Pending /\ rcvd'["down"] = rcvd["down"]
  PROVE  Answering'
  <1>1. ASSUME \A d \in Dirs : fault[d] = {} /\ fault'[d] = {}
        PROVE  Answers(sent["up"])' \o Pending' = Owed(rcvd["down"])'
    <2>1. Answers(sent["up"]) \o Pending = Owed(rcvd["down"])
      BY <1>1 DEF Answering
    <2>2. Answers(sent["up"])' = Answers(sent["up"]) /\ Owed(rcvd["down"])' = Owed(rcvd["down"])
      BY <1>1 DEF Answers, Owed
    <2>3. QED
      BY <1>1, <2>1, <2>2
  <1>2. QED
    BY <1>1, AnsweringStays

\* No request that is typed is an answer.
LEMMA RequestsPlain ==
  ASSUME NEW k \in DOMAIN Requests, NEW rs \in Requests[k], NEW i \in 1..Len(rs)
  PROVE  rs[i] \notin {"C", "R"}
  <1>1. rs = <<>> \/ \E m \in {"N", "M", "W", "F", "P", "L", "V", "B", "Q"} : rs = <<m>>
    BY DEF Requests, Text, FileRequest, PlayRequest
  <1>2. rs # <<>>
    OBVIOUS
  <1>3. PICK m \in {"N", "M", "W", "F", "P", "L", "V", "B", "Q"} : rs = <<m>>
    BY <1>1, <1>2
  <1>4. Len(<<m>>) = 1 /\ <<m>>[1] = m
    OBVIOUS
  <1>5. QED
    BY <1>3, <1>4

LEMMA TypeAnswers == ASSUME Inv, [Next]_vars, Answering, NEW l \in Lines, Type(l) PROVE Answering'
  <1>1. PICK rs \in IF l = "empty" THEN {<<>>} ELSE Requests[TypeOf(l)] :
          todo' = [todo EXCEPT !["keys"] = rs]
    BY DEF Type
  <1>2. TypeOf(l) \in DOMAIN Requests
    BY SessionAssumption DEF TypeOf, Inv, SessionTypeOK
  <1>3. \A i \in 1..Len(rs) : rs[i] \notin {"C", "R"}
    <2>1. CASE rs = <<>>
      BY <2>1
    <2>2. CASE rs \in Requests[TypeOf(l)]
      BY <1>2, <2>2, RequestsPlain
    <2>3. QED
      BY <1>1, <2>1, <2>2
  <1>4. todo'["keys"] = rs /\ todo'["recv"] = todo["recv"]
    BY <1>1 DEF Inv, FrameInv, FrameTypeOK, Writers
  <1>5. Pending' = Pending /\ UNCHANGED <<sent, rcvd>>
    BY <1>4 DEF Type, history, Pending, Idle
  <1>6. QED
    BY <1>3, <1>4, <1>5, AnsweringKept DEF Answering

LEMMA RelayAnswers ==
  ASSUME Inv, [Next]_vars, Answering, NEW p \in Peers, NEW m, Relay(p, m)
  PROVE  Answering'
  <1>1. todo'["keys"] = todo["keys"] /\ todo'["recv"] = todo["recv"]
    BY FramingAssumption DEF Relay, Inv, FrameInv, FrameTypeOK, Writers
  <1>2. Pending' = Pending /\ UNCHANGED <<sent, rcvd>>
    BY <1>1 DEF Relay, history, Pending, Idle
  <1>3. QED
    BY <1>1, <1>2, AnsweringKept DEF Answering

LEMMA OtherFillAnswers ==
  ASSUME Inv, [Next]_vars, Answering, NEW w \in Writers \ {"keys", "recv"}, Fill(w)
  PROVE  Answering'
  <1>1. /\ sent'["up"] = sent["up"] /\ rcvd' = rcvd /\ todo' = todo /\ call'["recv"] = call["recv"]
    BY DEF Fill, Way, Inv, FrameInv, FrameTypeOK, Dirs, Writers
  <1>2. Pending' = Pending
    BY <1>1 DEF Pending, Idle
  <1>3. QED
    BY <1>1, <1>2, AnsweringKept DEF Answering

\* The message a client's thread begins to send.
LEMMA FillUp ==
  ASSUME Inv, NEW w \in {"keys", "recv"}, Fill(w)
  PROVE  /\ todo[w] \in Seq(Messages) /\ todo[w] # <<>> /\ Head(todo[w]) \in Loaded
         /\ Head(todo[w]) = todo[w][1] /\ 1 \in 1..Len(todo[w]) /\ Idle(w)
         /\ sent["up"] \in Seq(Loaded) /\ sent'["up"] = Append(sent["up"], Head(todo[w]))
         /\ UNCHANGED <<rcvd, todo>>
         /\ call' = [call EXCEPT ![w] = [NoCall EXCEPT !.rest = FrameLen]]
  <1>1. w \in Writers /\ Way(w) = "up"
    BY DEF Writers, Way
  <1>2. todo[w] \in Seq(Messages) /\ todo[w] # <<>> /\ sent["up"] \in Seq(Loaded)
    <2>1. todo[w] \in Seq(Words(w)) /\ w # "own"
      BY <1>1 DEF Inv, FrameInv, FrameTypeOK
    <2>2. todo[w] \in Seq(Messages)
      BY <2>1 DEF Words
    <2>3. QED
      BY <1>1, <2>2 DEF Fill, Here, Inv, FrameInv, FrameTypeOK, Loaded, Dirs
  <1>3. Head(todo[w]) \in Messages /\ Head(todo[w]) = todo[w][1] /\ 1 \in 1..Len(todo[w])
    BY <1>2, HeadTailProperties, EmptySeq
  <1>4. sent'["up"] = Append(sent["up"], Head(todo[w]))
    BY <1>1 DEF Fill, Inv, FrameInv, FrameTypeOK, Dirs
  <1>5. QED
    BY <1>2, <1>3, <1>4 DEF Fill, Loaded

LEMMA KeysFillAnswers == ASSUME Inv, [Next]_vars, Answering, Fill("keys") PROVE Answering'
  <1>1. Head(todo["keys"]) \in Loaded /\ Head(todo["keys"]) \notin {"C", "R"}
    BY FillUp DEF Answering
  <1>2. Answers(sent'["up"]) = Answers(sent["up"])
    <2>1. /\ sent["up"] \in Seq(Loaded)
          /\ sent'["up"] = Append(sent["up"], Head(todo["keys"]))
      BY FillUp
    <2>2. QED
      BY <1>1, <2>1, AnswersAre
  <1>3. Pending' = Pending /\ todo' = todo /\ rcvd' = rcvd
    BY FillUp DEF Pending, Idle, Inv, FrameInv, FrameTypeOK, Writers
  <1>4. Answers(sent["up"])' = Answers(sent["up"]) /\ Owed(rcvd["down"])' = Owed(rcvd["down"])
    BY <1>2, <1>3 DEF Answers, Owed
  <1>5. QED
    BY <1>3, <1>4, AnsweringStays DEF Answering

LEMMA RecvFillAnswers == ASSUME Inv, [Next]_vars, Answering, Fill("recv") PROVE Answering'
  <1> DEFINE h == Head(todo["recv"])
             t == Tail(todo["recv"])
  <1>1. todo["recv"] \in Seq({"C", "R"}) /\ todo["recv"] # <<>> /\ Idle("recv")
    BY FillUp DEF Answering
  <1>2. h \in {"C", "R"} /\ t \in Seq({"C", "R"}) /\ <<h>> \in Seq({"C", "R"})
    BY <1>1, HeadTailProperties
  <1>3. <<h>> \o t = todo["recv"]
    BY <1>1, <1>2
  <1>4. sent["up"] \in Seq(Loaded) /\ h \in Loaded /\ sent'["up"] = Append(sent["up"], h)
    BY FillUp
  <1>5. todo' = todo /\ rcvd' = rcvd /\ ~Idle("recv")'
    BY FillUp DEF Idle, NoCall, FrameLen, Inv, FrameInv, FrameTypeOK, Writers
  <1>6. Pending = todo["recv"] /\ Pending' = t
    BY <1>1, <1>5 DEF Pending
  <1> HIDE DEF h, t
  <1>7. /\ Answers(sent["up"]) \in Seq({"C", "R"})
        /\ Answers(sent'["up"]) = Answers(sent["up"]) \o <<h>>
    BY <1>2, <1>4, AnswersAre
  <1>8. Answers(sent'["up"]) \o t = Answers(sent["up"]) \o todo["recv"]
    <2>1. (Answers(sent["up"]) \o <<h>>) \o t = Answers(sent["up"]) \o (<<h>> \o t)
      BY <1>2, <1>7, ConcatAssociative
    <2>2. QED
      BY <1>3, <1>7, <2>1
  <1>9. Answers(sent["up"])' = Answers(sent'["up"]) /\ Owed(rcvd["down"])' = Owed(rcvd["down"])
    BY <1>5 DEF Answers, Owed
  <1>10. QED
    BY <1>5, <1>6, <1>8, <1>9, AnsweringStays DEF Answering

LEMMA CopyAnswers ==
  ASSUME Inv, [Next]_vars, Answering, NEW w \in Writers, NEW k \in 1..FrameLen, Copy(w, k)
  PROVE  Answering'
  <1>1. /\ UNCHANGED <<sent, rcvd>> /\ ~Idle(w) /\ todo[w] \in Seq(Entries) /\ todo[w] # <<>>
    BY CopyIs DEF Copy, history, Inv
  <1>2. \/ /\ call' = [call EXCEPT ![w] = NoCall] /\ todo' = [todo EXCEPT ![w] = Tail(@)]
        \/ /\ call' = [call EXCEPT ![w].done = call[w].done + k] /\ todo' = todo
    BY DEF Copy
  <1>3. Pending' = Pending
    <2>1. CASE call' = [call EXCEPT ![w] = NoCall] /\ todo' = [todo EXCEPT ![w] = Tail(@)]
      BY <1>1, <2>1 DEF Pending, Idle, NoCall, Inv, FrameInv, FrameTypeOK, Writers
    <2>2. CASE call' = [call EXCEPT ![w].done = call[w].done + k] /\ todo' = todo
      <3>1. call["recv"] \in Calls /\ call \in [Writers -> Calls]
        BY DEF Inv, FrameInv, FrameTypeOK, Writers
      <3>2. call'["recv"].rest = call["recv"].rest
        BY <2>2, <3>1 DEF Calls, Writers
      <3>3. QED
        BY <2>2, <3>2 DEF Pending, Idle
    <2>3. QED
      BY <1>2, <2>1, <2>2
  <1>4. \A i \in 1..Len(todo'["keys"]) : todo'["keys"][i] \notin {"C", "R"}
    <2>1. CASE todo'["keys"] = todo["keys"]
      BY <2>1 DEF Answering
    <2>2. CASE todo'["keys"] = Tail(todo["keys"]) /\ w = "keys"
      <3>1. /\ Len(Tail(todo["keys"])) = Len(todo["keys"]) - 1 /\ Len(todo["keys"]) \in Nat
            /\ \A i \in 1..Len(Tail(todo["keys"])) : Tail(todo["keys"])[i] = todo["keys"][i + 1]
        BY <1>1, <2>2, HeadTailProperties, LenProperties
      <3>2. \A i \in 1..(Len(todo["keys"]) - 1) : i + 1 \in 1..Len(todo["keys"])
        BY <3>1
      <3>3. QED
        BY <2>2, <3>1, <3>2 DEF Answering
    <2>3. QED
      BY <1>2, <2>1, <2>2 DEF Inv, FrameInv, FrameTypeOK, Writers
  <1>5. todo'["recv"] \in Seq({"C", "R"})
    <2>1. CASE todo'["recv"] = todo["recv"]
      BY <2>1 DEF Answering
    <2>2. CASE todo'["recv"] = Tail(todo["recv"]) /\ w = "recv"
      BY <1>1, <2>2, HeadTailProperties DEF Answering
    <2>3. QED
      BY <1>2, <2>1, <2>2 DEF Inv, FrameInv, FrameTypeOK, Writers
  <1>6. QED
    BY <1>1, <1>3, <1>4, <1>5, AnsweringKept

LEMMA ShortCountAnswers ==
  ASSUME Inv, [Next]_vars, Answering, NEW w \in Writers, ShortCount(w)
  PROVE  Answering'
  <1>1. UNCHANGED <<todo, sent, rcvd>> /\ call' = [call EXCEPT ![w] = Again(call[w])]
    BY DEF ShortCount
  <1>2. /\ call \in [Writers -> Calls] /\ call[w].done \in Nat /\ call[w].rest \in Nat
        /\ call[w].done \in 1..(call[w].rest - 1)
    BY CallFields DEF ShortCount, Inv, FrameInv, FrameTypeOK
  <1>3. call[w].rest # 0 /\ call[w].rest - call[w].done # 0
    BY <1>2
  <1>4. Idle("recv")' = Idle("recv")
    BY <1>1, <1>2, <1>3 DEF Idle, Again, Writers
  <1>5. Pending' = Pending
    BY <1>1, <1>4 DEF Pending
  <1>6. QED
    BY <1>1, <1>5, AnsweringKept DEF Answering

\* A reader of the server's.
LEMMA ServerAnswers ==
  ASSUME Inv, [Next]_vars, Answering, ServerRecv \/ Quit
  PROVE  Answering'
  <1> DEFINE Reads == /\ UNCHANGED <<sent, call>> /\ rcvd'["down"] = rcvd["down"]
                      /\ todo' = todo \/ \E ans : todo' = [todo EXCEPT !["own"] = ans]
  <1>1. Reads
    <2>1. ASSUME NEW ans, RecvHeader("up", ans) \/ RecvBody("up", ans) PROVE Reads
      BY <2>1 DEF RecvHeader, RecvBody, Load, Reader, Inv, FrameInv, FrameTypeOK, Dirs
    <2>2. CASE Quit
      BY <2>2 DEF Quit, Load, Reader, Inv, FrameInv, FrameTypeOK, Dirs
    <2> HIDE DEF Reads
    <2>3. QED
      BY <2>1, <2>2 DEF ServerRecv
  <1>2. todo'["keys"] = todo["keys"] /\ todo'["recv"] = todo["recv"]
    BY <1>1 DEF Inv, FrameInv, FrameTypeOK, Writers
  <1>3. Pending' = Pending
    BY <1>1, <1>2 DEF Pending, Idle
  <1>4. QED
    BY <1>1, <1>2, <1>3, AnsweringKept DEF Answering

LEMMA ConfirmedAnswers == \A m : Confirmed(m) \in Seq({"C", "R"})
  <1>1. /\ <<"C">> \in Seq({"C", "R"}) /\ <<"R">> \in Seq({"C", "R"})
        /\ <<>> \in Seq({"C", "R"})
    OBVIOUS
  <1>2. <<"C">> \o <<"R">> \in Seq({"C", "R"}) /\ <<"C">> \o <<>> \in Seq({"C", "R"})
    BY <1>1, ConcatProperties
  <1>3. QED
    BY <1>2 DEF Confirmed, Decoding, HashReply, Confirmation

\* The header of a message, or of what is taken for one after a fault.
LEMMA HeaderAnswers ==
  ASSUME Inv, [Next]_vars, Answering, NEW ans \in Seq({"C", "R"}), RecvHeader("down", ans)
  PROVE  Answering'
  <1>1. /\ UNCHANGED <<sent, call>>
        /\ todo' = todo \/ todo' = [todo EXCEPT !["recv"] = ans]
    BY DEF RecvHeader, Load, Reader
  <1>2. todo'["keys"] = todo["keys"] /\ todo'["recv"] \in Seq({"C", "R"})
    BY <1>1 DEF Inv, FrameInv, FrameTypeOK, Writers, Answering
  <1>3. ASSUME fault["down"] = {}, fault'["down"] = {} PROVE UNCHANGED <<rcvd, todo>>
    <2>1. Intact("down") /\ "down" \in Dirs /\ FrameInv
      BY <1>3 DEF Inv, ChannelInv, Dirs
    <2>2. ans \in Seq(Words(Reader("down")))
      <3>1. ans \in Seq(Messages)
        BY Letter
      <3>2. QED
        BY <3>1, Wording
    <2>3. QED
      BY <1>3, <2>1, <2>2, HeaderReads
  <1>4. ASSUME \A d \in Dirs : fault[d] = {} /\ fault'[d] = {}
        PROVE  sent'["up"] = sent["up"] /\ Pending' = Pending /\ rcvd'["down"] = rcvd["down"]
    BY <1>1, <1>3, <1>4 DEF Dirs, Pending, Idle
  <1>5. QED
    BY <1>2, <1>4, AnsweringKept DEF Answering

\* A message is read: the receiver owes its answers, and owed nothing before.
LEMMA BodyAnswers ==
  ASSUME Inv, [Next]_vars, Answering,
         RecvBody("down", Confirmed(Body(Head(stream["down"]))))
  PROVE  Answering'
  <1> DEFINE m == Body(Head(stream["down"]))
  <1>1. m \in Loaded /\ rcvd["down"] \in Seq(Loaded) /\ sent["up"] \in Seq(Loaded)
    BY HeadType DEF RecvBody, Inv, FrameInv, FrameTypeOK, Dirs, Loaded
  <1> HIDE DEF m
  <1>2. /\ UNCHANGED <<sent, call>> /\ rcvd'["down"] = Append(rcvd["down"], m)
        /\ todo["recv"] = <<>> /\ todo'["recv"] = Confirmed(m) /\ todo'["keys"] = todo["keys"]
    BY DEF RecvBody, AtRecv, Load, Reader, Inv, FrameInv, FrameTypeOK, Dirs, Writers, m
  <1>3. Idle("recv") /\ Pending = <<>> /\ Pending' = Confirmed(m)
    BY <1>2 DEF Inv, FrameInv, Busy, Here, Writers, Pending, Idle
  <1>4. ASSUME \A d \in Dirs : fault[d] = {}
        PROVE  Answers(sent["up"]) \o Confirmed(m) = Owed(rcvd'["down"])
    <2>1. Answers(sent["up"]) \o <<>> = Owed(rcvd["down"])
      BY <1>3, <1>4 DEF Answering
    <2>2. Answers(sent["up"]) \in Seq({"C", "R"})
      BY <1>1, AnswersAre
    <2>3. Answers(sent["up"]) = Owed(rcvd["down"])
      BY <2>1, <2>2, ConcatEmptySeq
    <2>4. QED
      BY <1>1, <1>2, <2>3, OwedIs
  <1>5. Answers(sent["up"])' = Answers(sent["up"]) /\ Owed(rcvd["down"])' = Owed(rcvd'["down"])
    BY <1>2 DEF Answers, Owed
  <1>6. QED
    BY <1>2, <1>3, <1>4, <1>5, ConfirmedAnswers, AnsweringStays DEF Answering

LEMMA ClientAnswers == ASSUME Inv, [Next]_vars, Answering, ClientRecv PROVE Answering'
  <1>1. CASE \E m : RecvHeader("down", Confirmed(m))
    BY <1>1, ConfirmedAnswers, HeaderAnswers
  <1>2. CASE RecvHeader("down", <<>>)
    BY <1>2, EmptySeq, HeaderAnswers
  <1>3. CASE RecvBody("down", Confirmed(Body(Head(stream["down"]))))
    BY <1>3, BodyAnswers
  <1>4. QED
    BY <1>1, <1>2, <1>3 DEF ClientRecv

LEMMA IdleAnswers ==
  ASSUME Inv, [Next]_vars, Answering, UNCHANGED <<sending, history>>
  PROVE  Answering'
  <1>1. UNCHANGED <<todo, call, sent, rcvd>>
    BY DEF sending, history
  <1>2. Pending' = Pending
    BY <1>1 DEF Pending, Idle
  <1>3. QED
    BY <1>1, <1>2, AnsweringKept DEF Answering

LEMMA AwayAnswers ==
  ASSUME Inv, [Next]_vars, Answering, SendElsewhere("own")
  PROVE  Answering'
  <1>1. /\ todo'["keys"] = todo["keys"] /\ todo'["recv"] = todo["recv"]
        /\ UNCHANGED <<call, sent, rcvd>>
    BY DEF SendElsewhere, Inv, FrameInv, FrameTypeOK, Writers, history
  <1>2. Pending' = Pending
    BY <1>1 DEF Pending, Idle
  <1>3. QED
    BY <1>1, <1>2, AnsweringKept DEF Answering

LEMMA AnsweringStep == Inv /\ Answering /\ [Next]_vars => Answering'
  <1> SUFFICES ASSUME Inv, Answering, [Next]_vars PROVE Answering'
    OBVIOUS
  <1>1. ASSUME NEW w \in Writers, Fill(w) PROVE Answering'
    BY <1>1, KeysFillAnswers, RecvFillAnswers, OtherFillAnswers
  <1>2. ASSUME NEW w \in Writers, Sends(w) PROVE Answering'
    BY <1>1, <1>2, CopyAnswers DEF Sends
  <1>3. CASE Disturb
    BY <1>3, ShortCountAnswers, AwayAnswers, IdleAnswers DEF Disturb, SendEnd, Swallow, RecvEnd
  <1>4. CASE UNCHANGED vars
    BY <1>4, IdleAnswers DEF vars, frameVars
  <1>5. QED
    BY <1>2, <1>3, <1>4, TypeAnswers, RelayAnswers, ClientAnswers, ServerAnswers DEF Next

\* End to end: until a direction meets one of its faults, the confirmations and hashes
\* the server has got are those owed to what it has sent, in that order, although the
\* client's keyboard thread sends on the same buffer.
THEOREM AnswersTheorem == Spec => []AnswersInOrder
  <1>1. Inv /\ Answering => AnswersInOrder
    BY AnsweringIsOrdered DEF Inv
  <1>2. QED
    BY <1>1, AnsweringInit, AnsweringStep, Invariance, PTL DEF Spec

(* Who waits for whom, after whatever faults.                                 *)

\* The mutex is held by a thread that is in a call of send, and such a call has
\* something left to send.
Moving ==
  /\ mtx # NoThread => ~Idle(mtx)
  /\ \A w \in Writers : ~Idle(w) => call[w].done < call[w].rest

LEMMA MovingInit == FrameInit => Moving
  BY DEF FrameInit, Moving, Idle, NoCall

LEMMA MovingStep == FrameInv /\ Moving /\ FrameStep => Moving'
  <1> SUFFICES ASSUME FrameInv, Moving, FrameStep PROVE Moving'
    OBVIOUS
  <1>0. /\ call \in [Writers -> Calls] /\ mtx \in {"keys", "recv", NoThread}
        /\ {"keys", "recv"} \subseteq Writers /\ NoThread \notin Writers
    BY FramingAssumption DEF FrameInv, FrameTypeOK, Writers
  <1>1. CASE UNCHANGED <<mtx, call>>
    BY <1>1 DEF Moving, Idle
  <1>2. ASSUME NEW w \in Writers, Fill(w) PROVE Moving'
    <2>0. [NoCall EXCEPT !.rest = FrameLen] = [from |-> 0, rest |-> 3, done |-> 0]
      BY DEF NoCall, FrameLen
    <2>1. call' = [call EXCEPT ![w] = [from |-> 0, rest |-> 3, done |-> 0]]
      BY <1>2, <2>0 DEF Fill
    <2>2. ~Idle(w)' /\ call'[w].done < call'[w].rest
      BY <1>0, <2>1 DEF Idle
    <2>3. mtx' = w \/ mtx' = mtx
      BY <1>2 DEF Fill
    <2>4. \A v \in Writers \ {w} : call'[v] = call[v]
      BY <1>0, <2>1
    <2>5. QED
      BY <1>0, <2>2, <2>3, <2>4 DEF Moving, Idle
  <1>3. ASSUME NEW w \in Writers, ShortCount(w) PROVE Moving'
    <2> DEFINE c == call[w]
    <2>1. /\ call' = [call EXCEPT ![w] = [from |-> c.done, rest |-> c.rest - c.done, done |-> 0]]
          /\ c.done \in 1..(c.rest - 1) /\ mtx' = mtx
      BY <1>3 DEF ShortCount, Again
    <2>2. c.done \in Nat /\ c.rest \in Nat
      BY CallFields
    <2>3. c.rest - c.done \in Nat /\ 0 < c.rest - c.done
      BY <2>1, <2>2
    <2> HIDE DEF c
    <2>4. call'[w].rest = c.rest - c.done /\ call'[w].done = 0
      BY <1>0, <2>1
    <2>5. ~Idle(w)' /\ call'[w].done < call'[w].rest
      BY <2>3, <2>4 DEF Idle
    <2>6. \A v \in Writers \ {w} : call'[v] = call[v]
      BY <1>0, <2>1
    <2>7. QED
      BY <1>0, <2>1, <2>5, <2>6 DEF Moving, Idle
  <1>4. ASSUME NEW w \in Writers, NEW k \in 1..FrameLen, Copy(w, k) PROVE Moving'
    <2>1. CASE call' = [call EXCEPT ![w] = NoCall] /\ mtx' = Unlock(w)
      <3>1. Idle(w)' /\ mtx' # w
        BY <1>0, <2>1 DEF Idle, NoCall, Unlock
      <3>2. \A v \in Writers \ {w} : call'[v] = call[v]
        BY <1>0, <2>1
      <3>3. mtx' = NoThread \/ mtx' = mtx
        BY <2>1 DEF Unlock
      <3>4. QED
        BY <1>0, <3>1, <3>2, <3>3 DEF Moving, Idle
    <2>2. CASE /\ call[w].done + k # call[w].rest /\ mtx' = mtx
               /\ call' = [call EXCEPT ![w].done = call[w].done + k]
      <3>1. call[w].done \in Nat /\ call[w].rest \in Nat /\ k <= call[w].rest - call[w].done
        BY <1>4, CallFields, CopyIs
      <3>2. call[w].done + k < call[w].rest
        BY <2>2, <3>1 DEF FrameLen
      <3>3. call[w] \in Calls
        BY <1>0
      <3>4. call'[w].rest = call[w].rest /\ call'[w].done = call[w].done + k
        BY <1>0, <2>2, <3>3 DEF Calls
      <3>5. \A v \in Writers \ {w} : call'[v] = call[v]
        BY <1>0, <2>2
      <3>6. QED
        BY <1>0, <2>2, <3>2, <3>4, <3>5 DEF Moving, Idle
    <2>3. QED
      BY <1>4, <2>1, <2>2 DEF Copy
  <1>5. QED
    BY <1>1, <1>2, <1>3, <1>4 DEF FrameStep, Owe, Skip, RecvHeader, TakeBody, Swallow, Part, sending

\* A thread in send that cannot go on waits for room.
LEMMA BusyIsFull ==
  ASSUME Moving, NEW w \in Writers, ~Idle(w), ~MaySend(w)
  PROVE  Full(Way(w))
  BY DEF Moving, MaySend

\* The circle, from either direction being full.
LEMMA UpWaitsForDown ==
  ASSUME FrameInv, Moving, \A w \in Writers : ~MaySend(w), \A d \in Dirs : ~MayRead(d),
         stream["up"] # <<>>, ~Away("own")
  PROVE  ~Idle("own") /\ Full("down")
  <1>1. "own" \in Writers /\ Way("own") = "down" /\ todo["own"] # <<>>
    BY DEF MayRead, Reader, Dirs, Writers, Way
  <1>2. ~Idle("own")
    BY <1>1 DEF MaySend, MayFill, Here, Away
  <1>3. QED
    BY <1>1, <1>2, BusyIsFull

\* Nobody but the client's own thread sends elsewhere.
LEMMA NotAway == FrameInv => \A w \in Writers \ {"own"} : ~Away(w)
  <1> SUFFICES ASSUME FrameInv, NEW w \in Writers \ {"own"}, todo[w] # <<>>
               PROVE  Head(todo[w]) # Elsewhere
    BY DEF Away
  <1>1. todo[w] \in Seq(Messages)
    BY DEF FrameInv, FrameTypeOK, Words
  <1>2. Head(todo[w]) \in Messages
    BY <1>1, HeadTailProperties
  <1>3. QED
    BY <1>2, FramingAssumption

LEMMA DownWaitsForUp ==
  ASSUME FrameInv, Moving, \A w \in Writers : ~MaySend(w), \A d \in Dirs : ~MayRead(d),
         stream["down"] # <<>>
  PROVE  todo["recv"] # <<>> /\ mtx # NoThread /\ Full("up")
  <1>1. todo["recv"] # <<>> /\ "recv" \in Writers /\ Way("recv") = "up"
    BY DEF MayRead, Reader, Dirs, Writers, Way
  <1>2. mtx # NoThread
    BY <1>1, NotAway, FramingAssumption DEF MaySend, MayFill, FrameInv, Locked, Here, Away
  <1>3. mtx \in Writers /\ Way(mtx) = "up" /\ ~Idle(mtx)
    BY <1>2 DEF FrameInv, FrameTypeOK, Writers, Way, Moving
  <1>4. QED
    BY <1>1, <1>2, <1>3, BusyIsFull

LEMMA StuckIsJam ==
  ASSUME FrameInv, Moving, \A w \in Writers : ~MaySend(w), \A d \in Dirs : ~MayRead(d)
  PROVE  Jam \/ Away("own") \/ Delivered
  <1> SUFFICES ASSUME ~Away("own") PROVE Jam \/ Delivered
    OBVIOUS
  <1>1. ASSUME NEW d \in Dirs, Full(d) PROVE stream[d] # <<>>
    BY <1>1, FramingAssumption, EmptySeq DEF Full
  <1>2. CASE stream["up"] # <<>>
    BY <1>1, <1>2, UpWaitsForDown, DownWaitsForUp DEF Jam, Dirs
  <1>3. CASE stream["down"] # <<>>
    BY <1>1, <1>3, UpWaitsForDown, DownWaitsForUp DEF Jam, Dirs
  <1>4. CASE stream["up"] = <<>> /\ stream["down"] = <<>>
    <2>1. \A w \in Writers : Idle(w)
      BY <1>1, <1>4, BusyIsFull DEF Way, Dirs
    <2>2. mtx = NoThread
      BY <2>1 DEF Moving, FrameInv, FrameTypeOK, Writers
    <2>3. \A w \in Writers : todo[w] = <<>>
      BY <2>1, <2>2, NotAway DEF MaySend, MayFill, Here, Away
    <2>4. QED
      BY <1>4, <2>3 DEF Delivered, Dirs
  <1>5. QED
    BY <1>2, <1>3, <1>4

\* No thread of the connection waits for another for ever but in one way: both
\* directions are full, and each end is sending and will not read before it has
\* sent; or the server's thread is held up in a send to another client.  That holds
\* for any number of the server's threads and after any fault.
THEOREM OnlyJamTheorem == Spec => []OnlyJamStops
  <1>1. Inv /\ Moving => OnlyJamStops
    BY StuckIsJam DEF Inv, OnlyJamStops
  <1>2. Init => Moving
    BY MovingInit DEF Init
  <1>3. Inv /\ Moving /\ [Next]_vars => Moving'
    BY Steps, MovingStep DEF Inv, FrameInv
  <1>4. QED
    BY <1>1, <1>2, <1>3, Invariance, PTL DEF Spec
===============================================================================
