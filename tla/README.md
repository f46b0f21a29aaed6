# A verification of `redes`

The repository holds three programs of a networking course. This directory
holds TLA+ models of the parts that carry their logic, TLC runs that check them
on small instances, and TLAPS proofs for any number of clients, threads, keys
and datagrams. Paths below are relative to the root of the repository.

- [1. Inventory](#1-inventory)
- [2. Modules](#2-modules-and-how-they-correspond-to-the-code)
- [3. Runs](#3-runs)
- [4. Fairness and other assumptions](#4-fairness-and-other-assumptions)
- [5. Proofs](#5-proofs)
- [6. Disagreements found](#6-disagreements-found)
- [7. Not modelled](#7-what-is-not-modelled)
- [8. Plan](#8-plan)

## 1. Inventory

### A. `src/tcpsocket`: chat and tic-tac-toe over TCP

| component | state | operations |
|---|---|---|
| accept loop (`server.cpp` 63-139) | the connection it is greeting, the list it was sent | accept, send the list of nicknames, receive a username, insert a `Clientp`, start its thread |
| registry (`server.cpp` 49) | `online_clients`: nickname to `Clientp*` | find, insert, erase, `operator[]` (makes a null entry for a missing key) |
| reader thread per client (`server.cpp` 55-61, `clientp.h`) | `disconnected`, `nickname`, `ss`, `recv_buffer`, `send_buffer` | `recv_request`, `processing` and its handlers, `send_response`, `kill_connection` |
| game (`server.cpp` 50-53, 322-459, `ttt.h`) | `ttt`, `ttt_players`, `ttt_viewers`, `symbols`, `rand_num` | B `initialize_game`, P `play_game`, V `view_board`, `reinitialize_game` |
| rules (`ttt.h`) | board, turn, winner | `play`, `is_full`, `verify_winner`, `verify_turn`, `verify_player` |
| framing (`connection.h`, `clientp.h`) | `send_buff` under `mtx`, `send_buffer` under nothing, the streams | `send_request`, `send_response`, `recv_request`, `recv_and_decode` |
| client (`client.cpp`, `connection.h`) | `type`, `send_buff`, `recv_buff` | a thread that encodes the keyboard, a thread that decodes and confirms every response |

The threads of the server share the registry and the game **without a lock**;
they talk to the clients through byte streams, and to each other through
`send_response` on another client's `Clientp`. What is hard: look-ups that are
stale when they are used, handlers that change several globals in a row, a
connection closed by one thread while others still reach it, a handler that
begins again after the game it belonged to is gone, and threads that are lost in
`send_response` for ever. Below that, two threads of one client share a buffer under
a lock, any number of threads of the server share one without, and each end may
wait for the other to read.

What makes it correct: registry and threads agree on who has which nickname; a
thread closes its own client only; a closed descriptor leaves the registry; a
client that left leaves it too; the game is played by two players in turns, a
finished game is noticed, announced to have the right winner, and reset; an
unfinished one is not; nothing of an old game leaks into the next. Each direction
of a connection delivers whole messages in order, every message to a client is
confirmed in order, and the two ends do not wait for each other for ever.

### B. `src/udpsocket`: chat and rock-paper-scissors over UDP

| component | state | operations |
|---|---|---|
| server (`server.cpp`, `State` of `myclass.h`) | `online_clients`: nickname to address; `first_gamer` | one detached thread per datagram: registration on first sight, M, P, G |
| client (`client.cpp`) | its nickname | encodes the keyboard, prints what arrives; keeps nothing between datagrams |

What is hard: datagrams are lost, repeated, delayed; every one gets a thread of
its own, so that even one client's datagrams race with each other; between the
test of `first_gamer` and the write there are four reads and two sends. Correct
means: players meet two at a time, the result is that of the rules, the null
pointer is never followed, and every notification has an address to go to.

### C. `src/final`: a replicated key-value graph over UDP

| component | state | operations |
|---|---|---|
| `lib/cache.h` | `cache_list`, `cache_map` | `insert`, `get` (last used first, bounded) |
| `lib/ack.h` | `acks_to_recv`, the cache of sent packets | `process_ack`, `replay_ack`, `resend_packet` |
| `lib/packet.h`, `lib/util.h` | none | layout of a packet, hash, number formatting |
| `main.cpp` | `is_alive[4]`, `ack_controllers`, `seq_number`, `msg_id` | routing by key, fallback to the next storage, `keep_alive` |
| `storage.cpp` | `database` | create, read, update, delete, one thread each; fragmentation |
| `client.cpp` | `incomplete_message`, `seq_number`, `msg_id` | requests, reassembly |

This program is unfinished: `ack.h:12` and `client.cpp:256` do not compile, no
one ever fills `acks_to_recv`, and the hash is computed before the padding is
added and verified with it. Modelled are its cache, the client's sending half with
what acknowledgements make of it, and the handlers of the storage, as they would run once
requests reach them (section 7). What is hard
there: every request and every packet gets a detached thread, and they share the
database, the sequence number and the cache without a lock; a read iterates over a set that
others change meanwhile. Correct means: requests on a
node are atomic, a deleted node stays deleted, a read misses nothing that was there all the
while, and what is sent again for an acknowledgement is the packet it acknowledges.

## 2. Modules, and how they correspond to the code

| module | models | role |
|---|---|---|
| `TicTacToe` | `ttt.h` | operators on a game |
| `ChatServer` | accept loop, registry, reader threads, handlers N M F R W L C Q | component |
| `GameServer` | handlers B P V, composed with `ChatServer` by `EXTENDS` | component; refines `ChatServer` |
| `Rounds` | what the UDP game server promises | abstract specification |
| `UdpGame` | `udpsocket/server.cpp`, `State` | component; refines `Rounds` |
| `BoundedStore` | what a cache of the last packets promises | abstract specification |
| `Cache` | `cache.h` | component; refines `BoundedStore` |
| `Resend` | `send_packet` of `final/client.cpp`, `ack.h`, composed with `Cache` by `EXTENDS` | component |
| `Channel` | what one direction of a connection promises | abstract specification |
| `Framing` | `send_request`, `send_response`, `recv_request`, `recv_and_decode` | steps of a connection |
| `Session` | a client and the server's end of its connection, composed with `Framing` by `EXTENDS` | component; each direction refines `Channel` |
| `Graph` | what the storage promises of a node | abstract specification |
| `Storage` | `final/storage.cpp`: reception and the four handlers | component; refines `Graph` for every node |
| `MCChat`, `MCGame`, `MCUdp`, `MCSession`, `MCResend`, `MCStorage` | | instances for TLC |
| `ChatServerProofs`, `GameServerProofs`, `UdpProofs`, `CacheProofs`, `ResendProofs`, `StorageProofs`, `SessionProofs`, `PoliteProofs` | | theorems |

Each map from definition to lines is in `PROJECT.json`. Mutants, the operators
called `...Mutant`, and `EvictedFront`, `VerifyFullShort`, `VerifyFullMissing`,
`AgainStart` and `FindDelete`, stand before the definition they replace: each is a plausible slip in those
lines, and each property of a passing run is violated by one of them.

### Grain

One call on a shared object (a find, an insert, an assignment of the pointer, a
test of it) is one step of one thread; any other thread may run between two. An
assignment through `operator[]`, as in lines 134 and 209 of the chat and 96 of the UDP
server, is two: the entry is made with a null pointer or a zeroed address, and then
filled. The program counter `pc[c]` names the place in the handler: `N`, `N2`, `N3`, `N3a`,
`N4` are the steps of `change_nickname` that touch the registry, `P` to
`P11` those of `play_game`, `R1`, `R2` the rest of `reinitialize_game`, and so on.
Where the code looks the same thing up twice in a row with nothing in between
that another thread could tell apart, the two look-ups are one step: the two size tests of
`initialize_game` (324, 328), and the two verifications of `play_game` (345-354). The accept
loop fills the entry and starts the thread (134, 135) in one step, since it does nothing
else in between. A reply is sent in one step, except in `Session`.

Undefined behaviour is what the build can make of it: a null dereference kills
the process (`Crash`), the uninitialised `type` of `processing` is any member of
`Stale`, a dangling iterator in `send_message_to_all` goes on or crashes.

### `ChatServer`

`online` is `online_clients`; a name without an entry maps to `NoConn`, and so does one whose
entry has been made but not filled yet: `Made` are those, `Registered` the keys of the
map. A thread that finds such an entry follows its null pointer. `nick`,
`disc` and `stream` are fields of `Clientp`, `sock` is the descriptor: `open`,
`gone` once the peer left, `closed` by the server. `stream` keeps what the code
keeps between two requests: characters that were not read, a stream at its end, or
one that was read past its end, which sets failbit, and which `ss.str("")` does not
revive. Characters that were not read are dispatched as whatever they read like: any request
of `Leftovers`, nothing, or the exception of `stoi` that ends the process. `Send` has the three
endings of `send_response`: all is sent; a peer that left answers with a reset
and the process dies of the signal, or of a null pointer; on a closed descriptor
`send` returns -1, which is *added* to what is left to send, and the thread is
lost (`spin`). `meddled` is a history variable: an insertion met another
client's entry, filled or not, or a thread closed a client that is not its own. The properties
of the registry are claimed up to then. That it can happen at all is finding 1.

### `GameServer`

Adds `ttt`, `players`, `viewers`, `rand_num`. `mood[c]` is the client: idle,
waiting for an answer, or notified that it is its turn. `Polite` says that
clients act only when the last answer allows it, `Steady` that none leaves and
that requests arrive whole, and `Gamers` are the clients that ask to play at all when they
are polite; runs and theorems say which they assume. `checked` and `stray` are history: the
threads that have verified their turn, and that a move was played in a game
other than the one it was verified in.

### `UdpGame` and `Rounds`

A thread takes any datagram of `Arrivals` at any time. That is the network: a
datagram that is repeated arrives again, one that is lost does not arrive, one
that is late arrives later. It holds for every client, for a client keeps no
state that would keep it from sending. The registration is three steps (the find of 95; of 96,
`operator[]` and the assignment), `process_game` is one step for each statement that reads or writes
`first_gamer`: `G` (the test of 144), `G1` (145-146), `G2` (149), `D` (150-152),
`W1` (156), `W2` (157-160), `Z` (162). A shape goes over the wire with its
padding and comes back without it. `raced` is history: a thread wrote
`first_gamer` while another stood between its test and its own write.
`Rounds` knows nothing of threads: a player waits, or meets the one that waits
and settles the round. Its table of who beats whom is stated, not read off the
code, and the refinement (`waiting <- first`) checks `win_to` and the branches
of `State::winner` and `State::loser` against it.

### `Cache` and `BoundedStore`

A node of the list is a place in memory, so that an iterator in the map can
dangle, and the place of an erased node may be the next one taken. `inserted`
and `reused` are history: the last value under a key, and that a key was
inserted while the list still had a node with it. The client numbers its packets
modulo 100 with a cache of 10, so a reuse needs a packet that `get` kept in the
cache for a whole cycle. The abstract store is a sequence of entries, used last
first; `contents` is the refinement mapping.

### `Resend`

`seq_number` is read three times and written once in `send_packet`: the header is
made (`Stamp`), the packet is cached under the number as it is by then (`Keep`),
sent, and the number is read to be incremented (`SendTo`) and stored (`Store`). Any
number of threads do this at a time, one for each line typed. An acknowledgement
of any packet that was ever sent may arrive at any time, again and again, which
is what loss, repetition and delay come to; `process_ack` never finds it in
`acks_to_recv`, which nothing fills, and sends what the cache has. `serial` is
not in the packet: it tells packets with one number apart. `overlapped` is history: two
threads were in `send_packet` at a time, after which two packets may have one number.

### `Framing`, `Session` and `Channel`

A frame, ten digits and a body, is three cells: a header cut in two, since ten
bytes may arrive in pieces, and a body. `stream[d]` is what is on its way
in a direction, `buff[d]` the buffer its frames are filled in: `send_buff` of the
client, which `mtx` locks, and `send_buffer` of the server, which nothing locks. `call[w]` is
a thread's call of `send`: where in the frame it began, how many cells it was asked
for, how many it has sent. `Copy` moves cells into the stream as room allows;
`ShortCount` is a call that returns fewer, after which `Again` begins the next one
as the code does, at the size of the last piece. On the other side
`RecvHeader` takes what is there of a header: the server drops one that is short
and goes on with a stale request, the client takes the digits it got, and `StoI`
says what comes of it; from then on the stream is read askew, and all of that
is modelled: empty messages, sizes that no message has, and the exception that ends the client.

`todo[w]` is what a thread has still to send. `Session` fills it: a typed line
through `encoding` (with `type` as the line before left it, when the line is
blank), an answer of the server to a request, a message another client's thread relays, and
the client's confirmation and hash. What a request does to the server's state is
in `ChatServer` and `GameServer`; `Replies` lists what it may make the thread of the
client that asked send, to that client and, in between, to others (`Elsewhere`: messages,
files, hashes, boards, notifications, lines 239, 247, 301, 319, 442-449). A thread whose next send is
on another connection is `Away`: it reads and sends nothing here until
`SendElsewhere`, which may take for ever, since the other client need not read and its descriptor
may be closed, or may end the process. `fault` is history: a header arrived in two pieces (`split`), a
frame took a third call of `send` (`skewed`), a buffer was refilled while another
thread was sending from it (`raced`).

`Channel` is what `ChatServer` assumes of a connection: whole messages, once, in
order. Its `sent` are the messages in the order in which their sending begins.

### `Storage` and `Graph`

One thread for each request, one step for each call on `database` or on a set in it.
`operator[]` makes the node it does not find, which is why the two look-ups of line 164 are
two steps, in either order, since the operands of `!=` are evaluated in any (`Ce`: the end is
known; `Cf`, `Cn`: found, not found). A read takes a
reference to the live set and walks over it an element at a time (`scan`), while others
insert and erase. `dangling` are the threads whose iterator, or whose set, has been freed:
such a read returns anything or kills the process, such a comparison has either outcome.

`Graph` is one node as the requests of the code mean it; `Storage`
refines one copy for each node. The mapping adds to the
set in the database what threads are about to insert (`Related`): a create takes
effect at its first look-up, an update when it erases the old relation, a read at its end. `raced` is
history: the nodes on which a delete of all relations met another request, a write fell
into the iteration of a read, or a read ended between the halves of a create or an update. Such a
read is not atomic, and need not be; what it still guarantees is `ReadsRegular`,
in terms of what was in the set all the while (`kept`) and at some time (`ever`).

## 3. Runs

Every bound is in the `.cfg` or in the MC module it names.

| run | instance | states | checks |
|---|---|---|---|
| `chat_registry` | 2 connections, names 1 2 and the empty one, every handler, all faults | 3.7 M | `TypeOK`, `RegistryAgrees`, `ClosedWindow` |
| `chat_nicknames` | 2 connections, renames and quits | until violated | `NicknamesUnique` |
| `chat_quit` | 1 connection that quits | until violated | `QuitOnlyDisconnects` |
| `game` | 2 clients, impolite, that also watch, from seven moves played | 1.8 M | `GameTypeOK`, `ResetPending`, `TurnHeld` |
| `game_polite` | 2 polite clients, from the empty server, games that open in the centre | 0.8 M | `PoliteIsSafe`, `DropsOnlyFinished`, `WinnerMovedLast`, `ResetPending`, `ImplementsChat` |
| `game_lobby` | 3 clients that register | until violated | `TwoPlayersAtMost` |
| `game_invited` | 3 clients, 2 that play, games won on the first row | until violated | `InvitedMayPlay` |
| `live` | as `game`, clients that leave, a third name, fair threads | 0.2 M | `FinishedIsReset`, `GoneIsDropped` |
| `udp` | 2 threads, 3 players, every shape and kind | 2.9 M | `TypeOK`, `NobodyMadeUp`, `UpUnlessRaced`, `ImplementsRounds` |
| `resend` | 2 threads, 5 packets, numbers 0 to 3, a cache of 3 | 0.8 M | `ResendsAcked`, `Bounded`, `NoDangling`, `LatestFound`, `FoundWhenHeld`, `ImplementsStore` |
| `session` | 2 lines typed, 1 file relayed, room for 2 cells, 1 fault | 0.4 M | `SessionTypeOK`, `WithinFrame`, `AnswersInOrder`, `OnlyJamStops`, `UpIsChannel`, `DownIsChannel`, `Answered` |
| `storage` | 2 threads, 3 names of nodes, every request on the first and some on the second | 2.7 M | `TypeOK`, `ReadsRegular`, `ImplementsGraph` |

Why the bounds are enough. The races of the chat are between two threads on one
or two entries; two connections and two names make every pair of handlers meet
on the same entry and on different ones. A game has two players; `game_polite`
plays them from the first registration, several in a row, and `game` starts where every order of the
last moves ends it by a line, by a full board or by both, since a start from
the empty board with impolite clients is too large: seven moves are played,
O is to move, and of the moves left, P7 and P8, one wins at once and the other
lets X fill the board. That state is one every server gets to. The game after that one is
followed for one move (`Ending`), enough for the threads of the first to meet it. Games of
`game_polite` open in the centre (`Centre`): every line is still completed by someone,
two at a time too, and boards fill without one; the theorems leave the opening free. Three names in `live`
make a rename possible while both old names are taken. Three players make a
third one meet a round that two have begun.

A cache of three has a front, a middle and a back. It is smaller than the cycle of
sequence numbers, as in the code (10, `ack.h:12` with `macros.h:34`, and 100), and five packets go around
the cycle once: number 0 is used again while the first packet under it may be cached,
for an acknowledgement keeps it there, or gone. Two threads are every overlap of
`send_packet` there is between neighbours.

In `session` a direction has room for less than a frame, so that both may
fill, a send may stop in every place and a header may arrive in two pieces; two
typed lines are two requests in a row, or a request and a line of blanks, one relayed
file gives the receiver two things to send and the server's buffer a second
writer. The one fault may be of any kind, and everything that follows from it happens; since
every property but `WithinFrame` and `OnlyJamStops` is claimed up to the first fault, a second adds
nothing to them, and those two are proved for any number. Three
cells have room for the two short counts of one frame, the first of which is no fault. The lines are a rename, Q
and a blank one; other requests differ in how many answers they have. In `storage` two
requests on one node and two on different ones meet in every order, and three names give a
set a first, a middle and a last element for an iterator to stand on; a third thread would
only repeat that, and the theorems hold for any number.

What the properties say, beyond types:

- `RegistryAgrees`: a served connection is found under its own nickname, in
  every intermediate state of renames, quits and crashes, so that a thread only
  ever reads, closes and erases its own client.
- `ClosedWindow`: a closed descriptor is in the registry only while its thread
  stands between the close and the erase.
- `ResetPending`: a finished game always has a thread on its way to reset it.
- `TurnHeld`: the turn, verified without a lock, is one: it is still held when
  the move is made.
- `PoliteIsSafe`: with two polite and steady clients the unlocked game follows no null
  pointer and plays no move in a game it was not checked for; the one thing the server may
  die of is a message to a nickname whose entry line 134 has made and not filled yet
  (`MeetsUnfilled`).
- `DropsOnlyFinished`, `WinnerMovedLast`: no game is dropped before its end, and
  the winner announced is the player that moved last.
- `ImplementsChat`: the game handlers leave the registry, sockets and streams
  alone, and end where a handler may end.
- `FinishedIsReset`, `GoneIsDropped`: liveness, see below.
- `NobodyMadeUp`: an address that `operator[]` made up does not stay: an entry is without
  its address only while a thread of that very sender stands inside line 96. In that
  window what another datagram sends to that nickname goes to address zero, as it does in the
  code; outside it nothing does, not even the notification of a player of a
  round that began long ago.
- `UpUnlessRaced`, `ImplementsRounds`: only a write of `first_gamer` under
  another thread's feet can crash the server or spoil a round; loss, repetition
  and delay of datagrams cannot, nor any other interleaving.
- `ResendsAcked`: whatever is evicted, kept or asked for again, the packet that is
  sent for an acknowledgement is the one acknowledged, or one a whole cycle
  later; claimed while senders do not overlap.
- `UpIsChannel`, `DownIsChannel`: a direction loses, repeats, mixes or reorders
  messages only after one of its three faults. The lock does upwards what
  it is for; the short count that the loop mishandles is the second of one frame, not the first.
- `AnswersInOrder`: end to end, confirmations and hashes arrive in the order of
  what they answer, though keyboard and receiver share the way up.
- `OnlyJamStops`: when no thread of a connection can go on, everything has been
  sent and read, or it is the one deadlock named `Jam`, below, or the server's thread
  is held up in a send to another client (`Away`). `MaySend` and `MayRead`
  say in terms of the state when a send and a read can go on.
- `WithinFrame`: the wrong restart of a send never reads beyond the buffer.
- `Answered`: liveness, see below.
- `ImplementsGraph`: requests that overlap on one node are atomic but for the
  three cases above, whatever happens on other nodes, and a deleted node stays so.
- `ReadsRegular`: a read that others overtake returns every relation that was there all the
  while it iterated and none that never was, unless the very element it stood on, or the
  node, was freed.
- `Bounded`, `NoDangling`, `LatestFound` hold for any use of the cache;
  `FoundWhenHeld` and `ImplementsStore` as long as no key is reused while cached.

`CHECK_DEADLOCK` is off where the server may stop: the process dies, all clients
have left, or every thread is lost in a send; in `session` where all that is to be
typed has been answered, or both directions are full; in `resend` and `storage`
callers may stop calling.

## 4. Fairness and other assumptions

`GameFairSpec` assumes weak fairness of each thread's own steps: the kernel runs
a thread that can run (`server.cpp:135` starts them detached, and nothing ever
suspends one), and `recv` returns once the peer has left (`RecvEnd`, and
`RegisterEmpty` for a client that leaves while it is greeted). Nothing is assumed
of clients: they need not send, answer or leave. In these runs, and in these only, a send to a
client that is connected is assumed to end. The code does not guarantee it: TCP grants it as long
as the client reads, and the client of this repository does not read while it is itself
held up in a send. `Session` has what becomes of one connection without the assumption.

The fairness of `Session` is weak fairness of each thread's sends on this connection and of both
readers: a thread that can go on runs, TCP moves what there is room for, and a free
lock goes to a thread that waits for it. That one thread takes it again and
again is excluded by the number of lines and relayed messages. Typing,
relaying, short counts and the end of a connection are not fair, and neither is
`SendElsewhere`: the server's thread may stay for ever in a send to another client.

The liveness properties name the ways out that the code has. For the server they are that
the process died, a thread spins, or an entry was meddled with. For `Answered` they
are the end of the connection, a fault, and `Jam`: both directions full, the server's
thread in a send, the keyboard thread or the receiver in a send under `mtx`, and the
receiver with something to send. Nobody reads while it sends, so this is a
deadlock the code really has. The last way out is `Away`, the server's thread in a send
to another client, of whose stream this model knows nothing. The property says that the threads
have no other way to wait for ever. A circle over two connections, each server thread in a send to the
other's client, has both threads `Away`: it is possible in the code, and nothing is claimed
to exclude it. `OnlyJamStops` says the same of the states, without
fairness and after any fault: `Answered` adds that the threads do get there. `Answered` asks that again
and again no message is left without its confirmation, which is no more than that each is
answered, since the bounds let only so many be sent.

`RegistryAgrees` and `ClosedWindow` carry `~meddled`, `TurnHeld` distinct symbols and
`~stray`, the UDP properties `~raced`, two cache properties `~reused`, `ResendsAcked`
`~overlapped`, the properties of a session an empty `fault`, `ImplementsGraph` the nodes not in
`raced`. Each of
these conditions is a history variable set at the very step that breaks the
promise, and each property has a mutant that breaks it without setting it. `ReadsRegular`
excepts the reads in `dangling`, whose memory was freed, and `PoliteIsSafe` the death of the
process where `MeetsUnfilled` holds.

## 5. Proofs

For any sets of connections, names, requests, threads, players, keys and values,
from the named assumptions of the modules only (`ChatAssumption`,
`GameAssumption`, `UdpAssumption`, `CacheAssumption`: the null value is none of the
others, requests have their types, the cache has a positive size; `StorageAssumption`:
"no entry", "*" and "no request" are none of the others; `ResendAssumption`: keys are
the numbers of a cycle, values the packets; `FramingAssumption`,
`SessionAssumption`: the threads are distinct, messages are the letters of requests and
replies, others relay messages).

**`ChatServerProofs`.** `Typing`. `RegistryTheorem` and `ClosedWindowTheorem`:
`RegistryAgrees` is not inductive, for it says nothing of a thread between two
steps of a rename or a close. `RegInv` is `Waiting` (a connection that is being greeted has no thread yet) and,
as long as nothing was meddled with, `Listed` (a served client is found under its
nickname), `Filed` (an entry leads to a served client under its present name, or
the new one once it is inserted), `Renaming` (the client looked up at the start of a
rename is the thread's own, and at `N4` its new entry is in place), `Claiming` (an entry that is
made and not filled yet is the claim of one thread, and has the null pointer, so that
who fills it overwrites nobody) and `Closing` (a
closed descriptor belongs to a thread on its way out, and a thread in Q will leave
its loop). `PlainHandlers` shows that most handlers leave all of it
alone, and `RenameStep`, `ClosingStep` and `ArrivalStep` treat the rest.

**`GameServerProofs`.** `GameImplementsChat`: every handler of the game, at
whatever label, is a `GameStep` of the chat server, and every other step is one
of its own, so `GameRegistry` carries the registry over to the server with the
game. `GameTyping` needs that `verify_winner` on a board with a line finds a
mark (`LineFound`). `ResetPendingTheorem`: the property is inductive together with the
registry's invariant, because a thread leaves `P5`, `P6`, `P7`, `P8` only by finding
that the game is not over, by going on towards `P10`, or with the process. `TurnHeldTheorem`: `TurnInv` adds that whoever is in
`checked` stands at `P4`. Of two threads that have verified the turn, both stand
for the one player whose symbol has it, hence for one nickname, which the registry's
invariant gives to one thread (`OneHolder`): so a move leaves nobody in `checked`, and no
other step moves the turn or, unless it meddles, renames anybody inside a handler (`ChatNames`).

**`PoliteProofs`.** The game as its notifications ask for it to be played: clients that
are `Polite` and `Steady`, at most two of them in `Gamers`, and requests of the kinds
B P M F W L C (`Tame`). Each limit excludes something the code does go wrong on: three clients that
register can all be registered (`game_lobby`), V uses a game after another thread may have dropped
it, N and Q take away an entry that another thread has looked up, R follows whatever `find` gives it.
How many others chat meanwhile is left open. With them comes the one death that remains: a
message may meet an entry that the accept loop has not filled yet, and `PoliteIsSafe` says it is
the only one. `PoliteInvariant` is `Calm`, which says that nobody leaves, that a receiver that was
found stays, and that a client being greeted has seen every nickname there is, so that it takes a free one,
and `Manners`, on the game:
`Stages` gives every client that plays one of seven stages by what it waits for
(`mood`) and where its thread is (`place`), free, joining, patient in its seat, opening
the game, on turn, leaving, over; `OneHolds` says that at most one client is at a stage where its thread may
change the game, which is all the locking there is; `Seated` ties the game to the
players registered; `Ruled` the marks on the board to the turn: a complete line is the work of the
player who is not on turn, which is what makes the winner right although
`verify_winner` looks for any line and names its mark (`PlayRules`, `WinnerRules`: a move adds one mark of
the symbol whose turn it was to a board without a line). From it follow `PoliteIsSafeTheorem`,
`DropsOnlyFinishedTheorem` and `WinnerMovedLastTheorem`. The invariant does not say that
the two symbols differ, because they need not: the draw of `rand_num` comes after the seats
are free (finding 4); such a game stops, and is still safe.

**`UdpProofs`.** `Typing`. `Addressed`: `NobodyMadeUp` becomes inductive with
`AllKnown`: the sender a thread speaks for once line 95 has found it or `operator[]` has entered
it, whoever waits in `first_gamer`, and whoever was picked as winner has an entry, so that `operator[]` makes none
up for them; entries are never erased, and a thread that leaves line 96 has filled its own. `Survives` and `PlaysRounds` rest on `RaceInv`: until a race, a thread
between its test and its write may rely on what it read (`Relies`, a conjunct
for each label: `first` is null, is not, has the same shape, a different one, and
the winner and loser computed so far are those of the present `first`). A write
that did not race was made by the only thread that relies on anything
(`LonelyWrite`), the others keep what they rely on (`Undisturbed`). `Rules` shows
that `win_to` with the two branches is the table of `Rounds`.

**`CacheProofs`.** `CacheInv` is `TypeOK` with `Bounded`, every node of the list at
one place only, `NoDangling`, `LatestFound`, and, without reuse, each node found
through its key. `StoreTheorem` maps each call to a step of `BoundedStore`.

**`ResendProofs`.** `ResendCache`: every step of the client's threads and of an acknowledgement
is a call of `Cache` or leaves it alone, so that what is proved of the cache holds
of the cache they share (`ResendStore`). `ResendsAckedTheorem`: while senders do not overlap,
`ResendInv` says that the one that sends has the packet made last (`Alone`), that
the number is that of the packet to come when none does (`Ready`), and that under the number of
a packet that was sent, the cache was last given that packet or a later one
(`Superseded`). With `LatestFound` of the cache what is found is at least as late
as what was acknowledged and has its number, and two places in the order of making with one
number are a cycle apart (`Apart`).

**`SessionProofs`.** `Steps` sorts the steps of `Session` by what they are to the frames:
a thread takes messages on, begins a frame, copies cells, meets a short count; a reader
takes a header or a body. `FrameInv` holds whatever happens: types, `WithinFrame`, a thread in send
has its message at the head of its list, and one of the client's holds the mutex.
`Intact` holds of a direction without faults, and is what makes it a channel: the cells of all
frames are numbered in the order of sending, and the stream holds those from the
one after the last read (`Consumed`) to the last copied, each with the message and the part its number says
(`InOrder`); at most one thread is inside send, with the message sent last in the
buffer, at the cell after the last in the stream (`Whole`). A header read in one piece is then a
header, and the body after it that of the next message. One lemma for each kind of step
(`FillIntact`, `CopyIntact`, `ShortCountIntact`, `HeaderIntact`, `BodyIntact`), and
`ElsewhereIntact` for the other direction, which a reader's answers reach only through a thread
that is not sending.

`AnswersTheorem` follows the answers through both channels. `Answering` says that what the receiver
has begun to send and what it has still to send are together what it owes for what it has read
(`Owed(rcvd["down"])`); neither the keyboard, which sends no answers, nor the server
changes that. What was read is a prefix of what was sent, in both directions, and both
`Answers` and `Owed` go from message to message (`GatherPrefix`), so that prefixes stay prefixes.
What `FlattenSeq` makes of a longer sequence (`FlattenAppend`) is induction over data; it is
done over sets of numbers, from the least number for which a claim fails (`Least`, by
`WFMin`; `Induction`), which takes no operator as a parameter.

`OnlyJamTheorem` needs `Moving`: whoever holds the mutex is in a send, and a send has something left
to send, so that one that cannot go on stands before a full direction. `UpWaitsForDown` and
`DownWaitsForUp` then close the circle: if something is left to read upwards the server's
thread is in a send of its own, and either it is the send to another client, or the other
direction is full and the receiver with it waits for the mutex or for room. Nothing else is
used of the directions, so no fault matters.

**`StorageProofs`.** `Typing`. `AtomicRequests`: each step of a thread is, seen from any
node, a request of `Graph` or a stutter, until requests have met there. Types
do not suffice: a step of the last half of a request must not find the node
gone. `GraphInv` adds `Settled`: on a node without an entry where no requests have met, nobody
is in the middle of a request, except for deletes of all relations that will find
nothing. A delete of all relations that leaves anyone else in the middle is a meeting;
every other handler leaves an entry behind. A read counts at its end: as no write falls into an
iteration without a meeting, a read that meets nobody returns the set as it is then.
`RegularReads` drops that
condition: `Regular` says of a read under way that the elements passed are between those
that have been in the set all the while (`kept`, as far as the iterator has got) and those that
were at some time (`ever`), which rests on the order of the set, for an element behind the
iterator is met unless it is erased, and one that is inserted before it is missed. `Elsewhere` is the
lemma that a step on one node changes nothing seen from another, and
`PendingGoto` says how what is about to be inserted changes with the
label of one thread.

Only model-checked: the liveness properties `FinishedIsReset`, `GoneIsDropped` and `Answered`
(fairness and `ENABLED` are out of the prover's reach). Every other property of the passing runs
is stated by a theorem. The cache properties are proved for `Cache`, and through `ResendCache` for the calls that
`resend` checks them with. `ResetPending` is checked from the middle of a game and from the
empty server, and proved.

## 6. Disagreements found

1. `chat_nicknames`: two clients end up with one nickname. The accept loop sends the list
   of nicknames (`server.cpp:117`), waits for the choice, and assigns to the entry
   without another look (`server.cpp:134`): a rename meanwhile may take the name chosen, and
   its entry is overwritten. That is the trace of the run; two renames that both pass the test
   of `server.cpp:202` come to the same by a longer one.
2. `chat_quit`: a single client that writes Q kills the server: `processing` erases
   its entry, `thread_reader` then looks it up again (`server.cpp:462`).
3. `game_lobby`: three clients that register at once are all registered
   (`server.cpp:324`), where the README promises two.
4. `game_invited`: `reinitialize_game` lets new players in before it draws
   `rand_num` (`server.cpp:456-458`): both get one symbol, and the player who is
   told that it is its turn is refused.

The statement each contradicts is quoted in `PROJECT.json`.

## 7. What is not modelled

- Bytes. Requests, replies and datagrams are whole except in `Framing`, which cuts a
  frame in three: where exactly in a header or a body a send stops, and frames
  of different lengths in one buffer, are left out. The padding of a
  shape, which the server has to undo, is modelled.
- Circles of threads over several connections (section 4): `Session` is one connection.
- What an assignment does through a reference whose entry another thread has erased in
  between (134, 209, with one nickname for two clients): the memory is freed, and the
  properties of the registry are given up by then (`meddled`). In that state the look-up of
  line 135 may also find another client than the one that was inserted.
- Races inside one call of `std::map`, `std::list` or `std::vector`: one call is one
  step. What such a race leaves behind is not determined by the source.
- Reuse of a descriptor after `close`; a reset reported by `recv` before the end
  of the stream, other than as `RecvFail`; a username whose `recv` fails.
- What is printed, the drawing of the board, files on disk, hashes and dates.
- In `Storage`, what a write through a freed reference destroys elsewhere; what a read or a
  comparison of freed memory yields is modelled.
- Cache calls that overlap: nothing in `cache.h` locks, and what two calls at once
  leave of a `std::list` is not determined by the source.
- `final/main.cpp`. As written it stops before it serves anyone: it binds
  `storageFD`, which is never created, and exits; `decoding` copies from its own empty buffer
  into the one received, and `stoi` of what is left throws; nothing sends the
  answers of the storages on to the clients. There is no
  behaviour to model beyond that, and `is_alive`, `keep_alive` and `answer_query` are
  reached by none.
- What lies between the storage's socket and its handlers. As the sources stand no request gets
  there: `mainFD` is never bound, and `processing` verifies the hash of the data with their
  padding, taken before it was added. `Storage` is the handlers, a thread for each packet
  that passes, which is what they are written for.
- The assembly of fragments in `final/client.cpp` and the fragmentation in
  `storage.cpp`. The hash of a fragment is taken before the data are padded, and
  verified with the padding, so that only data that fill a packet exactly ever
  check out; the last fragment of almost any answer does not. The
  sequence numbers of the storage's sender have the shape of those in `Resend`,
  and its keep-alive echo keeps no state.
- The hash itself, `packet.h`, which nothing includes, and
  `util.h` but for the padding. An acknowledgement that is itself acknowledged (each
  packet that is sent again is answered by one more) is the
  repetition of `ProcessAck`, not a step of its own.
- `udpsocket/client.cpp` but for what it can send, and in all clients what they
  print.

## 8. Plan

Done, in this order: `TicTacToe`, `ChatServer` with its proofs, `GameServer` with
its proofs, `UdpGame` with `Rounds` and proofs, `Cache` with `BoundedStore` and
proofs, `Framing` and `Session` with `Channel` and proofs, `Storage` with `Graph` and proofs,
`Resend` with proofs. Then the grain was made finer where one line is two calls: the entries of
134, 209 and 96 that are made before they are filled, the double look-up of 164, the iteration
of 266-269 (with `RegularReads`), and the sends of `Session` that go to other clients.

Next: two `Session`s that share the server's threads, to find the circles over two connections
and state when there are none; fragments and their assembly, over the packets of `Resend`.
