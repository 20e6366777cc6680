# Verification of recyclr-client

TLA+ models of the recyclr client node, checked with TLC, with theorems proved
with TLAPS. The modules follow the C++ sources one handler at a time;
`PROJECT.json` maps every definition to the lines it stands for.

## The system

| component | state | operations | talks to |
|---|---|---|---|
| `RingBuffer` (recyclr-buffer.*) | start, end, size, array | write, read, read_all, pop, pop_buf, peek | owned by a connection, one thread |
| wire format (recyclr-msg.h) | - | packed header: code, destination, length, magic | read and written by the connection |
| `Connection` (recyclr-net.*) | state function, header, sequence number, two rings, descriptor | await_handshake, open_connection, handle_open_channel, receive_msg_payload, send_msg, close, recv, send, prepare_send | called by NetClient; socket; deletes itself out of NetClient's vector |
| `NetClient` (recyclr-net.*) | state function, `_running`, listening and epoll descriptors, `_open_connections` | run, start, listen, handle_socket, process_connections, close, stop, destructor | its own thread; the owner's thread stops and joins it |
| `Controller`, `ImageController` | state function, `_running` | start, close, run, destructor | own thread each |
| `RecyclrClient`, `main` | the three nodes | construction, destruction, setup_client | creates the nodes |
| `RecyclrClientConfig` | settings | constructor, load_from_json | loaded by main; nothing reads the settings yet |
| utilities, commands | none; affinities are the kernel's | set_thread_affinity, set_process_affinity, clock, log, popen | affinity by main and the constructors of the nodes |
| libcds, json11 | vendored | - | json11 by the configuration; libcds unused |

A network thread runs `handle_socket` (one `epoll_wait` with timeout 0, then
each event) and `process_connections` (one call of the state function of every
connection) in turn. There is no lock: the thread owns connections and rings, and
shares `_running` and `_socket_fd` with the thread that destroys the `NetClient`.
The two controllers have a thread each, which selects a second state function and
ends. `main` constructs the three nodes one after another, each constructor starting
a thread and then pinning it to a core, and the destructor of `RecyclrClient`
stops and joins them in the same order.

What is hard here: the bytes of a message arrive in arbitrary pieces and through
two bounded buffers; a full buffer looks like the end of the peer; registrations
are edge-triggered, so an event is reported once; a connection deletes itself in
the middle of its own member functions and of an iteration over the vector; every
system call of the set-up can fail; the destructor runs beside the thread; a
thread may have ended before its constructor has pinned it. Nothing
is persisted, so there is no recovery to model. The list, with lines, is under
"hazards" in `PROJECT.json`.

## Modules

| module | what it is |
|---|---|
| `RingOps` | the ring's operations as pure operators on a record |
| `BoundedFifo` | abstract specification: a bounded queue |
| `RingBuffer` | one ring and any sequence of calls; implements `BoundedFifo` |
| `RingProofs` | lemmas about the operators of `RingOps` |
| `RingBufferProofs` | theorems about `RingBuffer` |
| `Messages` | headers as cells, and how cells are read as headers |
| `Connection` | one connection, its peer and its socket; uses `RingOps` twice (both buffers) and `Messages` |
| `EchoSession` | abstract specification: requests, answers and the end of a session |
| `ConnectionLife` | abstract specification: the life of a connection object between the two loops |
| `ConnectionProofs` | theorems about `Connection`: the bytes |
| `SessionProofs` | what the answers of `EchoSession` are |
| `EchoProofs` | theorems about `Connection`: the messages, the answers, the refinement of `EchoSession` |
| `NetClient` | the thread, the listening socket, the vector, the destructor; a connection is reduced to keep / close / delete |
| `NetClientProofs` | theorems about `NetClient` |
| `NodeLife` | abstract specification: a node's thread and object, from the constructor to the join |
| `RecyclrClient` | `main`, the construction, pinning and destruction of the three nodes, and the threads of the two controllers |
| `RecyclrClientProofs` | theorems about `RecyclrClient` |
| `Config` | the configuration file and `load_from_json` |
| `ConfigProofs` | theorems about `Config` |
| `MCRingBuffer`, `MCConnection`, `MCNetClient`, `MCConfig` | the instances that TLC checks; `RecyclrClient` needs no module of its own |

How they fit together: `Connection` uses the ring as `RingOps` defines it, which
`RingBuffer` shows to be a bounded queue. `NetClient` assumes of its connections what
`ConnectionLife` says; `Connection` implements `ConnectionLife`, and so does every
connection of `NetClient`, so neither assumes more of the other than is shown.
In the same way `RecyclrClient` takes the network node as a `NodeLife`, which
`NetClient` implements, and shows that all three of its nodes are one.

Definitions marked "mutant" are variants of the one that follows them with a
plausible bug. They are used by no specification; each shows that a property
notices such a bug ("mutants" in `PROJECT.json`).

### RingBuffer

A cell stands for a byte. `ring` has the four fields of the class, `ret` is what
the last call returned. The copies of `write` and `read` are made as in the code,
including the second copy of a wrapped ring, the cut of a write without room and
the reset of both indices of an empty ring.

`peek` is translated with its defect: for a wrapped ring the length of the first
copy is `get_size() - _start_idx`. There are four outcomes, depending on the
numbers: right by chance, bytes from slot 0, partly undefined bytes, or a copy
with a negative length that stops the process (`PeekFatal`, `PeekOverruns`,
`PeekOutcomes`).

### Connection

Each action is one call that the network thread makes on the connection: the
handling of its epoll event (`EventHup`, `EventRecvEnd`, `EventServe`) or one call
of its state function. `EpollWait` takes the snapshot of events, and the peer and
the kernel act between any two of these steps. A system call loop (`recv` until it
would block) is one step: what arrives during it is the same as what arrives just
before. Where a state function calls the next one in the same call
(await_handshake into open_connection, handle_open_channel into
receive_msg_payload) the action does too.

A header is two cells, so that half of it can arrive and a wrong offset is seen: one
for the fields before `msg_magic`, one for the magic. A cell says what its bytes read
as, never what they were sent as: the cells of a payload can hold fields and the magic
too, and `ReadHeader` takes whatever cells stand at the start of the buffer, as the code
does. `PeerMsgs` is a set of such sequences of cells. `BufferLen` is both CONNECTION_BUFFER_LEN and
the size of the local `big_buffer`, which are equal in the code. A new buffer is
filled with a cell `Blank`; the code never looks at it except in an undefined peek,
which has any content anyway.

The external part, modelled from how the code uses it: bytes are delivered in order in any
pieces; a FIN follows the data; a RST may come at any time. `ready` is the edge of
the registration. The send buffer has `room` for a number of cells. After a RST
the first failing call reports the error and later ones return 0 or raise SIGPIPE
("reset", then "broken"). `recv` with length 0 returns 0 if there is data, as Linux
does, and an error if there is none.

Deleting an object and going on with it is undefined behaviour
(`handle_epoll_event` after `recv`, `receive_msg_payload` after `recv`): the model
records the fault "touched" and lets the process either crash or go on; the object
is gone in both cases.

`PassedOver` is the pass of `process_connections` in which a connection is not called,
because one before it in the vector has deleted itself under the iterator.

`script`, `stream`, `sent`, `told`, `toPeer` and `faults` are history variables: the
messages and cells that the peer sent, the headers and cells of what was answered, what
the socket accepted, what was lost. `Asked` are the headers of the messages as the peer
cut them. An answer is in `sent` once it is handed to send(), also when the socket
drops it; `SentArrives` and the run `unsent_bytes` are about what happens then.

`EchoSession` sees only the messages: the peer asks or leaves, the program answers what
is owed next or ends the session, and it ends only after the peer. It is what the
state functions, the buffers, the partial reads and the edges amount to when the peer
speaks the protocol and the buffers have room for what it sends. The answers owed
(`Replies`) are defined without recursion: `Asking` is the set of the messages that call
for an answer, `AnswerTo` what the answer to one of them is, and the n-th answer goes
to the member of that set with rank n.

### NetClient

`listen()` is four steps because the owner's destructor reads `_socket_fd`
between them; every system call in it may fail. `events` is a set, handled in any
order. `opens` and `it` are the vector and the iterator of `process_connections`:
`StateDeletes` removes the current element under the iterator, as the destructor
of a connection does; if it was the last one the iterator runs past the end and
the process dies. `NetClient::close` has no action, because no step can reach it;
that is the invariant `CloseNeverCalled`. The memory of `_epoll_events` has no
influence on the rest and is left out; the affinity of the thread is in
`RecyclrClient`. A
connection is accepted under a name of its own; the reuse of descriptor numbers is not
modelled.

### RecyclrClient

`pc` and `k` say where the main thread is: in `main`, or at which node in
the constructor or destructor of `RecyclrClient`. The steps of a node's constructor are
apart (`NewThread`, `PinThread`), because its thread runs between them, and so are
those of its destructor (`StopNode`, `JoinNode`). A constructor of `std::thread` that throws
ends the process, as nothing catches (`NewThreadThrows`).

`affinity` is the set of cores of each thread. A new thread gets that of its creator,
a call on a host without the core fails and changes nothing, and a call on a thread
that has ended has one of three effects (`PinnedLate`): the thread is still in the
kernel, the call is an error, or, with a C library that passes the cleared thread
id 0 on, the caller is moved. The third is what GNU libc does
before the thread is joined.

The code of `Controller` and `ImageController` is the same, so the actions of the
workers are parameterised by the node. Their busy loop reads `_running` without a
lock; the build does not optimise (Makefile), so every pass reads it. `main` never leaves its loop; `Destroy`
starts the destructor that the class has for any other owner.

`setup_client` fails when it finds no address or no cores; `main` looks at neither, so
`SetupClient` has all outcomes and goes on.

### Config

`file` gives a value, absent included, to each name that the file or the code
knows. The operator may edit the file or damage it before the program reads it. A name that is absent, has
a value of another type, or is in a file that does not parse is 0 or false for
json11 (`number_value`, `bool_value`). A conversion from double that is out of range is undefined
in C++; it is what x86-64 or AArch64 make of it.

## Runs

| run | bounds | what it shows |
|---|---|---|
| `ring` | 4 slots, 2 cells, chunks up to 5 | queue refinement, indices, peek of an unwrapped ring |
| `connection_polite` | 3 messages of up to 3 cells, payloads that read as an OPEN, buffer 5 cells, send buffer 4 | framing, answers, nothing waits in `_out_buffer`, no spurious end, each step a step of `EchoSession` until something is lost, for a peer that speaks the protocol |
| `connection_rude` | 2 messages of up to 5 cells, same buffers, bad magics, misplaced payloads, and payloads that are an OPEN or a request | order of bytes, a header of its own for each answer, `ConnectionLife`, a deleted object is touched only at the end of its peer or after an overrun of `big_buffer`, end of the peer, release of descriptors |
| `connection_echo` | 3 messages of a peer that speaks the protocol, a buffer of 10 cells, which holds them all | a stream that fits is not damaged, and `Connection` implements `EchoSession`, with its liveness |
| `net_client` | 3 connections, backlog 2 | vector, epoll pointers, `close` never called, `ConnectionLife` and `NodeLife`, everyone is called, no edge is lost, destructor returns |
| `recyclr_client` | every host with cores among 0..3 | no thread outlives its node, pinning, destructors return, three nodes that are `NodeLife` |
| `config` | the shipped file, 2 edits, ints of 16 bits | what is in effect after a load |
| `unsent_bytes`, `header_misread`, `starved_waiter`, `left_open`, `main_pinned` | as above, 2 connections, a buffer of 6 cells for the misread | the disagreements below (TLC finds a counterexample) |

The bounds are enough for the interesting cases: 5 cells hold two headers and a
half, so messages are split, buffers wrap, overflow and are exactly full; three
messages of up to three cells exceed the buffer, and so do two of up to five; a send buffer of 4 cells is
smaller than an acknowledgement and a reply (5 cells). `destination` has two values, so it
wraps at once. Three connections are enough to delete the first, a middle and the
last element under the iterator. The masks of the program are the cores 0 to 3, so
hosts with any of these cores cover each mask with and without its core. In `config`, one edit breaks or
changes one setting and the second another, or the name that the code looks for
besides the one that the file has; integers of 16 bits hold the shipped ports, and there are numbers below zero,
beyond int and beyond unsigned int.

Deadlock is not checked for `Connection`, `NetClient`, `RecyclrClient` and `Config`: a
deleted connection, a crashed process, a destroyed node and a loaded
configuration stop by design. That live ones do
not is the subject of the liveness properties.

### Fairness

* The network thread: weak fairness of its steps. It is a busy loop and never
  blocks (`epoll_wait` has the timeout 0, `recv` and `send` use MSG_DONTWAIT).
* The call of a state function in `Connection`: strong fairness, since `PassedOver` can
  take its place in any pass. `NetClient` shows that a connection is not passed over for
  ever (`EveryoneCalled`): only an earlier connection of the vector that deletes itself
  does it, and each can do so once.
* TCP: weak fairness of delivery and of the FIN. Nothing makes the peer send,
  read, close or reset.
* `::close`: strong fairness of its success. Linux releases the descriptor also when
  close reports EIO, and the retry fails with EBADF, which the code takes for success.
* The owner: once in the destructor it goes on. Nothing makes it start.
* `RecyclrClient`: the main thread and the threads of the workers run; the network
  thread ends when it is told to, which `NetClient` shows (`NodeSpec`).

## Where code and text disagree

1. `send()` drops what the socket does not accept; recyclr-net.cpp:417 says it is
   sent when the socket is available again (`unsent_bytes`).
2. `peek()` of a wrapped buffer shows other bytes than `pop()` returns;
   recyclr-net.cpp:41 and :49 say the popped header is the valid one
   (`header_misread`).
3. One `accept()` for each edge of the listening socket: a second arrival waits until
   a third comes; README.md:3 says that the client accepts connections
   (`starved_waiter`).
4. `NetClient::close` is never called, so nothing of what recyclr-net.cpp:380 and
   :385 describe happens (`left_open`).
5. A node's thread that has ended when its constructor pins it: the call moves
   the main thread, which recyclr-client.cpp:127 says is on core 0
   (`main_pinned`). The controllers' threads end after two calls, so this is a matter
   of scheduling. `NodesPinned` shows that the running threads are where they
   belong all the same, because each is pinned after it has inherited.

Two more, read from the texts side by side and not from a run:
client-configuration.json:9-10 has the controller on core 2 and the image controller on
core 3, the masks of recyclr-utils.h:21-22 the other way round; and none of the
`thread_pinnings` of that file is loaded, because recyclr-client-config.cpp:42-46 reads
other names, at the top level, which the shipped file does not have, so that all five
core settings are 0 (`NoDefaultLeft` shows it of every absent name).

Further behaviours of the models that no text of the repository rules out: data
that arrives together with the FIN is never answered; a connection whose buffer
fills up is dropped; a handshake with a payload keeps the connection for ever; a
closed connection keeps its object; a listening socket opened after the
destructor looked at it stays open; the deletion of the last connection under the
iterator stops the process. The bytes of a payload are taken for a message wherever
one is looked for: for the handshake when a message with a payload comes before it
(recyclr-net.cpp:43-55), for a request behind a header without the magic, whose payload is
not skipped (recyclr-net.cpp:95-103). So more can be answered than the peer asked for;
`AnswersHaveHeaders` says what remains true, and `InStep` that it does not happen to
a peer that speaks the protocol, whatever its payloads hold, as long as nothing is lost.

## Proofs

`RingBufferProofs`, for every capacity, cell set, and set of calls, from the
assumptions `CapacityAssumption` (at least one slot) and `CallAssumption`:

* `TypeCorrect`: `Spec => []TypeOK`.
* `IndexCorrect`: `Spec => []IndexInv`. The inductive invariant is the
  conjunction of both: types alone do not keep the end index in range after a
  read, and the index relation needs the ranges.
* `FifoRefinement`: `Spec => Fifo!Spec`, the abstract queue being
  `Contents(ring)`. The lemmas show that the copies of `write` append exactly the
  accepted prefix, whether or not the ring wraps, and that `read` returns
  the prefix it removes.

* `PeekCorrect`: `Spec => []PeekMatchesPop`. By the index relation an unwrapped
  ring has its cells side by side, so `peek` copies once and everything: the
  misread header above needs a wrapped ring.

`NetClientProofs`, for every set of connections and every backlog, whatever system
calls fail and whenever the owner stops the node, from `NetClientAssumption`
(the backlog is at least 1, the listener is not a connection):

* `TypeCorrect`: `Spec => []TypeOK`.
* `VectorCorrect`: `Spec => []VectorExact`.
* `EventsCorrect`: `Spec => []EventsFresh`.
* `CloseUnreachable`: `Spec => []CloseNeverCalled`.

The inductive invariant `IInv` adds two facts to these. `EventsUsedUp`: no event
is left when `process_connections` deletes a connection, without which an event could
outlive it and `EventsFresh` would not be inductive. `CloseOnlyInListen`: close
is selected only inside `listen()`, while its later steps are still to come, or when
`run()` has ended, without which nothing would say that the selected function is not
called. `VectorExact` in turn needs `EventsFresh`: an event deletes
a connection that is still in the vector. The lemmas show what `push_back`,
`accept` and `remove_if` do to a sequence without repetitions; then there is one step
per action. The specification's fairness is not used.

* `LifeRefinement`: `Spec => LifeSpec`, each connection a `ConnectionLife`. It needs
  `EventsFresh`: an event deletes a connection that is open, not one that is shut.
* `NodeRefinement`: `Spec => Node!Steps`, the safety part of `NodeLife`; no invariant is
  needed.

`ConnectionProofs`, for every buffer length, peer and set of messages, from the
assumptions of `Connection` and `Messages`:

* `TypeCorrect`: `Spec => []TypeOK`, rings, queues and histories included.
* `StreamCorrect`: `Spec => []UnreadStream`.
* `SentCorrect`: `Spec => []SentArrives`.
* `OutBufferEmpty`: `Spec => []NothingWaits`.
* `TouchedCorrect`: `Spec => []TouchedOnlyAtEnd`.
* `LifeRefinement`: `Spec => LifeSpec`.

The inductive invariant `IInv` adds three facts. `Buffers`: the indices of both
rings agree (the lemmas of `RingProofs`, so a write appends and a read removes a
prefix) and the output ring is empty. `StreamEnds` is `UnreadStream`
in a form without quantifiers over positions: what was sent is something consumed
followed by what is unread. `Handshake`: before the handshake the sequence number is 0,
and a connection that waits in `open_connection` has a header with a payload.
`OnlyCloseOnClosed`: a closed socket belongs to a connection
that was told to close and gets no event; without it another function could delete
a connection that is shut, and `LifeSpec` would not hold.

`RecyclrClientProofs`, for every host (`CoreAssumption`: the highest core is a
natural number):

* `TypeCorrect`, `OutliveCorrect`, `PinnedCorrect`: `TypeOK`, `NoneOutlives`,
  `NodesPinned` are invariants. They are inductive together with `Placed`: a node has a
  thread from its construction on, and the walks over the nodes begin with the
  first.
* `NodeRefinement`: `Spec => NodeSteps`, the safety part of `NodeSpec`.

`SessionProofs`, for every set of messages, from the assumptions of `Messages`:

* `AnsweredOwed`: in `EchoSession` what was answered is always the beginning of what
  is owed. The induction is over steps; what `Replies` is for a longer or a shorter
  list of messages follows from lemmas about sets: a rank grows with the position, a
  message adds at most one answer and leaves those before it alone (`RepliesAt`,
  `RepliesPrefix`, `RepliesNext`). Where one needs a least position, `LeastOf`
  derives it from the well-foundedness of `<` on the naturals, which the library states
  without an operator parameter.

`EchoProofs`, for every buffer length, send buffer, peer, set and number of
messages, from the assumptions of `Connection` and `Messages`:

* `AnswersCorrect`: `Spec => []AnswersHaveHeaders`, for peers of any behaviour and
  payloads that hold anything.
* `InStepCorrect`: `Spec => []InStep`.
* `SpuriousEndCorrect`: `Spec => []NoSpuriousEnd`. This and the one before are about
  connections that have lost nothing: both formulas except a buffer that overflowed and a
  misread header.
* `EchoStepsCorrect`: `Spec => EchoSteps`. Every action maps to one step of the
  abstract session or to a stutter, as long as nothing was lost.
* `SmallStreamCorrect`: `Spec => []SmallStreamIntact`.
* `EchoRefinement`: from the two before, `Connection` implements the safety part of
  `EchoSession` for a peer that keeps to the protocol and sends less than the
  buffer holds. Both conditions are needed: without the first a payload may be taken
  for a request, and without the second the program loses data. `connection_echo` has states
  that satisfy both, and behaviours in which everything is answered.

`IInv` of `ConnectionProofs` says that what is unread is the end of the stream; these
theorems need to know which message it begins in. Four invariants are
inductive together with it:

* `SInv`. There are marks `m` that cut the stream into the messages of `script`
  (`Marks`; they exist at each moment and grow with each message sent, so nothing is
  computed by recursion). `Follows` is for a peer that speaks the protocol: the
  state functions are at the end of the message `k` or at its payload, and sent exactly the
  answers to the messages so far.
* `Backed`, for any peer, looks at the stream alone: there are places in it, one for each
  answer sent (`Served`) and one for the request in work (`Working`), where a header with
  its magic was taken, each behind the header and the payload of the place before. It
  holds, unless cells were cut or misread, also after the program has lost the message
  boundaries, because a header is taken
  only at the end of what is consumed, and that only grows.
* `EndInv`: the program ends a connection only for its peer or for what it lost. The
  hang-up in the snapshot of events must be that of the peer, otherwise the next `EventHup`
  would break it.
* `RoomInv`: the end index of the input ring is the start plus the size, and the
  start has moved no further than the stream, so that there is always room to the
  end of the array. `SmallStreamIntact` alone is not inductive: a wrapped ring would
  let the next `peek` go wrong.

`ConfigProofs`, for every width of `int`, every set of values that are edited in, and every
number of edits, from `ConfigAssumption`:

* `TypeCorrect`, `EffectCorrect`, `DefaultsLost`: `TypeOK`, `SettingsInEffect` and
  `NoDefaultLeft` are invariants. The inductive invariant adds that the file
  has a value of one of the four kinds for each name (`FileOK`) and that the configuration has
  every setting and list (`Fields`); `load_from_json` is one step, so the
  weight is in the lemmas about the conversions of json11 and of C++.

Every safety invariant that a passing run checks is thus proved, and so are the
safety parts of the refinements and `EchoSteps`. Left to TLC is liveness, because
the prover does not handle fairness and ENABLED: `Answered`, `PeerEndSeen`,
`CloseReleases`, `EveryoneCalled`, `ActivitySeen`, `FirstWaiterAccepted`,
`WorkersEnd`, both `DestructorReturns`, and the fairness in `EchoSpec` and `NodeSpec`. So
is that a violation exists, which is what the five last runs show. No module that
is proved about reaches a RECURSIVE definition.

## Not modelled

The plan of the project is done. What is left out, and why:

* libcds and json11, vendored under src/include: 119 of the 120 thousand lines of the
  repository. libcds is included and nothing of it is called. Of json11 only the accessors that `load_from_json`
  calls are modelled; what its parser makes of the text is an input of `Config`. Counted
  over the repository, the lines that the modules stand for are therefore few;
  of the 1300 lines of the program itself they are most.
* The clock and the log (recyclr-utils.cpp:4-16, recyclr-utils.h:32-41): output that
  nothing reads. The ATOMIC_ macros and `exec` of recyclr-commands.h have no caller.
* The text of addresses and versions (`get_local_ip_address`,
  `get_client_version_str`, `_peer_ipv4_addr`): only logged.
* `recyclr-buffer-pool.h`, which recyclr-client.cpp:8 includes, is not in the
  repository.
* EPOLLPRI is registered but never looked at.
* The numbers of descriptors and their reuse: every socket has a name of its own. So a
  close that is retried after EIO and hits another connection's descriptor is not seen.
