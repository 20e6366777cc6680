------------------------------ MODULE NetClient ------------------------------
(***************************************************************************)
(* The network node (class NetClient, recyclr-net.cpp): its thread, the    *)
(* listening socket and its edge-triggered registration, the vector        *)
(* _open_connections, and the destructor, which runs on another thread.    *)
(*                                                                         *)
(* What a connection does inside recv(), send() and state() is module      *)
(* Connection; here a call of a connection keeps it, closes its socket, or *)
(* deletes it.  Connecting peers and the kernel are external.              *)
(***************************************************************************)
EXTENDS Integers, Sequences, FiniteSets, SequencesExt

CONSTANTS Conn,         \* the connections that peers may open, each once
          Listener,     \* the null epoll data of the listening socket
          Backlog       \* RECYCLR_BACKLOG

ASSUME NetClientAssumption == Listener \notin Conn /\ Backlog \in Nat \ {0}

VARIABLES
    thread,     \* _thr: "running" or "exited"; "crashed": the process is gone
    state_fn,   \* _state_fn
    pc,         \* "loop": at the test of run(); else inside a state function
    running,    \* _running
    socket_fd,  \* _socket_fd >= 0
    main,       \* the owner's thread: "using", or where it is in ~NetClient
    listener,   \* the socket: "none", "listening", "closed", "leaked"
    epoll,      \* the epoll descriptor: "none" or "open"
    edge,       \* the registration of the listening socket has an edge
    backlog,    \* established connections that wait for accept()
    con,        \* what became of each connection, see below
    hot,        \* the connections whose registration has an edge
    events,     \* _epoll_events: what epoll_wait returned, to be handled
    opens,      \* _open_connections
    it          \* the position of the iterator of process_connections

vars == <<thread, state_fn, pc, running, socket_fd, main, listener, epoll, edge,
          backlog, con, hot, events, opens, it>>

control == <<thread, state_fn, pc>>
owner   == <<running, socket_fd, main>>
watch   == <<epoll, edge, hot, events>>
pool    == <<con, opens, it>>

\* "open": a live object with a socket.  "shut": a live object whose socket is
\* closed.  "lost": an accepted socket that no vector element owns.  "gone":
\* refused, given up or reset before accept().
ConStates == {"absent", "pending", "open", "shut", "deleted", "lost", "gone"}

Init ==
    /\ thread = "running" /\ state_fn = "start" /\ pc = "loop"
    /\ running = TRUE /\ socket_fd = FALSE /\ main = "using"
    /\ listener = "none" /\ epoll = "none" /\ edge = FALSE /\ backlog = <<>>
    /\ con = [c \in Conn |-> "absent"]
    /\ hot = {} /\ events = {} /\ opens = <<>> /\ it = 1

\* A state function that returns non-zero ends the loop of run() at once.
Break == thread' = "exited" /\ pc' = "loop"

Continue(f) == state_fn' = f /\ pc' = "loop" /\ UNCHANGED thread

\* The loop calls f.
Calls(f) == thread = "running" /\ pc = "loop" /\ running /\ state_fn = f

Inside(p) == thread = "running" /\ pc = p

\* s without c, which s holds at most once (VectorExact).
Without(s, c) == IF \E i \in 1 .. Len(s) : s[i] = c
                 THEN RemoveAt(s, CHOOSE i \in 1 .. Len(s) : s[i] = c)
                 ELSE s

-----------------------------------------------------------------------------
(***************************************************************************)
(* The network thread: start and listen.  listen() selects close() first,  *)
(* and handle_socket() only when everything worked; the owner may run      *)
(* ~NetClient between its steps.                                           *)
(***************************************************************************)
RunEnds ==
    /\ thread = "running" /\ pc = "loop" /\ ~running
    /\ thread' = "exited"
    /\ UNCHANGED <<state_fn, pc, owner, listener, backlog, watch, pool>>

Start ==
    /\ Calls("start")
    /\ Continue("listen")
    /\ UNCHANGED <<owner, listener, backlog, watch, pool>>

\* setup_listening_socket: when it fails after socket(), nothing closes what
\* socket() returned.
ListenSocket ==
    /\ Calls("listen")
    /\ state_fn' = "close"
    /\ \/ /\ listener' = "listening" /\ socket_fd' = TRUE
          /\ pc' = "flags" /\ UNCHANGED thread
       \/ /\ listener' \in {"none", "leaked"} /\ UNCHANGED socket_fd
          /\ Break
    /\ UNCHANGED <<running, main, backlog, watch, pool>>

\* fcntl fails on a descriptor that the owner has closed, or for its own reasons.
ListenFlagsGoesOn ==                    \* mutant: the error is not returned
    /\ Inside("flags")
    /\ \/ socket_fd /\ pc' = "epoll" /\ UNCHANGED thread
       \/ pc' = "loop" /\ UNCHANGED thread
    /\ UNCHANGED <<state_fn, owner, listener, backlog, watch, pool>>

ListenFlags ==
    /\ Inside("flags")
    /\ \/ socket_fd /\ pc' = "epoll" /\ UNCHANGED thread
       \/ Break
    /\ UNCHANGED <<state_fn, owner, listener, backlog, watch, pool>>

ListenEpoll ==
    /\ Inside("epoll")
    /\ \/ epoll' = "open" /\ pc' = "register" /\ UNCHANGED thread
       \/ Break /\ UNCHANGED epoll
    /\ UNCHANGED <<state_fn, owner, listener, backlog, edge, hot, events, pool>>

\* A registration reports what is ready already.
ListenRegister ==
    /\ Inside("register")
    /\ \/ socket_fd /\ edge' = (backlog # <<>>) /\ Continue("handle_socket")
       \/ Break /\ UNCHANGED <<state_fn, edge>>
    /\ UNCHANGED <<owner, listener, backlog, epoll, hot, events, pool>>

-----------------------------------------------------------------------------
(***************************************************************************)
(* The network thread: handle_socket.  The listening socket is registered  *)
(* with EPOLLET, and one event of it leads to one accept().                *)
(***************************************************************************)
EpollWaitOnlyListener ==                \* mutant: the other events are dropped
    /\ Calls("handle_socket")
    /\ events' = IF edge /\ backlog # <<>> THEN {Listener} ELSE {}
    /\ edge' = FALSE /\ hot' = {} /\ pc' = "events"
    /\ UNCHANGED <<thread, state_fn, owner, listener, backlog, epoll, pool>>
EpollWaitNoListener ==                  \* mutant: connections come first
    /\ Calls("handle_socket")
    /\ events' = IF hot # {} THEN hot
                 ELSE IF edge /\ backlog # <<>> THEN {Listener} ELSE {}
    /\ edge' = FALSE /\ hot' = {} /\ pc' = "events"
    /\ UNCHANGED <<thread, state_fn, owner, listener, backlog, epoll, pool>>

EpollWait ==
    /\ Calls("handle_socket")
    /\ events' = hot \cup (IF edge /\ backlog # <<>> THEN {Listener} ELSE {})
    /\ edge' = FALSE /\ hot' = {}
    /\ pc' = "events"
    /\ UNCHANGED <<thread, state_fn, owner, listener, backlog, epoll, pool>>

Accepting == Inside("events") /\ Listener \in events
                 /\ events' = events \ {Listener}

AcceptNullData ==                       \* mutant: data.ptr is left null
    /\ Accepting /\ socket_fd /\ backlog # <<>>
    /\ backlog' = Tail(backlog)
    /\ con' = [con EXCEPT ![Head(backlog)] = "open"]
    /\ opens' = Append(opens, Head(backlog))
    /\ hot' = hot \cup {Listener}
    /\ UNCHANGED <<control, owner, listener, epoll, edge, it>>

\* A new registration reports at once that the socket can be written.
AcceptOne ==
    /\ Accepting /\ socket_fd /\ backlog # <<>>
    /\ backlog' = Tail(backlog)
    /\ con' = [con EXCEPT ![Head(backlog)] = "open"]
    /\ opens' = Append(opens, Head(backlog))
    /\ hot' = hot \cup {Head(backlog)}
    /\ UNCHANGED <<control, owner, listener, epoll, edge, it>>

\* set_socket_flags or epoll_ctl fails after accept().
AcceptLost ==
    /\ Accepting /\ socket_fd /\ backlog # <<>>
    /\ backlog' = Tail(backlog)
    /\ con' = [con EXCEPT ![Head(backlog)] = "lost"]
    /\ state_fn' = "close" /\ Break
    /\ UNCHANGED <<owner, listener, epoll, edge, hot, opens, it>>

\* EAGAIN: who was there has gone.
AcceptNothing ==
    /\ Accepting /\ socket_fd /\ backlog = <<>>
    /\ UNCHANGED <<control, owner, listener, backlog, epoll, edge, hot, pool>>

\* Any other error, such as EMFILE, or EBADF when the owner has closed it.
AcceptFatal ==
    /\ Accepting
    /\ state_fn' = "close" /\ Break
    /\ UNCHANGED <<owner, listener, backlog, epoll, edge, hot, pool>>

\* handle_epoll_event: the connection stays, or is deleted, which closes its
\* socket and takes it out of the vector.
EventKeeps(c) ==
    /\ Inside("events") /\ c \in events
    /\ events' = events \ {c}
    /\ UNCHANGED <<control, owner, listener, backlog, epoll, edge, hot, pool>>

EventFrees(c) ==                        \* mutant: no erase in the destructor
    /\ Inside("events") /\ c \in events
    /\ events' = events \ {c} /\ hot' = hot \ {c}
    /\ con' = [con EXCEPT ![c] = "deleted"]
    /\ UNCHANGED <<control, owner, listener, backlog, epoll, edge, opens, it>>

EventDeletes(c) ==
    /\ Inside("events") /\ c \in events
    /\ events' = events \ {c}
    /\ con' = [con EXCEPT ![c] = "deleted"]
    /\ opens' = Without(opens, c)
    /\ hot' = hot \ {c}
    /\ UNCHANGED <<control, owner, listener, backlog, epoll, edge, it>>

\* recv() or send() takes the process with it: SIGPIPE, or the use of a
\* connection that recv() has just deleted.
EventCrashes(c) ==
    /\ Inside("events") /\ c \in events
    /\ thread' = "crashed"
    /\ UNCHANGED <<state_fn, pc, owner, listener, backlog, watch, pool>>

EventsLeft ==                           \* mutant: the rest is kept for later
    /\ Inside("events")
    /\ Continue("process_connections")
    /\ UNCHANGED <<owner, listener, backlog, watch, pool>>

EventsDone ==
    /\ Inside("events") /\ events = {}
    /\ Continue("process_connections")
    /\ UNCHANGED <<owner, listener, backlog, watch, pool>>

-----------------------------------------------------------------------------
(***************************************************************************)
(* The network thread: process_connections.  The iterator is a position,   *)
(* which a deletion under it does not move.                                *)
(***************************************************************************)
ProcessSecond ==                        \* mutant: off by one
    /\ Calls("process_connections")
    /\ pc' = "states" /\ it' = IF opens = <<>> THEN 1 ELSE 2
    /\ UNCHANGED <<thread, state_fn, owner, listener, backlog, watch, con, opens>>

ProcessBegins ==
    /\ Calls("process_connections")
    /\ pc' = "states" /\ it' = 1
    /\ UNCHANGED <<thread, state_fn, owner, listener, backlog, watch, con, opens>>

AtConnection(c) == Inside("states") /\ it <= Len(opens) /\ opens[it] = c

StateKeeps(c) ==
    /\ AtConnection(c)
    /\ it' = it + 1
    /\ UNCHANGED <<control, owner, listener, backlog, watch, con, opens>>

\* Connection::close: the socket is closed, the object stays in the vector.
StateShutsHot(c) ==                     \* mutant: epoll still has the socket
    /\ AtConnection(c) /\ con[c] = "open"
    /\ con' = [con EXCEPT ![c] = "shut"]
    /\ it' = it + 1
    /\ UNCHANGED <<control, owner, listener, backlog, watch, opens>>

StateShuts(c) ==
    /\ AtConnection(c) /\ con[c] = "open"
    /\ con' = [con EXCEPT ![c] = "shut"]
    /\ hot' = hot \ {c}
    /\ it' = it + 1
    /\ UNCHANGED <<control, owner, listener, backlog, epoll, edge, events, opens>>

\* state() deletes its connection (receive_msg_payload calls recv()): the next
\* one moves under the iterator and is passed over.  When the deleted one was
\* the last, the iterator goes past the end, never meets it, and runs on until
\* the process dies.
StateDeletes(c) ==
    /\ AtConnection(c) /\ con[c] = "open"
    /\ con' = [con EXCEPT ![c] = "deleted"]
    /\ opens' = Without(opens, c)
    /\ hot' = hot \ {c}
    /\ it' = it + 1
    /\ thread' = IF it = Len(opens) THEN "crashed" ELSE thread
    /\ UNCHANGED <<state_fn, pc, owner, listener, backlog, epoll, edge, events>>

\* Likewise for what a state function does.
StateCrashes(c) ==
    /\ AtConnection(c) /\ con[c] = "open"
    /\ thread' = "crashed"
    /\ UNCHANGED <<state_fn, pc, owner, listener, backlog, watch, pool>>

ProcessEnds ==
    /\ Inside("states") /\ it = Len(opens) + 1
    /\ Continue("handle_socket")
    /\ UNCHANGED <<owner, listener, backlog, watch, pool>>

-----------------------------------------------------------------------------
(***************************************************************************)
(* The owner's thread: stop() and the three steps of ~NetClient.           *)
(***************************************************************************)
Alive == thread # "crashed"

Stop ==
    /\ Alive /\ main = "using" /\ running
    /\ running' = FALSE
    /\ UNCHANGED <<control, socket_fd, main, listener, backlog, watch, pool>>

\* Closing a listening socket resets what waits in its backlog.
DtorSocket ==
    /\ Alive /\ main = "using"
    /\ main' = "stopping"
    /\ IF socket_fd
       THEN /\ socket_fd' = FALSE /\ listener' = "closed"
            /\ edge' = FALSE /\ backlog' = <<>>
            /\ con' = [c \in Conn |-> IF con[c] = "pending" THEN "gone" ELSE con[c]]
       ELSE UNCHANGED <<socket_fd, listener, edge, backlog, con>>
    /\ UNCHANGED <<control, running, epoll, hot, events, opens, it>>

DtorOnlyJoins ==                        \* mutant: _running is not cleared
    /\ Alive /\ main = "stopping"
    /\ main' = "joining"
    /\ UNCHANGED <<control, running, socket_fd, listener, backlog, watch, pool>>

DtorStop ==
    /\ Alive /\ main = "stopping"
    /\ running' = FALSE /\ main' = "joining"
    /\ UNCHANGED <<control, socket_fd, listener, backlog, watch, pool>>

DtorJoin ==
    /\ main = "joining" /\ thread = "exited"
    /\ main' = "destroyed"
    /\ UNCHANGED <<control, running, socket_fd, listener, backlog, watch, pool>>

-----------------------------------------------------------------------------
(***************************************************************************)
(* The peers.                                                              *)
(***************************************************************************)
Registered == epoll = "open" /\ state_fn \in {"handle_socket", "process_connections"}

Connect(c) ==
    /\ Alive /\ con[c] = "absent" /\ listener = "listening" /\ Len(backlog) < Backlog
    /\ con' = [con EXCEPT ![c] = "pending"]
    /\ backlog' = Append(backlog, c)
    /\ edge' = (edge \/ Registered)
    /\ UNCHANGED <<control, owner, listener, epoll, hot, events, opens, it>>

\* A peer gives up before it is accepted.
Abandon(c) ==
    /\ Alive /\ con[c] = "pending"
    /\ con' = [con EXCEPT ![c] = "gone"]
    /\ backlog' = Without(backlog, c)
    /\ UNCHANGED <<control, owner, listener, watch, opens, it>>

\* Data, room to send, or the end of the peer.
Activity(c) ==
    /\ Alive /\ con[c] = "open" /\ c \notin hot
    /\ hot' = hot \cup {c}
    /\ UNCHANGED <<control, owner, listener, backlog, epoll, edge, events, pool>>

-----------------------------------------------------------------------------
Thread ==
    \/ RunEnds \/ Start \/ ListenSocket \/ ListenFlags \/ ListenEpoll \/ ListenRegister
    \/ EpollWait \/ AcceptOne \/ AcceptLost \/ AcceptNothing \/ AcceptFatal
    \/ \E c \in Conn : EventKeeps(c) \/ EventDeletes(c) \/ EventCrashes(c)
    \/ EventsDone \/ ProcessBegins
    \/ \E c \in Conn : StateKeeps(c) \/ StateShuts(c) \/ StateDeletes(c)
                        \/ StateCrashes(c)
    \/ ProcessEnds

Owner == Stop \/ DtorSocket \/ DtorStop \/ DtorJoin

Peers == \E c \in Conn : Connect(c) \/ Abandon(c) \/ Activity(c)

Next == Thread \/ Owner \/ Peers

\* Both threads run; nothing obliges the owner to begin the destructor.
Fairness == WF_vars(Thread) /\ WF_vars(DtorStop \/ DtorJoin)

Spec == Init /\ [][Next]_vars /\ Fairness

-----------------------------------------------------------------------------
\* Type invariant.
TypeOK ==
    /\ thread \in {"running", "exited", "crashed"}
    /\ state_fn \in {"start", "listen", "handle_socket", "process_connections", "close"}
    /\ pc \in {"loop", "flags", "epoll", "register", "events", "states"}
    /\ running \in BOOLEAN /\ socket_fd \in BOOLEAN
    /\ main \in {"using", "stopping", "joining", "destroyed"}
    /\ listener \in {"none", "listening", "closed", "leaked"}
    /\ epoll \in {"none", "open"} /\ edge \in BOOLEAN
    /\ backlog \in Seq(Conn) /\ con \in [Conn -> ConStates]
    /\ hot \subseteq Conn /\ events \subseteq Conn \cup {Listener}
    /\ opens \in Seq(Conn) /\ it \in Nat

\* _open_connections holds exactly the live connection objects, each once,
\* after any interleaving of accepts, closes and deletions from events and
\* from state functions, and the backlog exactly those that wait: no
\* connection is served twice in a pass or forgotten (recyclr-net.cpp:204-213,
\* 341-357, 368-372).
VectorExact ==
    /\ ToSet(opens) = {c \in Conn : con[c] \in {"open", "shut"}}
    /\ IsInjective(opens)
    /\ ToSet(backlog) = {c \in Conn : con[c] = "pending"}
    /\ IsInjective(backlog)

\* The pointers that epoll_wait returned, and those that it may return next,
\* belong to live objects with an open socket until they are used, although
\* connections are deleted while the array is being worked through
\* (recyclr-net.cpp:315-362).
EventsFresh ==
    thread = "running" => \A c \in (events \cup hot) \ {Listener} : con[c] = "open"

\* The life of the connection c; when the process dies every object dies.
LifeOf(c) == IF con[c] \in {"open", "shut"}
             THEN (IF thread = "crashed" THEN "crashed" ELSE con[c])
             ELSE (IF con[c] = "deleted" THEN "deleted" ELSE "none")

Turn == IF pc = "states" THEN "state" ELSE "event"

Life(c) == INSTANCE ConnectionLife WITH life <- LifeOf(c), turn <- Turn

\* Nothing more is assumed of a connection than Connection promises, and each is
\* called as it expects: no event reaches one whose socket a state function
\* has closed, and a deleted one is not called again
\* (recyclr-net.cpp:313-376, 398-423).
LifeSpec ==
    /\ \A c \in Conn : Life(c)!Init
    /\ [][\A c \in Conn : [Life(c)!Step]_(Life(c)!vars)]_vars

\* Every error selects NetClient::close and, in the same return, ends run():
\* the function is selected but never called (recyclr-net.cpp:259-263, 276,
\* 330-331, 337-338, 352-353).
CloseNeverCalled == ~Calls("close")

\* Every live connection gets its state function called again and again, even
\* when deletions under the iterator make it pass over a neighbour
\* (recyclr-net.cpp:368-376).
EveryoneCalled ==
    \A c \in Conn :
        con[c] \in {"open", "shut"}
            ~> AtConnection(c) \/ con[c] = "deleted" \/ thread # "running"

\* Activity on a connection gets among the events that the thread works through:
\* an edge that comes while it works through earlier ones is not lost
\* (recyclr-net.cpp:313-366).
ActivitySeen ==
    \A c \in Conn : c \in hot ~> c \in events \/ con[c] # "open" \/ thread # "running"

\* An arrival makes the thread accept the connection that waits first: the
\* edge of the listening socket is not consumed without an accept(), also when
\* it comes between listen(2) and the registration, or while the thread works
\* through earlier events (recyclr-net.cpp:294-297, 315-325).
FirstWaiterAccepted ==
    \A c \in Conn :
        edge /\ backlog # <<>> /\ Head(backlog) = c
            ~> con[c] # "pending" \/ thread # "running"

\* ~NetClient returns: the network thread notices _running whatever it is
\* doing, and whenever the destructor starts (recyclr-net.cpp:233-251, 259).
DestructorReturns == main = "stopping" ~> main = "destroyed" \/ thread = "crashed"

\* The node lives as NodeLife says, which is all that RecyclrClient relies on:
\* its thread ends once and for all, its object after its thread, and a thread
\* that is told to end does (recyclr-net.cpp:224-251, 253-266).
Node == INSTANCE NodeLife WITH owner <- main

NodeSpec == Node!Spec

\* README.md:3, "The client is able to create and accept connections": a peer
\* that waits in the backlog is accepted as long as the network thread runs.
WaitersAccepted ==
    \A c \in Conn : con[c] = "pending" ~> con[c] # "pending" \/ thread # "running"

\* The comments of recyclr-net.cpp:380 and 385, "close out all our tcp sockets"
\* and "close our epoll fd": when the network thread has ended, they are closed.
AllClosed ==
    thread = "exited" => epoll = "none" /\ \A c \in Conn : con[c] \notin {"open", "lost"}

=============================================================================
