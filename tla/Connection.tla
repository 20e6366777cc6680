----------------------------- MODULE Connection ------------------------------
(***************************************************************************)
(* One accepted connection (class Connection, recyclr-net.cpp): its state  *)
(* functions, its two ring buffers, and its part of the network thread's   *)
(* loop, which alternates one pass over the epoll events                   *)
(* (NetClient::handle_socket) with one call of every connection's state    *)
(* function (NetClient::process_connections).  The peer and the TCP socket *)
(* under the connection are external and act between any two steps.        *)
(***************************************************************************)
EXTENDS Messages, SequencesExt

CONSTANTS
    BufferLen,      \* CONNECTION_BUFFER_LEN, and "char big_buffer[1 << 20]"
    SndBuf,         \* the room in the socket's send buffer
    PeerMsgs,       \* the messages that the peer sends, as cells
    ReplyPayload,   \* the payload_len of a reply, 100 in the code
    MaxMsgs         \* bound: the number of messages that the peer sends

ASSUME ConnectionAssumption ==
    /\ BufferLen \in Nat /\ SndBuf \in Nat /\ MaxMsgs \in Nat
    /\ PeerMsgs \subseteq Seq(Cell) /\ \A m \in PeerMsgs : Len(m) >= HeaderLen
    /\ ReplyPayload \in 0 .. MaxPayload
    /\ BufferLen >= HeaderLen + ReplyPayload

INSTANCE RingOps WITH Capacity <- BufferLen

VARIABLES
    fn,         \* _state_fn
    hdr,        \* _reusable_header
    lastSend,   \* _last_send_time
    inb, outb,  \* _in_buffer, _out_buffer
    fd,         \* "open", or "closed" once _fd is -1
    life,       \* the object: "live", "deleted"; "crashed": the process is
    phase,      \* where the network thread is: "wait", "event" or "state"
    mask,       \* the events that epoll_wait returned for this socket
    wire,       \* sent by the peer and not yet received by this host
    rcvq,       \* the receive queue of the socket
    peer,       \* what the socket knows or will know of the peer, see below
    ready,      \* the edge-triggered registration has an edge to report
    room,       \* the free room in the send buffer
    script,     \* history: the messages that the peer sent
    stream,     \* history: their cells
    sent,       \* history: the headers of the messages the program sent
    told,       \* history: the cells of these messages
    toPeer,     \* history: the cells that the socket accepted for the peer
    faults      \* history: what went wrong on this connection, see below

vars == <<fn, hdr, lastSend, inb, outb, fd, life, phase, mask, wire, rcvq, peer,
          ready, room, script, stream, sent, told, toPeer, faults>>

object  == <<fn, hdr, lastSend, inb, outb, fd>>
loop    == <<phase, mask>>
arrival == <<wire, rcvq, peer, ready>>
heard   == <<script, stream>>
answers == <<sent, told>>
history == <<heard, answers, toPeer, faults>>

Functions == {"await_handshake", "open_connection", "handle_open_channel",
              "receive_msg_payload", "send_msg", "close"}

\* "closing": the FIN is on its way, behind the data.  "closed": it is here.
\* "reset": a RST is here, its error is not yet reported.  "broken": it is
\* reported, or came after a FIN; recv() returns 0 and send() raises SIGPIPE.
PeerStates == {"open", "closing", "closed", "reset", "broken"}

\* "truncated": write() had no room for all that recv() read.
\* "overrun": recv() filled its local buffer with more to read.
\* "misread": peek() did not show the header that pop() would return.
\* "unsent": the socket did not accept all that send() took from _out_buffer.
\* "touched": a member function ran on the deleted object.
Fault == {"truncated", "overrun", "misread", "unsent", "touched"}

Init ==
    /\ fn = "await_handshake" /\ hdr = NoHeader /\ lastSend = 0
    /\ \E r \in [start : {0}, end : {0}, size : {0}, cells : [Slot -> {Blank}]] :
           inb = r /\ outb = r
    /\ fd = "open" /\ life = "live"
    /\ phase = "wait" /\ mask = {}
    /\ wire = <<>> /\ rcvq = <<>> /\ peer = "open"
    /\ ready = TRUE                 \* a new registration reports at once
    /\ room = SndBuf
    /\ script = <<>> /\ stream = <<>>
    /\ sent = <<>> /\ told = <<>> /\ toPeer = <<>> /\ faults = {}

Flag(fault, when) == IF when THEN {fault} ELSE {}

-----------------------------------------------------------------------------
(***************************************************************************)
(* The peer and the two TCP stacks.                                        *)
(***************************************************************************)
Attached == life = "live" /\ fd = "open"

PeerSend(m) ==
    /\ Attached /\ peer = "open" /\ Len(script) < MaxMsgs
    /\ script' = Append(script, m) /\ stream' = stream \o m
    /\ wire' = wire \o m
    /\ UNCHANGED <<object, life, loop, rcvq, peer, ready, room, answers, toPeer, faults>>

\* Some of what was sent arrives, in order, split anywhere.
Deliver(k) ==
    /\ Attached /\ peer \in {"open", "closing"} /\ k <= Len(wire)
    /\ rcvq' = rcvq \o SubSeq(wire, 1, k)
    /\ wire' = SubSeq(wire, k + 1, Len(wire))
    /\ ready' = TRUE
    /\ UNCHANGED <<object, life, loop, peer, room, history>>

PeerClose ==
    /\ Attached /\ peer = "open"
    /\ peer' = "closing"
    /\ UNCHANGED <<object, life, loop, wire, rcvq, ready, room, history>>

DeliverFin ==
    /\ Attached /\ peer = "closing" /\ wire = <<>>
    /\ peer' = "closed" /\ ready' = TRUE
    /\ UNCHANGED <<object, life, loop, wire, rcvq, room, history>>

\* A RST arrives; what is still on the wire is never received.
PeerReset ==
    /\ Attached /\ peer \in {"open", "closing", "closed"}
    /\ peer' = IF peer = "closed" THEN "broken" ELSE "reset"
    /\ ready' = TRUE
    /\ UNCHANGED <<object, life, loop, wire, rcvq, room, history>>

\* The peer reads and acknowledges: the send buffer is empty again.
PeerReads ==
    /\ Attached /\ room < SndBuf
    /\ room' = SndBuf
    /\ ready' = (ready \/ room = 0)
    /\ UNCHANGED <<object, life, loop, wire, rcvq, peer, history>>

-----------------------------------------------------------------------------
(***************************************************************************)
(* Connection::recv and Connection::send.                                  *)
(***************************************************************************)
\* What the loop of recv() reads, and whether its last ::recv returns zero:
\* when the peer has closed, and also when big_buffer is full and there is
\* more, because its length argument is 0 then.
Taken    == SubSeq(rcvq, 1, Least(Len(rcvq), BufferLen))

RecvZeroWhenFull == Len(rcvq) >= BufferLen \/ peer \in {"closed", "broken"} \* mutant
RecvZeroNoFin == Len(rcvq) > BufferLen                                      \* mutant

RecvZero == Len(rcvq) > BufferLen \/ peer \in {"closed", "broken"}

\* The effect of recv() on the socket; the ring r becomes write(r, Taken).
PeerAfterRecv == IF peer = "reset" /\ ~RecvZero THEN "broken" ELSE peer

RcvqAfterRecv == SubSeq(rcvq, Len(Taken) + 1, Len(rcvq))

recv == rcvq' = RcvqAfterRecv /\ peer' = PeerAfterRecv

RecvFaults(r) == Flag("truncated", WriteLen(r, Taken) < Len(Taken))
                   \cup Flag("overrun", Len(rcvq) > BufferLen)

\* send() takes everything out of _out_buffer, here the ring r, and offers it
\* to the socket, whose peer is in state p; the rest is gone.
OutKept(r) == r                         \* mutant: nothing is taken out

OutAfterSend(r) == AfterRead(r, r.size)

Accepted(r, p) == IF p \in {"reset", "broken"} THEN 0 ELSE Least(r.size, room)

send(r, p) ==
    /\ outb' = OutAfterSend(r)
    /\ toPeer' = toPeer \o SubSeq(ReadData(r, r.size), 1, Accepted(r, p))
    /\ room' = room - Accepted(r, p)
    /\ peer' = IF r.size > 0 /\ p = "reset" THEN "broken" ELSE p
    /\ life' = IF r.size > 0 /\ p = "broken" THEN "crashed" ELSE life

SendFaults(r, p) == Flag("unsent", Accepted(r, p) < r.size)

\* _out_buffer after prepare_send has written the message h.
Prepared(h) == write(outb, MessageCells(h))

\* prepare_send(h and its payload, immediate = true).
prepare_send(h) == /\ send(Prepared(h), peer)
                   /\ sent' = Append(sent, h) /\ told' = told \o MessageCells(h)

-----------------------------------------------------------------------------
(***************************************************************************)
(* NetClient::handle_socket: epoll_wait, then handle_epoll_event.          *)
(***************************************************************************)
Readiness ==
    Flag("in", rcvq # <<>> \/ peer \in {"closed", "reset", "broken"})
      \cup Flag("out", room > 0 \/ peer \in {"reset", "broken"})
      \cup Flag("hup", peer \in {"reset", "broken"})

EpollWait ==
    /\ life = "live" /\ phase = "wait"
    /\ mask' = IF fd = "open" /\ ready THEN Readiness ELSE {}
    /\ phase' = IF mask' = {} THEN "state" ELSE "event"
    /\ ready' = FALSE
    /\ UNCHANGED <<object, life, wire, rcvq, peer, room, history>>

Event == life = "live" /\ phase = "event" /\ phase' = "state" /\ mask' = {}

EventHupCloses ==                       \* mutant: close() instead of delete
    /\ Event /\ "hup" \in mask
    /\ fd' = "closed" /\ fn' = "close"
    /\ UNCHANGED <<life, hdr, lastSend, inb, outb, arrival, room, history>>

\* The destructor, which closes the socket.
EventHup ==
    /\ Event /\ "hup" \in mask
    /\ life' = "deleted" /\ fd' = "closed"
    /\ UNCHANGED <<fn, hdr, lastSend, inb, outb, arrival, room, history>>

\* recv() deletes the connection; handle_epoll_event then calls its send().
EventRecvEnd ==
    /\ Event /\ "hup" \notin mask /\ "in" \in mask /\ RecvZero
    /\ recv
    /\ inb' = write(inb, Taken)
    /\ fd' = "closed"
    /\ life' \in {"deleted"} \cup Flag("crashed", "out" \in mask)
    /\ faults' = faults \cup RecvFaults(inb) \cup Flag("touched", "out" \in mask)
    /\ UNCHANGED <<fn, hdr, lastSend, outb, wire, ready, room, heard, answers, toPeer>>

\* recv() and send() on an open connection, each if its event is there.
EventServe ==
    /\ Event /\ "hup" \notin mask
    /\ LET in  == "in" \in mask
           p   == IF in THEN PeerAfterRecv ELSE peer
           out == "out" \in mask
       IN  /\ in => ~RecvZero
           /\ inb' = IF in THEN write(inb, Taken) ELSE inb
           /\ rcvq' = IF in THEN RcvqAfterRecv ELSE rcvq
           /\ IF out THEN send(outb, p)
                     ELSE peer' = p /\ UNCHANGED <<outb, toPeer, room, life>>
           /\ faults' = faults \cup (IF in THEN RecvFaults(inb) ELSE {})
                               \cup (IF out THEN SendFaults(outb, p) ELSE {})
    /\ UNCHANGED <<fn, hdr, lastSend, fd, wire, ready, heard, answers>>

-----------------------------------------------------------------------------
(***************************************************************************)
(* The state functions.  Each action is one call of state() by             *)
(* NetClient::process_connections.                                         *)
(***************************************************************************)
\* A connection before this one in the vector has deleted itself, and the
\* iterator of process_connections passes this one over.
PassedOver ==
    /\ life = "live" /\ phase = "state" /\ phase' = "wait"
    /\ UNCHANGED <<object, life, mask, arrival, room, history>>

StateCall(f) == life = "live" /\ phase = "state" /\ phase' = "wait"
                  /\ fn = f /\ UNCHANGED mask

Unchanged == UNCHANGED <<object, life, arrival, room, history>>

\* Not enough for a header: to be called again.
AwaitMore == StateCall("await_handshake") /\ inb.size < HeaderLen /\ Unchanged

ChannelIdle == StateCall("handle_open_channel") /\ inb.size < HeaderLen /\ Unchanged

\* close() with nothing left to close, or with an error EIO of ::close, after
\* which it is tried again in the next pass.
CloseNothing == StateCall("close") /\ Unchanged

CloseForgets ==                         \* mutant: the socket is not closed
    /\ StateCall("close") /\ fd = "open" /\ Unchanged

CloseSocket ==
    /\ StateCall("close") /\ fd = "open"
    /\ fd' = "closed"
    /\ UNCHANGED <<fn, hdr, lastSend, inb, outb, life, arrival, room, history>>

Ack == [code |-> "ack", dest |-> (lastSend + 1) % ByteVals, plen |-> 0,
        magic |-> TRUE]

\* open_connection on the header h in _reusable_header: with a payload it
\* returns, and is called again for ever.
open_connection(h) ==
    IF h.plen # 0
    THEN /\ fn' = "open_connection"
         /\ UNCHANGED <<lastSend, outb, life, peer, room, answers, toPeer>>
    ELSE /\ fn' = "handle_open_channel"
         /\ lastSend' = lastSend + 1
         /\ prepare_send(Ack)

AckFaults(h) == IF h.plen # 0 THEN {} ELSE SendFaults(Prepared(Ack), peer)

OpenConnection ==
    /\ StateCall("open_connection")
    /\ open_connection(hdr)
    /\ faults' = faults \cup AckFaults(hdr)
    /\ UNCHANGED <<hdr, inb, fd, wire, rcvq, ready, heard>>

\* The header that peek() shows decides; the header that pop() returns is
\* used.  Only a header with the code OPEN gets beyond this function.
AwaitHandshake ==
    /\ StateCall("await_handshake") /\ inb.size >= HeaderLen
    /\ ~PeekFatal(inb, HeaderLen)
    /\ \E shown \in PeekOutcomes(inb, HeaderLen) :
       LET popped  == ReadData(inb, HeaderLen)
           h       == ReadHeader(popped)
           misread == Flag("misread", shown # popped)
       IN  \/ /\ ~MagicIn(shown)
              /\ fn' = "close"
              /\ faults' = faults \cup misread
              /\ UNCHANGED <<hdr, lastSend, inb, outb, life, peer, room, answers, toPeer>>
           \/ /\ MagicIn(shown)
              /\ inb' = AfterRead(inb, HeaderLen) /\ hdr' = h
              /\ \/ /\ h.code = "open"
                    /\ open_connection(h)
                    /\ faults' = faults \cup misread \cup AckFaults(h)
                 \/ /\ h.code # "open"
                    /\ faults' = faults \cup misread
                    /\ UNCHANGED <<fn, lastSend, outb, life, peer, room, answers, toPeer>>
    /\ UNCHANGED <<fd, wire, rcvq, ready, heard>>

\* The copies of peek() outside its array and destination stop the process.
AwaitHandshakeCrash ==
    /\ StateCall("await_handshake") /\ inb.size >= HeaderLen
    /\ PeekFatal(inb, HeaderLen) \/ PeekOverruns(inb, HeaderLen)
    /\ life' = "crashed"
    /\ faults' = faults \cup {"misread"}
    /\ UNCHANGED <<object, arrival, room, heard, answers, toPeer>>

CompleteAndMore(r, len) == r.size > len \* mutant: off by one

Complete(r, len) == r.size >= len

\* receive_msg_payload on the ring r, for a payload of len cells.  When recv()
\* deletes the connection, the rest of the function uses the deleted object.
receive_msg_payload(r, len) ==
    LET full == write(r, Taken)
    IN  /\ recv
        /\ IF RecvZero
           THEN /\ inb' = full /\ fn' = "receive_msg_payload"
                /\ fd' = "closed" /\ life' \in {"deleted", "crashed"}
           ELSE /\ IF Complete(full, len)
                   THEN inb' = AfterRead(full, len) /\ fn' = "send_msg"
                   ELSE inb' = full /\ fn' = "receive_msg_payload"
                /\ UNCHANGED <<fd, life>>
        /\ faults' = faults \cup RecvFaults(r) \cup Flag("touched", RecvZero)

ReceiveMsgPayload ==
    /\ StateCall("receive_msg_payload")
    /\ receive_msg_payload(inb, hdr.plen)
    /\ UNCHANGED <<hdr, lastSend, outb, wire, ready, room, heard, answers, toPeer>>

HandleOpenChannel ==
    /\ StateCall("handle_open_channel") /\ inb.size >= HeaderLen
    /\ LET h    == ReadHeader(ReadData(inb, HeaderLen))
           rest == AfterRead(inb, HeaderLen)
       IN  /\ hdr' = h
           /\ lastSend' = IF h.magic THEN h.dest ELSE lastSend
           /\ IF h.magic /\ h.plen # 0
              THEN receive_msg_payload(rest, h.plen)
              ELSE /\ inb' = rest
                   /\ UNCHANGED <<fn, fd, life, rcvq, peer, faults>>
    /\ UNCHANGED <<outb, wire, ready, room, heard, answers, toPeer>>

ReplyWide ==                            \* mutant: destination is not 8 bits wide
    [code |-> "test", dest |-> lastSend + 1, plen |-> ReplyPayload, magic |-> TRUE]
ReplySame ==                            \* mutant: "+ 1" forgotten
    [code |-> "test", dest |-> lastSend, plen |-> ReplyPayload, magic |-> TRUE]

Reply == [code |-> "test", dest |-> (lastSend + 1) % ByteVals,
          plen |-> ReplyPayload, magic |-> TRUE]

SendMsgAgain ==                         \* mutant: _state_fn is not set back
    /\ StateCall("send_msg")
    /\ hdr' = Reply /\ prepare_send(Reply)
    /\ faults' = faults \cup SendFaults(Prepared(Reply), peer)
    /\ UNCHANGED <<fn, lastSend, inb, fd, wire, rcvq, ready, heard>>

SendMsg ==
    /\ StateCall("send_msg")
    /\ hdr' = Reply
    /\ prepare_send(Reply)
    /\ faults' = faults \cup SendFaults(Prepared(Reply), peer)
    /\ fn' = "handle_open_channel"
    /\ UNCHANGED <<lastSend, inb, fd, wire, rcvq, ready, heard>>

-----------------------------------------------------------------------------
Environment == \/ \E m \in PeerMsgs : PeerSend(m)
               \/ \E k \in 1 .. Len(wire) : Deliver(k)
               \/ PeerClose \/ DeliverFin \/ PeerReset \/ PeerReads

StateFunction ==
    \/ AwaitMore \/ ChannelIdle \/ CloseNothing \/ CloseSocket
    \/ AwaitHandshake \/ AwaitHandshakeCrash \/ OpenConnection
    \/ HandleOpenChannel \/ ReceiveMsgPayload \/ SendMsg

\* The network thread never blocks: epoll_wait has the timeout 0.
Thread == \/ EpollWait \/ EventHup \/ EventRecvEnd \/ EventServe
          \/ StateFunction

Next == Environment \/ Thread \/ PassedOver

\* The thread runs and passes no connection over for ever (EveryoneCalled of
\* NetClient), TCP delivers what was sent, and ::close does not fail with EIO
\* for ever (it releases the descriptor even when it reports the error).
Fairness == /\ WF_vars(Thread)
            /\ SF_vars(StateFunction)
            /\ WF_vars(Deliver(Len(wire)) /\ wire # <<>>)
            /\ WF_vars(DeliverFin)
            /\ SF_vars(CloseSocket)

Spec == Init /\ [][Next]_vars /\ Fairness

-----------------------------------------------------------------------------
(***************************************************************************)
(* What the connection should do with the bytes of its peer.               *)
(***************************************************************************)
\* What the program has not consumed yet, wherever it is.
Unread == Contents(inb) \o rcvq \o wire

\* The headers of the messages that the peer sent.
Asked == [i \in 1 .. Len(script) |-> ReadHeader(script[i])]

\* The session that the connection stands for, with the answers it owes.
Echo == INSTANCE EchoSession WITH asked <- Asked, answered <- sent,
            PeerMsgs <- {ReadHeader(m) : m \in PeerMsgs},
            gone <- peer \notin {"open", "closing"}, over <- life # "live"

Replies(ms) == Echo!Replies(ms)

\* The peer speaks the protocol: every message has its magic and the payload that
\* it says it has, which the buffer can hold, and the handshake has none.  What
\* the payloads hold is up to the peer.
WellFormed ==
    /\ \A i \in 1 .. Len(script) :
          /\ Asked[i].magic /\ Asked[i].plen <= BufferLen
          /\ Len(script[i]) = HeaderLen + Asked[i].plen
    /\ \A i \in 1 .. Len(script) :
          (\A j \in 1 .. i - 1 : Asked[j].code # "open") => Asked[i].plen = 0

\* Nothing was lost or misread between the socket and the state functions.
Intact == WellFormed /\ faults \cap {"truncated", "overrun", "misread"} = {}

-----------------------------------------------------------------------------
\* Type invariant.
TypeOK ==
    /\ fn \in Functions /\ hdr \in Header /\ lastSend \in 0 .. ByteVals
    /\ inb \in Ring /\ outb \in Ring
    /\ fd \in {"open", "closed"} /\ life \in {"live", "deleted", "crashed"}
    /\ phase \in {"wait", "event", "state"} /\ mask \subseteq {"in", "out", "hup"}
    /\ wire \in Seq(Cell) /\ rcvq \in Seq(Cell)
    /\ peer \in PeerStates /\ ready \in BOOLEAN /\ room \in 0 .. SndBuf
    /\ script \in Seq(PeerMsgs) /\ stream \in Seq(Cell)
    /\ sent \in Seq(Header) /\ told \in Seq(Cell) /\ toPeer \in Seq(Cell)
    /\ faults \subseteq Fault

\* As long as write() found room for all that was read, what the program has
\* not consumed is the end of what the peer sent: no cell is lost, repeated or
\* reordered on the way through the socket, big_buffer and _in_buffer,
\* whatever the peer sends (recyclr-net.cpp:141-161).
UnreadStream == "truncated" \notin faults => IsSuffix(Unread, stream)

\* The state functions keep in step with the message boundaries: with a peer
\* that speaks the protocol, each starts where a message starts (or where the
\* payload of the current one does), and exactly the answers to the messages
\* consumed so far were sent, in order, each to the request's destination plus
\* one modulo the width of that field (recyclr-net.cpp:32-139).
InStep ==
    Intact /\ life = "live" =>
        \E k \in 0 .. Len(script) :
            LET current == fn \in {"receive_msg_payload", "send_msg"}
                rest    == FlattenSeq(SubSeq(script, k + 1, Len(script)))
            IN  /\ current => k > 0
                /\ Unread = IF fn = "receive_msg_payload"
                            THEN SubSeq(script[k], HeaderLen + 1, Len(script[k])) \o rest
                            ELSE rest
                /\ sent = Replies(SubSeq(Asked, 1, IF current THEN k - 1 ELSE k))

\* A connection whose peer speaks the protocol and has not closed is neither
\* dropped nor stuck in the handshake, unless a buffer overflowed
\* (recyclr-net.cpp:44-47, 61-64, 154-158).
NoSpuriousEnd ==
    Intact /\ peer \in {"open", "closing"}
        => life = "live" /\ fn \notin {"close", "open_connection"}

\* The header that the stream holds with its magic at the place p.
HeaderAt(p) == ReadHeader(<<stream[p - 1], stream[p]>>)

\* Whatever the peer sends, every answer has a header of its own: one with its
\* magic, behind the header and the payload of the answer before, consumed with
\* its payload, and to its destination plus one; the first is an OPEN without
\* payload and the others ask for work.  That holds also when the program has
\* lost the message boundaries; the bytes may then be those of a payload, which
\* nothing tells apart (recyclr-net.cpp:44-55, 66-75, 95-119, 126-137).
AnswersHaveHeaders ==
    faults \cap {"truncated", "misread"} = {} =>
        \E at \in [1 .. Len(sent) -> {p \in HeaderLen .. Len(stream) : stream[p].magic}] :
            \A n \in 1 .. Len(sent) :
                LET h    == HeaderAt(at[n])
                    past == at[n] + h.plen
                IN  /\ IF n = 1
                       THEN h.code = "open" /\ h.plen = 0 /\ sent[n].code = "ack"
                       ELSE h.plen > 0 /\ sent[n].code = "test"
                                      /\ sent[n].dest = (h.dest + 1) % ByteVals
                    /\ past <= Len(stream) - Len(Unread)
                    /\ \A later \in n + 1 .. Len(sent) : past + HeaderLen <= at[later]

\* A peer that sends less than the buffer holds, in all, loses nothing: neither
\* write() nor big_buffer can be short of room then, and the ring does not wrap,
\* so that peek() shows what pop() returns (recyclr-net.cpp:41-50, 141-161,
\* recyclr-buffer.cpp:17-44, recyclr-buffer.h:36-51).
SmallStreamIntact ==
    Len(stream) < BufferLen => faults \cap {"truncated", "overrun", "misread"} = {}

\* What the socket accepted is the stream of the messages sent, without gap
\* or repetition, as long as it always had room (recyclr-net.cpp:81-85,
\* 163-180).
SentArrives == "unsent" \notin faults => toPeer = told

\* Nothing waits in _out_buffer between two calls, whatever the socket accepted
\* and however the peer behaves: the send() of an EPOLLOUT event never has
\* anything to send (recyclr-net.cpp:163-170, 418).
NothingWaits == outb.size = 0

\* A member function runs on a deleted object only after the peer has ended
\* the connection, or has sent more than big_buffer holds before one recv():
\* neither partial reads nor errors of the socket lead to it
\* (recyclr-net.cpp:113-118, 154-157, 413-419).
TouchedOnlyAtEnd ==
    "touched" \in faults => peer \in {"closed", "broken"} \/ "overrun" \in faults

\* The connection implements the life that NetClient relies on.
Life == INSTANCE ConnectionLife WITH
            life <- IF life = "live" THEN (IF fd = "open" THEN "open" ELSE "shut")
                                     ELSE life,
            turn <- IF phase = "state" THEN "state" ELSE "event"

\* Events delete the object or leave it alone; state functions may also close
\* its socket; a closed socket is never opened again and its object never
\* deleted (recyclr-net.cpp:154-160, 187-213, 404-422).
LifeSpec == Life!Spec

\* A request is answered: every answer owed for what the peer has sent is
\* eventually handed to send(), unless something of the request was lost or the
\* peer ends the connection first (recyclr-net.cpp:87-139, under the busy loop of
\* NetClient::run).  What the socket then refuses is UnsentKept's subject.
Answered ==
    \A i \in 1 .. MaxMsgs :
        Len(Replies(Asked)) >= i
            ~> Len(sent) >= i \/ ~Intact \/ peer \notin {"open", "closing"}

\* For a peer that speaks the protocol and buffers that hold all it sends, the
\* connection is the abstract session: each message is answered exactly once
\* and in order, and the session ends only, and always, after the peer has
\* ended it (recyclr-net.cpp:32-161, 398-423).
EchoSpec == Echo!Spec

\* The same step by step, for every peer and every buffer: whatever happens to
\* the socket, the program answers what is owed next or nothing at all, and ends
\* no session that its peer has not, as long as nothing was lost on the way
\* (recyclr-net.cpp:32-161, 398-423).
EchoSteps == [][Intact' => Echo!Next]_(Echo!vars)

\* The end of the peer is noticed, although the socket is registered with
\* EPOLLET and reports it once: the descriptor does not stay open for ever, in
\* whatever state the connection is (recyclr-net.cpp:404-415).
PeerEndSeen == (Attached /\ peer \in {"closed", "reset", "broken"}) ~> ~Attached

\* A connection that was told to close releases its descriptor, also when
\* ::close fails at times (recyclr-net.cpp:187-202).
CloseReleases == fn = "close" ~> ~Attached

\* The comment of recyclr-net.cpp:417, "data was unable to send on socket, now
\* available": what the socket did not accept is kept until it can be sent.
UnsentKept ==
    peer \in {"open", "closing", "closed"} /\ life = "live"
        => toPeer \o Contents(outb) = told

\* The comments of recyclr-net.cpp:41 and 49, "Check header magic", "We have a
\* valid header. Pop and read": the header that await_handshake pops is the
\* one whose magic was checked.
ValidHeaderPopped ==
    [][fn = "await_handshake" /\ inb'.size < inb.size => hdr'.magic]_vars

=============================================================================
