-------------------------- MODULE ConnectionProofs ---------------------------
(***************************************************************************)
(* Proofs about Connection for every buffer length, send buffer, peer and  *)
(* number of messages.  The two buffers are rings, so what RingProofs says *)
(* of write and read holds for them.                                       *)
(***************************************************************************)
EXTENDS Connection, SequenceTheorems, TLAPS

R == INSTANCE RingProofs WITH Capacity <- BufferLen, Cell <- Cell

-----------------------------------------------------------------------------
(***************************************************************************)
(* The operations of the two buffers.                                      *)
(***************************************************************************)
LEMMA CapacityPositive == BufferLen \in Nat \ {0}
BY ConnectionAssumption DEF HeaderLen

\* Connection and RingProofs mean the same operations.
LEMMA SameOperations ==
    /\ Ring = R!Ring /\ Slot = R!Slot
    /\ \A r, d : /\ write(r, d) = R!write(r, d)
                 /\ WriteLen(r, d) = R!WriteLen(r, d)
    /\ \A r, n : /\ AfterRead(r, n) = R!AfterRead(r, n)
                 /\ ReadData(r, n) = R!ReadData(r, n)
                 /\ ReadLen(r, n) = R!ReadLen(r, n)
    /\ \A r : Contents(r) = R!Contents(r)
BY DEF Ring, R!Ring, Slot, R!Slot, write, R!write, WriteLen, R!WriteLen, AfterRead,
       R!AfterRead, ReadData, R!ReadData, ReadLen, R!ReadLen, Contents, R!Contents,
       Copy, R!Copy, Least, R!Least, get_space, R!get_space, Wrap, R!Wrap

\* A buffer whose fields are in range and whose counters agree.
Buffer(r) == r \in Ring /\ R!Consistent(r)

\* A new buffer is one.
LEMMA NewBuffer ==
    ASSUME NEW r \in [start : {0}, end : {0}, size : {0}, cells : [Slot -> {Blank}]]
    PROVE  Buffer(r) /\ r.size = 0
<1>1. Blank \in Cell
  BY MessagesAssumption DEF Blank, Cell, NoHeader, Header, Code
<1>2. r.cells \in [Slot -> Cell]
  BY <1>1
<1>3. 0 \in Slot /\ 0 \in 0 .. BufferLen
  BY CapacityPositive DEF Slot
<1>4. r \in Ring
  BY <1>2, <1>3 DEF Ring
<1>5. R!Consistent(r)
  BY CapacityPositive DEF R!Consistent, R!Wrap
<1> QED
  BY <1>4, <1>5 DEF Buffer

LEMMA ContentsOf ==
    ASSUME NEW r \in Ring
    PROVE  /\ Contents(r) \in Seq(Cell)
           /\ Len(Contents(r)) = r.size
           /\ r.size \in 0 .. BufferLen
BY CapacityPositive, SameOperations, R!ContentsType DEF Ring

\* write appends the cells for which there is room.
LEMMA WriteBuffer ==
    ASSUME NEW r, Buffer(r), NEW data \in Seq(Cell)
    PROVE  /\ Buffer(write(r, data))
           /\ WriteLen(r, data) \in 0 .. Len(data)
           /\ WriteLen(r, data) < Len(data) => WriteLen(r, data) = BufferLen - r.size
           /\ write(r, data).size = r.size + WriteLen(r, data)
           /\ Contents(write(r, data))
                  = Contents(r) \o SubSeq(data, 1, WriteLen(r, data))
<1> USE CapacityPositive
<1>1. r \in R!Ring /\ R!Consistent(r)
  BY SameOperations DEF Buffer
<1>2. Buffer(write(r, data))
  BY <1>1, SameOperations, R!WriteRing DEF Buffer
<1>3. WriteLen(r, data) \in 0 .. Len(data)
  BY <1>1, SameOperations, R!WriteLenRange
<1>4. Contents(write(r, data)) = Contents(r) \o SubSeq(data, 1, WriteLen(r, data))
  BY <1>1, SameOperations, R!WriteContents
<1>5. write(r, data).size = r.size + WriteLen(r, data)
  BY <1>1, SameOperations, R!WriteFields
<1>6. WriteLen(r, data) < Len(data) => WriteLen(r, data) = BufferLen - r.size
  BY DEF WriteLen, Least, get_space
<1> QED
  BY <1>2, <1>3, <1>4, <1>5, <1>6

\* read takes the first cells and leaves the others.
LEMMA ReadBuffer ==
    ASSUME NEW r, Buffer(r), NEW n \in 0 .. r.size
    PROVE  /\ Buffer(AfterRead(r, n))
           /\ AfterRead(r, n).size = r.size - n
           /\ ReadData(r, n) = SubSeq(Contents(r), 1, n)
           /\ ReadData(r, n) \in Seq(Cell)
           /\ Len(ReadData(r, n)) = n
           /\ Contents(AfterRead(r, n)) = SubSeq(Contents(r), n + 1, r.size)
<1> USE CapacityPositive
<1>1. r \in R!Ring /\ R!Consistent(r) /\ r \in Ring
  BY SameOperations DEF Buffer
<1>2. n \in Nat /\ r.size \in Nat
  BY <1>1 DEF Ring
<1>3. ReadLen(r, n) = n
  BY <1>2 DEF ReadLen, Least
<1>4. Buffer(AfterRead(r, n))
  BY <1>1, <1>2, SameOperations, R!ReadRing DEF Buffer
<1>5. AfterRead(r, n).size = r.size - n
  BY <1>2, <1>3 DEF AfterRead
<1>6. ReadData(r, n) = SubSeq(Contents(r), 1, n)
  BY <1>1, <1>2, <1>3, SameOperations, R!ReadContents
<1>7. ReadData(r, n) \in Seq(Cell)
  BY <1>1, <1>2, SameOperations, R!ReadDataType
<1>8. Len(ReadData(r, n)) = n
  BY <1>2, <1>3 DEF ReadData
<1>9. Contents(AfterRead(r, n)) = SubSeq(Contents(r), n + 1, r.size)
  BY <1>1, <1>2, <1>3, SameOperations, R!AfterReadContents, ContentsOf
<1> QED
  BY <1>4, <1>5, <1>6, <1>7, <1>8, <1>9

\* A sequence is what it starts with and what follows.
LEMMA Halves ==
    ASSUME NEW S, NEW s \in Seq(S), NEW k \in 0 .. Len(s)
    PROVE  /\ SubSeq(s, 1, k) \in Seq(S)
           /\ SubSeq(s, k + 1, Len(s)) \in Seq(S)
           /\ SubSeq(s, 1, k) \o SubSeq(s, k + 1, Len(s)) = s
<1>1. Len(s) \in Nat
  OBVIOUS
<1>2. SubSeq(s, 1, k) \in Seq(S) /\ SubSeq(s, k + 1, Len(s)) \in Seq(S)
  BY <1>1, SubSeqProperties, ElementOfSeq
<1>3. 1 \in 1 .. Len(s) + 1 /\ k \in 1 - 1 .. Len(s) /\ Len(s) \in k .. Len(s)
  BY <1>1
<1>4. SubSeq(s, 1, k) \o SubSeq(s, k + 1, Len(s)) = SubSeq(s, 1, Len(s))
  BY <1>3, ConcatAdjacentSubSeq
<1> QED
  BY <1>2, <1>4, SubSeqFull

-----------------------------------------------------------------------------
(***************************************************************************)
(* Messages.                                                               *)
(***************************************************************************)
LEMMA MessageCellsType ==
    ASSUME NEW h \in Header
    PROVE  /\ MessageCells(h) \in Seq(Cell)
           /\ Len(MessageCells(h)) = HeaderLen + h.plen
<1>1. h.plen \in Nat /\ NoHeader \in Header
  BY MessagesAssumption DEF Header, NoHeader, Code
<1> DEFINE fields == [h EXCEPT !.magic = FALSE]
           magic  == [NoHeader EXCEPT !.magic = h.magic]
<1>2. HeaderCells(h) \in Seq(Cell) /\ Len(HeaderCells(h)) = HeaderLen
  <2>1. h.magic \in BOOLEAN
    BY DEF Header
  <2>2. fields \in Cell
    BY DEF Header, Cell
  <2>3. magic \in Cell
    BY <1>1, <2>1 DEF Header, Cell
  <2> HIDE DEF fields, magic
  <2>4. <<fields, magic>> \in Seq(Cell) /\ Len(<<fields, magic>>) = 2
    BY <2>2, <2>3
  <2> QED
    BY <2>4 DEF HeaderCells, HeaderLen, fields, magic
<1> DEFINE payload == [i \in 1 .. h.plen |-> Blank]
<1>3. Blank \in Cell
  BY <1>1 DEF Blank, Cell
<1>4. payload \in Seq(Cell) /\ Len(payload) = h.plen
  BY <1>1, <1>3
<1> HIDE DEF payload
<1>5. HeaderCells(h) \o payload \in Seq(Cell)
  BY <1>2, <1>4, ConcatProperties
<1>6. Len(HeaderCells(h) \o payload) = Len(HeaderCells(h)) + Len(payload)
  BY <1>2, <1>4, ConcatProperties
<1> QED
  BY <1>2, <1>4, <1>5, <1>6 DEF MessageCells, payload

\* What cells are read as is a header.
LEMMA ReadHeaderType ==
    ASSUME NEW c \in Seq(Cell), Len(c) >= HeaderLen
    PROVE  ReadHeader(c) \in Header
<1>1. c[1] \in Header /\ c[2] \in Header
  BY DEF HeaderLen, Cell
<1> QED
  BY <1>1 DEF ReadHeader, MagicIn, Header

LEMMA AnswerTypes ==
    ASSUME lastSend \in Nat
    PROVE  /\ Ack \in Header /\ Ack.plen = 0
           /\ Reply \in Header /\ Reply.plen = ReplyPayload
BY MessagesAssumption, ConnectionAssumption DEF Ack, Reply, Header, Code

-----------------------------------------------------------------------------
(***************************************************************************)
(* The inductive invariant.  Beyond the properties of Connection it says   *)
(* that both buffers are consistent, that only close() runs on a closed    *)
(* socket, and where lastSend and hdr are still what the handshake left.   *)
(***************************************************************************)
Buffers == Buffer(inb) /\ Buffer(outb) /\ outb.size = 0

Handshake == /\ fn = "await_handshake" => lastSend = 0
             /\ fn = "open_connection" => hdr.plen # 0

OnlyCloseOnClosed == life = "live" /\ fd = "closed" => fn = "close" /\ phase # "event"

\* t is the end of s.
Ends(s, t) == \E u \in Seq(Cell) : s = u \o t

StreamEnds ==
    "truncated" \notin faults => Ends(stream, Contents(inb) \o (rcvq \o wire))

IInv == /\ TypeOK /\ Buffers /\ Handshake /\ OnlyCloseOnClosed
        /\ StreamEnds /\ SentArrives /\ TouchedOnlyAtEnd

-----------------------------------------------------------------------------
(***************************************************************************)
(* What happens to the stream when cells are consumed.                     *)
(***************************************************************************)
LEMMA CellsAssociate ==
    ASSUME NEW a \in Seq(Cell), NEW b \in Seq(Cell), NEW c \in Seq(Cell)
    PROVE  (a \o b) \o c = a \o (b \o c)
OBVIOUS

LEMMA EndsConsumed ==
    ASSUME NEW r, Buffer(r), NEW n \in 0 .. r.size, NEW s, NEW q \in Seq(Cell),
           Ends(s, Contents(r) \o q)
    PROVE  Ends(s, Contents(AfterRead(r, n)) \o q)
<1>1. PICK u \in Seq(Cell) : s = u \o (Contents(r) \o q)
  BY DEF Ends
<1>2. r \in Ring
  BY DEF Buffer
<1>3. Contents(r) \in Seq(Cell) /\ Len(Contents(r)) = r.size
  BY <1>2, ContentsOf
<1> DEFINE taken == SubSeq(Contents(r), 1, n)
           kept  == Contents(AfterRead(r, n))
<1>4. kept = SubSeq(Contents(r), n + 1, Len(Contents(r)))
  BY <1>3, ReadBuffer
<1>5. taken \in Seq(Cell) /\ kept \in Seq(Cell) /\ taken \o kept = Contents(r)
  <2>1. n \in 0 .. Len(Contents(r))
    BY <1>3
  <2>2. /\ taken \in Seq(Cell) /\ SubSeq(Contents(r), n + 1, Len(Contents(r))) \in Seq(Cell)
        /\ taken \o SubSeq(Contents(r), n + 1, Len(Contents(r))) = Contents(r)
    BY <1>3, <2>1, Halves, Zenon
  <2> HIDE DEF taken, kept
  <2> QED
    BY <1>4, <2>2
<1> HIDE DEF taken, kept
<1>6. (taken \o kept) \o q = taken \o (kept \o q)
  BY <1>5, CellsAssociate
<1>7. kept \o q \in Seq(Cell)
  BY <1>5, ConcatProperties
<1>8. u \o (taken \o (kept \o q)) = (u \o taken) \o (kept \o q)
  BY <1>5, <1>7, CellsAssociate
<1>9. u \o taken \in Seq(Cell)
  BY <1>5, ConcatProperties
<1> QED
  BY <1>1, <1>5, <1>6, <1>8, <1>9 DEF Ends, kept

-----------------------------------------------------------------------------
(***************************************************************************)
(* recv and send.                                                          *)
(***************************************************************************)
LEMMA TakenSplits ==
    ASSUME rcvq \in Seq(Cell)
    PROVE  /\ Taken \in Seq(Cell) /\ RcvqAfterRecv \in Seq(Cell)
           /\ Taken \o RcvqAfterRecv = rcvq
<1> DEFINE k == Least(Len(rcvq), BufferLen)
<1>1. Len(rcvq) \in Nat /\ k \in 0 .. Len(rcvq)
  BY CapacityPositive DEF Least
<1>2. Taken = SubSeq(rcvq, 1, k)
  BY DEF Taken
<1>3. Len(Taken) = k
  BY <1>1, <1>2
<1>4. RcvqAfterRecv = SubSeq(rcvq, k + 1, Len(rcvq))
  BY <1>3 DEF RcvqAfterRecv
<1> HIDE DEF k
<1> QED
  BY <1>1, <1>2, <1>4, Halves

\* recv() moves cells from the socket to the end of the buffer r.
LEMMA RecvStep ==
    ASSUME NEW r, Buffer(r), TypeOK
    PROVE  /\ Buffer(write(r, Taken))
           /\ RcvqAfterRecv \in Seq(Cell)
           /\ PeerAfterRecv \in PeerStates
           /\ peer \in {"closed", "broken"} => PeerAfterRecv = peer
           /\ RecvZero => PeerAfterRecv = peer
           /\ RecvFaults(r) \subseteq Fault \ {"touched", "unsent"}
           /\ "truncated" \notin RecvFaults(r) =>
                  Contents(write(r, Taken)) \o (RcvqAfterRecv \o wire)
                      = Contents(r) \o (rcvq \o wire)
           /\ RecvZero => peer \in {"closed", "broken"} \/ "overrun" \in RecvFaults(r)
<1>1. rcvq \in Seq(Cell) /\ wire \in Seq(Cell) /\ peer \in PeerStates
  BY DEF TypeOK
<1>2. /\ Taken \in Seq(Cell) /\ RcvqAfterRecv \in Seq(Cell)
      /\ Taken \o RcvqAfterRecv = rcvq
  BY <1>1, TakenSplits
<1>3. Buffer(write(r, Taken))
  BY <1>2, WriteBuffer
<1>4. /\ PeerAfterRecv \in PeerStates
      /\ peer \in {"closed", "broken"} => PeerAfterRecv = peer
      /\ RecvZero => PeerAfterRecv = peer
  BY <1>1 DEF PeerAfterRecv, PeerStates
<1>5. /\ RecvFaults(r) \subseteq Fault \ {"touched", "unsent"}
      /\ RecvZero => peer \in {"closed", "broken"} \/ "overrun" \in RecvFaults(r)
  BY DEF RecvFaults, Flag, Fault, RecvZero
<1>6. ASSUME "truncated" \notin RecvFaults(r)
      PROVE  Contents(write(r, Taken)) \o (RcvqAfterRecv \o wire)
                 = Contents(r) \o (rcvq \o wire)
  <2>1. ~(WriteLen(r, Taken) < Len(Taken))
    BY <1>6 DEF RecvFaults, Flag
  <2>2. WriteLen(r, Taken) = Len(Taken)
    BY <1>2, <2>1, WriteBuffer
  <2>3. Contents(write(r, Taken)) = Contents(r) \o Taken
    BY <1>2, <2>2, WriteBuffer, SubSeqFull
  <2>4. Contents(r) \in Seq(Cell)
    BY ContentsOf DEF Buffer
  <2>5. RcvqAfterRecv \o wire \in Seq(Cell)
    BY <1>1, <1>2, ConcatProperties
  <2>6. (Contents(r) \o Taken) \o (RcvqAfterRecv \o wire)
            = Contents(r) \o (Taken \o (RcvqAfterRecv \o wire))
    BY <1>2, <2>4, <2>5, CellsAssociate
  <2>7. Taken \o (RcvqAfterRecv \o wire) = (Taken \o RcvqAfterRecv) \o wire
    BY <1>1, <1>2, CellsAssociate
  <2> QED
    BY <1>2, <2>3, <2>6, <2>7
<1> QED
  BY <1>2, <1>3, <1>4, <1>5, <1>6

\* With nothing in _out_buffer, which is always so, the send() of an event
\* changes nothing.
LEMMA SendNothing ==
    ASSUME TypeOK, Buffers, NEW p \in PeerStates, send(outb, p)
    PROVE  /\ outb' = outb /\ toPeer' = toPeer /\ room' = room
           /\ peer' = p /\ life' = life
           /\ SendFaults(outb, p) = {}
<1>1. outb.size = 0 /\ room \in Nat /\ toPeer \in Seq(Cell)
  BY ConnectionAssumption DEF TypeOK, Buffers
<1>2. outb' = outb
  BY <1>1 DEF send, OutAfterSend, AfterRead, ReadLen, Least
<1>3. Accepted(outb, p) = 0
  BY <1>1 DEF Accepted, Least
<1>4. SubSeq(ReadData(outb, outb.size), 1, 0) = <<>>
  BY SubSeqEmpty
<1>5. toPeer' = toPeer
  BY <1>1, <1>3, <1>4, ConcatEmptySeq DEF send
<1>6. room' = room /\ peer' = p /\ life' = life
  BY <1>1, <1>3 DEF send
<1>7. SendFaults(outb, p) = {}
  BY <1>1, <1>3 DEF SendFaults, Flag
<1> QED
  BY <1>2, <1>5, <1>6, <1>7

\* prepare_send leaves _out_buffer empty; the socket has taken the message
\* unless the fault "unsent" is recorded.
LEMMA PrepareSendStep ==
    ASSUME TypeOK, Buffers, SentArrives,
           NEW h \in Header, h.plen \in 0 .. ReplyPayload, prepare_send(h)
    PROVE  /\ outb' \in Ring /\ Buffer(outb') /\ outb'.size = 0
           /\ toPeer' \in Seq(Cell) /\ told' \in Seq(Cell) /\ sent' \in Seq(Header)
           /\ room' \in 0 .. SndBuf
           /\ peer' \in PeerStates
           /\ peer \in {"closed", "broken"} => peer' = peer
           /\ life' \in {life, "crashed"}
           /\ SendFaults(Prepared(h), peer) \subseteq {"unsent"}
           /\ "unsent" \notin faults \cup SendFaults(Prepared(h), peer)
                => toPeer' = told'
<1> DEFINE m == MessageCells(h)
           r == Prepared(h)
           a == Accepted(r, peer)
<1>1. m \in Seq(Cell) /\ Len(m) = HeaderLen + h.plen
  BY MessageCellsType
<1>2. Buffer(outb) /\ outb.size = 0 /\ outb \in Ring
  BY DEF Buffers, Buffer
<1>3. h.plen \in Nat /\ ReplyPayload \in Nat /\ BufferLen \in Nat
  BY ConnectionAssumption, MessagesAssumption
<1>4. Len(m) <= BufferLen /\ Len(m) \in Nat
  BY <1>1, <1>3, ConnectionAssumption DEF HeaderLen
<1>5. WriteLen(outb, m) = Len(m)
  BY <1>2, <1>3, <1>4 DEF WriteLen, get_space, Least
<1> HIDE DEF m
<1>6. r = write(outb, m)
  BY DEF Prepared, m
<1>7. Buffer(r) /\ r.size = Len(m) /\ r \in Ring
  BY <1>1, <1>2, <1>4, <1>5, <1>6, WriteBuffer DEF Buffer
<1>8. Contents(r) = m
  <2>1. Contents(r) = Contents(outb) \o SubSeq(m, 1, Len(m))
    BY <1>1, <1>2, <1>5, <1>6, WriteBuffer
  <2>2. Contents(outb) \in Seq(Cell) /\ Len(Contents(outb)) = 0
    BY <1>2, ContentsOf
  <2>3. Contents(outb) = <<>>
    BY <2>2
  <2> QED
    BY <1>1, <2>1, <2>3, SubSeqFull, ConcatEmptySeq
<1> HIDE DEF r
<1>9. /\ outb' = AfterRead(r, r.size)
      /\ toPeer' = toPeer \o SubSeq(ReadData(r, r.size), 1, a)
      /\ room' = room - a
      /\ peer' = IF r.size > 0 /\ peer = "reset" THEN "broken" ELSE peer
      /\ life' = IF r.size > 0 /\ peer = "broken" THEN "crashed" ELSE life
      /\ sent' = Append(sent, h) /\ told' = told \o m
  BY DEF prepare_send, send, OutAfterSend, r, m
<1>10. r.size \in Nat /\ r.size \in 0 .. r.size
  BY <1>4, <1>7
<1>11. Buffer(outb') /\ outb'.size = 0 /\ outb' \in Ring
  <2>1. Buffer(AfterRead(r, r.size)) /\ AfterRead(r, r.size).size = 0
    BY <1>7, <1>10, ReadBuffer
  <2> QED
    BY <1>9, <2>1 DEF Buffer
<1>12. ReadData(r, r.size) = m
  BY <1>1, <1>7, <1>8, <1>10, ReadBuffer, SubSeqFull
<1>13. a \in 0 .. Len(m) /\ a \in 0 .. room /\ room \in 0 .. SndBuf
  BY <1>4, <1>7, ConnectionAssumption DEF Accepted, Least, TypeOK
<1>14. toPeer' \in Seq(Cell)
  <2>1. SubSeq(m, 1, a) \in Seq(Cell) /\ toPeer \in Seq(Cell)
    BY <1>1, <1>13, Halves DEF TypeOK
  <2> QED
    BY <1>9, <1>12, <2>1, ConcatProperties
<1>15. told' \in Seq(Cell) /\ sent' \in Seq(Header)
  <2>1. told \in Seq(Cell) /\ sent \in Seq(Header)
    BY DEF TypeOK
  <2>2. told \o m \in Seq(Cell)
    BY <1>1, <2>1, ConcatProperties
  <2>3. Append(sent, h) \in Seq(Header)
    BY <2>1, AppendProperties
  <2> QED
    BY <1>9, <2>2, <2>3
<1>16. room' \in 0 .. SndBuf
  BY <1>9, <1>13, ConnectionAssumption
<1>17. /\ peer' \in PeerStates
       /\ peer \in {"closed", "broken"} => peer' = peer
       /\ life' \in {life, "crashed"}
  BY <1>9 DEF TypeOK, PeerStates
<1>18. SendFaults(Prepared(h), peer) \subseteq {"unsent"}
  BY DEF SendFaults, Flag
<1>19. ASSUME "unsent" \notin faults \cup SendFaults(Prepared(h), peer)
       PROVE  toPeer' = told'
  <2>1. ~(a < r.size)
    BY <1>19 DEF SendFaults, Flag, r
  <2>2. a = Len(m)
    BY <1>4, <1>7, <1>13, <2>1
  <2>3. SubSeq(m, 1, a) = m
    BY <1>1, <2>2, SubSeqFull
  <2>4. toPeer = told
    BY <1>19 DEF SentArrives
  <2> QED
    BY <1>9, <1>12, <2>3, <2>4
<1> QED
  BY <1>11, <1>14, <1>15, <1>16, <1>17, <1>18, <1>19

-----------------------------------------------------------------------------
(***************************************************************************)
(* The steps of the peer and of TCP.                                       *)
(***************************************************************************)
LEMMA EndsExtended ==
    ASSUME NEW c \in Seq(Cell), NEW q \in Seq(Cell), NEW w \in Seq(Cell),
           NEW m \in Seq(Cell), NEW s, Ends(s, c \o (q \o w))
    PROVE  Ends(s \o m, c \o (q \o (w \o m)))
<1>1. PICK u \in Seq(Cell) : s = u \o (c \o (q \o w))
  BY DEF Ends
<1> DEFINE unread == q \o w
           rest   == c \o unread
<1>2. unread \in Seq(Cell) /\ rest \in Seq(Cell)
  BY ConcatProperties
<1>3. unread \o m = q \o (w \o m)
  BY CellsAssociate
<1> HIDE DEF unread
<1>4. rest \o m = c \o (unread \o m)
  BY <1>2, CellsAssociate
<1> HIDE DEF rest
<1>5. (u \o rest) \o m = u \o (rest \o m)
  BY <1>2, CellsAssociate
<1> QED
  BY <1>1, <1>3, <1>4, <1>5 DEF Ends, unread, rest

LEMMA PeerSendStep ==
    ASSUME IInv, NEW m \in PeerMsgs, PeerSend(m)
    PROVE  IInv'
<1> USE DEF PeerSend, object, loop, answers
<1>1. m \in Seq(Cell)
  BY ConnectionAssumption
<1>2. TypeOK'
  <2>1. wire' \in Seq(Cell) /\ stream' \in Seq(Cell)
    BY <1>1, ConcatProperties DEF IInv, TypeOK
  <2>2. script' \in Seq(PeerMsgs)
    BY AppendProperties DEF IInv, TypeOK
  <2> QED
    BY <2>1, <2>2 DEF IInv, TypeOK
<1>3. StreamEnds'
  <2>1. inb \in Ring /\ rcvq \in Seq(Cell) /\ wire \in Seq(Cell)
    BY DEF IInv, TypeOK
  <2>2. Contents(inb) \in Seq(Cell)
    BY <2>1, ContentsOf
  <2> QED
    BY <1>1, <2>1, <2>2, EndsExtended DEF IInv, StreamEnds
<1>4. (Buffers /\ Handshake /\ OnlyCloseOnClosed /\ SentArrives /\ TouchedOnlyAtEnd)'
  BY DEF IInv, Buffers, Handshake, OnlyCloseOnClosed, SentArrives, TouchedOnlyAtEnd
<1> QED
  BY <1>2, <1>3, <1>4 DEF IInv

LEMMA DeliverStep ==
    ASSUME IInv, NEW k \in 1 .. Len(wire), Deliver(k)
    PROVE  IInv'
<1> USE DEF Deliver, object, loop, history, heard, answers
<1>1. rcvq \in Seq(Cell) /\ wire \in Seq(Cell)
  BY DEF IInv, TypeOK
<1>2. /\ SubSeq(wire, 1, k) \in Seq(Cell)
      /\ SubSeq(wire, k + 1, Len(wire)) \in Seq(Cell)
      /\ SubSeq(wire, 1, k) \o SubSeq(wire, k + 1, Len(wire)) = wire
  BY <1>1, Halves
<1>3. TypeOK'
  <2>1. rcvq' \in Seq(Cell) /\ wire' \in Seq(Cell)
    BY <1>1, <1>2, ConcatProperties
  <2> QED
    BY <2>1 DEF IInv, TypeOK
<1>4. StreamEnds'
  <2> DEFINE come == SubSeq(wire, 1, k)
             left == SubSeq(wire, k + 1, Len(wire))
  <2>1. rcvq' = rcvq \o come /\ wire' = left
    OBVIOUS
  <2>2. come \in Seq(Cell) /\ left \in Seq(Cell) /\ come \o left = wire
    BY <1>2
  <2> HIDE DEF come, left
  <2>3. (rcvq \o come) \o left = rcvq \o (come \o left)
    BY <1>1, <2>2, CellsAssociate
  <2>4. rcvq' \o wire' = rcvq \o wire
    BY <2>1, <2>2, <2>3
  <2> QED
    BY <2>4 DEF IInv, StreamEnds
<1>5. (Buffers /\ Handshake /\ OnlyCloseOnClosed /\ SentArrives /\ TouchedOnlyAtEnd)'
  BY DEF IInv, Buffers, Handshake, OnlyCloseOnClosed, SentArrives, TouchedOnlyAtEnd
<1> QED
  BY <1>3, <1>4, <1>5 DEF IInv

\* The other steps of the peer leave every sequence alone.
LEMMA PeerStep ==
    ASSUME IInv, PeerClose \/ DeliverFin \/ PeerReset \/ PeerReads
    PROVE  IInv'
<1> USE DEF object, loop, history, heard, answers
<1>1. UNCHANGED <<object, life, loop, wire, rcvq, history>>
  BY DEF PeerClose, DeliverFin, PeerReset, PeerReads
<1>2. TypeOK'
  <2>1. CASE PeerClose \/ DeliverFin \/ PeerReset
    BY <1>1, <2>1 DEF PeerClose, DeliverFin, PeerReset, IInv, TypeOK, PeerStates
  <2>2. CASE PeerReads
    BY <1>1, <2>2, ConnectionAssumption DEF PeerReads, IInv, TypeOK
  <2> QED
    BY <2>1, <2>2
<1>3. TouchedOnlyAtEnd'
  BY <1>1 DEF PeerClose, DeliverFin, PeerReset, PeerReads, IInv, TouchedOnlyAtEnd
<1>4. (Buffers /\ Handshake /\ OnlyCloseOnClosed /\ StreamEnds /\ SentArrives)'
  BY <1>1 DEF IInv, Buffers, Handshake, OnlyCloseOnClosed, StreamEnds, SentArrives
<1> QED
  BY <1>2, <1>3, <1>4 DEF IInv

-----------------------------------------------------------------------------
(***************************************************************************)
(* The steps of handle_socket.                                             *)
(***************************************************************************)
LEMMA EpollWaitStep ==
    ASSUME IInv, EpollWait
    PROVE  IInv'
<1> USE DEF EpollWait, object, history, heard, answers
<1>1. TypeOK'
  BY DEF IInv, TypeOK, Readiness, Flag
<1>2. OnlyCloseOnClosed'
  BY DEF IInv, TypeOK, OnlyCloseOnClosed
<1>3. (Buffers /\ Handshake /\ StreamEnds /\ SentArrives /\ TouchedOnlyAtEnd)'
  BY DEF IInv, Buffers, Handshake, StreamEnds, SentArrives, TouchedOnlyAtEnd
<1> QED
  BY <1>1, <1>2, <1>3 DEF IInv

LEMMA EventHupStep ==
    ASSUME IInv, EventHup
    PROVE  IInv'
<1> USE DEF EventHup, Event, arrival, history, heard, answers
<1>1. TypeOK'
  BY DEF IInv, TypeOK
<1>2. (/\ Buffers /\ Handshake /\ OnlyCloseOnClosed /\ StreamEnds
       /\ SentArrives /\ TouchedOnlyAtEnd)'
  BY DEF IInv, Buffers, Handshake, OnlyCloseOnClosed, StreamEnds, SentArrives,
         TouchedOnlyAtEnd
<1> QED
  BY <1>1, <1>2 DEF IInv

LEMMA EventRecvEndStep ==
    ASSUME IInv, EventRecvEnd
    PROVE  IInv'
<1> USE DEF EventRecvEnd, Event, recv, heard, answers
<1>1. Buffer(inb) /\ TypeOK
  BY DEF IInv, Buffers
<1>2. /\ Buffer(inb') /\ inb' \in Ring
      /\ rcvq' \in Seq(Cell)
      /\ peer' = peer
      /\ RecvFaults(inb) \subseteq Fault \ {"touched", "unsent"}
      /\ "truncated" \notin RecvFaults(inb) =>
             Contents(inb') \o (rcvq' \o wire) = Contents(inb) \o (rcvq \o wire)
      /\ peer \in {"closed", "broken"} \/ "overrun" \in RecvFaults(inb)
  BY <1>1, RecvStep DEF Buffer
<1>3. faults \subseteq faults' /\ faults' \subseteq faults \cup RecvFaults(inb) \cup {"touched"}
  BY DEF Flag
<1>4. TypeOK'
  <2>1. life' \in {"deleted", "crashed"} /\ faults' \subseteq Fault
    BY <1>1, <1>2, <1>3 DEF Flag, TypeOK, Fault
  <2> QED
    BY <1>1, <1>2, <2>1 DEF TypeOK
<1>5. StreamEnds'
  BY <1>2, <1>3 DEF IInv, StreamEnds
<1>6. TouchedOnlyAtEnd'
  BY <1>2, <1>3 DEF IInv, TouchedOnlyAtEnd
<1>7. (Buffers /\ Handshake /\ OnlyCloseOnClosed)'
  BY <1>2 DEF IInv, Buffers, Handshake, OnlyCloseOnClosed, Flag
<1>8. SentArrives'
  BY <1>3 DEF IInv, SentArrives
<1> QED
  BY <1>4, <1>5, <1>6, <1>7, <1>8 DEF IInv

LEMMA EventServeStep ==
    ASSUME IInv, EventServe
    PROVE  IInv'
<1> DEFINE p == IF "in" \in mask THEN PeerAfterRecv ELSE peer
<1> USE DEF heard, answers
<1>1. Buffer(inb) /\ TypeOK /\ Buffers
  BY DEF IInv, Buffers
<1>2. p \in PeerStates /\ (peer \in {"closed", "broken"} => p = peer)
  BY <1>1, RecvStep DEF TypeOK
<1>3. /\ UNCHANGED <<outb, toPeer, room, life>> /\ peer' = p
      /\ "out" \in mask => SendFaults(outb, p) = {}
  BY <1>1, <1>2, SendNothing DEF EventServe
<1>4. UNCHANGED <<fn, hdr, lastSend, fd, wire, ready, script, stream, sent, told>>
  BY DEF EventServe
<1>5. mask' = {} /\ phase' = "state" /\ phase = "event"
  BY DEF EventServe, Event
<1>6. /\ Buffer(inb') /\ inb' \in Ring /\ rcvq' \in Seq(Cell)
      /\ faults \subseteq faults' /\ faults' \subseteq Fault
      /\ "unsent" \in faults' => "unsent" \in faults
      /\ "touched" \in faults' => "touched" \in faults
      /\ "truncated" \notin faults' =>
             Contents(inb') \o (rcvq' \o wire) = Contents(inb) \o (rcvq \o wire)
  <2>1. CASE "in" \in mask
    <3>1. inb' = write(inb, Taken) /\ rcvq' = RcvqAfterRecv
      BY <2>1 DEF EventServe
    <3>2. faults' = faults \cup RecvFaults(inb)
      BY <1>3, <2>1 DEF EventServe
    <3> QED
      BY <1>1, <3>1, <3>2, RecvStep DEF Buffer, TypeOK
  <2>2. CASE "in" \notin mask
    <3>1. inb' = inb /\ rcvq' = rcvq /\ faults' = faults
      BY <1>3, <2>2 DEF EventServe
    <3> QED
      BY <1>1, <3>1 DEF Buffer, TypeOK
  <2> QED
    BY <2>1, <2>2
<1>7. TypeOK'
  BY <1>1, <1>2, <1>3, <1>4, <1>5, <1>6 DEF TypeOK
<1>8. StreamEnds'
  BY <1>4, <1>6 DEF IInv, StreamEnds
<1>9. TouchedOnlyAtEnd'
  BY <1>2, <1>3, <1>6 DEF IInv, TouchedOnlyAtEnd
<1>10. (Buffers /\ Handshake /\ OnlyCloseOnClosed /\ SentArrives)'
  BY <1>1, <1>3, <1>4, <1>5, <1>6
     DEF IInv, Buffers, Handshake, OnlyCloseOnClosed, SentArrives
<1> QED
  BY <1>7, <1>8, <1>9, <1>10 DEF IInv

-----------------------------------------------------------------------------
(***************************************************************************)
(* The steps of the state functions.                                       *)
(***************************************************************************)
\* Calls that return without having done anything, no call, and close().
LEMMA IdleStep ==
    ASSUME IInv, AwaitMore \/ ChannelIdle \/ CloseNothing \/ CloseSocket \/ PassedOver
    PROVE  IInv'
<1> USE DEF PassedOver, AwaitMore, ChannelIdle, CloseNothing, CloseSocket, StateCall, Unchanged,
            object, arrival, history, heard, answers
<1>1. TypeOK'
  BY DEF IInv, TypeOK
<1>2. OnlyCloseOnClosed'
  BY DEF IInv, OnlyCloseOnClosed
<1>3. (Buffers /\ Handshake /\ StreamEnds /\ SentArrives /\ TouchedOnlyAtEnd)'
  BY DEF IInv, Buffers, Handshake, StreamEnds, SentArrives, TouchedOnlyAtEnd
<1> QED
  BY <1>1, <1>2, <1>3 DEF IInv

\* open_connection on the header of the handshake.
LEMMA OpenStep ==
    ASSUME IInv, NEW h \in Header, open_connection(h), lastSend = 0 \/ h.plen # 0
    PROVE  /\ fn' \in {"open_connection", "handle_open_channel"}
           /\ fn' = "open_connection" => h.plen # 0
           /\ lastSend' \in 0 .. ByteVals
           /\ outb' \in Ring /\ Buffer(outb') /\ outb'.size = 0
           /\ toPeer' \in Seq(Cell) /\ told' \in Seq(Cell) /\ sent' \in Seq(Header)
           /\ room' \in 0 .. SndBuf
           /\ peer' \in PeerStates
           /\ peer \in {"closed", "broken"} => peer' = peer
           /\ life' \in {life, "crashed"}
           /\ AckFaults(h) \subseteq {"unsent"}
           /\ "unsent" \notin faults \cup AckFaults(h) => toPeer' = told'
<1>1. TypeOK /\ Buffers /\ SentArrives
  BY DEF IInv
<1>2. CASE h.plen # 0
  <2>1. /\ fn' = "open_connection"
        /\ UNCHANGED <<lastSend, outb, life, peer, room, sent, told, toPeer>>
        /\ AckFaults(h) = {}
    BY <1>2 DEF open_connection, AckFaults, answers
  <2> QED
    BY <1>1, <1>2, <2>1 DEF TypeOK, Buffers, SentArrives
<1>3. CASE h.plen = 0
  <2>1. /\ fn' = "handle_open_channel" /\ lastSend' = lastSend + 1
        /\ prepare_send(Ack)
        /\ AckFaults(h) = SendFaults(Prepared(Ack), peer)
    BY <1>3 DEF open_connection, AckFaults
  <2>2. lastSend = 0 /\ lastSend' \in 0 .. ByteVals
    BY <1>3, <2>1, MessagesAssumption
  <2>3. Ack \in Header /\ Ack.plen \in 0 .. ReplyPayload
    BY <2>2, AnswerTypes, ConnectionAssumption
  <2> QED
    BY <1>1, <2>1, <2>2, <2>3, PrepareSendStep
<1> QED
  BY <1>2, <1>3

LEMMA OpenConnectionStep ==
    ASSUME IInv, OpenConnection
    PROVE  IInv'
<1> USE DEF OpenConnection, StateCall, heard
<1>1. TypeOK /\ hdr \in Header /\ hdr.plen # 0 /\ Buffers
  BY DEF IInv, TypeOK, Handshake
<1>2. /\ fn' = "open_connection" /\ faults' = faults
      /\ UNCHANGED <<lastSend, outb, life, peer, room, sent, told, toPeer>>
  BY <1>1 DEF open_connection, AckFaults, answers
<1>3. TypeOK'
  BY <1>1, <1>2 DEF TypeOK, Functions
<1>4. (/\ Buffers /\ Handshake /\ OnlyCloseOnClosed /\ StreamEnds /\ SentArrives
       /\ TouchedOnlyAtEnd)'
  BY <1>1, <1>2 DEF IInv, Buffers, Handshake, OnlyCloseOnClosed, StreamEnds,
                    SentArrives, TouchedOnlyAtEnd
<1> QED
  BY <1>3, <1>4 DEF IInv

\* A header is taken out of _in_buffer.
LEMMA PopHeader ==
    ASSUME IInv, inb.size >= HeaderLen
    PROVE  /\ Buffer(AfterRead(inb, HeaderLen)) /\ AfterRead(inb, HeaderLen) \in Ring
           /\ ReadHeader(ReadData(inb, HeaderLen)) \in Header
           /\ "truncated" \notin faults =>
                  Ends(stream, Contents(AfterRead(inb, HeaderLen)) \o (rcvq \o wire))
<1>1. Buffer(inb) /\ inb \in Ring /\ rcvq \in Seq(Cell) /\ wire \in Seq(Cell)
  BY DEF IInv, Buffers, TypeOK
<1>2. HeaderLen \in 0 .. inb.size
  BY <1>1, ContentsOf DEF HeaderLen
<1>3. Buffer(AfterRead(inb, HeaderLen)) /\ AfterRead(inb, HeaderLen) \in Ring
  BY <1>1, <1>2, ReadBuffer DEF Buffer
<1>4. ReadHeader(ReadData(inb, HeaderLen)) \in Header
  <2>1. ReadData(inb, HeaderLen) \in Seq(Cell) /\ Len(ReadData(inb, HeaderLen)) = HeaderLen
    BY <1>1, <1>2, ReadBuffer
  <2>2. HeaderLen \in Nat
    BY DEF HeaderLen
  <2> HIDE DEF HeaderLen
  <2> DEFINE popped == ReadData(inb, HeaderLen)
  <2>3. popped \in Seq(Cell) /\ Len(popped) >= HeaderLen
    BY <2>1, <2>2
  <2> HIDE DEF popped
  <2>4. ReadHeader(popped) \in Header
    BY <2>3, ReadHeaderType
  <2> QED
    BY <2>4 DEF popped
<1>5. rcvq \o wire \in Seq(Cell)
  BY <1>1, ConcatProperties
<1>6. ASSUME "truncated" \notin faults
      PROVE  Ends(stream, Contents(AfterRead(inb, HeaderLen)) \o (rcvq \o wire))
  BY <1>1, <1>2, <1>5, <1>6, EndsConsumed DEF IInv, StreamEnds
<1> QED
  BY <1>3, <1>4, <1>6

LEMMA AwaitHandshakeStep ==
    ASSUME IInv, AwaitHandshake
    PROVE  IInv'
<1> DEFINE popped == ReadData(inb, HeaderLen)
           h      == ReadHeader(popped)
           rest   == AfterRead(inb, HeaderLen)
<1>1. /\ StateCall("await_handshake") /\ inb.size >= HeaderLen
      /\ UNCHANGED <<fd, wire, rcvq, ready, script, stream, mask>>
  BY DEF AwaitHandshake, StateCall, heard
<1>2. TypeOK /\ Buffers /\ lastSend = 0 /\ fn = "await_handshake"
  BY <1>1 DEF IInv, Handshake, StateCall
<1>3. /\ Buffer(rest) /\ rest \in Ring
      /\ h \in Header
      /\ "truncated" \notin faults => Ends(stream, Contents(rest) \o (rcvq \o wire))
  BY <1>1, PopHeader
<1>4. life = "live" /\ phase = "state" /\ phase' = "wait" /\ fd = "open"
  BY <1>1, <1>2 DEF StateCall, IInv, OnlyCloseOnClosed, TypeOK
<1> HIDE DEF popped, h, rest
<1>5. PICK misread \in SUBSET {"misread"} :
        \/ /\ fn' = "close" /\ faults' = faults \cup misread
           /\ UNCHANGED <<hdr, lastSend, inb, outb, life, peer, room, sent, told, toPeer>>
        \/ /\ inb' = rest /\ hdr' = h
           /\ \/ /\ open_connection(h)
                 /\ faults' = faults \cup misread \cup AckFaults(h)
              \/ /\ faults' = faults \cup misread
                 /\ UNCHANGED <<fn, lastSend, outb, life, peer, room, sent, told, toPeer>>
  <2>1. PICK shown \in PeekOutcomes(inb, HeaderLen) :
          LET misread == Flag("misread", shown # popped)
          IN  \/ /\ fn' = "close" /\ faults' = faults \cup misread
                 /\ UNCHANGED <<hdr, lastSend, inb, outb, life, peer, room, sent, told,
                                toPeer>>
              \/ /\ inb' = rest /\ hdr' = h
                 /\ \/ /\ open_connection(h)
                       /\ faults' = faults \cup misread \cup AckFaults(h)
                    \/ /\ faults' = faults \cup misread
                       /\ UNCHANGED <<fn, lastSend, outb, life, peer, room, sent, told,
                                      toPeer>>
    BY DEF AwaitHandshake, popped, h, rest, answers
  <2>2. Flag("misread", shown # popped) \in SUBSET {"misread"}
    BY DEF Flag
  <2> QED
    BY <2>1, <2>2
<1>6. CASE /\ fn' = "close" /\ faults' = faults \cup misread
           /\ UNCHANGED <<hdr, lastSend, inb, outb, life, peer, room, sent, told, toPeer>>
  <2>1. TypeOK'
    BY <1>1, <1>2, <1>4, <1>6 DEF TypeOK, Functions, Fault
  <2>2. (/\ Buffers /\ Handshake /\ OnlyCloseOnClosed /\ StreamEnds /\ SentArrives
         /\ TouchedOnlyAtEnd)'
    BY <1>1, <1>2, <1>4, <1>6 DEF IInv, Buffers, Handshake, OnlyCloseOnClosed,
                                  StreamEnds, SentArrives, TouchedOnlyAtEnd
  <2> QED
    BY <2>1, <2>2 DEF IInv
<1>7. ASSUME inb' = rest, hdr' = h,
             open_connection(h), faults' = faults \cup misread \cup AckFaults(h)
      PROVE  IInv'
  <2>1. h \in Header
    BY <1>3
  <2>2. /\ fn' \in {"open_connection", "handle_open_channel"}
        /\ fn' = "open_connection" => h.plen # 0
        /\ lastSend' \in 0 .. ByteVals
        /\ outb' \in Ring /\ Buffer(outb') /\ outb'.size = 0
        /\ toPeer' \in Seq(Cell) /\ told' \in Seq(Cell) /\ sent' \in Seq(Header)
        /\ room' \in 0 .. SndBuf
        /\ peer' \in PeerStates
        /\ peer \in {"closed", "broken"} => peer' = peer
        /\ life' \in {life, "crashed"}
        /\ AckFaults(h) \subseteq {"unsent"}
        /\ "unsent" \notin faults \cup AckFaults(h) => toPeer' = told'
    BY <1>2, <1>7, <2>1, OpenStep
  <2>3. TypeOK'
    BY <1>1, <1>2, <1>3, <1>4, <1>7, <2>1, <2>2 DEF TypeOK, Functions, Fault
  <2>4. (Buffers /\ Handshake /\ OnlyCloseOnClosed)'
    BY <1>1, <1>3, <1>4, <1>7, <2>2 DEF Buffers, Handshake, OnlyCloseOnClosed
  <2>5. (StreamEnds /\ SentArrives /\ TouchedOnlyAtEnd)'
    BY <1>1, <1>3, <1>7, <2>2 DEF IInv, StreamEnds, SentArrives, TouchedOnlyAtEnd
  <2> QED
    BY <2>3, <2>4, <2>5 DEF IInv
<1>8. ASSUME inb' = rest, hdr' = h,
             faults' = faults \cup misread,
             UNCHANGED <<fn, lastSend, outb, life, peer, room, sent, told, toPeer>>
      PROVE  IInv'
  <2>1. h \in Header
    BY <1>3
  <2>2. TypeOK'
    BY <1>1, <1>2, <1>3, <1>4, <1>8, <2>1 DEF TypeOK, Fault
  <2>3. (Buffers /\ Handshake /\ OnlyCloseOnClosed)'
    BY <1>1, <1>2, <1>3, <1>4, <1>8 DEF Buffers, Handshake, OnlyCloseOnClosed
  <2>4. (StreamEnds /\ SentArrives /\ TouchedOnlyAtEnd)'
    BY <1>1, <1>3, <1>8 DEF IInv, StreamEnds, SentArrives, TouchedOnlyAtEnd
  <2> QED
    BY <2>2, <2>3, <2>4 DEF IInv
<1> QED
  BY <1>5, <1>6, <1>7, <1>8

LEMMA AwaitHandshakeCrashStep ==
    ASSUME IInv, AwaitHandshakeCrash
    PROVE  IInv'
<1> USE DEF AwaitHandshakeCrash, StateCall, object, arrival, heard, answers
<1>1. TypeOK'
  BY DEF IInv, TypeOK, Fault
<1>2. (/\ Buffers /\ Handshake /\ OnlyCloseOnClosed /\ StreamEnds /\ SentArrives
       /\ TouchedOnlyAtEnd)'
  BY DEF IInv, Buffers, Handshake, OnlyCloseOnClosed, StreamEnds, SentArrives,
         TouchedOnlyAtEnd
<1> QED
  BY <1>1, <1>2 DEF IInv

\* receive_msg_payload on what is left of _in_buffer, the ring r.
LEMMA PayloadStep ==
    ASSUME IInv, NEW r, Buffer(r), NEW len \in Nat, receive_msg_payload(r, len),
           "truncated" \notin faults => Ends(stream, Contents(r) \o (rcvq \o wire)),
           UNCHANGED <<wire, stream>>, life = "live", fd = "open"
    PROVE  /\ inb' \in Ring /\ Buffer(inb')
           /\ fn' \in {"receive_msg_payload", "send_msg"}
           /\ fd' \in {"open", "closed"} /\ life' \in {"live", "deleted", "crashed"}
           /\ life' = "live" => fd' = "open"
           /\ rcvq' \in Seq(Cell) /\ peer' \in PeerStates
           /\ faults' \subseteq Fault /\ faults \subseteq faults'
           /\ "unsent" \in faults' => "unsent" \in faults
           /\ StreamEnds'
           /\ TouchedOnlyAtEnd'
<1> DEFINE full == write(r, Taken)
<1>1. TypeOK /\ wire \in Seq(Cell)
  BY DEF IInv, TypeOK
<1>2. /\ Buffer(full)
      /\ RcvqAfterRecv \in Seq(Cell)
      /\ PeerAfterRecv \in PeerStates
      /\ peer \in {"closed", "broken"} => PeerAfterRecv = peer
      /\ RecvZero => PeerAfterRecv = peer
      /\ RecvFaults(r) \subseteq Fault \ {"touched", "unsent"}
      /\ "truncated" \notin RecvFaults(r) =>
             Contents(full) \o (RcvqAfterRecv \o wire) = Contents(r) \o (rcvq \o wire)
      /\ RecvZero => peer \in {"closed", "broken"} \/ "overrun" \in RecvFaults(r)
  BY <1>1, RecvStep
<1> HIDE DEF full
<1>3. /\ rcvq' = RcvqAfterRecv /\ peer' = PeerAfterRecv
      /\ faults' = faults \cup RecvFaults(r) \cup Flag("touched", RecvZero)
      /\ \/ /\ RecvZero /\ inb' = full /\ fn' = "receive_msg_payload"
            /\ fd' = "closed" /\ life' \in {"deleted", "crashed"}
         \/ /\ Complete(full, len) /\ inb' = AfterRead(full, len) /\ fn' = "send_msg"
            /\ UNCHANGED <<fd, life>>
         \/ /\ inb' = full /\ fn' = "receive_msg_payload"
            /\ UNCHANGED <<fd, life>>
  BY DEF receive_msg_payload, recv, full
<1>4. /\ faults' \subseteq Fault /\ faults \subseteq faults'
      /\ "unsent" \in faults' => "unsent" \in faults
      /\ "truncated" \notin faults' =>
             "truncated" \notin faults /\ "truncated" \notin RecvFaults(r)
  BY <1>1, <1>2, <1>3 DEF Flag, Fault, TypeOK
<1>5. rcvq' \o wire' \in Seq(Cell)
  BY <1>1, <1>2, <1>3, ConcatProperties
<1>6. "truncated" \notin faults' => Ends(stream', Contents(full) \o (rcvq' \o wire'))
  BY <1>2, <1>3, <1>4
<1>7. /\ inb' \in Ring /\ Buffer(inb')
      /\ "truncated" \notin faults' => Ends(stream', Contents(inb') \o (rcvq' \o wire'))
  <2>1. CASE inb' = full
    BY <1>2, <1>6, <2>1 DEF Buffer
  <2>2. CASE Complete(full, len) /\ inb' = AfterRead(full, len)
    <3>1. full \in Ring
      BY <1>2 DEF Buffer
    <3>2. len \in 0 .. full.size
      BY <2>2, <3>1, ContentsOf DEF Complete
    <3> QED
      BY <1>2, <1>5, <1>6, <2>2, <3>2, ReadBuffer, EndsConsumed DEF Buffer
  <2> QED
    BY <1>3, <2>1, <2>2
<1>8. StreamEnds'
  BY <1>7 DEF StreamEnds
<1>9. TouchedOnlyAtEnd'
  BY <1>2, <1>3 DEF IInv, TouchedOnlyAtEnd, Flag
<1> QED
  BY <1>2, <1>3, <1>4, <1>7, <1>8, <1>9

LEMMA ReceiveMsgPayloadStep ==
    ASSUME IInv, ReceiveMsgPayload
    PROVE  IInv'
<1> USE DEF heard, answers
<1>1. /\ StateCall("receive_msg_payload")
      /\ receive_msg_payload(inb, hdr.plen)
      /\ UNCHANGED <<hdr, lastSend, outb, wire, ready, room, script, stream, sent, told,
                     toPeer, mask>>
  BY DEF ReceiveMsgPayload, StateCall
<1>2. TypeOK /\ Buffers /\ Buffer(inb) /\ hdr.plen \in Nat
  BY MessagesAssumption DEF IInv, Buffers, TypeOK, Header
<1>3. life = "live" /\ fd = "open" /\ phase' = "wait"
  BY <1>1, <1>2 DEF StateCall, IInv, OnlyCloseOnClosed, TypeOK
<1>4. /\ inb' \in Ring /\ Buffer(inb')
      /\ fn' \in {"receive_msg_payload", "send_msg"}
      /\ fd' \in {"open", "closed"} /\ life' \in {"live", "deleted", "crashed"}
      /\ life' = "live" => fd' = "open"
      /\ rcvq' \in Seq(Cell) /\ peer' \in PeerStates
      /\ faults' \subseteq Fault /\ faults \subseteq faults'
      /\ "unsent" \in faults' => "unsent" \in faults
      /\ StreamEnds'
      /\ TouchedOnlyAtEnd'
  BY <1>1, <1>2, <1>3, PayloadStep DEF IInv, StreamEnds
<1>5. TypeOK'
  BY <1>1, <1>2, <1>3, <1>4 DEF TypeOK, Functions
<1>6. (Buffers /\ Handshake /\ OnlyCloseOnClosed /\ SentArrives)'
  BY <1>1, <1>2, <1>3, <1>4
     DEF IInv, Buffers, Handshake, OnlyCloseOnClosed, SentArrives
<1> QED
  BY <1>4, <1>5, <1>6 DEF IInv

LEMMA HandleOpenChannelStep ==
    ASSUME IInv, HandleOpenChannel
    PROVE  IInv'
<1> DEFINE h    == ReadHeader(ReadData(inb, HeaderLen))
           rest == AfterRead(inb, HeaderLen)
<1> USE DEF heard, answers
<1>1. /\ StateCall("handle_open_channel") /\ inb.size >= HeaderLen
      /\ UNCHANGED <<outb, wire, ready, room, script, stream, sent, told, toPeer, mask>>
  BY DEF HandleOpenChannel, StateCall
<1>2. TypeOK /\ Buffers
  BY DEF IInv
<1>3. /\ Buffer(rest) /\ rest \in Ring
      /\ h \in Header
      /\ "truncated" \notin faults => Ends(stream, Contents(rest) \o (rcvq \o wire))
  BY <1>1, PopHeader
<1>4. life = "live" /\ fd = "open" /\ phase' = "wait" /\ fn = "handle_open_channel"
  BY <1>1, <1>2 DEF StateCall, IInv, OnlyCloseOnClosed, TypeOK
<1> HIDE DEF h, rest
<1>5. /\ hdr' = h
      /\ lastSend' = IF h.magic THEN h.dest ELSE lastSend
      /\ IF h.magic /\ h.plen # 0
         THEN receive_msg_payload(rest, h.plen)
         ELSE /\ inb' = rest
              /\ UNCHANGED <<fn, fd, life, rcvq, peer, faults>>
  BY DEF HandleOpenChannel, h, rest
<1>6. h \in Header /\ h.plen \in Nat
  BY <1>3, MessagesAssumption DEF Header
<1>7. lastSend' \in 0 .. ByteVals
  BY <1>2, <1>5, <1>6, MessagesAssumption DEF TypeOK, Header
<1>8. CASE h.magic /\ h.plen # 0
  <2>1. /\ inb' \in Ring /\ Buffer(inb')
        /\ fn' \in {"receive_msg_payload", "send_msg"}
        /\ fd' \in {"open", "closed"} /\ life' \in {"live", "deleted", "crashed"}
        /\ life' = "live" => fd' = "open"
        /\ rcvq' \in Seq(Cell) /\ peer' \in PeerStates
        /\ faults' \subseteq Fault /\ faults \subseteq faults'
        /\ "unsent" \in faults' => "unsent" \in faults
        /\ StreamEnds'
        /\ TouchedOnlyAtEnd'
    BY <1>1, <1>3, <1>4, <1>5, <1>6, <1>8, PayloadStep
  <2>2. TypeOK'
    BY <1>1, <1>2, <1>4, <1>5, <1>6, <1>7, <2>1 DEF TypeOK, Functions
  <2>3. (Buffers /\ Handshake /\ OnlyCloseOnClosed /\ SentArrives)'
    BY <1>1, <1>2, <1>4, <2>1
       DEF IInv, Buffers, Handshake, OnlyCloseOnClosed, SentArrives
  <2> QED
    BY <2>1, <2>2, <2>3 DEF IInv
<1>9. CASE ~(h.magic /\ h.plen # 0)
  <2>1. inb' = rest /\ UNCHANGED <<fn, fd, life, rcvq, peer, faults>>
    BY <1>5, <1>9
  <2>2. TypeOK'
    BY <1>1, <1>2, <1>3, <1>4, <1>5, <1>6, <1>7, <2>1 DEF TypeOK
  <2>3. (Buffers /\ Handshake /\ OnlyCloseOnClosed)'
    BY <1>1, <1>2, <1>3, <1>4, <2>1 DEF Buffers, Handshake, OnlyCloseOnClosed
  <2>4. (StreamEnds /\ SentArrives /\ TouchedOnlyAtEnd)'
    BY <1>1, <1>3, <2>1 DEF IInv, StreamEnds, SentArrives, TouchedOnlyAtEnd
  <2> QED
    BY <2>2, <2>3, <2>4 DEF IInv
<1> QED
  BY <1>8, <1>9

LEMMA SendMsgStep ==
    ASSUME IInv, SendMsg
    PROVE  IInv'
<1>1. /\ StateCall("send_msg") /\ hdr' = Reply /\ prepare_send(Reply)
      /\ faults' = faults \cup SendFaults(Prepared(Reply), peer)
      /\ fn' = "handle_open_channel"
      /\ UNCHANGED <<lastSend, inb, fd, wire, rcvq, ready, script, stream, mask>>
  BY DEF SendMsg, StateCall, heard
<1>2. TypeOK /\ Buffers /\ SentArrives /\ lastSend \in Nat
  BY MessagesAssumption DEF IInv, TypeOK
<1>3. life = "live" /\ fd = "open" /\ phase' = "wait"
  BY <1>1, <1>2 DEF StateCall, IInv, OnlyCloseOnClosed, TypeOK
<1>4. Reply \in Header /\ Reply.plen \in 0 .. ReplyPayload
  BY <1>2, AnswerTypes, ConnectionAssumption
<1>5. /\ outb' \in Ring /\ Buffer(outb') /\ outb'.size = 0
      /\ toPeer' \in Seq(Cell) /\ told' \in Seq(Cell) /\ sent' \in Seq(Header)
      /\ room' \in 0 .. SndBuf
      /\ peer' \in PeerStates
      /\ peer \in {"closed", "broken"} => peer' = peer
      /\ life' \in {life, "crashed"}
      /\ SendFaults(Prepared(Reply), peer) \subseteq {"unsent"}
      /\ "unsent" \notin faults \cup SendFaults(Prepared(Reply), peer)
           => toPeer' = told'
  BY <1>1, <1>2, <1>4, PrepareSendStep
<1>6. TypeOK'
  BY <1>1, <1>2, <1>3, <1>4, <1>5 DEF TypeOK, Functions, Fault
<1>7. (Buffers /\ Handshake /\ OnlyCloseOnClosed)'
  BY <1>1, <1>2, <1>3, <1>5 DEF Buffers, Handshake, OnlyCloseOnClosed
<1>8. (StreamEnds /\ SentArrives /\ TouchedOnlyAtEnd)'
  BY <1>1, <1>5 DEF IInv, StreamEnds, SentArrives, TouchedOnlyAtEnd
<1> QED
  BY <1>6, <1>7, <1>8 DEF IInv

-----------------------------------------------------------------------------
(***************************************************************************)
(* The invariant and what follows from it.                                 *)
(***************************************************************************)
LEMMA InitIInv == Init => IInv
<1> SUFFICES ASSUME Init PROVE IInv
  OBVIOUS
<1>1. PICK r \in [start : {0}, end : {0}, size : {0}, cells : [Slot -> {Blank}]] :
        inb = r /\ outb = r
  BY DEF Init
<1>2. Buffers /\ inb \in Ring /\ outb \in Ring
  BY <1>1, NewBuffer DEF Buffers, Buffer
<1>3. <<>> \in Seq(Cell) /\ <<>> \in Seq(Header) /\ <<>> \in Seq(PeerMsgs)
  OBVIOUS
<1>4. NoHeader \in Header /\ SndBuf \in Nat /\ ByteVals \in Nat \ {0}
  BY MessagesAssumption, ConnectionAssumption DEF NoHeader, Header, Code
<1>5. TypeOK
  BY <1>2, <1>3, <1>4 DEF Init, TypeOK, Functions, PeerStates
<1>6. StreamEnds
  <2>1. Contents(inb) \in Seq(Cell) /\ Len(Contents(inb)) = 0
    BY <1>2, ContentsOf DEF Buffers, Init
  <2>2. Contents(inb) = <<>>
    BY <2>1
  <2>3. <<>> \o (<<>> \o (<<>> \o <<>>)) = <<>>
    OBVIOUS
  <2> QED
    BY <1>3, <2>2, <2>3 DEF Init, StreamEnds, Ends
<1>7. Handshake /\ OnlyCloseOnClosed /\ SentArrives /\ TouchedOnlyAtEnd
  BY DEF Init, Handshake, OnlyCloseOnClosed, SentArrives, TouchedOnlyAtEnd
<1> QED
  BY <1>2, <1>5, <1>6, <1>7 DEF IInv

LEMMA NextIInv == IInv /\ [Next]_vars => IInv'
<1> SUFFICES ASSUME IInv, [Next]_vars PROVE IInv'
  OBVIOUS
<1>1. ASSUME NEW m \in PeerMsgs, PeerSend(m) PROVE IInv'
  BY <1>1, PeerSendStep
<1>2. ASSUME NEW k \in 1 .. Len(wire), Deliver(k) PROVE IInv'
  BY <1>2, DeliverStep
<1>3. CASE PeerClose \/ DeliverFin \/ PeerReset \/ PeerReads
  BY <1>3, PeerStep
<1>4. CASE EpollWait
  BY <1>4, EpollWaitStep
<1>5. CASE EventHup
  BY <1>5, EventHupStep
<1>6. CASE EventRecvEnd
  BY <1>6, EventRecvEndStep
<1>7. CASE EventServe
  BY <1>7, EventServeStep
<1>8. CASE AwaitMore \/ ChannelIdle \/ CloseNothing \/ CloseSocket \/ PassedOver
  BY <1>8, IdleStep
<1>9. CASE AwaitHandshake
  BY <1>9, AwaitHandshakeStep
<1>10. CASE AwaitHandshakeCrash
  BY <1>10, AwaitHandshakeCrashStep
<1>11. CASE OpenConnection
  BY <1>11, OpenConnectionStep
<1>12. CASE HandleOpenChannel
  BY <1>12, HandleOpenChannelStep
<1>13. CASE ReceiveMsgPayload
  BY <1>13, ReceiveMsgPayloadStep
<1>14. CASE SendMsg
  BY <1>14, SendMsgStep
<1>15. CASE UNCHANGED vars
  BY <1>15 DEF vars, heard, answers, IInv, TypeOK, Buffers, Handshake, OnlyCloseOnClosed,
               StreamEnds, SentArrives, TouchedOnlyAtEnd
<1> QED
  BY <1>1, <1>2, <1>3, <1>4, <1>5, <1>6, <1>7, <1>8, <1>9, <1>10, <1>11, <1>12, <1>13,
     <1>14, <1>15
     DEF Next, Environment, Thread, StateFunction

LEMMA Inductive == Spec => []IInv
BY InitIInv, NextIInv, PTL DEF Spec

\* The end of a sequence, however it is said.
LEMMA SuffixOf ==
    ASSUME NEW s \in Seq(Cell), NEW t \in Seq(Cell), NEW u \in Seq(Cell), t = u \o s
    PROVE  IsSuffix(s, t)
<1>1. Len(s) \in Nat /\ Len(t) \in Nat /\ Len(s) <= Len(t) /\ Len(t) = Len(u) + Len(s)
  BY ConcatProperties
<1>2. /\ Reverse(s) \in Seq(Cell) /\ Len(Reverse(s)) = Len(s)
      /\ Reverse(t) \in Seq(Cell) /\ Len(Reverse(t)) = Len(t)
  BY <1>1, ElementOfSeq DEF Reverse
<1>3. \A i \in 1 .. Len(s) : Reverse(s)[i] = Reverse(t)[i]
  <2> TAKE i \in 1 .. Len(s)
  <2>1. Reverse(s)[i] = s[Len(s) - i + 1]
    BY <1>1 DEF Reverse
  <2>2. Reverse(t)[i] = t[Len(t) - i + 1]
    BY <1>1 DEF Reverse
  <2>3. t[Len(t) - i + 1] = s[Len(s) - i + 1]
    <3>1. Len(u) \in Nat /\ Len(t) - i + 1 \in 1 .. Len(u) + Len(s)
      BY <1>1
    <3>2. ~(Len(t) - i + 1 <= Len(u)) /\ Len(t) - i + 1 - Len(u) = Len(s) - i + 1
      BY <1>1, <3>1
    <3> QED
      BY <3>1, <3>2, ConcatProperties
  <2> QED
    BY <2>1, <2>2, <2>3
<1>4. SubSeq(Reverse(s), 1, Len(s)) = SubSeq(Reverse(t), 1, Len(s))
  BY <1>1, <1>2, <1>3
<1> QED
  BY <1>1, <1>2, <1>4 DEF IsSuffix, IsPrefix

\* For every buffer length and every peer, the state of a connection stays in
\* range: its two rings, its state function, its header and its counters
\* (recyclr-net.cpp:15-213).
THEOREM TypeCorrect == Spec => []TypeOK
<1>1. IInv => TypeOK
  BY DEF IInv
<1> QED
  BY <1>1, Inductive, PTL

\* Whatever the peer sends and however its bytes are split, what the program
\* has not consumed is the end of what the peer sent, as long as write() found
\* room for it (recyclr-net.cpp:141-161, recyclr-buffer.cpp:17-81).
THEOREM StreamCorrect == Spec => []UnreadStream
<1>1. IInv => UnreadStream
  <2> SUFFICES ASSUME IInv, "truncated" \notin faults
               PROVE  IsSuffix(Unread, stream)
    BY DEF UnreadStream
  <2>1. /\ Contents(inb) \in Seq(Cell) /\ rcvq \in Seq(Cell) /\ wire \in Seq(Cell)
        /\ stream \in Seq(Cell)
    BY ContentsOf DEF IInv, TypeOK
  <2>2. Unread = Contents(inb) \o (rcvq \o wire)
    BY <2>1, CellsAssociate DEF Unread
  <2>3. Unread \in Seq(Cell)
    BY <2>1, ConcatProperties DEF Unread
  <2>4. PICK u \in Seq(Cell) : stream = u \o Unread
    BY <2>2 DEF IInv, StreamEnds, Ends
  <2> QED
    BY <2>1, <2>3, <2>4, SuffixOf
<1> QED
  BY <1>1, Inductive, PTL

\* What the socket accepted is the stream of the messages sent, until it has
\* once accepted less than it was offered (recyclr-net.cpp:81-85, 163-180).
THEOREM SentCorrect == Spec => []SentArrives
<1>1. IInv => SentArrives
  BY DEF IInv
<1> QED
  BY <1>1, Inductive, PTL

\* _out_buffer is empty whenever an event or a state function is handled, for
\* every length of the buffers (recyclr-net.cpp:163-170, 418).
THEOREM OutBufferEmpty == Spec => []NothingWaits
<1>1. IInv => NothingWaits
  BY DEF IInv, Buffers, NothingWaits
<1> QED
  BY <1>1, Inductive, PTL

\* Only the end of the peer, or more data than big_buffer holds, leads to the
\* use of a deleted connection (recyclr-net.cpp:113-118, 154-157, 413-419).
THEOREM TouchedCorrect == Spec => []TouchedOnlyAtEnd
<1>1. IInv => TouchedOnlyAtEnd
  BY DEF IInv
<1> QED
  BY <1>1, Inductive, PTL

-----------------------------------------------------------------------------
(***************************************************************************)
(* The life of the connection.                                             *)
(***************************************************************************)

LEMMA LifeInit == Init => Life!Init
BY DEF Init, Life!Init, Life!Turns

LEMMA LifeStep == IInv /\ [Next]_vars => [Life!Step]_(Life!vars)
<1> SUFFICES ASSUME IInv, [Next]_vars PROVE [Life!Step]_(Life!vars)
  OBVIOUS
<1> USE DEF Life!vars, Life!Step, Life!Turns
<1>1. TypeOK /\ OnlyCloseOnClosed
  BY DEF IInv
<1>2. CASE UNCHANGED <<life, fd>>
  BY <1>2
<1>3. CASE Environment
  <2>1. UNCHANGED <<life, fd>>
    BY <1>3 DEF Environment, PeerSend, Deliver, PeerClose, DeliverFin, PeerReset,
                PeerReads, object
  <2> QED
    BY <1>2, <2>1
<1>4. CASE EpollWait \/ AwaitMore \/ ChannelIdle \/ CloseNothing \/ PassedOver
  <2>1. UNCHANGED <<life, fd>>
    BY <1>4 DEF EpollWait, AwaitMore, ChannelIdle, CloseNothing, PassedOver, StateCall,
                Unchanged, object
  <2> QED
    BY <1>2, <2>1
<1>5. CASE EventHup \/ EventRecvEnd
  <2>1. /\ life = "live" /\ phase = "event" /\ fd = "open"
        /\ life' \in {"deleted", "crashed"}
    BY <1>1, <1>5 DEF EventHup, EventRecvEnd, Event, Flag, OnlyCloseOnClosed, TypeOK
  <2> QED
    BY <2>1 DEF Life!EventCall, Life!Crash
<1>6. CASE EventServe \/ OpenConnection \/ AwaitHandshake \/ AwaitHandshakeCrash \/ SendMsg
  <2>1. life = "live" /\ fd' = fd
    BY <1>6 DEF EventServe, Event, OpenConnection, AwaitHandshake, AwaitHandshakeCrash,
                SendMsg, StateCall, object
  <2>2. life' \in {"live", "crashed"}
    <3>1. CASE EventServe
      BY <2>1, <3>1 DEF EventServe, send
    <3>2. CASE OpenConnection
      BY <2>1, <3>2 DEF OpenConnection, open_connection, prepare_send, send
    <3>3. CASE AwaitHandshake
      BY <2>1, <3>3 DEF AwaitHandshake, open_connection, prepare_send, send
    <3>4. CASE AwaitHandshakeCrash
      BY <3>4 DEF AwaitHandshakeCrash
    <3>5. CASE SendMsg
      BY <2>1, <3>5 DEF SendMsg, prepare_send, send
    <3> QED
      BY <1>6, <3>1, <3>2, <3>3, <3>4, <3>5
  <2> QED
    BY <2>1, <2>2 DEF Life!Crash
<1>7. CASE CloseSocket
  <2>1. life = "live" /\ life' = life /\ phase = "state" /\ fd = "open" /\ fd' = "closed"
    BY <1>7 DEF CloseSocket, StateCall
  <2> QED
    BY <2>1 DEF Life!StateCall
<1>8. CASE ReceiveMsgPayload \/ HandleOpenChannel
  <2>1. life = "live" /\ phase = "state" /\ fd = "open"
    BY <1>1, <1>8 DEF ReceiveMsgPayload, HandleOpenChannel, StateCall, OnlyCloseOnClosed,
                      TypeOK
  <2>2. UNCHANGED <<life, fd>> \/ life' \in {"deleted", "crashed"}
    BY <1>8 DEF ReceiveMsgPayload, HandleOpenChannel, receive_msg_payload
  <2> QED
    BY <1>2, <2>1, <2>2 DEF Life!StateCall, Life!Crash
<1>9. CASE UNCHANGED vars
  BY <1>9 DEF vars
<1> QED
  BY <1>3, <1>4, <1>5, <1>6, <1>7, <1>8, <1>9 DEF Next, Thread, StateFunction

\* Every connection lives as NetClient relies on: events and state functions
\* delete it or close its socket only as ConnectionLife says, and a closed
\* socket stays closed (recyclr-net.cpp:154-160, 187-213, 404-422).
THEOREM LifeRefinement == Spec => LifeSpec
<1>1. Spec => Life!Init /\ [][Life!Step]_(Life!vars)
  BY LifeInit, LifeStep, Inductive, PTL DEF Spec
<1> QED
  BY <1>1 DEF LifeSpec, Life!Spec

=============================================================================
