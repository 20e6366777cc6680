------------------------------ MODULE EchoProofs ------------------------------
(***************************************************************************)
(* Connection follows the messages of its peer, for every buffer length,   *)
(* send buffer, peer and number of messages: no answer without a header of *)
(* its own, exactly the answers of the abstract session when the peer      *)
(* speaks the protocol, and every step a step of that session.             *)
(*                                                                         *)
(* ConnectionProofs says that what is unread is the end of the stream.     *)
(* Here the stream is cut into messages, and the invariants say which      *)
(* message the unread part starts in.                                      *)
(***************************************************************************)
EXTENDS ConnectionProofs

S == INSTANCE SessionProofs WITH asked <- Asked, answered <- sent,
         PeerMsgs <- {ReadHeader(m) : m \in PeerMsgs},
         gone <- peer \notin {"open", "closing"}, over <- life # "live"

\* Connection and SessionProofs mean the same session.
LEMMA SameSession ==
    ASSUME NEW ms
    PROVE  Replies(ms) = S!Replies(ms) /\ Echo!Replies(ms) = S!Replies(ms)
<1>1. \A i : Echo!Opened(ms, i) <=> S!Opened(ms, i)
  BY DEF Echo!Opened, S!Opened
<1>2. Echo!Asking(ms) = S!Asking(ms)
  BY <1>1 DEF Echo!Asking, S!Asking
<1>3. \A i : Echo!AnswerTo(ms, i) = S!AnswerTo(ms, i)
  BY <1>1 DEF Echo!AnswerTo, S!AnswerTo
<1>4. \A T : Echo!Cardinality(T) = S!Cardinality(T)
  BY DEF Echo!Cardinality, S!Cardinality
<1>5. \A i : Echo!Rank(ms, i) = S!Rank(ms, i)
  BY <1>2, <1>4 DEF Echo!Rank, S!Rank
<1>6. Echo!Replies(ms) = S!Replies(ms)
  BY <1>2, <1>3, <1>4, <1>5 DEF Echo!Replies, S!Replies
<1> QED
  BY <1>6 DEF Replies

-----------------------------------------------------------------------------
(***************************************************************************)
(* The messages and their boundaries.                                      *)
(***************************************************************************)
HeadersOf(ms) == [i \in 1 .. Len(ms) |-> ReadHeader(ms[i])]

LEMMA AskedIs == Asked = HeadersOf(script)
BY DEF Asked, HeadersOf

LEMMA MessageType ==
    ASSUME NEW c \in PeerMsgs
    PROVE  /\ c \in Seq(Cell) /\ Len(c) \in Nat /\ Len(c) >= HeaderLen
           /\ ReadHeader(c) \in Header /\ ReadHeader(c).plen \in Nat
<1>1. c \in Seq(Cell) /\ Len(c) \in Nat /\ Len(c) >= HeaderLen
  BY ConnectionAssumption
<1>2. ReadHeader(c) \in Header
  BY <1>1, ReadHeaderType
<1> QED
  BY <1>1, <1>2, MessagesAssumption DEF Header

LEMMA HeadersType ==
    ASSUME NEW ms \in Seq(PeerMsgs)
    PROVE  /\ HeadersOf(ms) \in Seq(Header)
           /\ Len(ms) \in Nat /\ Len(HeadersOf(ms)) = Len(ms)
           /\ \A i \in 1 .. Len(ms) :
                  /\ HeadersOf(ms)[i] = ReadHeader(ms[i])
                  /\ HeadersOf(ms)[i] \in Header /\ HeadersOf(ms)[i].plen \in Nat
                  /\ ms[i] \in Seq(Cell) /\ Len(ms[i]) \in Nat /\ Len(ms[i]) >= HeaderLen
<1>1. ASSUME NEW i \in 1 .. Len(ms)
      PROVE  /\ ReadHeader(ms[i]) \in Header /\ ReadHeader(ms[i]).plen \in Nat
             /\ ms[i] \in Seq(Cell) /\ Len(ms[i]) \in Nat /\ Len(ms[i]) >= HeaderLen
  <2>1. ms[i] \in PeerMsgs
    OBVIOUS
  <2> QED
    BY <2>1, MessageType
<1>2. Len(ms) \in Nat
  OBVIOUS
<1>3. HeadersOf(ms) \in Seq(Header) /\ Len(HeadersOf(ms)) = Len(ms)
  BY <1>1, <1>2 DEF HeadersOf
<1>4. \A i \in 1 .. Len(ms) : HeadersOf(ms)[i] = ReadHeader(ms[i])
  BY DEF HeadersOf
<1> QED
  BY <1>1, <1>2, <1>3, <1>4

\* The next message adds its header.
LEMMA HeadersAppended ==
    ASSUME NEW ms \in Seq(PeerMsgs), NEW c \in PeerMsgs
    PROVE  HeadersOf(Append(ms, c)) = Append(HeadersOf(ms), ReadHeader(c))
<1> DEFINE all == Append(ms, c)
           hs  == HeadersOf(ms)
<1>1. /\ all \in Seq(PeerMsgs) /\ Len(all) = Len(ms) + 1 /\ Len(ms) \in Nat
      /\ all[Len(ms) + 1] = c /\ \A i \in 1 .. Len(ms) : all[i] = ms[i]
  OBVIOUS
<1>2. hs \in Seq(Header) /\ Len(hs) = Len(ms) /\ ReadHeader(c) \in Header
  BY HeadersType, MessageType
<1>3. \A i \in 1 .. Len(ms) : hs[i] = ReadHeader(ms[i])
  BY HeadersType
<1> HIDE DEF hs, all
<1>4. HeadersOf(all) \in Seq(Header) /\ Len(HeadersOf(all)) = Len(ms) + 1
      /\ \A i \in 1 .. Len(ms) + 1 : HeadersOf(all)[i] = ReadHeader(all[i])
  BY <1>1, HeadersType
<1>5. /\ Append(hs, ReadHeader(c)) \in Seq(Header) /\ Len(Append(hs, ReadHeader(c))) = Len(ms) + 1
      /\ Append(hs, ReadHeader(c))[Len(ms) + 1] = ReadHeader(c)
      /\ \A i \in 1 .. Len(ms) : Append(hs, ReadHeader(c))[i] = hs[i]
  BY <1>1, <1>2, AppendProperties
<1>6. ASSUME NEW i \in 1 .. Len(ms) + 1
      PROVE  HeadersOf(all)[i] = Append(hs, ReadHeader(c))[i]
  <2>1. CASE i = Len(ms) + 1
    BY <1>1, <1>4, <1>5, <2>1
  <2>2. CASE i # Len(ms) + 1
    <3>1. i \in 1 .. Len(ms)
      BY <1>1, <2>2
    <3> QED
      BY <1>1, <1>3, <1>4, <1>5, <3>1
  <2> QED
    BY <2>1, <2>2
<1>7. HeadersOf(all) = Append(hs, ReadHeader(c))
  BY <1>4, <1>5, <1>6, SeqEqual
<1> QED
  BY <1>7 DEF all, hs

\* m[i] cells of the stream s come before the message i of ms.
Cut(m, ms, s) ==
    /\ m \in [1 .. Len(ms) + 1 -> Nat]
    /\ m[1] = 0 /\ m[Len(ms) + 1] = Len(s)
    /\ \A i \in 1 .. Len(ms) : m[i + 1] = m[i] + Len(ms[i])
    /\ \A i \in 1 .. Len(ms) : \A j \in i + 1 .. Len(ms) + 1 : m[i + 1] <= m[j]
    /\ \A i \in 1 .. Len(ms) : \A q \in 1 .. Len(ms[i]) : s[m[i] + q] = ms[i][q]

Marks(m) == Cut(m, script, stream)

\* How much of the stream the state functions have taken out of _in_buffer.
Consumed == Len(stream) - (inb.size + Len(rcvq) + Len(wire))

\* The next message starts where the stream ended.
LEMMA CutAppended ==
    ASSUME NEW ms \in Seq(PeerMsgs), NEW s \in Seq(Cell), NEW m, Cut(m, ms, s),
           NEW c \in PeerMsgs
    PROVE  \E n : /\ Cut(n, Append(ms, c), s \o c)
                  /\ \A i \in 1 .. Len(ms) + 1 : n[i] = m[i]
<1> DEFINE last == Len(ms) + 1
           all  == Append(ms, c)
           cs   == s \o c
           n    == [i \in 1 .. last + 1 |->
                       IF i = last + 1 THEN Len(s) + Len(c) ELSE m[i]]
<1>1. Len(ms) \in Nat /\ Len(s) \in Nat /\ \A i \in 1 .. Len(ms) : Len(ms[i]) \in Nat
  BY HeadersType
<1>2. c \in Seq(Cell) /\ Len(c) \in Nat
  BY MessageType
<1>3. /\ Len(all) = last /\ all[last] = c
      /\ \A i \in 1 .. Len(ms) : all[i] = ms[i]
  BY <1>1, AppendProperties
<1>4. /\ Len(cs) = Len(s) + Len(c)
      /\ \A p \in 1 .. Len(s) : cs[p] = s[p]
      /\ \A q \in 1 .. Len(c) : cs[Len(s) + q] = c[q]
  <2>1. /\ Len(cs) = Len(s) + Len(c)
        /\ \A p \in 1 .. Len(s) + Len(c) :
              cs[p] = IF p <= Len(s) THEN s[p] ELSE c[p - Len(s)]
    BY <1>2, ConcatProperties
  <2> HIDE DEF cs
  <2>2. \A p \in 1 .. Len(s) : cs[p] = s[p]
    BY <1>1, <1>2, <2>1
  <2>3. ASSUME NEW q \in 1 .. Len(c)
        PROVE  cs[Len(s) + q] = c[q]
    <3>1. /\ Len(s) + q \in 1 .. Len(s) + Len(c) /\ ~(Len(s) + q <= Len(s))
          /\ Len(s) + q - Len(s) = q
      BY <1>1, <1>2
    <3> QED
      BY <2>1, <3>1
  <2> QED
    BY <2>1, <2>2, <2>3
<1>5. /\ m \in [1 .. last -> Nat] /\ m[1] = 0 /\ m[last] = Len(s)
      /\ \A i \in 1 .. Len(ms) : m[i + 1] = m[i] + Len(ms[i])
      /\ \A i \in 1 .. Len(ms) : \A j \in i + 1 .. last : m[i + 1] <= m[j]
      /\ \A i \in 1 .. Len(ms) : \A q \in 1 .. Len(ms[i]) : s[m[i] + q] = ms[i][q]
  BY DEF Cut
<1>6. last \in Nat \ {0} /\ Len(ms) = last - 1
  BY <1>1
<1>7. /\ \A i \in 1 .. last : n[i] = m[i]
      /\ n[last + 1] = Len(s) + Len(c)
      /\ n \in [1 .. last + 1 -> Nat]
  BY <1>1, <1>2, <1>5, <1>6
<1> HIDE DEF n, all, cs, last
<1>8. ASSUME NEW i \in 1 .. last
      PROVE  n[i + 1] = n[i] + Len(all[i])
  <2>1. CASE i = last
    BY <1>3, <1>5, <1>6, <1>7, <2>1
  <2>2. CASE i # last
    <3>1. i \in 1 .. Len(ms) /\ i + 1 \in 1 .. last
      BY <1>6, <2>2
    <3> QED
      BY <1>3, <1>5, <1>7, <3>1
  <2> QED
    BY <2>1, <2>2
<1>9. ASSUME NEW i \in 1 .. last, NEW j \in i + 1 .. last + 1
      PROVE  n[i + 1] <= n[j]
  <2>1. CASE j = last + 1
    <3>1. CASE i = last
      BY <1>1, <1>2, <1>6, <1>7, <2>1, <3>1
    <3>2. CASE i # last
      <4>1. i \in 1 .. Len(ms) /\ i + 1 \in 1 .. last /\ last \in i + 1 .. last
        BY <1>6, <3>2
      <4>2. n[i + 1] = m[i + 1] /\ m[i + 1] <= m[last] /\ m[i + 1] \in Nat
        BY <1>5, <1>7, <4>1
      <4>3. n[i + 1] <= Len(s) + Len(c)
        BY <1>1, <1>2, <1>5, <4>2
      <4> QED
        BY <1>7, <2>1, <4>3
    <3> QED
      BY <3>1, <3>2
  <2>2. CASE j # last + 1
    <3>1. /\ i \in 1 .. Len(ms) /\ i + 1 \in 1 .. last
          /\ j \in i + 1 .. last /\ j \in 1 .. last
      BY <1>6, <2>2
    <3> QED
      BY <1>5, <1>7, <3>1
  <2> QED
    BY <2>1, <2>2
<1>10. ASSUME NEW i \in 1 .. last, NEW q \in 1 .. Len(all[i])
       PROVE  cs[n[i] + q] = all[i][q]
  <2>1. CASE i = last
    <3>1. all[i] = c /\ n[i] = Len(s) /\ q \in 1 .. Len(c)
      BY <1>3, <1>5, <1>6, <1>7, <2>1
    <3> QED
      BY <1>4, <3>1
  <2>2. CASE i # last
    <3>1. /\ i \in 1 .. Len(ms) /\ i + 1 \in 1 .. last /\ last \in i + 1 .. last
          /\ i \in 1 .. last
      BY <1>6, <2>2
    <3>2. m[i] \in Nat /\ m[i + 1] <= Len(s) /\ Len(ms[i]) \in Nat /\ all[i] = ms[i]
      BY <1>1, <1>3, <1>5, <3>1
    <3>3. q \in 1 .. Len(ms[i]) /\ m[i + 1] = m[i] + Len(ms[i])
      BY <1>5, <3>1, <3>2
    <3>4. m[i] + q \in 1 .. Len(s)
      BY <1>1, <3>2, <3>3
    <3>5. s[m[i] + q] = ms[i][q]
      BY <1>5, <3>1, <3>3
    <3>6. cs[m[i] + q] = s[m[i] + q]
      BY <1>4, <3>4
    <3> QED
      BY <1>7, <3>1, <3>2, <3>5, <3>6
  <2> QED
    BY <2>1, <2>2
<1>11. n[1] = 0 /\ n[last + 1] = Len(cs)
  BY <1>4, <1>5, <1>6, <1>7
<1>12. Cut(n, all, cs)
  BY <1>3, <1>7, <1>8, <1>9, <1>10, <1>11 DEF Cut
<1> QED
  BY <1>7, <1>12 DEF all, cs, last


-----------------------------------------------------------------------------
(***************************************************************************)
(* The unread part of the stream and the header that it starts with.       *)
(***************************************************************************)
LEMMA UnreadCells ==
    ASSUME IInv, "truncated" \notin faults
    PROVE  /\ Consumed \in Nat /\ Len(stream) \in Nat /\ inb.size \in Nat
           /\ Consumed + inb.size <= Len(stream)
           /\ \A i \in 1 .. inb.size : Contents(inb)[i] = stream[Consumed + i]
<1> DEFINE c == Contents(inb)
           q == rcvq \o wire
<1>1. inb \in Ring /\ rcvq \in Seq(Cell) /\ wire \in Seq(Cell) /\ stream \in Seq(Cell)
  BY DEF IInv, TypeOK
<1>2. c \in Seq(Cell) /\ Len(c) = inb.size /\ inb.size \in Nat
  BY <1>1, ContentsOf
<1>3. q \in Seq(Cell) /\ Len(q) = Len(rcvq) + Len(wire)
  BY <1>1, ConcatProperties
<1>4. PICK u \in Seq(Cell) : stream = u \o (c \o q)
  BY DEF IInv, StreamEnds, Ends
<1> HIDE DEF c, q
<1>5. /\ c \o q \in Seq(Cell) /\ Len(c \o q) = Len(c) + Len(q)
      /\ \A i \in 1 .. Len(c) + Len(q) : (c \o q)[i] = IF i <= Len(c) THEN c[i] ELSE q[i - Len(c)]
  BY <1>2, <1>3, ConcatProperties, ZenonT(30)
<1> DEFINE r == c \o q
<1> HIDE DEF r
<1>6. /\ Len(stream) = Len(u) + Len(r)
      /\ \A i \in 1 .. Len(u) + Len(r) : stream[i] = IF i <= Len(u) THEN u[i] ELSE r[i - Len(u)]
  BY <1>4, <1>5, ConcatProperties DEF r
<1>7. Len(u) \in Nat /\ Len(q) \in Nat /\ Len(r) = inb.size + Len(q) /\ Consumed = Len(u)
  <2>1. Len(u) \in Nat /\ Len(rcvq) \in Nat /\ Len(wire) \in Nat
    BY <1>1
  <2>2. Len(r) = inb.size + Len(q)
    BY <1>2, <1>5 DEF r
  <2>3. Len(stream) = Len(u) + (inb.size + (Len(rcvq) + Len(wire)))
    BY <1>3, <1>6, <2>2
  <2> QED
    BY <1>2, <1>3, <2>1, <2>2, <2>3, SMTT(30) DEF Consumed
<1>8. \A i \in 1 .. inb.size : c[i] = stream[Consumed + i]
  <2> TAKE i \in 1 .. inb.size
  <2>1. r[i] = c[i]
    BY <1>2, <1>5, <1>7 DEF r
  <2>2. /\ Len(u) + i \in 1 .. Len(u) + Len(r) /\ ~(Len(u) + i <= Len(u))
        /\ Len(u) + i - Len(u) = i
    BY <1>2, <1>7
  <2>3. stream[Len(u) + i] = r[i]
    BY <1>6, <2>2
  <2> QED
    BY <1>7, <2>1, <2>3
<1> QED
  BY <1>2, <1>6, <1>7, <1>8 DEF c

\* What is unread is the stream behind what was consumed.
LEMMA UnreadAt ==
    ASSUME IInv, "truncated" \notin faults
    PROVE  /\ Unread \in Seq(Cell) /\ Len(Unread) = Len(stream) - Consumed
           /\ Consumed \in Nat /\ Len(stream) \in Nat /\ Consumed <= Len(stream)
           /\ \A i \in 1 .. Len(stream) - Consumed : Unread[i] = stream[Consumed + i]
<1>1. inb \in Ring /\ rcvq \in Seq(Cell) /\ wire \in Seq(Cell) /\ stream \in Seq(Cell)
  BY DEF IInv, TypeOK
<1>2. /\ Contents(inb) \in Seq(Cell) /\ Len(Contents(inb)) = inb.size
      /\ Len(rcvq) \in Nat /\ Len(wire) \in Nat
  BY <1>1, ContentsOf
<1>3. Consumed \in Nat /\ Len(stream) \in Nat /\ inb.size \in Nat
  BY UnreadCells
<1>4. Unread = Contents(inb) \o (rcvq \o wire)
  BY <1>1, <1>2, CellsAssociate, SMTT(30) DEF Unread
<1>5. rcvq \o wire \in Seq(Cell) /\ Len(rcvq \o wire) = Len(rcvq) + Len(wire)
  BY <1>1, ConcatProperties
<1>6. Unread \in Seq(Cell) /\ Len(Unread) = inb.size + (Len(rcvq) + Len(wire))
  <2> DEFINE c == Contents(inb)
             q == rcvq \o wire
  <2>1. c \in Seq(Cell) /\ q \in Seq(Cell) /\ Unread = c \o q
        /\ Len(c) = inb.size /\ Len(q) = Len(rcvq) + Len(wire)
    BY <1>2, <1>4, <1>5
  <2> HIDE DEF c, q
  <2>2. Unread \in Seq(Cell) /\ Len(Unread) = Len(c) + Len(q)
    BY <2>1, ConcatProperties
  <2> QED
    BY <2>1, <2>2
<1>7. PICK u \in Seq(Cell) : stream = u \o Unread
  BY <1>4 DEF IInv, StreamEnds, Ends
<1>8. /\ Len(stream) = Len(u) + Len(Unread)
      /\ \A i \in 1 .. Len(u) + Len(Unread) :
            stream[i] = IF i <= Len(u) THEN u[i] ELSE Unread[i - Len(u)]
  BY <1>6, <1>7, ConcatProperties, ZenonT(30)
<1>9. Len(u) \in Nat /\ Len(Unread) \in Nat /\ Consumed = Len(u)
  <2>1. Len(u) \in Nat /\ Len(Unread) \in Nat
    BY <1>6
  <2>2. Len(stream) = Len(u) + (inb.size + (Len(rcvq) + Len(wire)))
    BY <1>6, <1>8
  <2> QED
    BY <1>2, <1>3, <2>1, <2>2 DEF Consumed
<1>10. ASSUME NEW i \in 1 .. Len(stream) - Consumed
       PROVE  Unread[i] = stream[Consumed + i]
  <2>1. /\ Len(u) + i \in 1 .. Len(u) + Len(Unread) /\ ~(Len(u) + i <= Len(u))
        /\ Len(u) + i - Len(u) = i
    BY <1>3, <1>8, <1>9
  <2> QED
    BY <1>8, <1>9, <2>1
<1> QED
  BY <1>3, <1>6, <1>8, <1>9, <1>10, SMTT(30)

\* What the next header is read as.
LEMMA HeaderRead ==
    ASSUME IInv, "truncated" \notin faults, inb.size >= HeaderLen
    PROVE  /\ ReadData(inb, HeaderLen)[1] = stream[Consumed + 1]
           /\ ReadData(inb, HeaderLen)[2] = stream[Consumed + 2]
           /\ Consumed + HeaderLen <= Len(stream)
           /\ Consumed + HeaderLen \in HeaderLen .. Len(stream)
           /\ MagicIn(ReadData(inb, HeaderLen)) = stream[Consumed + HeaderLen].magic
           /\ ReadHeader(ReadData(inb, HeaderLen)) = HeaderAt(Consumed + HeaderLen)
           /\ ReadHeader(ReadData(inb, HeaderLen)) \in Header
           /\ ReadHeader(ReadData(inb, HeaderLen)).magic = MagicIn(ReadData(inb, HeaderLen))
<1> DEFINE c == ReadData(inb, HeaderLen)
<1>1. Buffer(inb) /\ inb.size \in Nat
  BY UnreadCells DEF IInv, Buffers
<1>2. HeaderLen \in 0 .. inb.size /\ HeaderLen = 2
  BY <1>1 DEF HeaderLen
<1>3. c = SubSeq(Contents(inb), 1, HeaderLen)
  BY <1>1, <1>2, ReadBuffer
<1>4. Contents(inb) \in Seq(Cell) /\ Len(Contents(inb)) = inb.size
  BY ContentsOf DEF IInv, TypeOK
<1>5. c[1] = Contents(inb)[1] /\ c[2] = Contents(inb)[2]
  BY <1>1, <1>2, <1>3, <1>4
<1>6. /\ c[1] = stream[Consumed + 1] /\ c[2] = stream[Consumed + 2]
      /\ Consumed \in Nat /\ Len(stream) \in Nat /\ Consumed + 2 <= Len(stream)
  BY <1>1, <1>2, <1>5, UnreadCells
<1>7. c[1] \in Header
  BY <1>1, <1>2, <1>4, <1>5 DEF Cell
<1> HIDE DEF c
<1>8. MagicIn(c) = stream[Consumed + HeaderLen].magic
  BY <1>2, <1>6 DEF MagicIn
<1>9. ReadHeader(c) = HeaderAt(Consumed + HeaderLen)
  <2>1. (Consumed + HeaderLen) - 1 = Consumed + 1 /\ Consumed + HeaderLen = Consumed + 2
    BY <1>2, <1>6
  <2>2. HeaderAt(Consumed + HeaderLen) = ReadHeader(<<stream[Consumed + 1], stream[Consumed + 2]>>)
    <3> DEFINE p == Consumed + HeaderLen
    <3>1. stream[p - 1] = stream[Consumed + 1] /\ stream[p] = stream[Consumed + 2]
      BY <2>1, Zenon
    <3> HIDE DEF p
    <3>2. HeaderAt(p) = ReadHeader(<<stream[Consumed + 1], stream[Consumed + 2]>>)
      BY <3>1, Zenon DEF HeaderAt
    <3> QED
      BY <3>2 DEF p
  <2> DEFINE d == <<stream[Consumed + 1], stream[Consumed + 2]>>
  <2>3. d[1] = c[1] /\ d[2] = c[2]
    BY <1>6
  <2> HIDE DEF d
  <2>4. ReadHeader(d) = ReadHeader(c)
    BY <2>3 DEF ReadHeader, MagicIn
  <2> QED
    BY <2>2, <2>4 DEF d
<1>10. ReadHeader(c) \in Header
  BY <1>2, PopHeader DEF c
<1>11. ReadHeader(c).magic = MagicIn(c)
  BY <1>7 DEF ReadHeader, Header
<1> QED
  BY <1>2, <1>6, <1>8, <1>9, <1>10, <1>11 DEF c

\* At the beginning of a message it is that of the message.
LEMMA HeaderNext ==
    ASSUME IInv, "truncated" \notin faults, inb.size >= HeaderLen, NEW m, Marks(m),
           NEW k \in 0 .. Len(script), Consumed = m[k + 1]
    PROVE  /\ k + 1 \in 1 .. Len(script)
           /\ ReadHeader(ReadData(inb, HeaderLen)) = Asked[k + 1]
           /\ MagicIn(ReadData(inb, HeaderLen)) = Asked[k + 1].magic
<1> DEFINE c == ReadData(inb, HeaderLen)
<1>1. script \in Seq(PeerMsgs) /\ Len(script) \in Nat
  BY DEF IInv, TypeOK
<1>2. /\ c[1] = stream[Consumed + 1] /\ c[2] = stream[Consumed + 2]
      /\ Consumed + HeaderLen <= Len(stream) /\ Consumed \in Nat /\ Len(stream) \in Nat
      /\ ReadHeader(c).magic = MagicIn(c)
  BY HeaderRead, UnreadCells
<1> HIDE DEF c
<1>3. k + 1 \in 1 .. Len(script)
  <2>1. m[Len(script) + 1] = Len(stream)
    BY DEF Marks, Cut
  <2>2. k # Len(script)
    BY <1>2, <2>1 DEF HeaderLen
  <2> QED
    BY <1>1, <2>2
<1>4. /\ Asked[k + 1] = ReadHeader(script[k + 1])
      /\ Len(script[k + 1]) \in Nat /\ Len(script[k + 1]) >= HeaderLen
  BY <1>1, <1>3, AskedIs, HeadersType
<1>5. 1 \in 1 .. Len(script[k + 1]) /\ 2 \in 1 .. Len(script[k + 1])
  BY <1>4 DEF HeaderLen
<1>6. \A q \in 1 .. Len(script[k + 1]) : stream[m[k + 1] + q] = script[k + 1][q]
  BY <1>3 DEF Marks, Cut
<1>7. c[1] = script[k + 1][1] /\ c[2] = script[k + 1][2]
  BY <1>2, <1>5, <1>6
<1>8. ReadHeader(c) = Asked[k + 1]
  BY <1>4, <1>7 DEF ReadHeader, MagicIn
<1> QED
  BY <1>2, <1>3, <1>8 DEF c

-----------------------------------------------------------------------------
(***************************************************************************)
(* What the steps do, as far as the messages are concerned.                *)
(***************************************************************************)
LEMMA FaultsStay ==
    ASSUME [Next]_vars
    PROVE  faults \subseteq faults'
<1>1. CASE Environment
  BY <1>1 DEF Environment, PeerSend, Deliver, PeerClose, DeliverFin, PeerReset, PeerReads,
              history
<1>2. CASE EpollWait \/ EventHup \/ EventRecvEnd \/ EventServe
  BY <1>2 DEF EpollWait, EventHup, EventRecvEnd, EventServe, history
<1>3. CASE AwaitMore \/ ChannelIdle \/ CloseNothing \/ CloseSocket
  BY <1>3 DEF AwaitMore, ChannelIdle, CloseNothing, CloseSocket, Unchanged, history
<1>4. CASE AwaitHandshake \/ AwaitHandshakeCrash \/ OpenConnection \/ SendMsg
  <2>1. CASE AwaitHandshake
    BY <2>1 DEF AwaitHandshake
  <2>2. CASE AwaitHandshakeCrash \/ OpenConnection \/ SendMsg
    BY <2>2 DEF AwaitHandshakeCrash, OpenConnection, SendMsg
  <2> QED
    BY <1>4, <2>1, <2>2
<1>5. CASE HandleOpenChannel \/ ReceiveMsgPayload
  <2>1. ASSUME NEW r, NEW len, receive_msg_payload(r, len)
        PROVE  faults \subseteq faults'
    BY <2>1 DEF receive_msg_payload
  <2>2. CASE ReceiveMsgPayload
    BY <2>1, <2>2 DEF ReceiveMsgPayload
  <2>3. CASE HandleOpenChannel
    <3>1. \/ \E h : receive_msg_payload(AfterRead(inb, HeaderLen), h.plen)
          \/ faults' = faults
      BY <2>3 DEF HandleOpenChannel
    <3> QED
      BY <2>1, <3>1
  <2> QED
    BY <1>5, <2>2, <2>3
<1>6. CASE PassedOver \/ UNCHANGED vars
  BY <1>6 DEF PassedOver, vars, history
<1> QED
  BY <1>1, <1>2, <1>3, <1>4, <1>5, <1>6 DEF Next, Thread, StateFunction

\* recv() moves cells and loses none.
LEMMA RecvSizes ==
    ASSUME NEW r, Buffer(r), TypeOK, "truncated" \notin RecvFaults(r)
    PROVE  /\ write(r, Taken).size + Len(RcvqAfterRecv) = r.size + Len(rcvq)
           /\ write(r, Taken).size \in Nat /\ r.size \in Nat
           /\ Len(RcvqAfterRecv) \in Nat /\ Len(rcvq) \in Nat
<1>1. /\ rcvq \in Seq(Cell)
      /\ Taken \in Seq(Cell) /\ RcvqAfterRecv \in Seq(Cell)
      /\ Taken \o RcvqAfterRecv = rcvq
  BY TakenSplits DEF TypeOK
<1>2. Len(rcvq) = Len(Taken) + Len(RcvqAfterRecv)
  BY <1>1, ConcatProperties
<1>3. WriteLen(r, Taken) = Len(Taken)
  BY <1>1, WriteBuffer DEF RecvFaults, Flag
<1>4. write(r, Taken).size = r.size + Len(Taken)
  BY <1>1, <1>3, WriteBuffer
<1>5. r.size \in Nat
  BY CapacityPositive, ContentsOf DEF Buffer
<1> QED
  BY <1>1, <1>2, <1>4, <1>5

\* The steps that take nothing out of _in_buffer and answer nothing.
Quiet == /\ UNCHANGED <<script, stream, sent, fn, hdr, lastSend>>
         /\ Consumed' = Consumed

LEMMA QuietStep ==
    ASSUME IInv, "truncated" \notin faults',
           \/ \E k \in 1 .. Len(wire) : Deliver(k)
           \/ PeerClose \/ DeliverFin \/ PeerReset \/ PeerReads
           \/ EpollWait \/ EventHup \/ EventRecvEnd \/ EventServe
           \/ PassedOver \/ AwaitMore \/ ChannelIdle \/ CloseNothing \/ CloseSocket
           \/ AwaitHandshakeCrash \/ OpenConnection
           \/ UNCHANGED vars
    PROVE  Quiet
<1> USE DEF object, arrival, loop, history, heard, answers
<1>1. Buffer(inb) /\ TypeOK /\ rcvq \in Seq(Cell) /\ wire \in Seq(Cell)
  BY DEF IInv, Buffers, TypeOK
<1>2. ASSUME UNCHANGED <<script, stream, sent, fn, hdr, lastSend>>,
             UNCHANGED <<inb, rcvq, wire>>
      PROVE  Quiet
  BY <1>2 DEF Quiet, Consumed
<1>3. CASE \E k \in 1 .. Len(wire) : Deliver(k)
  <2>1. PICK k \in 1 .. Len(wire) : Deliver(k)
    BY <1>3
  <2> DEFINE a == SubSeq(wire, 1, k)
             b == SubSeq(wire, k + 1, Len(wire))
  <2>2. a \in Seq(Cell) /\ b \in Seq(Cell) /\ a \o b = wire
    BY <1>1, Halves
  <2>3. rcvq' = rcvq \o a /\ wire' = b
    BY <2>1 DEF Deliver
  <2> HIDE DEF a, b
  <2>4. Len(rcvq') = Len(rcvq) + Len(a) /\ Len(wire) = Len(a) + Len(b)
    BY <1>1, <2>2, <2>3, ConcatProperties
  <2>5. Len(rcvq') + Len(wire') = Len(rcvq) + Len(wire)
    BY <1>1, <2>2, <2>3, <2>4
  <2>6. UNCHANGED <<script, stream, sent, fn, hdr, lastSend, inb>>
    BY <2>1 DEF Deliver
  <2>7. inb.size \in Nat
    BY <1>1, ContentsOf DEF Buffer
  <2>8. inb.size + Len(rcvq') + Len(wire') = inb.size + Len(rcvq) + Len(wire)
    <3>1. Len(rcvq) \in Nat /\ Len(wire) \in Nat /\ Len(a) \in Nat /\ Len(b) \in Nat
      BY <1>1, <2>2
    <3> QED
      BY <2>3, <2>4, <2>7, <3>1
  <2>9. Consumed' = Consumed
    BY <2>6, <2>8 DEF Consumed
  <2> QED
    BY <2>6, <2>9 DEF Quiet
<1>4. CASE PeerClose \/ DeliverFin \/ PeerReset \/ PeerReads
  BY <1>2, <1>4 DEF PeerClose, DeliverFin, PeerReset, PeerReads
<1>5. CASE EpollWait \/ EventHup
  BY <1>2, <1>5 DEF EpollWait, EventHup
<1>6. CASE EventRecvEnd
  <2>1. /\ inb' = write(inb, Taken) /\ rcvq' = RcvqAfterRecv
        /\ UNCHANGED <<script, stream, sent, fn, hdr, lastSend, wire>>
        /\ "truncated" \notin RecvFaults(inb)
    BY <1>6 DEF EventRecvEnd, recv
  <2> QED
    BY <1>1, <2>1, RecvSizes DEF Quiet, Consumed
<1>7. CASE EventServe
  <2>1. UNCHANGED <<script, stream, sent, fn, hdr, lastSend, wire>>
    BY <1>7 DEF EventServe
  <2>2. CASE "in" \in mask
    <3>1. /\ inb' = write(inb, Taken) /\ rcvq' = RcvqAfterRecv
          /\ "truncated" \notin RecvFaults(inb)
      BY <1>7, <2>2 DEF EventServe
    <3> QED
      BY <1>1, <2>1, <3>1, RecvSizes DEF Quiet, Consumed
  <2>3. CASE "in" \notin mask
    BY <1>2, <1>7, <2>1, <2>3 DEF EventServe
  <2> QED
    BY <2>2, <2>3
<1>8. CASE PassedOver \/ AwaitMore \/ ChannelIdle \/ CloseNothing \/ CloseSocket
  BY <1>2, <1>8 DEF PassedOver, AwaitMore, ChannelIdle, CloseNothing, CloseSocket, Unchanged
<1>9. CASE AwaitHandshakeCrash
  BY <1>2, <1>9 DEF AwaitHandshakeCrash
<1>10. CASE OpenConnection
  <2>1. hdr.plen # 0 /\ fn = "open_connection"
    BY <1>10 DEF IInv, Handshake, OpenConnection, StateCall
  <2> QED
    BY <1>2, <1>10, <2>1 DEF OpenConnection, open_connection
<1>11. CASE UNCHANGED vars
  BY <1>2, <1>11 DEF vars
<1> QED
  BY <1>3, <1>4, <1>5, <1>6, <1>7, <1>8, <1>9, <1>10, <1>11

\* pop() takes a header out of _in_buffer.
LEMMA PopSize ==
    ASSUME IInv, inb.size >= HeaderLen
    PROVE  /\ Buffer(AfterRead(inb, HeaderLen))
           /\ AfterRead(inb, HeaderLen).size = inb.size - HeaderLen
           /\ inb.size \in Nat /\ Len(rcvq) \in Nat /\ Len(wire) \in Nat
           /\ Len(stream) \in Nat
<1>1. /\ Buffer(inb) /\ inb \in Ring /\ rcvq \in Seq(Cell) /\ wire \in Seq(Cell)
      /\ stream \in Seq(Cell)
  BY DEF IInv, Buffers, TypeOK
<1>2. inb.size \in Nat /\ HeaderLen \in 0 .. inb.size
  BY <1>1, ContentsOf DEF HeaderLen
<1> QED
  BY <1>1, <1>2, ReadBuffer

LEMMA AskedStays ==
    ASSUME script' = script
    PROVE  Asked' = Asked
BY DEF Asked

LEMMA AwaitEffect ==
    ASSUME IInv, AwaitHandshake, faults' \cap {"truncated", "misread"} = {}
    PROVE  /\ fn = "await_handshake" /\ inb.size >= HeaderLen
           /\ UNCHANGED <<script, stream, Asked>>
           /\ \/ /\ ~MagicIn(ReadData(inb, HeaderLen))
                 /\ fn' = "close" /\ sent' = sent /\ Consumed' = Consumed
              \/ /\ MagicIn(ReadData(inb, HeaderLen)) /\ Consumed' = Consumed + HeaderLen
                 /\ LET h == ReadHeader(ReadData(inb, HeaderLen))
                    IN  \/ h.code # "open" /\ fn' = fn /\ sent' = sent
                        \/ /\ h.code = "open" /\ h.plen # 0
                           /\ fn' = "open_connection" /\ sent' = sent
                        \/ /\ h.code = "open" /\ h.plen = 0
                           /\ fn' = "handle_open_channel" /\ sent' = Append(sent, Ack)
<1> DEFINE c == ReadData(inb, HeaderLen)
           h == ReadHeader(c)
<1>1. /\ fn = "await_handshake" /\ inb.size >= HeaderLen
      /\ UNCHANGED <<script, stream, wire, rcvq, Asked>>
  BY AskedStays DEF AwaitHandshake, StateCall, heard
<1>2. PICK shown \in PeekOutcomes(inb, HeaderLen) :
         \/ /\ ~MagicIn(shown)
            /\ fn' = "close"
            /\ faults' = faults \cup Flag("misread", shown # c)
            /\ UNCHANGED <<hdr, lastSend, inb, outb, life, peer, room, answers, toPeer>>
         \/ /\ MagicIn(shown)
            /\ inb' = AfterRead(inb, HeaderLen) /\ hdr' = h
            /\ \/ /\ h.code = "open"
                  /\ open_connection(h)
                  /\ faults' = faults \cup Flag("misread", shown # c) \cup AckFaults(h)
               \/ /\ h.code # "open"
                  /\ faults' = faults \cup Flag("misread", shown # c)
                  /\ UNCHANGED <<fn, lastSend, outb, life, peer, room, answers, toPeer>>
  BY DEF AwaitHandshake
<1>3. Flag("misread", shown # c) \subseteq faults'
  BY <1>2
<1>4. shown = c
  BY <1>3 DEF Flag
<1> HIDE DEF c, h
<1>5. CASE ~MagicIn(c)
  <2>1. fn' = "close" /\ UNCHANGED <<inb, sent>>
    BY <1>2, <1>4, <1>5 DEF answers
  <2>2. Consumed' = Consumed
    BY <1>1, <2>1 DEF Consumed
  <2> QED
    BY <1>1, <1>5, <2>1, <2>2 DEF c
<1>6. CASE MagicIn(c)
  <2>1. inb' = AfterRead(inb, HeaderLen)
    BY <1>2, <1>4, <1>6
  <2>2. \/ h.code = "open" /\ open_connection(h)
        \/ h.code # "open" /\ UNCHANGED <<fn, answers>>
    BY <1>2, <1>4, <1>6
  <2>3. Consumed' = Consumed + HeaderLen
    BY <1>1, <2>1, PopSize DEF Consumed, HeaderLen
  <2>4. \/ h.code # "open" /\ fn' = fn /\ sent' = sent
        \/ /\ h.code = "open" /\ h.plen # 0
           /\ fn' = "open_connection" /\ sent' = sent
        \/ /\ h.code = "open" /\ h.plen = 0
           /\ fn' = "handle_open_channel" /\ sent' = Append(sent, Ack)
    BY <2>2 DEF open_connection, prepare_send, answers
  <2> QED
    BY <1>1, <1>6, <2>3, <2>4 DEF c, h
<1> QED
  BY <1>5, <1>6

\* receive_msg_payload on the ring r takes the whole payload or nothing.
LEMMA PayloadEffect ==
    ASSUME TypeOK, NEW r, Buffer(r), NEW len \in Nat, receive_msg_payload(r, len),
           "truncated" \notin faults', UNCHANGED <<wire, stream>>
    PROVE  \/ /\ fn' = "receive_msg_payload"
              /\ Consumed' = Len(stream) - (r.size + Len(rcvq) + Len(wire))
           \/ /\ fn' = "send_msg"
              /\ Consumed' = Len(stream) - (r.size + Len(rcvq) + Len(wire)) + len
<1> DEFINE full == write(r, Taken)
<1>1. /\ "truncated" \notin RecvFaults(r) /\ rcvq' = RcvqAfterRecv
      /\ \/ inb' = full /\ fn' = "receive_msg_payload"
         \/ Complete(full, len) /\ inb' = AfterRead(full, len) /\ fn' = "send_msg"
  BY DEF receive_msg_payload, recv
<1>2. /\ full.size + Len(RcvqAfterRecv) = r.size + Len(rcvq)
      /\ full.size \in Nat /\ r.size \in Nat
      /\ Len(RcvqAfterRecv) \in Nat /\ Len(rcvq) \in Nat
  BY <1>1, RecvSizes
<1>3. Buffer(full)
  BY RecvStep
<1> HIDE DEF full
<1>4. Len(wire) \in Nat /\ Len(stream) \in Nat
  BY DEF TypeOK
<1>5. CASE inb' = full /\ fn' = "receive_msg_payload"
  BY <1>1, <1>2, <1>4, <1>5 DEF Consumed
<1>6. CASE Complete(full, len) /\ inb' = AfterRead(full, len) /\ fn' = "send_msg"
  <2>1. len \in 0 .. full.size
    BY <1>2, <1>6 DEF Complete
  <2>2. inb'.size = full.size - len
    BY <1>3, <1>6, <2>1, ReadBuffer
  <2> QED
    BY <1>1, <1>2, <1>4, <1>6, <2>2, SMTT(30) DEF Consumed
<1> QED
  BY <1>1, <1>5, <1>6

LEMMA ChannelEffect ==
    ASSUME IInv, HandleOpenChannel, "truncated" \notin faults'
    PROVE  /\ fn = "handle_open_channel" /\ inb.size >= HeaderLen
           /\ UNCHANGED <<script, stream, sent, Asked>>
           /\ LET h == ReadHeader(ReadData(inb, HeaderLen))
              IN  /\ hdr' = h /\ lastSend' = IF h.magic THEN h.dest ELSE lastSend
                  /\ IF h.magic /\ h.plen # 0
                     THEN \/ /\ fn' = "receive_msg_payload"
                             /\ Consumed' = Consumed + HeaderLen
                          \/ /\ fn' = "send_msg"
                             /\ Consumed' = Consumed + HeaderLen + h.plen
                     ELSE fn' = fn /\ Consumed' = Consumed + HeaderLen
<1> DEFINE rest == AfterRead(inb, HeaderLen)
           h    == ReadHeader(ReadData(inb, HeaderLen))
<1>1. /\ fn = "handle_open_channel" /\ inb.size >= HeaderLen
      /\ UNCHANGED <<script, stream, sent, wire, Asked>>
  BY AskedStays DEF HandleOpenChannel, StateCall, heard, answers
<1>2. /\ hdr' = h
      /\ lastSend' = IF h.magic THEN h.dest ELSE lastSend
      /\ IF h.magic /\ h.plen # 0
         THEN receive_msg_payload(rest, h.plen)
         ELSE inb' = rest /\ UNCHANGED <<fn, rcvq>>
  BY DEF HandleOpenChannel
<1>3. /\ Buffer(rest) /\ rest.size = inb.size - HeaderLen
      /\ inb.size \in Nat /\ Len(rcvq) \in Nat /\ Len(wire) \in Nat /\ Len(stream) \in Nat
  BY <1>1, PopSize
<1>4. h \in Header /\ h.plen \in Nat
  <2>1. h \in Header
    BY <1>1, PopHeader
  <2> QED
    BY <2>1, MessagesAssumption DEF Header
<1> HIDE DEF rest, h
<1>5. Len(stream) - (rest.size + Len(rcvq) + Len(wire)) = Consumed + HeaderLen
  BY <1>3 DEF Consumed, HeaderLen
<1>6. CASE h.magic /\ h.plen # 0
  <2>1. receive_msg_payload(rest, h.plen) /\ TypeOK
    BY <1>2, <1>6 DEF IInv
  <2>2. \/ fn' = "receive_msg_payload" /\ Consumed' = Consumed + HeaderLen
        \/ fn' = "send_msg" /\ Consumed' = Consumed + HeaderLen + h.plen
    BY <1>1, <1>3, <1>4, <1>5, <2>1, PayloadEffect
  <2> QED
    BY <1>1, <1>2, <1>6, <2>2 DEF h
<1>7. CASE ~(h.magic /\ h.plen # 0)
  <2>1. inb' = rest /\ UNCHANGED <<fn, rcvq>>
    BY <1>2, <1>7
  <2>2. Consumed' = Consumed + HeaderLen
    BY <1>1, <1>5, <2>1 DEF Consumed
  <2> QED
    BY <1>1, <1>2, <1>7, <2>1, <2>2 DEF h
<1> QED
  BY <1>6, <1>7

LEMMA ReceiveEffect ==
    ASSUME IInv, ReceiveMsgPayload, "truncated" \notin faults'
    PROVE  /\ fn = "receive_msg_payload"
           /\ UNCHANGED <<script, stream, sent, hdr, lastSend, Asked>>
           /\ \/ fn' = "receive_msg_payload" /\ Consumed' = Consumed
              \/ fn' = "send_msg" /\ Consumed' = Consumed + hdr.plen
<1>1. /\ fn = "receive_msg_payload" /\ receive_msg_payload(inb, hdr.plen)
      /\ UNCHANGED <<script, stream, sent, hdr, lastSend, wire, Asked>>
  BY AskedStays DEF ReceiveMsgPayload, StateCall, heard, answers
<1>2. TypeOK /\ Buffer(inb) /\ hdr.plen \in Nat
  BY MessagesAssumption DEF IInv, Buffers, TypeOK, Header
<1> QED
  BY <1>1, <1>2, PayloadEffect DEF Consumed

LEMMA SendEffect ==
    ASSUME SendMsg
    PROVE  /\ fn = "send_msg" /\ fn' = "handle_open_channel"
           /\ UNCHANGED <<script, stream, lastSend, Asked>>
           /\ sent' = Append(sent, Reply) /\ Consumed' = Consumed
BY AskedStays DEF SendMsg, StateCall, prepare_send, heard, Consumed

\* What PeerSend leaves alone.
LEMMA SentEffect ==
    ASSUME IInv, NEW c \in PeerMsgs, PeerSend(c)
    PROVE  /\ script \in Seq(PeerMsgs) /\ script' \in Seq(PeerMsgs) /\ Len(script) \in Nat
           /\ script' = Append(script, c) /\ stream' = stream \o c
           /\ Len(script') = Len(script) + 1
           /\ \A i \in 1 .. Len(script) : script'[i] = script[i]
           /\ UNCHANGED <<sent, fn, hdr, lastSend>> /\ Consumed' = Consumed
<1>1. /\ script \in Seq(PeerMsgs) /\ wire \in Seq(Cell) /\ rcvq \in Seq(Cell)
      /\ stream \in Seq(Cell) /\ inb.size \in Nat /\ c \in Seq(Cell)
  BY MessageType, ContentsOf DEF IInv, TypeOK
<1>2. /\ script' = Append(script, c) /\ stream' = stream \o c /\ wire' = wire \o c
      /\ UNCHANGED <<sent, fn, hdr, lastSend, inb, rcvq>>
  BY DEF PeerSend, object, answers
<1>3. Consumed' = Consumed
  <2>1. /\ Len(stream') = Len(stream) + Len(c)
        /\ Len(wire') = Len(wire) + Len(c)
    BY <1>1, <1>2, ConcatProperties
  <2>2. /\ Len(stream) \in Nat /\ Len(wire) \in Nat /\ Len(rcvq) \in Nat
        /\ Len(c) \in Nat
    BY <1>1
  <2> QED
    BY <1>1, <1>2, <2>1, <2>2 DEF Consumed
<1>4. /\ script' \in Seq(PeerMsgs) /\ Len(script) \in Nat /\ Len(script') = Len(script) + 1
      /\ \A i \in 1 .. Len(script) : script'[i] = script[i]
  BY <1>1, <1>2
<1> QED
  BY <1>1, <1>2, <1>3, <1>4

\* The headers that it adds to.
LEMMA AskedEffect ==
    ASSUME IInv, NEW c \in PeerMsgs, PeerSend(c)
    PROVE  /\ Asked \in Seq(Header) /\ Asked' \in Seq(Header)
           /\ Len(Asked) = Len(script) /\ Len(Asked') = Len(script) + 1
           /\ Len(script) \in Nat
           /\ Asked' = Append(Asked, ReadHeader(c))
           /\ \A i \in 1 .. Len(script) : Asked'[i] = Asked[i]
           /\ \A i \in 0 .. Len(script) : SubSeq(Asked', 1, i) = SubSeq(Asked, 1, i)
<1>1. script \in Seq(PeerMsgs) /\ script' = Append(script, c) /\ ReadHeader(c) \in Header
  BY SentEffect, MessageType
<1>2. Asked = HeadersOf(script) /\ Asked' = HeadersOf(script')
  BY DEF Asked, HeadersOf
<1>3. Asked \in Seq(Header) /\ Len(Asked) = Len(script) /\ Len(script) \in Nat
  BY <1>1, <1>2, HeadersType
<1>4. Asked' = Append(Asked, ReadHeader(c))
  BY <1>1, <1>2, HeadersAppended
<1> QED
  BY <1>1, <1>3, <1>4

-----------------------------------------------------------------------------
(***************************************************************************)
(* Every answer has a header of its own, whatever the peer sends and       *)
(* wherever the program believes that messages begin.                      *)
(***************************************************************************)
\* A request is being worked on; no handshake has been accepted.
Busy     == fn \in {"receive_msg_payload", "send_msg"}
Unopened == fn \in {"await_handshake", "close", "open_connection"}

\* Where the stream holds a header with its magic, and where its payload ends.
Places  == {p \in HeaderLen .. Len(stream) : stream[p].magic}
Past(p) == p + HeaderAt(p).plen

\* The place p holds what the answer n was given to.
Asks(p, n) ==
    LET h == HeaderAt(p)
    IN  IF n = 1 THEN h.code = "open" /\ h.plen = 0 /\ sent[n].code = "ack"
                 ELSE h.plen > 0 /\ sent[n].code = "test"
                                /\ sent[n].dest = (h.dest + 1) % ByteVals

\* The answers sent have the headers at, one behind the other.
Served(at) ==
    /\ at \in [1 .. Len(sent) -> Places]
    /\ \A n \in 1 .. Len(sent) : Asks(at[n], n) /\ Past(at[n]) <= Consumed
    /\ \A n \in 1 .. Len(sent) : \A later \in n + 1 .. Len(sent) :
          Past(at[n]) + HeaderLen <= at[later]

\* The request that is being worked on has the header p behind them.
Working(at, p) ==
    /\ p \in Places /\ HeaderAt(p).plen > 0 /\ lastSend = HeaderAt(p).dest
    /\ \A n \in 1 .. Len(sent) : Past(at[n]) + HeaderLen <= p
    /\ IF fn = "receive_msg_payload" THEN p = Consumed /\ hdr.plen = HeaderAt(p).plen
                                     ELSE Past(p) <= Consumed

Backed == faults \cap {"truncated", "misread"} = {} =>
              /\ \E at : Served(at) /\ (Busy => \E p : Working(at, p))
              /\ sent = <<>> <=> Unopened

LEMMA PlaceType ==
    ASSUME IInv, NEW p \in Places
    PROVE  /\ HeaderAt(p) \in Header /\ HeaderAt(p).plen \in Nat
           /\ p \in Nat /\ p <= Len(stream) /\ Len(stream) \in Nat /\ Past(p) \in Nat
<1>1. stream \in Seq(Cell) /\ Len(stream) \in Nat
  BY DEF IInv, TypeOK
<1>2. p - 1 \in 1 .. Len(stream) /\ p \in 1 .. Len(stream) /\ p \in Nat
  BY <1>1 DEF Places, HeaderLen
<1> DEFINE c == <<stream[p - 1], stream[p]>>
<1>3. c \in Seq(Cell) /\ Len(c) >= HeaderLen
  <2>1. stream[p - 1] \in Cell /\ stream[p] \in Cell
    BY <1>1, <1>2, ElementOfSeq
  <2> QED
    BY <2>1 DEF HeaderLen
<1> HIDE DEF c
<1>4. ReadHeader(c) \in Header
  BY <1>3, ReadHeaderType
<1>5. HeaderAt(p) \in Header
  BY <1>4 DEF HeaderAt, c
<1>6. HeaderAt(p).plen \in Nat
  BY <1>5, MessagesAssumption DEF Header
<1> QED
  BY <1>1, <1>2, <1>5, <1>6 DEF Past

\* They stay where they are when the stream grows.
LEMMA PlacesStay ==
    ASSUME IInv, NEW c \in PeerMsgs, PeerSend(c), NEW p \in Places
    PROVE  p \in Places' /\ HeaderAt(p)' = HeaderAt(p) /\ Past(p)' = Past(p)
<1>1. stream \in Seq(Cell) /\ stream' = stream \o c /\ c \in Seq(Cell) /\ Len(stream) \in Nat
  BY SentEffect, MessageType DEF IInv, TypeOK
<1>2. /\ Len(stream') >= Len(stream) /\ Len(stream') \in Nat
      /\ \A i \in 1 .. Len(stream) : stream'[i] = stream[i]
  <2>1. /\ Len(stream') = Len(stream) + Len(c) /\ Len(c) \in Nat
        /\ \A i \in 1 .. Len(stream) + Len(c) :
              stream'[i] = IF i <= Len(stream) THEN stream[i] ELSE c[i - Len(stream)]
    BY <1>1, ConcatProperties
  <2> QED
    BY <1>1, <2>1
<1>3. p \in HeaderLen .. Len(stream) /\ stream[p].magic
  BY DEF Places
<1>4. p - 1 \in 1 .. Len(stream) /\ p \in 1 .. Len(stream)
  BY <1>1, <1>3 DEF HeaderLen
<1>5. stream'[p - 1] = stream[p - 1] /\ stream'[p] = stream[p]
  BY <1>2, <1>4
<1>6. p \in HeaderLen .. Len(stream')
  BY <1>1, <1>2, <1>3
<1>7. HeaderAt(p)' = HeaderAt(p)
  BY <1>5, Zenon DEF HeaderAt
<1> QED
  BY <1>3, <1>5, <1>6, <1>7 DEF Places, Past

LEMMA BackedQuiet ==
    ASSUME Backed, Quiet, faults \subseteq faults'
    PROVE  Backed'
<1>1. Places' = Places /\ \A p : HeaderAt(p)' = HeaderAt(p) /\ Past(p)' = Past(p)
  BY DEF Quiet, Places, Past, HeaderAt
<1>2. \A p, n : Asks(p, n)' <=> Asks(p, n)
  BY <1>1 DEF Quiet, Asks
<1>3. \A at : Served(at)' <=> Served(at)
  BY <1>1, <1>2 DEF Quiet, Served
<1>4. \A at, p : Working(at, p)' <=> Working(at, p)
  BY <1>1 DEF Quiet, Working
<1>5. (Busy' <=> Busy) /\ (Unopened' <=> Unopened) /\ sent' = sent
  BY DEF Quiet, Busy, Unopened
<1> QED
  BY <1>3, <1>4, <1>5 DEF Backed

\* The answers keep their headers while there is none more.
LEMMA ServedStays ==
    ASSUME IInv, NEW at, Served(at), sent' = sent, Consumed \in Nat, Consumed' \in Nat,
           Consumed <= Consumed',
           \A p \in Places : p \in Places' /\ HeaderAt(p)' = HeaderAt(p) /\ Past(p)' = Past(p)
    PROVE  Served(at)'
<1>1. at \in [1 .. Len(sent) -> Places]
  BY DEF Served
<1>2. ASSUME NEW n \in 1 .. Len(sent)
      PROVE  /\ at[n] \in Places' /\ HeaderAt(at[n])' = HeaderAt(at[n])
             /\ Past(at[n])' = Past(at[n]) /\ Past(at[n]) \in Nat
  BY <1>1, PlaceType
<1>3. at \in [1 .. Len(sent') -> Places']
  BY <1>1, <1>2
<1>4. ASSUME NEW n \in 1 .. Len(sent)
      PROVE  (Asks(at[n], n) /\ Past(at[n]) <= Consumed)'
  <2>1. Asks(at[n], n) /\ Past(at[n]) <= Consumed
    BY DEF Served
  <2>2. Asks(at[n], n)'
    BY <1>2, <2>1 DEF Asks
  <2>3. Past(at[n])' <= Consumed'
    BY <1>2, <2>1
  <2> QED
    BY <2>2, <2>3
<1>5. ASSUME NEW n \in 1 .. Len(sent), NEW later \in n + 1 .. Len(sent)
      PROVE  (Past(at[n]) + HeaderLen <= at[later])'
  BY <1>2, <1>5 DEF Served
<1> QED
  BY <1>3, <1>4, <1>5 DEF Served

LEMMA BackedSent ==
    ASSUME IInv, Backed, NEW c \in PeerMsgs, PeerSend(c), faults \subseteq faults'
    PROVE  Backed'
<1> SUFFICES ASSUME faults' \cap {"truncated", "misread"} = {}
             PROVE  /\ \E at : Served(at)' /\ (Busy' => \E p : Working(at, p)')
                    /\ sent' = <<>> <=> Unopened'
  BY DEF Backed
<1>1. "truncated" \notin faults /\ (sent = <<>> <=> Unopened)
  BY DEF Backed
<1>2. PICK at : Served(at) /\ (Busy => \E p : Working(at, p))
  BY DEF Backed
<1>3. UNCHANGED <<sent, fn, hdr, lastSend>> /\ Consumed' = Consumed
  BY SentEffect
<1>4. \A p \in Places : p \in Places' /\ HeaderAt(p)' = HeaderAt(p) /\ Past(p)' = Past(p)
  BY PlacesStay
<1>5. Served(at)'
  BY <1>1, <1>2, <1>3, <1>4, ServedStays, UnreadCells
<1>6. ASSUME NEW p, Working(at, p)
      PROVE  Working(at, p)'
  <2>1. p \in Places /\ \A n \in 1 .. Len(sent) : at[n] \in Places
    BY <1>2, <1>6 DEF Working, Served
  <2> QED
    BY <1>3, <1>4, <1>6, <2>1 DEF Working
<1> QED
  BY <1>1, <1>2, <1>3, <1>5, <1>6 DEF Busy, Unopened

\* The header that is read next is behind all that were answered.
LEMMA NextPlace ==
    ASSUME IInv, "truncated" \notin faults, inb.size >= HeaderLen,
           MagicIn(ReadData(inb, HeaderLen)), NEW at, Served(at)
    PROVE  /\ Consumed + HeaderLen \in Places
           /\ HeaderAt(Consumed + HeaderLen) = ReadHeader(ReadData(inb, HeaderLen))
           /\ \A n \in 1 .. Len(sent) : Past(at[n]) + HeaderLen <= Consumed + HeaderLen
<1>1. /\ Consumed + HeaderLen \in HeaderLen .. Len(stream)
      /\ stream[Consumed + HeaderLen].magic
      /\ HeaderAt(Consumed + HeaderLen) = ReadHeader(ReadData(inb, HeaderLen))
  BY HeaderRead
<1>2. ASSUME NEW n \in 1 .. Len(sent)
      PROVE  Past(at[n]) + HeaderLen <= Consumed + HeaderLen
  <2>1. Past(at[n]) \in Nat /\ Past(at[n]) <= Consumed /\ Consumed \in Nat
    BY PlaceType, UnreadCells DEF Served
  <2> QED
    BY <2>1 DEF HeaderLen
<1> QED
  BY <1>1, <1>2 DEF Places

LEMMA BackedAwait ==
    ASSUME IInv, Backed, AwaitHandshake, faults \subseteq faults'
    PROVE  Backed'
<1> SUFFICES ASSUME faults' \cap {"truncated", "misread"} = {}
             PROVE  /\ \E at : Served(at)' /\ (Busy' => \E p : Working(at, p)')
                    /\ sent' = <<>> <=> Unopened'
  BY DEF Backed
<1> DEFINE c == ReadData(inb, HeaderLen)
           h == ReadHeader(c)
<1>0. PICK p : p = Consumed + HeaderLen
  OBVIOUS
<1>1. "truncated" \notin faults /\ (sent = <<>> <=> Unopened)
  BY DEF Backed
<1>2. PICK at : Served(at)
  BY DEF Backed
<1>3. /\ fn = "await_handshake" /\ inb.size >= HeaderLen
      /\ UNCHANGED <<script, stream>>
      /\ \/ fn' = "close" /\ sent' = sent /\ Consumed' = Consumed
         \/ /\ MagicIn(c) /\ Consumed' = p
            /\ \/ h.code # "open" /\ fn' = fn /\ sent' = sent
               \/ /\ h.code = "open" /\ h.plen # 0
                  /\ fn' = "open_connection" /\ sent' = sent
               \/ /\ h.code = "open" /\ h.plen = 0
                  /\ fn' = "handle_open_channel" /\ sent' = Append(sent, Ack)
  BY <1>0, AwaitEffect
<1>4. sent = <<>> /\ Consumed \in Nat /\ p \in Nat /\ Consumed <= p
  BY <1>0, <1>1, <1>3, UnreadCells DEF Unopened, HeaderLen
<1>5. \A x : HeaderAt(x)' = HeaderAt(x)
  BY <1>3 DEF HeaderAt
<1>6. Places' = Places /\ \A x : Past(x)' = Past(x)
  BY <1>3, <1>5 DEF Places, Past
<1> HIDE DEF h, c
<1>7. CASE fn' \in {"close", "await_handshake", "open_connection"} /\ sent' = sent
  <2>1. Consumed' \in Nat /\ Consumed <= Consumed'
    BY <1>3, <1>4
  <2>2. Served(at)'
    BY <1>2, <1>4, <1>5, <1>6, <1>7, <2>1, ServedStays
  <2>3. ~Busy' /\ Unopened' /\ sent' = <<>>
    BY <1>4, <1>7 DEF Busy, Unopened
  <2> QED
    BY <2>2, <2>3
<1>8. CASE fn' = "handle_open_channel"
  <2>1. MagicIn(c) /\ Consumed' = p /\ h.code = "open" /\ h.plen = 0 /\ sent' = Append(sent, Ack)
    BY <1>3, <1>8
  <2>2. p \in Places /\ HeaderAt(p) = h
    BY <1>0, <1>1, <1>2, <1>3, <2>1, NextPlace DEF c, h
  <2>3. sent' = <<Ack>> /\ Len(sent') = 1 /\ sent'[1] = Ack
    BY <1>4, <2>1
  <2>new. PICK new : new = [n \in 1 .. 1 |-> p]
    OBVIOUS
  <2>4. new \in [1 .. Len(sent') -> Places'] /\ new[1] = p
    BY <1>6, <2>2, <2>3, <2>new
  <2>5. Asks(p, 1)'
    BY <1>5, <2>1, <2>2, <2>3 DEF Asks, Ack
  <2>6. Past(p)' <= Consumed'
    BY <1>4, <1>6, <2>1, <2>2 DEF Past
  <2>7. Served(new)'
    <3>1. \A n \in 1 .. Len(sent') : n = 1
      BY <2>3
    <3>2. \A n \in 1 .. Len(sent') : \A later \in n + 1 .. Len(sent') : FALSE
      BY <2>3
    <3> QED
      BY <2>4, <2>5, <2>6, <3>1, <3>2 DEF Served
  <2>8. ~Busy' /\ ~Unopened' /\ sent' # <<>>
    BY <1>8, <2>3 DEF Busy, Unopened
  <2> QED
    BY <2>7, <2>8
<1> QED
  BY <1>3, <1>7, <1>8

LEMMA BackedChannel ==
    ASSUME IInv, Backed, HandleOpenChannel, faults \subseteq faults'
    PROVE  Backed'
<1> SUFFICES ASSUME faults' \cap {"truncated", "misread"} = {}
             PROVE  /\ \E at : Served(at)' /\ (Busy' => \E p : Working(at, p)')
                    /\ sent' = <<>> <=> Unopened'
  BY DEF Backed
<1> DEFINE c == ReadData(inb, HeaderLen)
           h == ReadHeader(c)
<1>0. PICK p : p = Consumed + HeaderLen
  OBVIOUS
<1>1. /\ "truncated" \notin faults /\ "truncated" \notin faults'
      /\ (sent = <<>> <=> Unopened)
  BY DEF Backed
<1>2. PICK at : Served(at)
  BY DEF Backed
<1>3. /\ fn = "handle_open_channel" /\ inb.size >= HeaderLen
      /\ UNCHANGED <<script, stream, sent>>
      /\ hdr' = h /\ lastSend' = IF h.magic THEN h.dest ELSE lastSend
      /\ IF h.magic /\ h.plen # 0
         THEN \/ fn' = "receive_msg_payload" /\ Consumed' = p
              \/ fn' = "send_msg" /\ Consumed' = p + h.plen
         ELSE fn' = fn /\ Consumed' = p
  BY <1>0, <1>1, ChannelEffect
<1>4. Consumed \in Nat /\ p \in Nat /\ Consumed <= p
  BY <1>0, <1>1, UnreadCells DEF HeaderLen
<1>5. h \in Header /\ h.plen \in Nat /\ h.magic = MagicIn(c)
  BY <1>1, <1>3, HeaderRead, MessagesAssumption DEF Header
<1>6. \A x : HeaderAt(x)' = HeaderAt(x)
  BY <1>3 DEF HeaderAt
<1>7. Places' = Places /\ \A x : Past(x)' = Past(x)
  BY <1>3, <1>6 DEF Places, Past
<1>8. sent' = sent /\ sent # <<>>
  BY <1>1, <1>3 DEF Unopened
<1> HIDE DEF h, c
<1>9. Consumed' \in Nat /\ Consumed <= Consumed'
  BY <1>3, <1>4, <1>5
<1>10. Served(at)'
  BY <1>2, <1>4, <1>6, <1>7, <1>8, <1>9, ServedStays
<1>11. ~Unopened'
  BY <1>3 DEF Unopened
<1>12. CASE ~(h.magic /\ h.plen # 0)
  <2>1. ~Busy'
    BY <1>3, <1>12 DEF Busy
  <2> QED
    BY <1>8, <1>10, <1>11, <2>1
<1>13. CASE h.magic /\ h.plen # 0
  <2>1. /\ p \in Places /\ HeaderAt(p) = h
        /\ \A n \in 1 .. Len(sent) : Past(at[n]) + HeaderLen <= p
    BY <1>0, <1>1, <1>2, <1>3, <1>5, <1>13, NextPlace DEF c, h
  <2>2. p \in Places' /\ HeaderAt(p)' = h /\ h.plen > 0 /\ lastSend' = h.dest
    BY <1>3, <1>5, <1>6, <1>7, <1>13, <2>1
  <2>3. (\A n \in 1 .. Len(sent) : Past(at[n]) + HeaderLen <= p)'
    BY <1>7, <1>8, <2>1
  <2>4. IF fn' = "receive_msg_payload" THEN p = Consumed' /\ hdr'.plen = HeaderAt(p)'.plen
                                       ELSE Past(p)' <= Consumed'
    <3>1. CASE fn' = "receive_msg_payload" /\ Consumed' = p
      BY <1>3, <2>2, <3>1
    <3>2. CASE fn' = "send_msg" /\ Consumed' = p + h.plen
      <4>1. Past(p)' = p + h.plen
        BY <1>7, <2>1 DEF Past
      <4> QED
        BY <1>4, <1>5, <3>2, <4>1
    <3> QED
      BY <1>3, <1>13, <3>1, <3>2
  <2>5. Working(at, p)'
    BY <2>2, <2>3, <2>4 DEF Working
  <2> QED
    BY <1>8, <1>10, <1>11, <2>5
<1> QED
  BY <1>12, <1>13

LEMMA BackedReceive ==
    ASSUME IInv, Backed, ReceiveMsgPayload, faults \subseteq faults'
    PROVE  Backed'
<1> SUFFICES ASSUME faults' \cap {"truncated", "misread"} = {}
             PROVE  /\ \E at : Served(at)' /\ (Busy' => \E p : Working(at, p)')
                    /\ sent' = <<>> <=> Unopened'
  BY DEF Backed
<1>1. /\ "truncated" \notin faults /\ "truncated" \notin faults'
      /\ (sent = <<>> <=> Unopened)
  BY DEF Backed
<1>2. /\ fn = "receive_msg_payload"
      /\ UNCHANGED <<script, stream, sent, hdr, lastSend>>
      /\ \/ fn' = "receive_msg_payload" /\ Consumed' = Consumed
         \/ fn' = "send_msg" /\ Consumed' = Consumed + hdr.plen
  BY <1>1, ReceiveEffect
<1>3. PICK at : Served(at) /\ \E p : Working(at, p)
  BY <1>2 DEF Backed, Busy
<1>4. PICK p : Working(at, p)
  BY <1>3
<1>5. hdr.plen \in Nat /\ Consumed \in Nat
  BY <1>1, UnreadCells, MessagesAssumption DEF IInv, TypeOK, Header
<1>6. \A x : HeaderAt(x)' = HeaderAt(x)
  BY <1>2 DEF HeaderAt
<1>7. Places' = Places /\ \A x : Past(x)' = Past(x)
  BY <1>2, <1>6 DEF Places, Past
<1>8. Consumed' \in Nat /\ Consumed <= Consumed'
  BY <1>2, <1>5
<1>9. Served(at)'
  BY <1>2, <1>3, <1>5, <1>6, <1>7, <1>8, ServedStays
<1>10. p = Consumed /\ hdr.plen = HeaderAt(p).plen
  BY <1>2, <1>4 DEF Working
<1>11. IF fn' = "receive_msg_payload" THEN p = Consumed' /\ hdr'.plen = HeaderAt(p)'.plen
                                      ELSE Past(p)' <= Consumed'
  <2>1. CASE fn' = "receive_msg_payload" /\ Consumed' = Consumed
    BY <1>2, <1>6, <1>10, <2>1
  <2>2. CASE fn' = "send_msg" /\ Consumed' = Consumed + hdr.plen
    <3>1. Past(p)' = Consumed + hdr.plen
      BY <1>7, <1>10 DEF Past
    <3> QED
      BY <1>5, <2>2, <3>1
  <2> QED
    BY <1>2, <2>1, <2>2
<1>12. Working(at, p)'
  BY <1>2, <1>4, <1>6, <1>7, <1>11 DEF Working
<1>13. ~Unopened' /\ sent' # <<>>
  BY <1>1, <1>2 DEF Unopened
<1> QED
  BY <1>9, <1>12, <1>13

LEMMA BackedSend ==
    ASSUME IInv, Backed, SendMsg, faults \subseteq faults'
    PROVE  Backed'
<1> SUFFICES ASSUME faults' \cap {"truncated", "misread"} = {}
             PROVE  /\ \E at : Served(at)' /\ (Busy' => \E p : Working(at, p)')
                    /\ sent' = <<>> <=> Unopened'
  BY DEF Backed
<1>0. PICK last : last = Len(sent) + 1
  OBVIOUS
<1>1. "truncated" \notin faults /\ (sent = <<>> <=> Unopened)
  BY DEF Backed
<1>2. /\ fn = "send_msg" /\ fn' = "handle_open_channel"
      /\ UNCHANGED <<script, stream, lastSend>> /\ Consumed' = Consumed
      /\ sent' = Append(sent, Reply)
  BY SendEffect
<1>3. PICK at : Served(at) /\ \E x : Working(at, x)
  BY <1>2 DEF Backed, Busy
<1>4. PICK p : Working(at, p)
  BY <1>3
<1>5. sent \in Seq(Header) /\ Len(sent) \in Nat /\ Len(sent) # 0
  BY <1>1, <1>2 DEF IInv, TypeOK, Unopened
<1>6. /\ Len(sent') = last /\ sent'[last] = Reply /\ last # 1 /\ last \in Nat
      /\ Len(sent) = last - 1 /\ \A n \in 1 .. Len(sent) : sent'[n] = sent[n]
  BY <1>0, <1>2, <1>5
<1>7. \A x : HeaderAt(x)' = HeaderAt(x)
  BY <1>2 DEF HeaderAt
<1>8. Places' = Places /\ \A x : Past(x)' = Past(x)
  BY <1>2, <1>7 DEF Places, Past
<1>9. p \in Places /\ HeaderAt(p).plen > 0 /\ lastSend = HeaderAt(p).dest /\ Past(p) <= Consumed
  BY <1>2, <1>4 DEF Working
<1>new. PICK new : new = [n \in 1 .. last |-> IF n = last THEN p ELSE at[n]]
  OBVIOUS
<1>10. /\ new \in [1 .. last -> Places] /\ new[last] = p
       /\ \A n \in 1 .. Len(sent) : new[n] = at[n]
  <2>1. \A n \in 1 .. last : n # last => n \in 1 .. Len(sent)
    BY <1>6
  <2>2. \A n \in 1 .. Len(sent) : n \in 1 .. last /\ n # last
    BY <1>6
  <2> QED
    BY <1>3, <1>6, <1>9, <1>new, <2>1, <2>2 DEF Served
<1>11. ASSUME NEW n \in 1 .. last
       PROVE  (Asks(new[n], n) /\ Past(new[n]) <= Consumed)'
  <2>1. CASE n = last
    <3>1. Asks(p, last)'
      BY <1>6, <1>7, <1>9 DEF Asks, Reply
    <3> QED
      BY <1>2, <1>8, <1>9, <1>10, <2>1, <3>1
  <2>2. CASE n # last
    <3>1. n \in 1 .. Len(sent) /\ new[n] = at[n] /\ sent'[n] = sent[n]
      BY <1>6, <1>10, <2>2
    <3>2. Asks(at[n], n) /\ Past(at[n]) <= Consumed
      BY <1>3, <3>1 DEF Served
    <3>3. Asks(at[n], n)'
      BY <1>7, <3>1, <3>2 DEF Asks
    <3> QED
      BY <1>2, <1>8, <3>1, <3>2, <3>3
  <2> QED
    BY <2>1, <2>2
<1>12. ASSUME NEW n \in 1 .. last, NEW later \in n + 1 .. last
       PROVE  (Past(new[n]) + HeaderLen <= new[later])'
  <2>1. n \in 1 .. Len(sent) /\ new[n] = at[n]
    BY <1>6, <1>10
  <2>2. CASE later = last
    <3>1. Past(at[n]) + HeaderLen <= p
      BY <1>4, <2>1 DEF Working
    <3> QED
      BY <1>8, <1>10, <2>1, <2>2, <3>1
  <2>3. CASE later # last
    <3>1. later \in n + 1 .. Len(sent) /\ later \in 1 .. Len(sent)
      BY <1>6, <2>1, <2>3
    <3>2. Past(at[n]) + HeaderLen <= at[later]
      BY <1>3, <2>1, <3>1 DEF Served
    <3> QED
      BY <1>8, <1>10, <2>1, <3>1, <3>2
  <2> QED
    BY <2>2, <2>3
<1>13. Served(new)'
  BY <1>6, <1>8, <1>10, <1>11, <1>12 DEF Served
<1>14. ~Busy' /\ ~Unopened' /\ sent' # <<>>
  BY <1>2, <1>5 DEF Busy, Unopened
<1> QED
  BY <1>13, <1>14

-----------------------------------------------------------------------------
(***************************************************************************)
(* In step with a peer that speaks the protocol.                           *)
(***************************************************************************)
\* The message i is an OPEN.
IsOpen(i) == Asked[i].magic /\ Asked[i].code = "open"

\* The state functions are at the end of the message k, or at its payload, and
\* have answered the messages up to there.
Follows(m, k) ==
    /\ Consumed = m[k + 1] - (IF fn = "receive_msg_payload" THEN hdr.plen ELSE 0)
    /\ sent = S!Replies(SubSeq(Asked, 1, IF Busy THEN k - 1 ELSE k))
    /\ Busy => /\ k \in S!Asking(Asked) /\ S!Opened(Asked, k)
               /\ lastSend = Asked[k].dest
    /\ fn = "receive_msg_payload" => hdr.plen = Asked[k].plen
    /\ fn \notin {"close", "open_connection"}
    /\ fn = "await_handshake" => \A o \in 1 .. k : ~IsOpen(o)
    /\ fn # "await_handshake" => \E o \in 1 .. k : IsOpen(o)

AllFollowed(m) == Intact => \E k \in 0 .. Len(script) : Follows(m, k)

LEMMA FollowsQuiet ==
    ASSUME NEW m, NEW k, Follows(m, k), Quiet
    PROVE  Follows(m, k)'
<1>1. Asked' = Asked
  BY DEF Quiet, Asked
<1> QED
  BY <1>1 DEF Follows, Quiet, Busy, IsOpen

LEMMA FollowsSent ==
    ASSUME IInv, NEW m, NEW k \in 0 .. Len(script), Follows(m, k), NEW n,
           \A i \in 1 .. Len(script) + 1 : n[i] = m[i],
           NEW c \in PeerMsgs, PeerSend(c)
    PROVE  k \in 0 .. Len(script') /\ Follows(n, k)'
<1>1. /\ Asked \in Seq(Header) /\ Asked' \in Seq(Header) /\ Len(script) \in Nat
      /\ Len(script') = Len(script) + 1 /\ Len(Asked) = Len(script)
      /\ Len(Asked') = Len(script) + 1
      /\ \A i \in 1 .. Len(script) : Asked'[i] = Asked[i]
      /\ \A i \in 0 .. Len(script) : SubSeq(Asked', 1, i) = SubSeq(Asked, 1, i)
      /\ UNCHANGED <<sent, fn, hdr, lastSend>> /\ Consumed' = Consumed
  BY SentEffect, AskedEffect
<1>2. k + 1 \in 1 .. Len(script) + 1 /\ n[k + 1] = m[k + 1]
  BY <1>1
<1>3. /\ S!Asking(Asked) = S!Asking(Asked') \cap 1 .. Len(script)
      /\ \A i \in 1 .. Len(script) : S!Opened(Asked, i) <=> S!Opened(Asked', i)
  <2>1. SubSeq(Asked', 1, Len(script)) = Asked /\ Len(script) \in 0 .. Len(Asked')
    BY <1>1, SubSeqFull
  <2>2. /\ S!Asking(SubSeq(Asked', 1, Len(script))) = S!Asking(Asked') \cap 1 .. Len(script)
        /\ \A i \in 1 .. Len(script) :
              S!Opened(SubSeq(Asked', 1, Len(script)), i) <=> S!Opened(Asked', i)
    BY <1>1, <2>1, MessagesAssumption, S!AskingPrefix
  <2> QED
    BY <2>1, <2>2
<1>4. \A i \in 1 .. Len(script) : IsOpen(i)' <=> IsOpen(i)
  BY <1>1 DEF IsOpen
<1>5. (Consumed = n[k + 1] - (IF fn = "receive_msg_payload" THEN hdr.plen ELSE 0))'
  BY <1>1, <1>2 DEF Follows
<1>6. ASSUME Busy
      PROVE  /\ k \in 1 .. Len(script) /\ k \in S!Asking(Asked')
             /\ S!Opened(Asked', k) /\ lastSend' = Asked'[k].dest
  <2>1. k \in S!Asking(Asked) /\ S!Opened(Asked, k) /\ lastSend = Asked[k].dest
    BY <1>6 DEF Follows
  <2> QED
    BY <1>1, <1>3, <2>1
<1>7. (sent = S!Replies(SubSeq(Asked, 1, IF Busy THEN k - 1 ELSE k)))'
  <2>1. (IF Busy THEN k - 1 ELSE k) \in 0 .. Len(script)
    BY <1>1, <1>6
  <2>2. SubSeq(Asked', 1, IF Busy THEN k - 1 ELSE k)
            = SubSeq(Asked, 1, IF Busy THEN k - 1 ELSE k)
    BY <1>1, <2>1
  <2>3. Busy' <=> Busy
    BY <1>1 DEF Busy
  <2>4. sent = S!Replies(SubSeq(Asked, 1, IF Busy THEN k - 1 ELSE k))
    BY DEF Follows
  <2> QED
    BY <1>1, <2>2, <2>3, <2>4
<1>8. (fn = "receive_msg_payload" => hdr.plen = Asked[k].plen)'
  BY <1>1, <1>6 DEF Follows, Busy
<1>9. (/\ fn \notin {"close", "open_connection"}
       /\ fn = "await_handshake" => \A o \in 1 .. k : ~IsOpen(o)
       /\ fn # "await_handshake" => \E o \in 1 .. k : IsOpen(o))'
  BY <1>1, <1>4 DEF Follows
<1>10. (Busy => /\ k \in S!Asking(Asked) /\ S!Opened(Asked, k)
                /\ lastSend = Asked[k].dest)'
  BY <1>1, <1>6 DEF Busy
<1> QED
  BY <1>1, <1>5, <1>7, <1>8, <1>9, <1>10 DEF Follows

LEMMA MarkType ==
    ASSUME IInv, NEW m, Marks(m), NEW k \in 0 .. Len(script)
    PROVE  m[k + 1] \in Nat /\ k \in Nat /\ Len(script) \in Nat
<1>1. Len(script) \in Nat
  BY DEF IInv, TypeOK
<1>2. k \in Nat /\ k + 1 \in 1 .. Len(script) + 1
  BY <1>1
<1>3. m \in [1 .. Len(script) + 1 -> Nat]
  BY DEF Marks, Cut
<1>4. m[k + 1] \in Nat
  BY <1>2, <1>3
<1> QED
  BY <1>1, <1>2, <1>4

\* What a well-formed peer sends next, when k messages have been consumed.
LEMMA NextMessage ==
    ASSUME IInv, WellFormed, NEW m, Marks(m), NEW k \in 0 .. Len(script),
           k + 1 \in 1 .. Len(script)
    PROVE  /\ Asked[k + 1].magic /\ Asked[k + 1] \in Header /\ Asked[k + 1].plen \in Nat
           /\ m[k + 2] = m[k + 1] + HeaderLen + Asked[k + 1].plen
           /\ m[k + 1] \in Nat /\ m[k + 2] \in Nat
           /\ (\E o \in 1 .. k : IsOpen(o)) <=> S!Opened(Asked, k + 1)
           /\ ~S!Opened(Asked, k + 1) => Asked[k + 1].plen = 0
           /\ S!Replies(SubSeq(Asked, 1, k + 1))
                  = IF k + 1 \in S!Asking(Asked)
                    THEN Append(S!Replies(SubSeq(Asked, 1, k)), S!AnswerTo(Asked, k + 1))
                    ELSE S!Replies(SubSeq(Asked, 1, k))
           /\ k + 1 \in S!Asking(Asked) <=>
                  IF S!Opened(Asked, k + 1) THEN Asked[k + 1].plen # 0
                                             ELSE Asked[k + 1].code = "open"
<1>1. /\ script \in Seq(PeerMsgs) /\ Len(script) \in Nat /\ k + 1 - 1 = k
      /\ Asked \in Seq(Header) /\ Len(Asked) = Len(script)
  BY AskedIs, HeadersType DEF IInv, TypeOK
<1>2. Asked[k + 1] \in Header /\ Asked[k + 1].plen \in Nat
  BY <1>1, AskedIs, HeadersType
<1>3. Asked[k + 1].magic
  BY DEF WellFormed
<1>4. /\ m[k + 2] = m[k + 1] + HeaderLen + Asked[k + 1].plen
      /\ m[k + 1] \in Nat /\ m[k + 2] \in Nat
  <2>1. m[k + 1 + 1] = m[k + 1] + Len(script[k + 1])
    BY DEF Marks, Cut
  <2>2. k + 1 + 1 = k + 2 /\ k + 1 \in 1 .. Len(script) + 1 /\ k + 2 \in 1 .. Len(script) + 1
    BY <1>1
  <2>3. Len(script[k + 1]) = HeaderLen + Asked[k + 1].plen
    BY DEF WellFormed
  <2>4. m[k + 1] \in Nat /\ m[k + 2] \in Nat
    BY <2>2 DEF Marks, Cut
  <2>5. m[k + 2] = m[k + 1] + (HeaderLen + Asked[k + 1].plen)
    BY <2>1, <2>2, <2>3
  <2> DEFINE x == Asked[k + 1].plen
             y == m[k + 1]
             z == m[k + 2]
  <2>6. x \in Nat /\ y \in Nat /\ z = y + (HeaderLen + x)
    BY <1>2, <2>4, <2>5
  <2> HIDE DEF x, y, z
  <2>7. z = y + HeaderLen + x
    BY <2>6 DEF HeaderLen
  <2> QED
    BY <2>4, <2>7 DEF x, y, z
<1>5. (\E o \in 1 .. k : IsOpen(o)) <=> S!Opened(Asked, k + 1)
  BY <1>1 DEF S!Opened, IsOpen
<1>6. ASSUME ~S!Opened(Asked, k + 1)
      PROVE  Asked[k + 1].plen = 0
  <2>1. \A j \in 1 .. k + 1 - 1 : Asked[j].magic
    BY <1>1 DEF WellFormed
  <2>2. \A j \in 1 .. k + 1 - 1 : Asked[j].code # "open"
    BY <1>6, <2>1 DEF S!Opened
  <2> QED
    BY <2>2 DEF WellFormed
<1>7. S!Replies(SubSeq(Asked, 1, k + 1))
          = IF k + 1 \in S!Asking(Asked)
            THEN Append(S!Replies(SubSeq(Asked, 1, k)), S!AnswerTo(Asked, k + 1))
            ELSE S!Replies(SubSeq(Asked, 1, k))
  BY <1>1, MessagesAssumption, S!RepliesNext
<1>8. k + 1 \in S!Asking(Asked) <=>
          IF S!Opened(Asked, k + 1) THEN Asked[k + 1].plen # 0
                                     ELSE Asked[k + 1].code = "open"
  BY <1>1, <1>2, <1>3 DEF S!Asking
<1> QED
  BY <1>2, <1>3, <1>4, <1>5, <1>6, <1>7, <1>8

LEMMA FollowsAwait ==
    ASSUME IInv, NEW m, Marks(m), NEW k \in 0 .. Len(script), Follows(m, k),
           AwaitHandshake, Intact, faults' \cap {"truncated", "misread"} = {}
    PROVE  k + 1 \in 0 .. Len(script) /\ Follows(m, k + 1)'
<1> DEFINE c == ReadData(inb, HeaderLen)
           h == Asked[k + 1]
           x == ReadHeader(c)
<1>1. /\ fn = "await_handshake" /\ inb.size >= HeaderLen
      /\ UNCHANGED <<script, stream, Asked>>
      /\ \/ ~MagicIn(c)
         \/ /\ Consumed' = Consumed + HeaderLen
            /\ \/ x.code # "open" /\ fn' = fn /\ sent' = sent
               \/ x.code = "open" /\ x.plen # 0
               \/ /\ x.code = "open" /\ x.plen = 0
                  /\ fn' = "handle_open_channel" /\ sent' = Append(sent, Ack)
  BY AwaitEffect
<1>2. WellFormed /\ "truncated" \notin faults
  BY DEF Intact
<1>3. /\ Consumed = m[k + 1] /\ ~Busy
      /\ sent = S!Replies(SubSeq(Asked, 1, k)) /\ \A o \in 1 .. k : ~IsOpen(o)
  <2>1. ~Busy
    BY <1>1 DEF Busy
  <2>2. m[k + 1] \in Nat
    BY MarkType
  <2> QED
    BY <1>1, <2>1, <2>2 DEF Follows
<1>4. k + 1 \in 1 .. Len(script) /\ k + 1 \in 0 .. Len(script)
  <2>1. Consumed = m[k + 1] /\ inb.size >= HeaderLen /\ "truncated" \notin faults
    BY <1>1, <1>2, <1>3
  <2>2. k + 1 \in 1 .. Len(script)
    BY <2>1, HeaderNext
  <2> QED
    BY <2>2
<1>5. /\ h.magic /\ h \in Header
      /\ m[k + 2] = m[k + 1] + HeaderLen + h.plen /\ m[k + 1] \in Nat
      /\ ~S!Opened(Asked, k + 1) /\ h.plen = 0
      /\ S!Replies(SubSeq(Asked, 1, k + 1))
             = IF k + 1 \in S!Asking(Asked)
               THEN Append(S!Replies(SubSeq(Asked, 1, k)), S!AnswerTo(Asked, k + 1))
               ELSE S!Replies(SubSeq(Asked, 1, k))
      /\ k + 1 \in S!Asking(Asked) <=> h.code = "open"
  BY <1>2, <1>3, <1>4, NextMessage
<1>6. MagicIn(c) /\ x = h
  BY <1>1, <1>2, <1>3, <1>4, <1>5, HeaderNext
<1> HIDE DEF c, h, x
<1>7. /\ Consumed' = Consumed + HeaderLen
      /\ \/ h.code # "open" /\ fn' = fn /\ sent' = sent
         \/ h.code = "open" /\ fn' = "handle_open_channel" /\ sent' = Append(sent, Ack)
  BY <1>1, <1>5, <1>6
<1>8. Consumed' = m[k + 2] /\ k + 1 + 1 = k + 2
  BY <1>3, <1>5, <1>7 DEF HeaderLen, IInv, TypeOK
<1>9. CASE h.code # "open" /\ fn' = fn /\ sent' = sent
  <2>1. sent' = S!Replies(SubSeq(Asked, 1, k + 1))
    BY <1>3, <1>5, <1>9
  <2>2. \A o \in 1 .. k + 1 : ~IsOpen(o)'
    <3>1. ~IsOpen(k + 1)
      BY <1>9 DEF IsOpen, h
    <3>2. \A o \in 1 .. k + 1 : o \in 1 .. k \/ o = k + 1
      OBVIOUS
    <3> QED
      BY <1>1, <1>3, <3>1, <3>2 DEF IsOpen
  <2>3. fn' = "await_handshake" /\ ~Busy'
    BY <1>1, <1>9 DEF Busy
  <2>4. (Consumed = m[k + 1 + 1] - (IF fn = "receive_msg_payload" THEN hdr.plen ELSE 0))'
    BY <1>5, <1>8, <2>3 DEF HeaderLen
  <2>5. (sent = S!Replies(SubSeq(Asked, 1, IF Busy THEN k + 1 - 1 ELSE k + 1)))'
    BY <1>1, <2>1, <2>3
  <2> QED
    BY <1>4, <2>2, <2>3, <2>4, <2>5 DEF Follows
<1>10. CASE h.code = "open" /\ fn' = "handle_open_channel" /\ sent' = Append(sent, Ack)
  <2>1. lastSend = 0
    BY <1>1 DEF IInv, Handshake
  <2>2. Ack = S!AnswerTo(Asked, k + 1)
    BY <1>5, <2>1 DEF Ack, S!AnswerTo
  <2>3. sent' = S!Replies(SubSeq(Asked, 1, k + 1))
    BY <1>3, <1>5, <1>10, <2>2
  <2>4. k + 1 \in 1 .. k + 1 /\ IsOpen(k + 1)'
    BY <1>1, <1>5, <1>10 DEF IsOpen, h
  <2>5. ~Busy'
    BY <1>10 DEF Busy
  <2>6. (Consumed = m[k + 1 + 1] - (IF fn = "receive_msg_payload" THEN hdr.plen ELSE 0))'
    BY <1>5, <1>8, <1>10 DEF HeaderLen
  <2>7. (sent = S!Replies(SubSeq(Asked, 1, IF Busy THEN k + 1 - 1 ELSE k + 1)))'
    BY <1>1, <2>3, <2>5
  <2> QED
    BY <1>4, <1>10, <2>4, <2>5, <2>6, <2>7 DEF Follows
<1> QED
  BY <1>7, <1>9, <1>10

LEMMA FollowsChannel ==
    ASSUME IInv, NEW m, Marks(m), NEW k \in 0 .. Len(script), Follows(m, k),
           HandleOpenChannel, Intact, "truncated" \notin faults'
    PROVE  k + 1 \in 0 .. Len(script) /\ Follows(m, k + 1)'
<1> DEFINE c == ReadData(inb, HeaderLen)
           h == Asked[k + 1]
           x == ReadHeader(c)
<1>1. /\ fn = "handle_open_channel" /\ inb.size >= HeaderLen
      /\ UNCHANGED <<script, stream, sent, Asked>>
      /\ hdr' = x /\ lastSend' = IF x.magic THEN x.dest ELSE lastSend
      /\ IF x.magic /\ x.plen # 0
         THEN \/ fn' = "receive_msg_payload" /\ Consumed' = Consumed + HeaderLen
              \/ fn' = "send_msg" /\ Consumed' = Consumed + HeaderLen + x.plen
         ELSE fn' = fn /\ Consumed' = Consumed + HeaderLen
  BY ChannelEffect
<1>2. WellFormed /\ "truncated" \notin faults
  BY DEF Intact
<1>3. /\ Consumed = m[k + 1]
      /\ sent = S!Replies(SubSeq(Asked, 1, k)) /\ \E o \in 1 .. k : IsOpen(o)
  <2>1. ~Busy
    BY <1>1 DEF Busy
  <2>2. m[k + 1] \in Nat
    BY MarkType
  <2> QED
    BY <1>1, <2>1, <2>2 DEF Follows
<1>4. k + 1 \in 1 .. Len(script) /\ k + 1 \in 0 .. Len(script)
  <2>1. Consumed = m[k + 1] /\ inb.size >= HeaderLen /\ "truncated" \notin faults
    BY <1>1, <1>2, <1>3
  <2>2. k + 1 \in 1 .. Len(script)
    BY <2>1, HeaderNext
  <2> QED
    BY <2>2
<1>5. /\ h.magic /\ h \in Header /\ h.plen \in Nat
      /\ m[k + 2] = m[k + 1] + HeaderLen + h.plen /\ m[k + 1] \in Nat
      /\ S!Opened(Asked, k + 1)
      /\ S!Replies(SubSeq(Asked, 1, k + 1))
             = IF k + 1 \in S!Asking(Asked)
               THEN Append(S!Replies(SubSeq(Asked, 1, k)), S!AnswerTo(Asked, k + 1))
               ELSE S!Replies(SubSeq(Asked, 1, k))
      /\ k + 1 \in S!Asking(Asked) <=> h.plen # 0
  BY <1>2, <1>3, <1>4, NextMessage
<1>6. x = h
  BY <1>1, <1>2, <1>3, <1>4, <1>5, HeaderNext
<1> HIDE DEF c, h, x
<1>7. /\ hdr' = h /\ lastSend' = h.dest
      /\ \/ h.plen = 0 /\ fn' = fn /\ Consumed' = Consumed + HeaderLen
         \/ /\ h.plen # 0 /\ fn' = "receive_msg_payload"
            /\ Consumed' = Consumed + HeaderLen
         \/ /\ h.plen # 0 /\ fn' = "send_msg"
            /\ Consumed' = Consumed + HeaderLen + h.plen
  BY <1>1, <1>5, <1>6
<1>8. k + 1 + 1 = k + 2 /\ k + 1 - 1 = k
  BY DEF IInv, TypeOK
<1>9. (\E o \in 1 .. k + 1 : IsOpen(o))'
  <2>1. \A o \in 1 .. k : o \in 1 .. k + 1
    OBVIOUS
  <2> QED
    BY <1>1, <1>3, <2>1 DEF IsOpen
<1>10. (Consumed = m[k + 1 + 1] - (IF fn = "receive_msg_payload" THEN hdr.plen ELSE 0))'
  <2>1. CASE h.plen = 0 /\ fn' = fn /\ Consumed' = Consumed + HeaderLen
    BY <1>1, <1>3, <1>5, <1>8, <2>1 DEF HeaderLen
  <2>2. CASE fn' = "receive_msg_payload" /\ Consumed' = Consumed + HeaderLen
    BY <1>3, <1>5, <1>7, <1>8, <2>2 DEF HeaderLen
  <2>3. CASE fn' = "send_msg" /\ Consumed' = Consumed + HeaderLen + h.plen
    BY <1>3, <1>5, <1>8, <2>3 DEF HeaderLen
  <2> QED
    BY <1>7, <2>1, <2>2, <2>3
<1>11. CASE h.plen = 0 /\ fn' = fn
  <2>1. ~Busy' /\ sent' = S!Replies(SubSeq(Asked, 1, k + 1))
    BY <1>1, <1>3, <1>5, <1>11 DEF Busy
  <2> QED
    BY <1>1, <1>4, <1>9, <1>10, <1>11, <2>1 DEF Follows
<1>12. CASE h.plen # 0 /\ fn' \in {"receive_msg_payload", "send_msg"}
  <2>1. Busy' /\ sent' = S!Replies(SubSeq(Asked, 1, k + 1 - 1))
    BY <1>1, <1>3, <1>8, <1>12 DEF Busy
  <2> QED
    BY <1>1, <1>4, <1>5, <1>7, <1>9, <1>10, <1>12, <2>1 DEF Follows, h
<1> QED
  BY <1>7, <1>11, <1>12

LEMMA FollowsReceive ==
    ASSUME IInv, NEW m, Marks(m), NEW k \in 0 .. Len(script), Follows(m, k),
           ReceiveMsgPayload, "truncated" \notin faults'
    PROVE  Follows(m, k)'
<1>1. /\ fn = "receive_msg_payload"
      /\ UNCHANGED <<script, stream, sent, hdr, lastSend, Asked>>
      /\ \/ fn' = "receive_msg_payload" /\ Consumed' = Consumed
         \/ fn' = "send_msg" /\ Consumed' = Consumed + hdr.plen
  BY ReceiveEffect
<1>2. hdr.plen \in Nat /\ m[k + 1] \in Nat
  BY MarkType, MessagesAssumption DEF IInv, TypeOK, Header
<1>3. Consumed = m[k + 1] - hdr.plen
  BY <1>1 DEF Follows
<1>4. (Consumed = m[k + 1] - (IF fn = "receive_msg_payload" THEN hdr.plen ELSE 0))'
  BY <1>1, <1>2, <1>3
<1>5. Busy /\ Busy' /\ fn' # "await_handshake" /\ fn' \notin {"close", "open_connection"}
  BY <1>1 DEF Busy
<1> QED
  BY <1>1, <1>4, <1>5 DEF Follows, IsOpen

LEMMA FollowsSend ==
    ASSUME IInv, NEW m, NEW k \in 0 .. Len(script), Follows(m, k), SendMsg
    PROVE  Follows(m, k)'
<1>1. /\ fn = "send_msg" /\ fn' = "handle_open_channel"
      /\ UNCHANGED <<script, stream, lastSend, Asked>> /\ Consumed' = Consumed
      /\ sent' = Append(sent, Reply)
  BY SendEffect
<1>2. Asked \in Seq(Header) /\ Busy /\ ~Busy'
  BY <1>1, AskedIs, HeadersType DEF IInv, TypeOK, Busy
<1>3. /\ k \in S!Asking(Asked) /\ S!Opened(Asked, k) /\ lastSend = Asked[k].dest
      /\ sent = S!Replies(SubSeq(Asked, 1, k - 1))
  BY <1>2 DEF Follows
<1>4. k \in 1 .. Len(Asked)
  BY <1>3 DEF S!Asking
<1>5. S!Replies(SubSeq(Asked, 1, k))
          = Append(S!Replies(SubSeq(Asked, 1, k - 1)), S!AnswerTo(Asked, k))
  BY <1>2, <1>3, <1>4, MessagesAssumption, S!RepliesNext
<1>6. Reply = S!AnswerTo(Asked, k)
  BY <1>3 DEF Reply, S!AnswerTo
<1>7. sent' = S!Replies(SubSeq(Asked, 1, k))
  BY <1>1, <1>3, <1>5, <1>6
<1> QED
  BY <1>1, <1>2, <1>7 DEF Follows, IsOpen

-----------------------------------------------------------------------------
(***************************************************************************)
(* The invariants: the headers of the answers, and the message that the    *)
(* state functions are at.                                                 *)
(***************************************************************************)
SInv == \E m : Marks(m) /\ AllFollowed(m)

\* Only the peer adds to the stream.
LEMMA HeardStays ==
    ASSUME [Next]_vars, ~(\E c \in PeerMsgs : PeerSend(c))
    PROVE  UNCHANGED <<script, stream>>
<1>1. CASE Environment
  BY <1>1 DEF Environment, Deliver, PeerClose, DeliverFin, PeerReset, PeerReads,
              history, heard
<1>2. CASE EpollWait \/ EventHup \/ EventRecvEnd \/ EventServe
  BY <1>2 DEF EpollWait, EventHup, EventRecvEnd, EventServe, history, heard
<1>3. CASE AwaitMore \/ ChannelIdle \/ CloseNothing \/ CloseSocket
  BY <1>3 DEF AwaitMore, ChannelIdle, CloseNothing, CloseSocket, Unchanged, history, heard
<1>4. CASE AwaitHandshake
  BY <1>4 DEF AwaitHandshake, heard
<1>5. CASE AwaitHandshakeCrash \/ OpenConnection \/ SendMsg
  BY <1>5 DEF AwaitHandshakeCrash, OpenConnection, SendMsg, heard
<1>6. CASE HandleOpenChannel
  BY <1>6 DEF HandleOpenChannel, heard
<1>7. CASE ReceiveMsgPayload
  BY <1>7 DEF ReceiveMsgPayload, heard
<1>8. CASE PassedOver \/ UNCHANGED vars
  BY <1>8 DEF PassedOver, vars, history, heard
<1> QED
  BY <1>1, <1>2, <1>3, <1>4, <1>5, <1>6, <1>7, <1>8 DEF Next, Thread, StateFunction

\* What was intact after a step was intact before it.
LEMMA IntactBefore ==
    ASSUME IInv, [Next]_vars, Intact'
    PROVE  Intact
<1>1. faults \cap {"truncated", "overrun", "misread"} = {}
  BY FaultsStay DEF Intact
<1>2. WellFormed
  <2>1. CASE \E c \in PeerMsgs : PeerSend(c)
    <3>1. PICK c \in PeerMsgs : PeerSend(c)
      BY <2>1
    <3>2. /\ Len(script) \in Nat /\ Len(script') = Len(script) + 1
          /\ \A i \in 1 .. Len(script) : script'[i] = script[i] /\ Asked'[i] = Asked[i]
      BY <3>1, SentEffect, AskedEffect
    <3>3. \A i \in 1 .. Len(script) : i \in 1 .. Len(script')
      BY <3>2
    <3>4. \A i \in 1 .. Len(script) :
             /\ Asked[i].magic /\ Asked[i].plen <= BufferLen
             /\ Len(script[i]) = HeaderLen + Asked[i].plen
      BY <3>2, <3>3 DEF Intact, WellFormed
    <3>5. ASSUME NEW i \in 1 .. Len(script), \A j \in 1 .. i - 1 : Asked[j].code # "open"
          PROVE  Asked[i].plen = 0
      <4>1. \A j \in 1 .. i - 1 : j \in 1 .. Len(script)
        BY <3>2
      <4>2. \A j \in 1 .. i - 1 : Asked'[j].code # "open"
        BY <3>2, <3>5, <4>1
      <4>3. Asked'[i].plen = 0
        BY <3>3, <4>2 DEF Intact, WellFormed
      <4> QED
        BY <3>2, <4>3
    <3> QED
      BY <3>4, <3>5 DEF WellFormed
  <2>2. CASE ~(\E c \in PeerMsgs : PeerSend(c))
    BY <2>2, HeardStays, AskedStays DEF Intact, WellFormed
  <2> QED
    BY <2>1, <2>2
<1> QED
  BY <1>1, <1>2 DEF Intact

\* The steps of the program and of the network, one by one.
LEMMA StepCases ==
    ASSUME [Next]_vars, ~(\E c \in PeerMsgs : PeerSend(c))
    PROVE  \/ \/ \E k \in 1 .. Len(wire) : Deliver(k)
              \/ PeerClose \/ DeliverFin \/ PeerReset \/ PeerReads
              \/ EpollWait \/ EventHup \/ EventRecvEnd \/ EventServe
              \/ PassedOver \/ AwaitMore \/ ChannelIdle \/ CloseNothing \/ CloseSocket
              \/ AwaitHandshakeCrash \/ OpenConnection
              \/ UNCHANGED vars
           \/ AwaitHandshake \/ HandleOpenChannel \/ ReceiveMsgPayload \/ SendMsg
BY DEF Next, Environment, Thread, StateFunction

LEMMA NextBacked == IInv /\ Backed /\ [Next]_vars => Backed'
<1> SUFFICES ASSUME IInv, Backed, [Next]_vars
             PROVE  Backed'
  OBVIOUS
<1>1. faults \subseteq faults'
  BY FaultsStay
<1>2. CASE \E c \in PeerMsgs : PeerSend(c)
  BY <1>1, <1>2, BackedSent
<1>3. CASE Quiet
  BY <1>1, <1>3, BackedQuiet
<1>4. CASE AwaitHandshake \/ HandleOpenChannel \/ ReceiveMsgPayload \/ SendMsg
  BY <1>1, <1>4, BackedAwait, BackedChannel, BackedReceive, BackedSend
<1>5. CASE "truncated" \in faults'
  BY <1>5 DEF Backed
<1> QED
  BY <1>2, <1>3, <1>4, <1>5, StepCases, QuietStep

LEMMA InitBacked == Init => Backed
<1> SUFFICES ASSUME Init
             PROVE  Backed
  OBVIOUS
<1>1. sent = <<>> /\ fn = "await_handshake" /\ Len(sent) = 0
  BY DEF Init
<1> DEFINE at == [n \in 1 .. 0 |-> 0]
<1>2. at \in [1 .. Len(sent) -> Places]
  BY <1>1
<1> HIDE DEF at
<1>3. \A n \in 1 .. Len(sent) : FALSE
  BY <1>1
<1>4. Served(at)
  BY <1>2, <1>3 DEF Served
<1> QED
  BY <1>1, <1>4 DEF Backed, Busy, Unopened

LEMMA InductiveB == Spec => [](IInv /\ Backed)
<1>1. Init => IInv /\ Backed
  BY InitIInv, InitBacked
<1>2. IInv /\ Backed /\ [Next]_vars => (IInv /\ Backed)'
  BY NextIInv, NextBacked
<1> QED
  BY <1>1, <1>2, PTL DEF Spec

LEMMA FollowsStep ==
    ASSUME IInv, [Next]_vars, ~(\E c \in PeerMsgs : PeerSend(c)),
           NEW m, Marks(m), AllFollowed(m)
    PROVE  AllFollowed(m)'
<1> SUFFICES ASSUME Intact'
             PROVE  \E k \in 0 .. Len(script) : Follows(m, k)'
  BY HeardStays DEF AllFollowed
<1>1. Intact
  BY IntactBefore
<1>2. PICK k \in 0 .. Len(script) : Follows(m, k)
  BY <1>1 DEF AllFollowed
<1>3. faults' \cap {"truncated", "misread"} = {} /\ "truncated" \notin faults'
  BY DEF Intact
<1>4. CASE Quiet
  BY <1>2, <1>4, FollowsQuiet
<1>5. CASE AwaitHandshake
  BY <1>1, <1>2, <1>3, <1>5, FollowsAwait
<1>6. CASE HandleOpenChannel
  BY <1>1, <1>2, <1>3, <1>6, FollowsChannel
<1>7. CASE ReceiveMsgPayload
  BY <1>2, <1>3, <1>7, FollowsReceive
<1>8. CASE SendMsg
  BY <1>2, <1>8, FollowsSend
<1> QED
  BY <1>3, <1>4, <1>5, <1>6, <1>7, <1>8, StepCases, QuietStep

LEMMA InitSInv == Init => SInv
<1> SUFFICES ASSUME Init
             PROVE  SInv
  OBVIOUS
<1> DEFINE m == [i \in 1 .. 1 |-> 0]
<1>1. /\ script = <<>> /\ stream = <<>> /\ sent = <<>> /\ faults = {}
      /\ fn = "await_handshake" /\ rcvq = <<>> /\ wire = <<>> /\ inb.size = 0
  BY DEF Init
<1>2. Len(script) = 0 /\ Len(stream) = 0 /\ Consumed = 0 /\ Len(sent) = 0
  <2>1. Len(script) = 0 /\ Len(stream) = 0 /\ Len(sent) = 0 /\ Len(rcvq) = 0 /\ Len(wire) = 0
    BY <1>1
  <2>2. Len(stream) - (inb.size + Len(rcvq) + Len(wire)) = 0 - (0 + 0 + 0)
    BY <1>1, <2>1
  <2> QED
    BY <2>1, <2>2 DEF Consumed
<1>3. m \in [1 .. 1 -> Nat] /\ m[1] = 0
  OBVIOUS
<1> HIDE DEF m
<1>4. Marks(m)
  BY <1>1, <1>2, <1>3 DEF Marks, Cut
<1>5. Asked = <<>> /\ Len(Asked) = 0
  BY <1>2 DEF Asked
<1>6. Follows(m, 0)
  <2>1. ~Busy /\ fn # "receive_msg_payload" /\ fn \notin {"close", "open_connection"}
    BY <1>1 DEF Busy
  <2>2. SubSeq(Asked, 1, 0) = Asked
    BY <1>5
  <2>3. S!Replies(Asked) = <<>>
    <3>1. /\ Len(S!Replies(Asked)) = S!Cardinality(S!Asking(Asked))
          /\ S!Replies(Asked) \in Seq({S!AnswerTo(Asked, i) : i \in S!Asking(Asked)})
      BY <1>5, MessagesAssumption, S!RepliesAt
    <3>2. S!Rank(Asked, 0) = 0 /\ S!Rank(Asked, 0) = S!Cardinality(S!Asking(Asked))
      BY <1>5, MessagesAssumption, S!RankEnds
    <3> QED
      BY <3>1, <3>2
  <2>4. \A o \in 1 .. 0 : ~IsOpen(o)
    OBVIOUS
  <2>5. Consumed = m[0 + 1] - 0
    BY <1>2, <1>3
  <2>6. sent = S!Replies(SubSeq(Asked, 1, 0))
    BY <1>1, <2>2, <2>3
  <2> QED
    BY <1>1, <2>1, <2>4, <2>5, <2>6 DEF Follows
<1> QED
  BY <1>2, <1>4, <1>6 DEF SInv, AllFollowed

LEMMA NextSInv == IInv /\ SInv /\ [Next]_vars => SInv'
<1> SUFFICES ASSUME IInv, SInv, [Next]_vars
             PROVE  SInv'
  OBVIOUS
<1>1. PICK m : Marks(m) /\ AllFollowed(m)
  BY DEF SInv
<1>2. CASE \E c \in PeerMsgs : PeerSend(c)
  <2>1. PICK c \in PeerMsgs : PeerSend(c)
    BY <1>2
  <2>2. script \in Seq(PeerMsgs) /\ stream \in Seq(Cell)
    BY DEF IInv, TypeOK
  <2>3. script' = Append(script, c) /\ stream' = stream \o c
    BY <2>1, SentEffect
  <2>4. PICK n : /\ Cut(n, Append(script, c), stream \o c)
                 /\ \A i \in 1 .. Len(script) + 1 : n[i] = m[i]
    BY <1>1, <2>2, CutAppended DEF Marks
  <2>5. Marks(n)'
    BY <2>3, <2>4 DEF Marks, Cut
  <2>6. AllFollowed(n)'
    <3> SUFFICES ASSUME Intact'
                 PROVE  \E k \in 0 .. Len(script') : Follows(n, k)'
      BY DEF AllFollowed
    <3>1. PICK k \in 0 .. Len(script) : Follows(m, k)
      BY <1>1, IntactBefore DEF AllFollowed
    <3> QED
      BY <2>1, <2>4, <3>1, FollowsSent
  <2> QED
    BY <2>5, <2>6 DEF SInv
<1>3. CASE ~(\E c \in PeerMsgs : PeerSend(c))
  <2>1. Marks(m)'
    BY <1>1, <1>3, HeardStays DEF Marks, Cut
  <2>2. AllFollowed(m)'
    BY <1>1, <1>3, FollowsStep
  <2> QED
    BY <2>1, <2>2 DEF SInv
<1> QED
  BY <1>2, <1>3

LEMMA InductiveS == Spec => [](IInv /\ SInv)
<1>1. Init => IInv /\ SInv
  BY InitIInv, InitSInv
<1>2. IInv /\ SInv /\ [Next]_vars => (IInv /\ SInv)'
  BY NextIInv, NextSInv
<1> QED
  BY <1>1, <1>2, PTL DEF Spec

-----------------------------------------------------------------------------
(***************************************************************************)
(* How a connection ends.                                                  *)
(***************************************************************************)
Gone == peer \notin {"open", "closing"}

Lost == faults \cap {"overrun", "misread"} # {}

\* The program ends a connection for its peer, or for what it lost.
EndInv == /\ "hup" \in mask => peer \in {"reset", "broken"}
          /\ life # "live" => Gone \/ Lost

\* What recv() and send() do to the socket and the object.
LEMMA RecvPeer == /\ (PeerAfterRecv \in {"open", "closing"}) <=> ~Gone
                  /\ peer \in {"reset", "broken"} => PeerAfterRecv \in {"reset", "broken"}
BY DEF PeerAfterRecv, Gone

LEMMA RecvEnds == RecvZero => Gone \/ "overrun" \in RecvFaults(inb)
BY DEF RecvZero, Gone, RecvFaults, Flag

LEMMA SendPeer ==
    ASSUME NEW r, NEW p, send(r, p)
    PROVE  /\ (peer' \in {"open", "closing"}) <=> (p \in {"open", "closing"})
           /\ p \in {"reset", "broken"} => peer' \in {"reset", "broken"}
           /\ life' = life \/ peer' = "broken"
BY DEF send

\* The state that the invariant and the session look at, after a step of the
\* program.
LEMMA ThreadEnds ==
    ASSUME IInv, EndInv, Thread
    PROVE  /\ life = "live" /\ (Gone' <=> Gone)
           /\ peer \in {"reset", "broken"} => peer' \in {"reset", "broken"}
           /\ life' = "live" \/ Gone' \/ Lost'
           /\ mask' = mask \/ mask' = {} \/ (mask' = Readiness /\ peer' = peer)
<1> USE DEF object, loop, arrival, heard, answers, history, Unchanged, Gone, Lost
<1>1. CASE EpollWait
  BY <1>1 DEF EpollWait
<1>2. CASE EventHup
  BY <1>2 DEF EventHup, Event, EndInv
<1>3. CASE EventRecvEnd
  <2>1. /\ life = "live" /\ mask' = {} /\ peer' = PeerAfterRecv /\ RecvZero
        /\ faults' = faults \cup RecvFaults(inb) \cup Flag("touched", "out" \in mask)
    BY <1>3 DEF EventRecvEnd, Event, recv
  <2> QED
    BY <2>1, RecvPeer, RecvEnds
<1>4. CASE EventServe
  <2>1. life = "live" /\ mask' = {}
    BY <1>4 DEF EventServe, Event
  <2> DEFINE p == IF "in" \in mask THEN PeerAfterRecv ELSE peer
  <2>2. /\ (p \in {"open", "closing"}) <=> ~Gone
        /\ peer \in {"reset", "broken"} => p \in {"reset", "broken"}
    BY RecvPeer
  <2>3. IF "out" \in mask THEN send(outb, p) ELSE peer' = p /\ life' = life
    BY <1>4 DEF EventServe
  <2> HIDE DEF p
  <2> QED
    BY <2>1, <2>2, <2>3, SendPeer
<1>5. CASE AwaitMore \/ ChannelIdle \/ CloseNothing \/ CloseSocket
  BY <1>5 DEF AwaitMore, ChannelIdle, CloseNothing, CloseSocket, StateCall
<1>6. ASSUME NEW h, open_connection(h)
      PROVE  /\ Gone' <=> Gone
             /\ peer \in {"reset", "broken"} => peer' \in {"reset", "broken"}
             /\ life' = life \/ Gone'
  BY <1>6, SendPeer DEF open_connection, prepare_send
<1>7. CASE AwaitHandshake
  <2>1. life = "live" /\ mask' = mask
    BY <1>7 DEF AwaitHandshake, StateCall
  <2>2. UNCHANGED <<life, peer>> \/ \E h : open_connection(h)
    BY <1>7 DEF AwaitHandshake
  <2> QED
    BY <1>6, <2>1, <2>2
<1>8. CASE AwaitHandshakeCrash
  BY <1>8 DEF AwaitHandshakeCrash, StateCall
<1>9. CASE OpenConnection
  <2>1. life = "live" /\ mask' = mask /\ open_connection(hdr)
    BY <1>9 DEF OpenConnection, StateCall
  <2> QED
    BY <1>6, <2>1
<1>10. ASSUME NEW r, NEW len, receive_msg_payload(r, len)
       PROVE  /\ Gone' <=> Gone
              /\ peer \in {"reset", "broken"} => peer' \in {"reset", "broken"}
              /\ life' = life \/ Gone' \/ Lost'
  <2>1. peer' = PeerAfterRecv
    BY <1>10 DEF receive_msg_payload, recv
  <2>2. RecvZero \/ life' = life
    BY <1>10 DEF receive_msg_payload
  <2>3. RecvFaults(r) \subseteq faults'
    BY <1>10 DEF receive_msg_payload
  <2>4. RecvZero => Gone \/ Lost'
    BY <2>3 DEF RecvZero, RecvFaults, Flag
  <2> QED
    BY <2>1, <2>2, <2>4, RecvPeer
<1>11. CASE HandleOpenChannel
  <2>1. life = "live" /\ mask' = mask
    BY <1>11 DEF HandleOpenChannel, StateCall
  <2>2. \/ \E h : receive_msg_payload(AfterRead(inb, HeaderLen), h.plen)
        \/ UNCHANGED <<life, peer>>
    BY <1>11 DEF HandleOpenChannel
  <2> QED
    BY <1>10, <2>1, <2>2
<1>12. CASE ReceiveMsgPayload
  <2>1. life = "live" /\ mask' = mask
    BY <1>12 DEF ReceiveMsgPayload, StateCall
  <2>2. receive_msg_payload(inb, hdr.plen)
    BY <1>12 DEF ReceiveMsgPayload
  <2> QED
    BY <1>10, <2>1, <2>2
<1>13. CASE SendMsg
  <2>1. life = "live" /\ mask' = mask /\ send(Prepared(Reply), peer)
    BY <1>13 DEF SendMsg, StateCall, prepare_send
  <2> QED
    BY <2>1, SendPeer
<1> QED
  BY <1>1, <1>2, <1>3, <1>4, <1>5, <1>7, <1>8, <1>9, <1>11, <1>12, <1>13
     DEF Thread, StateFunction

\* The same after a step of the peer or the network.
LEMMA EnvironmentEnds ==
    ASSUME Environment
    PROVE  /\ life = "live" /\ life' = "live" /\ mask' = mask
           /\ Gone => Gone'
           /\ peer \in {"reset", "broken"} => peer' \in {"reset", "broken"}
           /\ (Gone' <=> Gone) \/ DeliverFin \/ PeerReset
BY DEF Environment, PeerSend, Deliver, PeerClose, DeliverFin, PeerReset, PeerReads,
       Attached, loop, object, Gone

LEMMA NextEndInv == IInv /\ EndInv /\ [Next]_vars => EndInv'
<1> SUFFICES ASSUME IInv, EndInv, [Next]_vars
             PROVE  EndInv'
  OBVIOUS
<1>1. CASE Environment
  BY <1>1, EnvironmentEnds DEF EndInv
<1>2. CASE Thread
  <2>1. "hup" \in Readiness => peer \in {"reset", "broken"}
    BY DEF Readiness, Flag
  <2>2. ("hup" \in mask => peer \in {"reset", "broken"})'
    BY <1>2, <2>1, ThreadEnds DEF EndInv
  <2> QED
    BY <1>2, <2>2, ThreadEnds DEF EndInv
<1>3. CASE PassedOver \/ UNCHANGED vars
  BY <1>3 DEF PassedOver, vars, object, arrival, history, EndInv, Gone, Lost
<1> QED
  BY <1>1, <1>2, <1>3 DEF Next

LEMMA InductiveEnd == Spec => [](IInv /\ EndInv)
<1>1. Init => IInv /\ EndInv
  BY InitIInv DEF Init, EndInv
<1>2. IInv /\ EndInv /\ [Next]_vars => (IInv /\ EndInv)'
  BY NextIInv, NextEndInv
<1> QED
  BY <1>1, <1>2, PTL DEF Spec

\* The property itself says where the headers are in the stream.
LEMMA AnswersBacked == IInv /\ Backed => AnswersHaveHeaders
<1> SUFFICES ASSUME IInv, Backed, faults \cap {"truncated", "misread"} = {}
             PROVE  AnswersHaveHeaders
  BY DEF AnswersHaveHeaders
<1>1. PICK at : Served(at)
  BY DEF Backed
<1>2. Len(stream) - Len(Unread) = Consumed
  <2>1. Len(Unread) = Len(stream) - Consumed /\ Consumed \in Nat /\ Len(stream) \in Nat
    BY UnreadAt
  <2> QED
    BY <2>1
<1>3. at \in [1 .. Len(sent) -> {p \in HeaderLen .. Len(stream) : stream[p].magic}]
  BY <1>1 DEF Served, Places
<1>4. ASSUME NEW n \in 1 .. Len(sent)
      PROVE  LET h    == HeaderAt(at[n])
                 past == at[n] + h.plen
             IN  /\ IF n = 1
                    THEN h.code = "open" /\ h.plen = 0 /\ sent[n].code = "ack"
                    ELSE h.plen > 0 /\ sent[n].code = "test"
                                   /\ sent[n].dest = (h.dest + 1) % ByteVals
                 /\ past <= Len(stream) - Len(Unread)
                 /\ \A later \in n + 1 .. Len(sent) : past + HeaderLen <= at[later]
  <2>1. Asks(at[n], n) /\ Past(at[n]) <= Len(stream) - Len(Unread)
    BY <1>1, <1>2 DEF Served
  <2>2. \A later \in n + 1 .. Len(sent) : Past(at[n]) + HeaderLen <= at[later]
    BY <1>1 DEF Served
  <2> QED
    BY <2>1, <2>2 DEF Asks, Past
<1> QED
  BY <1>3, <1>4 DEF AnswersHaveHeaders

\* Whatever the peer sends and wherever the program believes that messages begin,
\* as long as write() lost nothing and peek() showed what pop() returned: every
\* answer has a header of its own in the stream, with its magic, an OPEN first,
\* consumed with its payload before it was answered, and to its destination
\* (recyclr-net.cpp:44-55, 66-75, 95-119, 126-137).
THEOREM AnswersCorrect == Spec => []AnswersHaveHeaders
BY InductiveB, AnswersBacked, PTL

\* A connection whose peer speaks the protocol and has not ended it is neither
\* deleted nor closed nor stuck in the handshake, unless a buffer overflowed
\* (recyclr-net.cpp:44-47, 61-64, 154-158).
THEOREM SpuriousEndCorrect == Spec => []NoSpuriousEnd
<1>1. IInv /\ SInv /\ EndInv => NoSpuriousEnd
  <2> SUFFICES ASSUME SInv, EndInv, Intact, peer \in {"open", "closing"}
               PROVE  life = "live" /\ fn \notin {"close", "open_connection"}
    BY DEF NoSpuriousEnd
  <2>1. PICK m : AllFollowed(m)
    BY DEF SInv
  <2>2. PICK k \in 0 .. Len(script) : Follows(m, k)
    BY <2>1 DEF AllFollowed
  <2>3. ~Gone /\ ~Lost
    BY DEF Gone, Lost, Intact
  <2>4. life = "live"
    BY <2>3 DEF EndInv
  <2> QED
    BY <2>2, <2>4 DEF Follows
<1> QED
  BY <1>1, InductiveS, InductiveEnd, PTL

-----------------------------------------------------------------------------
(***************************************************************************)
(* What is unread, as messages.                                            *)
(***************************************************************************)
\* FlattenSeq is the recursion that it is defined by, whichever function
\* satisfies it.
LEMMA FlattenAt ==
    ASSUME NEW c, Len(c) \in Nat \ {0}, NEW f,
           f = [i \in 1 .. Len(c) |-> IF i = 1 THEN c[i] ELSE f[i - 1] \o c[i]]
    PROVE  FlattenSeq(c) = f[Len(c)]
<1> DEFINE n == Len(c)
           Recursion(x) == x = [i \in 1 .. n |-> IF i = 1 THEN c[i] ELSE x[i - 1] \o c[i]]
           g == CHOOSE x : Recursion(x)
           T == {i \in 1 .. n : g[i] # f[i]}
<1>1. FlattenSeq(c) = g[n]
  BY DEF FlattenSeq
<1>2. Recursion(f)
  OBVIOUS
<1>3. Recursion(g)
  <2> HIDE DEF Recursion
  <2> QED
    BY <1>2
<1> HIDE DEF g
<1>4. T = {}
  <2> SUFFICES ASSUME T # {}
               PROVE  FALSE
    OBVIOUS
  <2>1. T \in SUBSET Nat
    OBVIOUS
  <2>2. PICK i \in T : \A j \in T : i <= j
    BY <2>1, MessagesAssumption, S!LeastOf
  <2>3. i \in 1 .. n /\ g[i] # f[i]
    OBVIOUS
  <2>4. /\ g[i] = IF i = 1 THEN c[i] ELSE g[i - 1] \o c[i]
        /\ f[i] = IF i = 1 THEN c[i] ELSE f[i - 1] \o c[i]
    BY <1>2, <1>3, <2>3
  <2>5. i # 1
    BY <2>3, <2>4
  <2>6. i - 1 \in 1 .. n /\ ~(i <= i - 1)
    BY <2>3, <2>5
  <2>7. g[i - 1] = f[i - 1]
    BY <2>2, <2>6
  <2> QED
    BY <2>3, <2>4, <2>7
<1>5. n \in 1 .. n
  OBVIOUS
<1> QED
  BY <1>1, <1>4, <1>5

\* The cells between two marks are those of the message.
LEMMA MessageAt ==
    ASSUME IInv, NEW m, Marks(m), NEW i \in 1 .. Len(script)
    PROVE  /\ SubSeq(stream, m[i] + 1, m[i + 1]) = script[i]
           /\ m[i] \in Nat /\ m[i + 1] \in Nat /\ m[i] <= m[i + 1] /\ m[i + 1] <= Len(stream)
<1>1. script \in Seq(PeerMsgs) /\ stream \in Seq(Cell) /\ Len(script) \in Nat
      /\ Len(stream) \in Nat
  BY DEF IInv, TypeOK
<1>2. PICK c : c = script[i]
  OBVIOUS
<1>3. c \in Seq(Cell) /\ Len(c) \in Nat /\ Len(c) >= 1
  BY <1>1, <1>2, HeadersType DEF HeaderLen
<1>4. /\ m \in [1 .. Len(script) + 1 -> Nat] /\ m[Len(script) + 1] = Len(stream)
      /\ m[i + 1] = m[i] + Len(c)
      /\ \A q \in 1 .. Len(c) : stream[m[i] + q] = c[q]
      /\ \A j \in i + 1 .. Len(script) + 1 : m[i + 1] <= m[j]
  BY <1>2 DEF Marks, Cut
<1>5. m[i] \in Nat /\ m[i + 1] \in Nat /\ m[i] <= m[i + 1]
  BY <1>1, <1>3, <1>4
<1>6. m[i + 1] <= Len(stream)
  <2>1. Len(script) + 1 \in i + 1 .. Len(script) + 1
    BY <1>1
  <2> QED
    BY <1>4, <2>1
<1> DEFINE t == SubSeq(stream, m[i] + 1, m[i + 1])
<1>7. \A p \in m[i] + 1 .. m[i + 1] : stream[p] \in Cell
  BY <1>1, <1>5, <1>6
<1>8. /\ t \in Seq(Cell) /\ Len(t) = Len(c)
      /\ \A q \in 1 .. Len(c) : t[q] = stream[m[i] + 1 + q - 1]
  <2>1. m[i] + 1 <= m[i + 1] /\ m[i + 1] - (m[i] + 1) + 1 = Len(c)
    BY <1>3, <1>4, <1>5, SMTT(30)
  <2>2. m[i] + 1 \in Int /\ m[i + 1] \in Int
    BY <1>5
  <2> QED
    BY <1>7, <2>1, <2>2, SubSeqProperties, SMTT(30)
<1> HIDE DEF t
<1>9. \A q \in 1 .. Len(c) : m[i] + 1 + q - 1 = m[i] + q
  BY <1>3, <1>5
<1>10. \A q \in 1 .. Len(t) : t[q] = c[q]
  BY <1>4, <1>8, <1>9
<1>11. t = c
  BY <1>3, <1>8, <1>10, SeqEqual
<1> QED
  BY <1>2, <1>5, <1>6, <1>11 DEF t

\* The stream behind a mark is what its messages look like.
LEMMA StreamBehind ==
    ASSUME IInv, NEW m, Marks(m), NEW k \in 0 .. Len(script)
    PROVE  FlattenSeq(SubSeq(script, k + 1, Len(script)))
               = SubSeq(stream, m[k + 1] + 1, Len(stream))
<1> DEFINE n == Len(script) - k
           c == SubSeq(script, k + 1, Len(script))
           a == m[k + 1] + 1
           f == [i \in 1 .. n |-> SubSeq(stream, a, m[k + 1 + i])]
<1>1. script \in Seq(PeerMsgs) /\ stream \in Seq(Cell) /\ Len(script) \in Nat
      /\ Len(stream) \in Nat /\ k \in Nat
  BY DEF IInv, TypeOK
<1>2. /\ n \in Nat /\ Len(c) = n /\ c \in Seq(PeerMsgs)
      /\ \A i \in 1 .. n : k + i \in 1 .. Len(script) /\ c[i] = script[k + i]
  BY <1>1
<1>3. m[k + 1] \in Nat /\ m[Len(script) + 1] = Len(stream)
  BY MarkType DEF Marks, Cut
<1> HIDE DEF c
<1>4. Len(c) = n /\ \A i \in 1 .. n : c[i] = script[k + i]
  BY <1>2
<1>5. CASE n = 0
  <2>1. FlattenSeq(c) = <<>>
    <3>1. c = <<>>
      BY <1>2, <1>5
    <3>2. Len(c) = 0
      BY <3>1
    <3> QED
      BY <3>1, <3>2 DEF FlattenSeq
  <2>2. k = Len(script)
    BY <1>1, <1>5
  <2>3. a \in Int /\ Len(stream) \in Int /\ Len(stream) < a
    BY <1>1, <1>3, <2>2
  <2>4. SubSeq(stream, a, Len(stream)) = <<>>
    BY <2>3, SubSeqEmpty
  <2> QED
    BY <2>1, <2>4 DEF c
<1>6. CASE n # 0
  <2>1. ASSUME NEW i \in 1 .. n
        PROVE  /\ SubSeq(stream, m[k + i] + 1, m[k + 1 + i]) = c[i]
               /\ m[k + i] \in Nat /\ m[k + 1 + i] \in Nat
               /\ m[k + i] <= m[k + 1 + i] /\ m[k + 1 + i] <= Len(stream)
    <3>1. k + i \in 1 .. Len(script) /\ k + i + 1 = k + 1 + i /\ c[i] = script[k + i]
      BY <1>1, <1>2, <1>4
    <3> QED
      BY <3>1, MessageAt
  <2>2. ASSUME NEW i \in 1 .. n
        PROVE  f[i] = IF i = 1 THEN c[i] ELSE f[i - 1] \o c[i]
    <3>1. f[i] = SubSeq(stream, a, m[k + 1 + i])
      OBVIOUS
    <3>2. CASE i = 1
      <4>1. k + i = k + 1
        BY <3>2
      <4> QED
        BY <2>1, <3>1, <3>2, <4>1
    <3>3. CASE i # 1
      <4>1. i - 1 \in 1 .. n /\ k + 1 + (i - 1) = k + i
        BY <1>1, <1>2, <3>3
      <4>2. f[i - 1] = SubSeq(stream, a, m[k + i])
        BY <4>1
      <4>3. m[k + 1] <= m[k + i]
        <5>1. k + 1 \in 1 .. Len(script) /\ k + i \in k + 1 + 1 .. Len(script) + 1
          BY <1>1, <1>2, <3>3
        <5>2. m[k + 1 + 1] <= m[k + i]
          BY <5>1 DEF Marks, Cut
        <5>3. m[k + 1] <= m[k + 1 + 1] /\ m[k + 1 + 1] \in Nat
          BY <5>1, MessageAt
        <5>4. m[k + i] \in Nat
          BY <2>1
        <5> HIDE DEF f, a, n
        <5> QED
          BY <1>3, <5>2, <5>3, <5>4
      <4>4. /\ a \in 1 .. Len(stream) + 1 /\ m[k + i] \in a - 1 .. Len(stream)
            /\ m[k + 1 + i] \in m[k + i] .. Len(stream)
        <5>1. /\ m[k + i] \in Nat /\ m[k + 1 + i] \in Nat
              /\ m[k + i] <= m[k + 1 + i] /\ m[k + 1 + i] <= Len(stream)
          BY <2>1
        <5>2. a = m[k + 1] + 1 /\ Len(stream) \in Nat /\ m[k + 1] \in Nat
          BY <1>1, <1>3
        <5> HIDE DEF f, a, n
        <5> QED
          BY <4>3, <5>1, <5>2, SMTT(30)
      <4>5. SubSeq(stream, a, m[k + i]) \o SubSeq(stream, m[k + i] + 1, m[k + 1 + i])
                = SubSeq(stream, a, m[k + 1 + i])
        <5> HIDE DEF a
        <5> QED
          BY <1>1, <4>4, ConcatAdjacentSubSeq
      <4> QED
        BY <2>1, <3>1, <3>3, <4>2, <4>5
    <3> QED
      BY <3>2, <3>3
  <2>3. f = [i \in 1 .. Len(c) |-> IF i = 1 THEN c[i] ELSE f[i - 1] \o c[i]]
    <3>1. f = [i \in 1 .. n |-> f[i]]
      OBVIOUS
    <3> HIDE DEF f, n
    <3> QED
      BY <1>4, <2>2, <3>1
  <2>4. Len(c) \in Nat \ {0} /\ f[Len(c)] = SubSeq(stream, a, Len(stream))
    <3>1. n \in 1 .. n /\ k + 1 + n = Len(script) + 1
      BY <1>1, <1>2, <1>6
    <3> QED
      BY <1>2, <1>3, <1>4, <1>6, <3>1
  <2> HIDE DEF f
  <2> QED
    BY <2>3, <2>4, FlattenAt DEF c
<1> QED
  BY <1>5, <1>6

\* The same as a part of the stream.
LEMMA UnreadIs ==
    ASSUME IInv, "truncated" \notin faults
    PROVE  Unread = SubSeq(stream, Consumed + 1, Len(stream))
<1>1. PICK a, l : a = Consumed /\ l = Len(stream)
  OBVIOUS
<1>2. /\ Unread \in Seq(Cell) /\ Len(Unread) = l - a
      /\ a \in Nat /\ l \in Nat /\ a <= l
      /\ \A i \in 1 .. l - a : Unread[i] = stream[a + i]
  BY <1>1, UnreadAt
<1> DEFINE rest == SubSeq(stream, a + 1, l)
<1>3. \A p \in a + 1 .. l : stream[p] \in Cell
  <2>1. stream \in Seq(Cell) /\ \A p \in a + 1 .. l : p \in 1 .. Len(stream)
    BY <1>1, <1>2 DEF IInv, TypeOK
  <2> QED
    BY <2>1, ElementOfSeq
<1>4. /\ rest \in Seq(Cell) /\ Len(rest) = IF a + 1 <= l THEN l - (a + 1) + 1 ELSE 0
      /\ \A i \in 1 .. l - (a + 1) + 1 : rest[i] = stream[a + 1 + i - 1]
  <2>1. a + 1 \in Int /\ l \in Int
    BY <1>2
  <2> QED
    BY <1>3, <2>1, SubSeqProperties
<1> HIDE DEF rest
<1>5. Len(rest) = l - a
  BY <1>2, <1>4
<1>6. \A i \in 1 .. l - a : i \in 1 .. l - (a + 1) + 1 /\ a + 1 + i - 1 = a + i
  BY <1>2
<1>7. \A i \in 1 .. Len(rest) : rest[i] = Unread[i]
  BY <1>2, <1>4, <1>5, <1>6
<1>8. rest = Unread
  BY <1>2, <1>4, <1>5, <1>7, SeqEqual
<1> QED
  BY <1>1, <1>8 DEF rest

\* A part of a part of a sequence.
LEMMA SubSeqWithin ==
    ASSUME NEW T, NEW s \in Seq(T), NEW a \in Nat, NEW b \in a .. Len(s),
           NEW h \in 0 .. b - a
    PROVE  SubSeq(SubSeq(s, a + 1, b), h + 1, b - a) = SubSeq(s, a + h + 1, b)
<1>1. Len(s) \in Nat /\ b \in Nat /\ h \in Nat /\ a <= b /\ b <= Len(s)
  OBVIOUS
<1> DEFINE t == SubSeq(s, a + 1, b)
<1>2. t \in Seq(T) /\ Len(t) = b - a /\ \A i \in 1 .. b - a : t[i] = s[a + i]
  BY <1>1
<1> HIDE DEF t
<1>3. /\ SubSeq(t, h + 1, b - a) \in Seq(T)
      /\ Len(SubSeq(t, h + 1, b - a)) = b - a - h
      /\ \A i \in 1 .. b - a - h : SubSeq(t, h + 1, b - a)[i] = t[h + i]
  BY <1>1, <1>2
<1>4. /\ SubSeq(s, a + h + 1, b) \in Seq(T)
      /\ Len(SubSeq(s, a + h + 1, b)) = b - a - h
      /\ \A i \in 1 .. b - a - h : SubSeq(s, a + h + 1, b)[i] = s[a + h + i]
  BY <1>1
<1>5. \A i \in 1 .. b - a - h : t[h + i] = s[a + h + i]
  BY <1>1, <1>2
<1>6. SubSeq(t, h + 1, b - a) = SubSeq(s, a + h + 1, b)
  BY <1>1, <1>3, <1>4, <1>5, SeqEqual
<1> QED
  BY <1>6 DEF t

\* With a peer that speaks the protocol, the state functions start where a
\* message does, or its payload, and exactly the answers to the messages
\* consumed so far were sent (recyclr-net.cpp:32-139).
THEOREM InStepCorrect == Spec => []InStep
<1>1. ASSUME IInv, SInv, Intact
      PROVE  \E k \in 0 .. Len(script) :
                 LET current == fn \in {"receive_msg_payload", "send_msg"}
                     rest    == FlattenSeq(SubSeq(script, k + 1, Len(script)))
                 IN  /\ current => k > 0
                     /\ Unread = IF fn = "receive_msg_payload"
                                 THEN SubSeq(script[k], HeaderLen + 1, Len(script[k])) \o rest
                                 ELSE rest
                     /\ sent = Replies(SubSeq(Asked, 1, IF current THEN k - 1 ELSE k))
  <2>1. PICK m : Marks(m) /\ AllFollowed(m)
    BY <1>1 DEF SInv
  <2>2. PICK k \in 0 .. Len(script) : Follows(m, k)
    BY <1>1, <2>1 DEF AllFollowed
  <2> DEFINE rest == SubSeq(stream, m[k + 1] + 1, Len(stream))
  <2>3. /\ Unread \in Seq(Cell) /\ Len(Unread) = Len(stream) - Consumed
        /\ Consumed \in Nat /\ Len(stream) \in Nat /\ Consumed <= Len(stream)
        /\ \A i \in 1 .. Len(stream) - Consumed : Unread[i] = stream[Consumed + i]
    BY <1>1, UnreadAt DEF Intact
  <2>4. script \in Seq(PeerMsgs) /\ stream \in Seq(Cell)
    BY <1>1 DEF IInv, TypeOK
  <2>5. ASSUME Busy
        PROVE  k > 0 /\ k \in 1 .. Len(script)
    BY <2>2, <2>4, <2>5, AskedIs, HeadersType DEF Follows, S!Asking
  <2>6. m[k + 1] \in Nat /\ m[k + 1] <= Len(stream)
    <3>1. m[k + 1] \in Nat /\ Len(script) \in Nat
      BY <1>1, <2>1, MarkType
    <3>2. CASE k = Len(script)
      BY <2>1, <2>3, <3>1, <3>2 DEF Marks, Cut
    <3>3. CASE k # Len(script)
      <4>1. k + 1 \in 1 .. Len(script)
        BY <3>1, <3>3
      <4> QED
        BY <1>1, <2>1, <2>3, <4>1, MessageAt
    <3> QED
      BY <3>1, <3>2, <3>3
  <2>7. rest = FlattenSeq(SubSeq(script, k + 1, Len(script)))
    BY <1>1, <2>1, StreamBehind
  <2>8. Unread = SubSeq(stream, Consumed + 1, Len(stream))
    BY <1>1, UnreadIs DEF Intact
  <2>9. ASSUME fn # "receive_msg_payload"
        PROVE  Unread = rest
    <3>1. Consumed = m[k + 1]
      BY <2>2, <2>6, <2>9 DEF Follows
    <3> QED
      BY <2>8, <3>1
  <2>10. ASSUME fn = "receive_msg_payload"
         PROVE  Unread = SubSeq(script[k], HeaderLen + 1, Len(script[k])) \o rest
    <3>1. k \in 1 .. Len(script)
      BY <2>5, <2>10 DEF Busy
    <3> DEFINE a == m[k]
               b == m[k + 1]
    <3>2. /\ SubSeq(stream, a + 1, b) = script[k]
          /\ a \in Nat /\ b \in Nat /\ a <= b /\ b <= Len(stream)
      BY <1>1, <2>1, <3>1, MessageAt
    <3>3. b = a + Len(script[k])
      BY <2>1, <3>1 DEF Marks, Cut
    <3>4. /\ Len(script[k]) = HeaderLen + Asked[k].plen
          /\ Asked[k].plen \in Nat
      BY <1>1, <2>4, <3>1, AskedIs, HeadersType DEF Intact, WellFormed
    <3>5. Consumed = b - Asked[k].plen
      BY <2>2, <2>10 DEF Follows
    <3>6. PICK l, p, u, n : /\ l = Len(script[k]) /\ p = Asked[k].plen
                            /\ u = Consumed /\ n = Len(stream)
      OBVIOUS
    <3> HIDE DEF a, b
    <3>7. /\ u = a + HeaderLen /\ HeaderLen \in 0 .. b - a /\ b - a = l
          /\ a \in Nat /\ b \in a .. n /\ n \in Nat
      <4>1. /\ a \in Nat /\ b \in Nat /\ a <= b /\ b <= n /\ n \in Nat
            /\ b = a + l /\ l = HeaderLen + p /\ p \in Nat /\ u = b - p
        BY <2>3, <3>2, <3>3, <3>4, <3>5, <3>6
      <4> QED
        BY <4>1 DEF HeaderLen
    <3>8. SubSeq(stream, u + 1, b) = SubSeq(script[k], HeaderLen + 1, l)
      <4>1. SubSeq(SubSeq(stream, a + 1, b), HeaderLen + 1, b - a)
                = SubSeq(stream, a + HeaderLen + 1, b)
        BY <2>4, <3>6, <3>7, SubSeqWithin
      <4> QED
        BY <3>2, <3>7, <4>1
    <3>9. SubSeq(stream, u + 1, b) \o SubSeq(stream, b + 1, n)
              = SubSeq(stream, u + 1, n)
      <4>1. /\ u + 1 \in 1 .. n + 1 /\ b \in (u + 1) - 1 .. n
            /\ n \in b .. n
        BY <3>7 DEF HeaderLen
      <4> QED
        BY <2>4, <3>6, <4>1, ConcatAdjacentSubSeq
    <3> QED
      BY <2>8, <3>6, <3>8, <3>9 DEF b
  <2>11. sent = Replies(SubSeq(Asked, 1, IF Busy THEN k - 1 ELSE k))
    BY <2>2, SameSession DEF Follows
  <2> HIDE DEF rest
  <2> QED
    BY <2>5, <2>7, <2>9, <2>10, <2>11 DEF Busy
<1>2. IInv /\ SInv => InStep
  BY <1>1 DEF InStep
<1> QED
  BY <1>2, InductiveS, PTL

-----------------------------------------------------------------------------
(***************************************************************************)
(* Every intact step is a step of the abstract session.                    *)
(***************************************************************************)
\* The answers sent are the first of those that are owed.
Ahead == Intact => /\ Len(sent) \in Nat /\ Len(sent) <= Len(Replies(Asked))
                   /\ \A q \in 1 .. Len(sent) : sent[q] = Replies(Asked)[q]

LEMMA AnswersAhead == IInv /\ SInv => Ahead
<1> SUFFICES ASSUME IInv, SInv, Intact
             PROVE  /\ Len(sent) \in Nat /\ Len(sent) <= Len(Replies(Asked))
                    /\ \A q \in 1 .. Len(sent) : sent[q] = Replies(Asked)[q]
  BY DEF Ahead
<1>1. PICK m : Marks(m) /\ AllFollowed(m)
  BY DEF SInv
<1>2. PICK k \in 0 .. Len(script) : Follows(m, k)
  BY <1>1 DEF AllFollowed
<1>3. /\ Asked \in Seq(Header) /\ Len(Asked) = Len(script) /\ Len(script) \in Nat
      /\ Len(sent) \in Nat
  BY AskedIs, HeadersType DEF IInv, TypeOK
<1>4. PICK n \in 0 .. Len(script) : sent = S!Replies(SubSeq(Asked, 1, n))
  <2>1. sent = S!Replies(SubSeq(Asked, 1, IF Busy THEN k - 1 ELSE k))
    BY <1>2 DEF Follows
  <2>2. CASE Busy
    <3>1. k - 1 \in 0 .. Len(script)
      BY <1>2, <1>3, <2>2 DEF Follows, S!Asking
    <3> QED
      BY <2>1, <2>2, <3>1
  <2>3. CASE ~Busy
    BY <2>1, <2>3
  <2> QED
    BY <2>2, <2>3
<1>5. /\ Len(S!Replies(SubSeq(Asked, 1, n))) = S!Rank(Asked, n)
      /\ S!Rank(Asked, n) \in 0 .. Len(S!Replies(Asked))
      /\ \A q \in 1 .. S!Rank(Asked, n) :
            S!Replies(SubSeq(Asked, 1, n))[q] = S!Replies(Asked)[q]
  BY <1>3, MessagesAssumption, S!RepliesPrefix
<1>6. S!Replies(Asked) = Replies(Asked)
  BY SameSession
<1>7. Len(sent) <= Len(Replies(Asked))
  BY <1>3, <1>4, <1>5, <1>6
<1> QED
  BY <1>3, <1>4, <1>5, <1>6, <1>7

\* One answer at a time, and only from the program.
LEMMA AnswersOne ==
    ASSUME IInv, [Next]_vars, ~(\E c \in PeerMsgs : PeerSend(c)), Intact'
    PROVE  /\ UNCHANGED <<script, Asked>>
           /\ sent' = sent \/ (Thread /\ \E x : sent' = Append(sent, x))
<1>1. faults' \cap {"truncated", "misread"} = {} /\ "truncated" \notin faults'
  BY DEF Intact
<1>2. sent' = sent \/ \E x : sent' = Append(sent, x)
  <2>1. CASE Quiet
    BY <2>1 DEF Quiet
  <2>2. CASE AwaitHandshake
    BY <1>1, <2>2, AwaitEffect
  <2>3. CASE HandleOpenChannel
    BY <1>1, <2>3, ChannelEffect
  <2>4. CASE ReceiveMsgPayload
    BY <1>1, <2>4, ReceiveEffect
  <2>5. CASE SendMsg
    BY <2>5, SendEffect
  <2> QED
    BY <1>1, <2>1, <2>2, <2>3, <2>4, <2>5, StepCases, QuietStep
<1>3. Environment => sent' = sent
  BY DEF Environment, PeerSend, Deliver, PeerClose, DeliverFin, PeerReset, PeerReads,
         history, answers
<1>4. UNCHANGED vars => sent' = sent
  BY DEF vars
<1>5. PassedOver => sent' = sent
  BY DEF PassedOver, history, answers
<1>6. script' = script
  BY HeardStays
<1> QED
  BY <1>2, <1>3, <1>4, <1>5, <1>6, AskedStays DEF Next

LEMMA EchoInit == Init => Echo!Init
BY DEF Init, Asked, Echo!Init

LEMMA EchoStep ==
    ASSUME IInv, EndInv, Ahead', [Next]_vars, Intact'
    PROVE  [Echo!Next]_(Echo!vars)
<1> USE DEF Echo!vars
<1>1. CASE \E c \in PeerMsgs : PeerSend(c)
  <2>1. PICK c \in PeerMsgs : PeerSend(c)
    BY <1>1
  <2>2. Asked' = Append(Asked, ReadHeader(c))
    BY <2>1, AskedEffect
  <2>3. Echo!Ask(ReadHeader(c))
    BY <2>1, <2>2 DEF PeerSend, Attached, object, loop, answers, Echo!Ask
  <2> QED
    BY <2>3 DEF Echo!Next
<1>2. CASE ~(\E c \in PeerMsgs : PeerSend(c)) /\ Environment
  <2>1. UNCHANGED <<Asked, sent>> /\ life = "live" /\ life' = "live"
    <3>1. sent' = sent
      BY <1>2 DEF Environment, PeerSend, Deliver, PeerClose, DeliverFin, PeerReset, PeerReads,
                  history, answers
    <3> QED
      BY <1>2, <3>1, EnvironmentEnds, HeardStays, AskedStays
  <2>2. CASE Gone' <=> Gone
    BY <2>1, <2>2 DEF Gone
  <2>3. CASE ~(Gone' <=> Gone)
    <3>1. ~Gone /\ Gone'
      BY <1>2, <2>3, EnvironmentEnds
    <3>2. Echo!Leave
      BY <2>1, <3>1 DEF Gone, Echo!Leave
    <3> QED
      BY <3>2 DEF Echo!Next
  <2> QED
    BY <2>2, <2>3
<1>3. CASE ~(\E c \in PeerMsgs : PeerSend(c)) /\ Thread
  <2>1. /\ life = "live" /\ (Gone' <=> Gone)
        /\ life' = "live" \/ Gone
    <3>1. ~Lost'
      BY DEF Lost, Intact
    <3> QED
      BY <1>3, <3>1, ThreadEnds
  <2>2. /\ UNCHANGED Asked
        /\ sent' = sent \/ \E x : sent' = Append(sent, x)
    BY <1>3, AnswersOne
  <2>3. CASE sent' = sent
    <3>1. CASE life' = "live"
      BY <2>1, <2>2, <2>3, <3>1 DEF Gone
    <3>2. CASE life' # "live"
      <4>1. Echo!End
        BY <2>1, <2>2, <2>3, <3>2 DEF Gone, Echo!End
      <4> QED
        BY <4>1 DEF Echo!Next
    <3> QED
      BY <3>1, <3>2
  <2>4. CASE \E x : sent' = Append(sent, x)
    <3>1. PICK x : sent' = Append(sent, x)
      BY <2>4
    <3>2. sent \in Seq(Header) /\ Len(sent) \in Nat
      BY DEF IInv, TypeOK
    <3>3. Len(sent') = Len(sent) + 1 /\ sent'[Len(sent) + 1] = x
      BY <3>1, <3>2
    <3>4. /\ Len(sent') <= Len(Replies(Asked'))
          /\ \A q \in 1 .. Len(sent') : sent'[q] = Replies(Asked')[q]
          /\ Len(sent') \in Nat
      BY DEF Ahead
    <3>5. /\ Echo!Replies(Asked) = S!Replies(Asked) /\ Replies(Asked) = S!Replies(Asked)
          /\ Len(S!Replies(Asked)) \in Nat
      <4>1. Asked \in Seq(Header) /\ Len(Asked) \in Nat
        BY AskedIs, HeadersType DEF IInv, TypeOK
      <4>2. Len(S!Replies(Asked)) = S!Cardinality(S!Asking(Asked))
        BY <4>1, MessagesAssumption, S!RepliesAt
      <4>3. S!Cardinality(S!Asking(Asked)) \in Nat
        BY <4>1, MessagesAssumption, S!AskingFinite
      <4> QED
        BY <4>2, <4>3, SameSession
    <3>6. Len(sent) + 1 \in 1 .. Len(sent')
      BY <3>2, <3>3
    <3>7. /\ Len(sent) < Len(Echo!Replies(Asked))
          /\ sent' = Append(sent, Echo!Replies(Asked)[Len(sent) + 1])
      <4>1. Asked' = Asked
        BY <2>2
      <4>2. Len(sent) + 1 <= Len(Echo!Replies(Asked))
        BY <3>3, <3>4, <3>5, <4>1
      <4>3. x = Echo!Replies(Asked)[Len(sent) + 1]
        BY <3>3, <3>4, <3>5, <3>6, <4>1
      <4> QED
        BY <3>1, <3>2, <3>5, <4>2, <4>3
    <3>8. Echo!Answer
      <4>1. (life # "live")' \in {FALSE, Gone}
        BY <2>1
      <4> QED
        BY <2>1, <2>2, <3>7, <4>1 DEF Gone, Echo!Answer
    <3> QED
      BY <3>8 DEF Echo!Next
  <2> QED
    BY <2>2, <2>3, <2>4
<1>4. CASE PassedOver \/ UNCHANGED vars
  <2>1. UNCHANGED <<Asked, sent, peer, life>>
    BY <1>4, AskedStays DEF PassedOver, arrival, history, heard, answers, vars
  <2> QED
    BY <2>1
<1> QED
  BY <1>1, <1>2, <1>3, <1>4 DEF Next

\* Every step of a connection that has lost nothing is a step of the abstract
\* session, for every peer, buffer and socket: the next answer owed is sent, or
\* none, and the session ends only after its peer (recyclr-net.cpp:32-161,
\* 398-423).
THEOREM EchoStepsCorrect == Spec => EchoSteps
<1>1. IInv /\ EndInv /\ Ahead' /\ [Next]_vars => [Intact' => Echo!Next]_(Echo!vars)
  BY EchoStep
<1>2. Spec => [](IInv /\ EndInv /\ Ahead)
  BY InductiveS, InductiveEnd, AnswersAhead, PTL
<1> QED
  BY <1>1, <1>2, PTL DEF Spec, EchoSteps

-----------------------------------------------------------------------------
(***************************************************************************)
(* Little enough to fit: no fault, and no wrapped ring.                    *)
(***************************************************************************)
Losses == {"truncated", "overrun", "misread"}

\* How much of the stream is gone when r is what _in_buffer holds.
Behind(r) == Len(stream) - (r.size + Len(rcvq) + Len(wire))

\* The cells of r lie in order and have moved no further than the stream.
Straight(r) == r.end = r.start + r.size /\ r.start <= Behind(r)

RoomInv == Len(stream) < BufferLen => faults \cap Losses = {} /\ Straight(inb)

\* The numbers that the room depends on.
Fits(r) == /\ Buffer(r) /\ Straight(r) /\ Behind(r) \in Nat
           /\ Len(stream) < BufferLen

LEMMA FitsNumbers ==
    ASSUME TypeOK, NEW r, Fits(r)
    PROVE  /\ r.start \in Nat /\ r.end \in Nat /\ r.size \in Nat
           /\ Len(rcvq) \in Nat /\ Len(wire) \in Nat /\ Len(stream) \in Nat
           /\ r.end + Len(rcvq) < BufferLen /\ r.size + Len(rcvq) < BufferLen
           /\ BufferLen \in Nat
<1>1. /\ Len(rcvq) \in Nat /\ Len(wire) \in Nat /\ Len(stream) \in Nat
      /\ BufferLen \in Nat
  BY CapacityPositive DEF TypeOK
<1>2. r.start \in Nat /\ r.end \in Nat /\ r.size \in Nat
  BY CapacityPositive DEF Fits, Buffer, Ring, Slot
<1>3. r.end = r.start + r.size /\ r.start <= Behind(r) /\ Len(stream) < BufferLen
  BY DEF Fits, Straight
<1>4. Behind(r) + r.size + Len(rcvq) + Len(wire) = Len(stream)
  BY <1>1, <1>2 DEF Behind
<1>5. Behind(r) \in Nat
  BY DEF Fits
<1> QED
  BY <1>1, <1>2, <1>3, <1>4, <1>5, SMTT(30)

\* read leaves a ring that has not wrapped in order.
LEMMA StraightRead ==
    ASSUME NEW r, Buffer(r), r.end = r.start + r.size, r.end < BufferLen, NEW n \in 0 .. r.size
    PROVE  /\ Buffer(AfterRead(r, n)) /\ AfterRead(r, n).size = r.size - n
           /\ AfterRead(r, n).start \in Nat /\ AfterRead(r, n).size \in Nat
           /\ AfterRead(r, n).end = AfterRead(r, n).start + AfterRead(r, n).size
           /\ AfterRead(r, n).start <= r.start + n
<1> DEFINE t == AfterRead(r, n)
<1>1. Buffer(t) /\ t.size = r.size - n
  BY ReadBuffer
<1>2. /\ r.start \in Nat /\ r.end \in Nat /\ r.size \in Nat /\ n \in Nat /\ n <= r.size
      /\ BufferLen \in Nat
  BY CapacityPositive DEF Buffer, Ring, Slot
<1>3. ReadLen(r, n) = n
  BY <1>2 DEF ReadLen, Least
<1>4. t.end = t.start + t.size /\ t.start <= r.start + n
  <2>1. CASE n = 0
    <3>1. t = r
      BY <1>3, <2>1 DEF AfterRead
    <3> QED
      BY <1>2, <2>1, <3>1
  <2>2. CASE n # 0 /\ n = r.size
    <3>1. t.start = 0 /\ t.end = 0 /\ t.size = 0
      BY <1>3, <2>2 DEF AfterRead
    <3> QED
      BY <1>2, <3>1
  <2>3. CASE n # 0 /\ n # r.size
    <3>1. n < BufferLen - r.start
      BY <1>2, <2>3
    <3>2. t.start = r.start + n /\ t.end = r.end
      BY <1>3, <2>3, <3>1 DEF AfterRead
    <3> HIDE DEF t
    <3> QED
      BY <1>1, <1>2, <3>2
  <2> QED
    BY <2>1, <2>2, <2>3
<1> HIDE DEF t
<1>5. t.start \in Nat /\ t.size \in Nat
  BY <1>1, CapacityPositive DEF Buffer, Ring, Slot
<1> QED
  BY <1>1, <1>4, <1>5 DEF t

LEMMA FitsRead ==
    ASSUME TypeOK, NEW r, Fits(r), NEW n \in 0 .. r.size
    PROVE  Fits(AfterRead(r, n))
<1> DEFINE t == AfterRead(r, n)
<1>1. /\ r.start \in Nat /\ r.end \in Nat /\ r.size \in Nat /\ n \in Nat /\ n <= r.size
      /\ Len(rcvq) \in Nat /\ Len(wire) \in Nat /\ Len(stream) \in Nat
      /\ r.end < BufferLen
      /\ r.end = r.start + r.size /\ r.start <= Behind(r) /\ Behind(r) \in Nat /\ Buffer(r)
  BY FitsNumbers DEF Fits, Straight
<1>2. /\ Buffer(t) /\ t.size = r.size - n /\ t.start \in Nat /\ t.end = t.start + t.size
      /\ t.start <= r.start + n
  BY <1>1, StraightRead
<1> HIDE DEF t
<1>3. Behind(t) = Behind(r) + n
  BY <1>1, <1>2 DEF Behind
<1>4. t.start <= Behind(t) /\ Behind(t) \in Nat
  BY <1>1, <1>2, <1>3, SMTT(30)
<1> QED
  BY <1>2, <1>4 DEF t, Fits, Straight

\* recv() finds room, and keeps it in order.
LEMMA FitsRecv ==
    ASSUME TypeOK, NEW r, Fits(r)
    PROVE  /\ RecvFaults(r) = {}
           /\ Buffer(write(r, Taken)) /\ write(r, Taken).start = r.start
           /\ write(r, Taken).end = write(r, Taken).start + write(r, Taken).size
           /\ write(r, Taken).size \in Nat /\ write(r, Taken).end < BufferLen
<1>1. /\ r.start \in Nat /\ r.end \in Nat /\ r.size \in Nat
      /\ Len(rcvq) \in Nat /\ BufferLen \in Nat
      /\ r.end + Len(rcvq) < BufferLen /\ r.size + Len(rcvq) < BufferLen
      /\ r.end = r.start + r.size /\ Buffer(r)
  BY FitsNumbers DEF Fits, Straight
<1>2. Taken = rcvq /\ rcvq \in Seq(Cell)
  BY <1>1, SubSeqFull DEF Taken, Least, TypeOK
<1>3. WriteLen(r, Taken) = Len(rcvq)
  BY <1>1, <1>2 DEF WriteLen, Least, get_space
<1>4. RecvFaults(r) = {}
  BY <1>1, <1>2, <1>3 DEF RecvFaults, Flag
<1>5. /\ Len(rcvq) <= BufferLen - r.end /\ r.end + Len(rcvq) # BufferLen
  BY <1>1
<1>6. /\ write(r, Taken).start = r.start
      /\ write(r, Taken).end = r.end + Len(rcvq)
      /\ write(r, Taken).size = r.size + Len(rcvq)
  BY <1>3, <1>5 DEF write
<1>7. Buffer(write(r, Taken))
  BY <1>1, <1>2, WriteBuffer
<1> QED
  BY <1>1, <1>4, <1>6, <1>7

\* peek() shows what pop() returns.
LEMMA FitsPeek ==
    ASSUME TypeOK, NEW r, Fits(r), r.size >= HeaderLen
    PROVE  /\ ~PeekFatal(r, HeaderLen) /\ ~PeekOverruns(r, HeaderLen)
           /\ \A shown \in PeekOutcomes(r, HeaderLen) : shown = ReadData(r, HeaderLen)
<1>1. /\ r.start \in Nat /\ r.end \in Nat /\ r.size \in Nat /\ HeaderLen = 2
      /\ BufferLen \in Nat /\ r.end < BufferLen /\ r.end = r.start + r.size
  <2>1. /\ r.start \in Nat /\ r.end \in Nat /\ r.size \in Nat /\ Len(rcvq) \in Nat
        /\ BufferLen \in Nat /\ r.end + Len(rcvq) < BufferLen
    BY FitsNumbers
  <2> QED
    BY <2>1 DEF HeaderLen, Fits, Straight
<1>2. ~Wrapped(r)
  BY <1>1 DEF Wrapped
<1>3. ReadLen(r, HeaderLen) = HeaderLen /\ Least(HeaderLen, BufferLen - r.start) = HeaderLen
  BY <1>1 DEF ReadLen, Least
<1>4. ReadData(r, HeaderLen) = [i \in 1 .. HeaderLen |-> r.cells[r.start + i - 1]]
  <2>1. \A i \in 1 .. HeaderLen : i <= BufferLen - r.start
    BY <1>1
  <2> QED
    BY <1>3, <2>1 DEF ReadData
<1>5. ASSUME NEW shown \in PeekOutcomes(r, HeaderLen)
      PROVE  shown = [i \in 1 .. HeaderLen |-> r.cells[r.start + i - 1]]
  <2>1. \E rest : shown = [i \in 1 .. HeaderLen |->
                              IF i <= HeaderLen THEN r.cells[r.start + i - 1] ELSE rest[i]]
    BY <1>2, <1>3 DEF PeekOutcomes
  <2>2. \A i \in 1 .. HeaderLen : i <= HeaderLen
    BY <1>1
  <2> QED
    BY <2>1, <2>2
<1> QED
  BY <1>2, <1>4, <1>5 DEF PeekFatal, PeekOverruns

LEMMA FitsPayload ==
    ASSUME TypeOK, NEW r, Fits(r), NEW len \in Nat, receive_msg_payload(r, len),
           UNCHANGED <<wire, stream>>
    PROVE  faults' \cap Losses = faults \cap Losses /\ Straight(inb)'
<1> DEFINE full == write(r, Taken)
<1>1. /\ RecvFaults(r) = {} /\ Buffer(full) /\ full.start = r.start
      /\ full.end = full.start + full.size /\ full.size \in Nat /\ full.end < BufferLen
  BY FitsRecv
<1>2. faults' \cap Losses = faults \cap Losses
  BY <1>1 DEF receive_msg_payload, Losses, Flag
<1>3. full.size + Len(RcvqAfterRecv) = r.size + Len(rcvq) /\ Len(RcvqAfterRecv) \in Nat
  BY <1>1, RecvSizes DEF Fits
<1>4. /\ rcvq' = RcvqAfterRecv
      /\ \/ inb' = full
         \/ full.size >= len /\ inb' = AfterRead(full, len)
  BY DEF receive_msg_payload, recv, Complete
<1>5. /\ r.start \in Nat /\ r.size \in Nat /\ Len(rcvq) \in Nat /\ Len(wire) \in Nat
      /\ Len(stream) \in Nat /\ r.start <= Behind(r) /\ BufferLen \in Nat
  BY FitsNumbers DEF Fits, Straight
<1> HIDE DEF full
<1>6. ASSUME NEW n \in 0 .. full.size, inb'.end = inb'.start + inb'.size,
             inb'.start <= r.start + n, inb'.size = full.size - n, inb'.start \in Nat
      PROVE  Straight(inb)'
  <2>1. Behind(inb)' = Len(stream) - (inb'.size + Len(RcvqAfterRecv) + Len(wire))
    BY <1>4 DEF Behind
  <2>2. Behind(inb)' = Behind(r) + n
    <3>1. n \in Nat /\ inb'.size = full.size - n
      BY <1>1, <1>6
    <3>2. Behind(r) = Len(stream) - (r.size + Len(rcvq) + Len(wire))
      BY DEF Behind
    <3>3. full.size - n + Len(RcvqAfterRecv) = r.size + Len(rcvq) - n
      <4>1. \A a, b, c, d, e \in Nat : a + b = c + d => a - e + b = c + d - e
        OBVIOUS
      <4>2. full.size \in Nat
        BY <1>1
      <4>3. Len(RcvqAfterRecv) \in Nat
        BY <1>3
      <4>4. full.size + Len(RcvqAfterRecv) = r.size + Len(rcvq)
        BY <1>3
      <4>5. r.size \in Nat /\ Len(rcvq) \in Nat /\ n \in Nat
        BY <1>5, <3>1
      <4> QED
        BY <4>1, <4>2, <4>3, <4>4, <4>5, SMTT(30)
    <3> QED
      BY <1>1, <1>3, <1>5, <2>1, <3>1, <3>2, <3>3
  <2>3. Behind(r) \in Int /\ n \in Nat
    BY <1>1, <1>5, <1>6, SMTT(30) DEF Behind
  <2>4. inb'.start <= Behind(inb)'
    BY <1>5, <1>6, <2>2, <2>3
  <2> QED
    BY <1>6, <2>4 DEF Straight
<1>7. CASE inb' = full
  <2>1. /\ 0 \in 0 .. full.size /\ full.start <= r.start + 0 /\ full.size = full.size - 0
        /\ full.start \in Nat
    BY <1>1, <1>5
  <2> QED
    BY <1>1, <1>2, <1>6, <1>7, <2>1
<1>8. CASE full.size >= len /\ inb' = AfterRead(full, len)
  <2>1. len \in 0 .. full.size
    BY <1>1, <1>8
  <2>2. Buffer(AfterRead(full, len)) /\ AfterRead(full, len).size = full.size - len
    BY <1>1, <2>1, ReadBuffer
  <2>3. AfterRead(full, len).start \in Nat
    BY <2>2, CapacityPositive DEF Buffer, Ring, Slot
  <2>4. /\ AfterRead(full, len).end = AfterRead(full, len).start + AfterRead(full, len).size
        /\ AfterRead(full, len).start <= r.start + len
    BY <1>1, <1>5, <2>1, StraightRead
  <2>5. /\ inb'.end = inb'.start + inb'.size /\ inb'.start <= r.start + len
        /\ inb'.size = full.size - len /\ inb'.start \in Nat
    BY <1>8, <2>2, <2>3, <2>4
  <2> QED
    BY <1>2, <1>6, <2>1, <2>5
<1> QED
  BY <1>2, <1>4, <1>7, <1>8

\* The buffer before a step that leaves it some room.
LEMMA FitsBefore ==
    ASSUME IInv, RoomInv, Len(stream) < BufferLen
    PROVE  /\ TypeOK /\ Fits(inb) /\ faults \cap Losses = {} /\ "truncated" \notin faults
           /\ Consumed = Behind(inb)
<1>1. faults \cap Losses = {} /\ Straight(inb)
  BY DEF RoomInv
<1>2. "truncated" \notin faults
  BY <1>1 DEF Losses
<1>3. Consumed \in Nat /\ Consumed = Behind(inb)
  BY <1>2, UnreadCells DEF Consumed, Behind
<1> QED
  BY <1>1, <1>2, <1>3 DEF Fits, IInv, Buffers

\* The steps that leave _in_buffer alone.
LEMMA RoomQuiet ==
    ASSUME IInv, RoomInv, Len(stream) < BufferLen, inb' = inb, Consumed' = Consumed,
           faults' \cap Losses = faults \cap Losses
    PROVE  faults' \cap Losses = {} /\ Straight(inb)'
<1>1. faults \cap Losses = {} /\ Straight(inb) /\ Consumed = Behind(inb)
  BY FitsBefore DEF Fits
<1>2. Behind(inb)' = Consumed'
  BY DEF Behind, Consumed
<1> QED
  BY <1>1, <1>2 DEF Straight

LEMMA RoomEvent ==
    ASSUME IInv, RoomInv, Len(stream) < BufferLen, EventRecvEnd \/ EventServe
    PROVE  faults' \cap Losses = {} /\ Straight(inb)'
<1>1. /\ TypeOK /\ Fits(inb) /\ faults \cap Losses = {} /\ Consumed = Behind(inb)
  BY FitsBefore
<1>2. /\ RecvFaults(inb) = {} /\ write(inb, Taken).start = inb.start
      /\ write(inb, Taken).end = write(inb, Taken).start + write(inb, Taken).size
  BY <1>1, FitsRecv
<1>3. faults' \cap Losses = {}
  <2>1. CASE EventRecvEnd
    BY <1>1, <1>2, <2>1 DEF EventRecvEnd, Losses, Flag
  <2>2. CASE EventServe
    BY <1>1, <1>2, <2>2 DEF EventServe, SendFaults, Losses, Flag
  <2> QED
    BY <2>1, <2>2
<1>4. Consumed' = Consumed
  <2>1. "truncated" \notin faults'
    BY <1>3 DEF Losses
  <2> QED
    BY <2>1, QuietStep DEF Quiet
<1>5. Behind(inb)' = Behind(inb)
  BY <1>1, <1>4 DEF Behind, Consumed
<1>6. inb' = write(inb, Taken) \/ inb' = inb
  BY DEF EventRecvEnd, EventServe
<1> QED
  BY <1>1, <1>2, <1>3, <1>5, <1>6 DEF Fits, Straight

LEMMA RoomAwait ==
    ASSUME IInv, RoomInv, Len(stream) < BufferLen, AwaitHandshake
    PROVE  faults' \cap Losses = {} /\ Straight(inb)'
<1>1. /\ TypeOK /\ Fits(inb) /\ faults \cap Losses = {} /\ "truncated" \notin faults
      /\ Consumed = Behind(inb)
  BY FitsBefore
<1>2. inb.size >= HeaderLen /\ UNCHANGED <<wire, rcvq, stream>>
  BY DEF AwaitHandshake, heard
<1>3. faults' \cap Losses = {}
  <2>1. \A shown \in PeekOutcomes(inb, HeaderLen) : shown = ReadData(inb, HeaderLen)
    BY <1>1, <1>2, FitsPeek
  <2>2. faults' \subseteq faults \cup {"unsent"}
    BY <2>1 DEF AwaitHandshake, AckFaults, SendFaults, Flag
  <2> QED
    BY <1>1, <2>2 DEF Losses
<1>4. inb' = inb \/ inb' = AfterRead(inb, HeaderLen)
  BY DEF AwaitHandshake
<1>5. HeaderLen \in 0 .. inb.size
  BY <1>1, <1>2, FitsNumbers DEF HeaderLen
<1>6. Fits(AfterRead(inb, HeaderLen))
  BY <1>1, <1>5, FitsRead
<1>7. PICK r : Fits(r) /\ inb' = r
  BY <1>1, <1>4, <1>6
<1>8. Behind(inb)' = Behind(r)
  BY <1>2, <1>7 DEF Behind
<1> QED
  BY <1>3, <1>7, <1>8 DEF Fits, Straight

LEMMA RoomChannel ==
    ASSUME IInv, RoomInv, Len(stream) < BufferLen, HandleOpenChannel
    PROVE  faults' \cap Losses = {} /\ Straight(inb)'
<1> DEFINE rest == AfterRead(inb, HeaderLen)
<1>1. TypeOK /\ Fits(inb) /\ faults \cap Losses = {}
  BY FitsBefore
<1>2. inb.size >= HeaderLen /\ UNCHANGED <<wire, stream>>
  BY DEF HandleOpenChannel, heard
<1>3. HeaderLen \in 0 .. inb.size
  BY <1>1, <1>2, FitsNumbers DEF HeaderLen
<1>4. Fits(rest)
  BY <1>1, <1>3, FitsRead
<1>5. PICK h : h = ReadHeader(ReadData(inb, HeaderLen)) /\ (
        IF h.magic /\ h.plen # 0 THEN receive_msg_payload(rest, h.plen)
                                 ELSE inb' = rest /\ UNCHANGED <<rcvq, faults>>)
  BY DEF HandleOpenChannel
<1>6. h.plen \in Nat
  <2>1. h \in Header
    BY <1>2, <1>5, PopHeader
  <2> QED
    BY <2>1, MessagesAssumption DEF Header
<1> HIDE DEF rest
<1>7. CASE receive_msg_payload(rest, h.plen)
  BY <1>1, <1>2, <1>4, <1>6, <1>7, FitsPayload
<1>8. CASE inb' = rest /\ UNCHANGED <<rcvq, faults>>
  <2>1. Behind(inb)' = Behind(rest)
    BY <1>2, <1>8 DEF Behind
  <2> QED
    BY <1>1, <1>4, <1>8, <2>1 DEF Fits, Straight
<1> QED
  BY <1>5, <1>7, <1>8

LEMMA RoomStep ==
    ASSUME IInv, RoomInv, [Next]_vars, Len(stream) < BufferLen
    PROVE  faults' \cap Losses = {} /\ Straight(inb)'
<1> USE DEF object, arrival, loop, history, heard, answers
<1>1. TypeOK /\ Fits(inb) /\ faults \cap Losses = {}
  BY FitsBefore
<1>2. ASSUME inb' = inb, faults' \subseteq faults \cup {"unsent"},
             \/ \E c \in PeerMsgs : PeerSend(c)
             \/ \E k \in 1 .. Len(wire) : Deliver(k)
             \/ PeerClose \/ DeliverFin \/ PeerReset \/ PeerReads
             \/ EpollWait \/ EventHup
             \/ PassedOver \/ AwaitMore \/ ChannelIdle \/ CloseNothing \/ CloseSocket
             \/ OpenConnection \/ SendMsg
             \/ UNCHANGED vars
      PROVE  faults' \cap Losses = {} /\ Straight(inb)'
  <2>1. faults' \cap Losses = {} /\ "truncated" \notin faults'
    BY <1>1, <1>2 DEF Losses
  <2>2. Consumed' = Consumed
    BY <1>2, <2>1, SentEffect, SendEffect, QuietStep DEF Quiet
  <2> QED
    BY <1>1, <1>2, <2>1, <2>2, RoomQuiet
<1>3. CASE Environment
  BY <1>2, <1>3 DEF Environment, PeerSend, Deliver, PeerClose, DeliverFin, PeerReset, PeerReads
<1>4. CASE EpollWait \/ EventHup \/ PassedOver
  BY <1>2, <1>4 DEF EpollWait, EventHup, PassedOver
<1>5. CASE AwaitMore \/ ChannelIdle \/ CloseNothing \/ CloseSocket
  BY <1>2, <1>5 DEF AwaitMore, ChannelIdle, CloseNothing, CloseSocket, Unchanged
<1>6. CASE OpenConnection \/ SendMsg
  BY <1>2, <1>6 DEF OpenConnection, SendMsg, AckFaults, SendFaults, Flag
<1>7. CASE EventRecvEnd \/ EventServe
  BY <1>7, RoomEvent
<1>8. CASE AwaitHandshake
  BY <1>8, RoomAwait
<1>9. CASE AwaitHandshakeCrash
  <2>1. inb.size >= HeaderLen
    BY <1>9 DEF AwaitHandshakeCrash
  <2> QED
    BY <1>1, <1>9, <2>1, FitsPeek DEF AwaitHandshakeCrash
<1>10. CASE HandleOpenChannel
  BY <1>10, RoomChannel
<1>11. CASE ReceiveMsgPayload
  <2>1. receive_msg_payload(inb, hdr.plen) /\ UNCHANGED <<wire, stream>>
    BY <1>11 DEF ReceiveMsgPayload
  <2>2. hdr.plen \in Nat
    BY <1>1, MessagesAssumption DEF TypeOK, Header
  <2> QED
    BY <1>1, <2>1, <2>2, FitsPayload
<1>12. CASE UNCHANGED vars
  BY <1>2, <1>12 DEF vars
<1> QED
  BY <1>3, <1>4, <1>5, <1>6, <1>7, <1>8, <1>9, <1>10, <1>11, <1>12 DEF Next, Thread, StateFunction

LEMMA NextRoomInv == IInv /\ RoomInv /\ [Next]_vars => RoomInv'
<1> SUFFICES ASSUME IInv, RoomInv, [Next]_vars, Len(stream') < BufferLen
             PROVE  faults' \cap Losses = {} /\ Straight(inb)'
  BY DEF RoomInv
<1>1. Len(stream) < BufferLen
  <2>1. CASE \E c \in PeerMsgs : PeerSend(c)
    <3>1. PICK c \in PeerMsgs : PeerSend(c)
      BY <2>1
    <3>2. c \in Seq(Cell) /\ stream \in Seq(Cell)
      BY MessageType DEF IInv, TypeOK
    <3>3. Len(stream') = Len(stream) + Len(c)
      BY <3>1, <3>2, SentEffect, ConcatProperties
    <3>4. BufferLen \in Nat /\ Len(c) \in Nat /\ Len(stream) \in Nat
      BY <3>2, CapacityPositive
    <3> QED
      BY <3>3, <3>4
  <2>2. CASE ~(\E c \in PeerMsgs : PeerSend(c))
    BY <2>2, HeardStays
  <2> QED
    BY <2>1, <2>2
<1> QED
  BY <1>1, RoomStep

LEMMA InitRoomInv == Init => RoomInv
<1> SUFFICES ASSUME Init
             PROVE  RoomInv
  OBVIOUS
<1>1. /\ stream = <<>> /\ faults = {} /\ rcvq = <<>> /\ wire = <<>>
      /\ inb.start = 0 /\ inb.end = 0 /\ inb.size = 0
  BY DEF Init
<1>2. Behind(inb) = 0
  <2>1. Len(stream) = 0 /\ Len(rcvq) = 0 /\ Len(wire) = 0
    BY <1>1
  <2>2. Len(stream) - (inb.size + Len(rcvq) + Len(wire)) = 0 - (0 + 0 + 0)
    BY <1>1, <2>1
  <2> QED
    BY <2>2 DEF Behind
<1> QED
  BY <1>1, <1>2 DEF RoomInv, Straight

LEMMA InductiveRoom == Spec => [](IInv /\ RoomInv)
<1>1. Init => IInv /\ RoomInv
  BY InitIInv, InitRoomInv
<1>2. IInv /\ RoomInv /\ [Next]_vars => (IInv /\ RoomInv)'
  BY NextIInv, NextRoomInv
<1> QED
  BY <1>1, <1>2, PTL DEF Spec

\* A peer that sends less than the buffer holds loses nothing: recv() and
\* write() find room and the ring does not wrap (recyclr-net.cpp:41-50, 141-161,
\* recyclr-buffer.cpp:17-44, recyclr-buffer.h:36-51).
THEOREM SmallStreamCorrect == Spec => []SmallStreamIntact
<1>1. IInv /\ RoomInv => SmallStreamIntact
  BY DEF RoomInv, Losses, SmallStreamIntact
<1> QED
  BY <1>1, InductiveRoom, PTL

\* The connection is the abstract session, up to its fairness, for a peer that
\* keeps to the protocol and sends less than the buffer holds
\* (recyclr-net.cpp:32-161, 398-423).
THEOREM EchoRefinement ==
    Spec /\ [](WellFormed /\ Len(stream) < BufferLen)
        => Echo!Init /\ [][Echo!Next]_(Echo!vars)
<1>1. SmallStreamIntact /\ WellFormed /\ Len(stream) < BufferLen => Intact
  BY DEF SmallStreamIntact, Intact
<1>2. Intact' /\ [Intact' => Echo!Next]_(Echo!vars) => [Echo!Next]_(Echo!vars)
  OBVIOUS
<1> QED
  BY <1>1, <1>2, EchoInit, SmallStreamCorrect, EchoStepsCorrect, PTL DEF Spec, EchoSteps

=============================================================================
