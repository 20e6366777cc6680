-------------------------- MODULE RingBufferProofs ---------------------------
(***************************************************************************)
(* Proofs about RingBuffer for every capacity, every set of cells and      *)
(* every sequence of calls.  TypeOK and IndexInv are together inductive;   *)
(* with them each call on the ring is the same call on the queue.          *)
(***************************************************************************)
EXTENDS RingBuffer, RingProofs

\* Every step keeps the fields of the ring in range, its counters consistent
\* and the returned cells a sequence of cells.
IInv == TypeOK /\ IndexInv

LEMMA GiveStep ==
    ASSUME IInv, NEW len \in Nat, Give(len)
    PROVE  IInv'
<1>1. ring \in Ring /\ Consistent(ring)
  BY DEF IInv, TypeOK, IndexInv, Consistent
<1>2. ring' \in Ring /\ Consistent(ring')
  BY <1>1, ReadRing DEF Give
<1>3. ret' \in [len : Nat, data : Seq(Cell)]
  BY <1>1, ReadDataType, RingFields DEF Give
<1> QED BY <1>2, <1>3 DEF IInv, TypeOK, IndexInv, Consistent

LEMMA WriteStep ==
    ASSUME IInv, NEW data \in Seq(Cell), Write(data)
    PROVE  IInv'
<1>1. ring \in Ring /\ Consistent(ring)
  BY DEF IInv, TypeOK, IndexInv, Consistent
<1>2. ring' \in Ring /\ Consistent(ring')
  BY <1>1, WriteRing DEF Write
<1>3. ret' \in [len : Nat, data : Seq(Cell)]
  <2>1. WriteLen(ring, data) \in Nat
    BY <1>1, WriteLenRange
  <2>2. <<>> \in Seq(Cell)
    OBVIOUS
  <2> QED BY <2>1, <2>2 DEF Write
<1> QED BY <1>2, <1>3 DEF IInv, TypeOK, IndexInv, Consistent

\* The length that read() is called with, for each operation that removes
\* cells.
LEMMA Removals ==
    ASSUME IInv, NEW len \in Length, Read(len) \/ Pop(len) \/ ReadAll(len)
    PROVE  \E n \in Nat : Give(n)
<1>1. len \in Nat /\ ring.size \in Nat /\ 0 \in Nat
  BY CallAssumption, RingFields DEF IInv, TypeOK
<1>2. (IF CanPop(ring, len) THEN len ELSE 0) \in Nat
  BY <1>1
<1>3. (IF CanReadAll(ring, len) THEN ring.size ELSE 0) \in Nat
  BY <1>1
<1>4. CASE Read(len)
  BY <1>1, <1>4 DEF Read
<1>5. CASE Pop(len)
  BY <1>2, <1>5 DEF Pop
<1>6. CASE ReadAll(len)
  BY <1>3, <1>6 DEF ReadAll
<1> QED BY <1>4, <1>5, <1>6

LEMMA InitIInv == Init => IInv
<1> SUFFICES ASSUME Init PROVE IInv
  OBVIOUS
<1>1. ring \in NewRing /\ ret = [len |-> 0, data |-> <<>>]
  BY DEF Init
<1>2. ring.start = 0 /\ ring.end = 0 /\ ring.size = 0
  BY <1>1 DEF NewRing
<1>3. ring \in Ring
  BY <1>1, CapacityAssumption DEF NewRing, Ring, Slot
<1>4. ret \in [len : Nat, data : Seq(Cell)]
  BY <1>1
<1>5. Wrap(ring.start + ring.size) = 0
  BY <1>2, CapacityAssumption DEF Wrap
<1> QED BY <1>2, <1>3, <1>4, <1>5 DEF IInv, TypeOK, IndexInv

LEMMA NextIInv == IInv /\ [Next]_vars => IInv'
<1> SUFFICES ASSUME IInv, [Next]_vars PROVE IInv'
  OBVIOUS
<1>1. ASSUME NEW data \in Chunk, Write(data)
      PROVE  IInv'
  BY <1>1, WriteStep, CallAssumption
<1>2. ASSUME NEW len \in Length, Read(len) \/ Pop(len) \/ ReadAll(len)
      PROVE  IInv'
  <2>1. PICK n \in Nat : Give(n)
    BY <1>2, Removals
  <2> QED BY <2>1, GiveStep
<1>3. CASE UNCHANGED vars
  BY <1>3 DEF vars, IInv, TypeOK, IndexInv
<1> QED BY <1>1, <1>2, <1>3 DEF Next

\* The fields of a RingBuffer are always in range (TypeOK), so no operation
\* addresses a slot outside the array.
THEOREM TypeCorrect == Spec => []TypeOK
<1>1. Init => IInv
  BY InitIInv
<1>2. IInv /\ [Next]_vars => IInv'
  BY NextIInv
<1>3. IInv => TypeOK
  BY DEF IInv
<1> QED BY <1>1, <1>2, <1>3, PTL DEF Spec

\* The start, the end and the size of a RingBuffer always agree (IndexInv).
THEOREM IndexCorrect == Spec => []IndexInv
<1>1. Init => IInv
  BY InitIInv
<1>2. IInv /\ [Next]_vars => IInv'
  BY NextIInv
<1>3. IInv => IndexInv
  BY DEF IInv
<1> QED BY <1>1, <1>2, <1>3, PTL DEF Spec

-----------------------------------------------------------------------------
\* A call that removes cells from the ring removes them from the queue.
LEMMA GiveRefines ==
    ASSUME IInv, NEW len \in Nat, Give(len)
    PROVE  Fifo!Give(Fifo!Lesser(len, Len(Contents(ring))))
<1>1. ring \in Ring /\ Consistent(ring)
  BY DEF IInv, TypeOK, IndexInv, Consistent
<1>2. Fifo!Lesser(len, Len(Contents(ring))) = ReadLen(ring, len)
  BY <1>1, ContentsType DEF Fifo!Lesser, ReadLen, Least
<1>3. ret' = [len |-> ReadLen(ring, len),
              data |-> SubSeq(Contents(ring), 1, ReadLen(ring, len))]
  BY <1>1, ReadContents DEF Give
<1>4. Contents(ring)' = Contents(ring')
  BY DEF Contents, Wrap
<1>5. Contents(ring') = SubSeq(Contents(ring), ReadLen(ring, len) + 1,
                               Len(Contents(ring)))
  BY <1>1, AfterReadContents DEF Give
<1> QED BY <1>2, <1>3, <1>4, <1>5 DEF Fifo!Give

LEMMA WriteRefines ==
    ASSUME IInv, NEW data \in Seq(Cell), Write(data)
    PROVE  Fifo!Write(data)
<1>1. ring \in Ring /\ Consistent(ring)
  BY DEF IInv, TypeOK, IndexInv, Consistent
<1>2. Fifo!Lesser(Len(data), Capacity - Len(Contents(ring)))
          = WriteLen(ring, data)
  BY <1>1, ContentsType DEF Fifo!Lesser, WriteLen, Least, get_space
<1>3. Contents(ring)' = Contents(ring')
  BY DEF Contents, Wrap
<1>4. Contents(ring') = Contents(ring) \o SubSeq(data, 1, WriteLen(ring, data))
  BY <1>1, WriteContents DEF Write
<1>5. ret' = [len |-> WriteLen(ring, data), data |-> <<>>]
  BY DEF Write
<1> QED BY <1>2, <1>3, <1>4, <1>5 DEF Fifo!Write

LEMMA InitRefines == Init => Fifo!Init
<1> SUFFICES ASSUME Init PROVE Fifo!Init
  OBVIOUS
<1>1. ring \in Ring /\ ring.size = 0
  BY InitIInv DEF IInv, TypeOK, Init, NewRing
<1>2. Contents(ring) \in Seq(Cell) /\ Len(Contents(ring)) = 0
  BY <1>1, ContentsType
<1>3. Contents(ring) = <<>>
  BY <1>2, EmptySeq
<1> QED BY <1>3 DEF Fifo!Init, Init

LEMMA NextRefines == IInv /\ [Next]_vars => [Fifo!Next]_(Fifo!vars)
<1> SUFFICES ASSUME IInv, [Next]_vars
             PROVE  [Fifo!Next]_(Fifo!vars)
  OBVIOUS
<1>1. ASSUME NEW data \in Chunk, Write(data)
      PROVE  Fifo!Next
  <2>1. Fifo!Write(data)
    BY <1>1, WriteRefines, CallAssumption
  <2> QED BY <2>1 DEF Fifo!Next
<1> DEFINE z == Len(Contents(ring))
<1>2. z = ring.size /\ ring.size \in Nat
  BY ContentsType, RingFields DEF IInv, TypeOK
<1>3. ASSUME NEW len \in Length, Read(len)
      PROVE  Fifo!Next
  <2>1. Fifo!Read(len)
    BY <1>3, GiveRefines, CallAssumption DEF Read, Fifo!Read
  <2> QED BY <2>1 DEF Fifo!Next
<1>4. ASSUME NEW len \in Length, Pop(len)
      PROVE  Fifo!Next
  <2> DEFINE n == IF CanPop(ring, len) THEN len ELSE 0
  <2>1. n \in Nat /\ Give(n)
    BY <1>4, CallAssumption DEF Pop
  <2>2. Fifo!Lesser(n, z) = IF z >= len THEN len ELSE 0
    BY <1>2, CallAssumption DEF Fifo!Lesser, CanPop
  <2>3. Fifo!Give(Fifo!Lesser(n, z))
    <3> HIDE DEF n
    <3> QED BY <2>1, GiveRefines
  <2>4. Fifo!Pop(len)
    BY <2>2, <2>3 DEF Fifo!Pop
  <2> QED BY <2>4 DEF Fifo!Next
<1>5. ASSUME NEW len \in Length, ReadAll(len)
      PROVE  Fifo!Next
  <2> DEFINE n == IF CanReadAll(ring, len) THEN ring.size ELSE 0
  <2>1. n \in Nat /\ Give(n)
    BY <1>2, <1>5 DEF ReadAll
  <2>2. Fifo!Lesser(n, z) = IF len >= z THEN z ELSE 0
    BY <1>2, CallAssumption DEF Fifo!Lesser, CanReadAll
  <2>3. Fifo!Give(Fifo!Lesser(n, z))
    <3> HIDE DEF n
    <3> QED BY <2>1, GiveRefines
  <2>4. Fifo!ReadAll(len)
    BY <2>2, <2>3 DEF Fifo!ReadAll
  <2> QED BY <2>4 DEF Fifo!Next
<1>6. CASE UNCHANGED vars
  <2>1. Contents(ring)' = Contents(ring) /\ ret' = ret
    BY <1>6 DEF vars, Contents, Wrap
  <2> QED BY <2>1 DEF Fifo!vars
<1> QED BY <1>1, <1>3, <1>4, <1>5, <1>6 DEF Next

\* Whatever the capacity and the calls, a RingBuffer behaves as a bounded
\* queue (FifoSpec): it gives back the cells it accepted, each once and in
\* the order it accepted them.
THEOREM FifoRefinement == Spec => FifoSpec
<1>1. Init => IInv /\ Fifo!Init
  BY InitIInv, InitRefines
<1>2. IInv /\ [Next]_vars => IInv'
  BY NextIInv
<1>3. IInv /\ [Next]_vars => [Fifo!Next]_(Fifo!vars)
  BY NextRefines
<1> QED BY <1>1, <1>2, <1>3, PTL DEF Spec, FifoSpec, Fifo!Spec

-----------------------------------------------------------------------------
\* An unwrapped ring that holds w cells has them side by side in the array.
LEMMA Unwrapped ==
    ASSUME NEW r \in Ring, Consistent(r), NEW w \in Nat,
           w <= r.size, r.start < r.end
    PROVE  /\ w <= Capacity - r.start
           /\ ~Wrapped(r)
           /\ Least(w, Capacity - r.start) = w
           /\ ReadLen(r, w) = w
BY RingFields DEF Consistent, Wrap, Slot, Wrapped, Least, ReadLen

\* Whatever the capacity and the calls before, a peek of an unwrapped ring
\* shows exactly the cells that the next pop removes (PeekMatchesPop): the
\* misread header of the handshake needs a wrapped ring.
THEOREM PeekCorrect == Spec => []PeekMatchesPop
<1>1. ASSUME IInv
      PROVE  PeekMatchesPop
  <2>1. SUFFICES ASSUME NEW w \in Length, w <= ring.size,
                        ring.start < ring.end
                 PROVE  PeekOutcomes(ring, w) = {ReadData(ring, w)}
    BY DEF PeekMatchesPop
  <2>2. ring \in Ring /\ Consistent(ring) /\ w \in Nat
    BY <1>1, CallAssumption DEF IInv, TypeOK, IndexInv, Consistent
  <2>3. /\ w <= Capacity - ring.start
        /\ ~Wrapped(ring)
        /\ Least(w, Capacity - ring.start) = w
        /\ ReadLen(ring, w) = w
    BY <2>1, <2>2, Unwrapped
  <2> DEFINE shown == [i \in 1 .. w |-> ring.cells[ring.start + i - 1]]
             left(rest) == [i \in 1 .. w |->
                                IF i <= w THEN ring.cells[ring.start + i - 1]
                                          ELSE rest[i]]
  <2>4. ReadData(ring, w) = shown
    <3>1. \A i \in 1 .. w : i <= Capacity - ring.start
      BY <2>2, <2>3, RingFields DEF Slot
    <3> QED BY <2>3, <3>1 DEF ReadData
  <2>5. PeekOutcomes(ring, w) = {left(rest) : rest \in [w + 1 .. w -> Cell]}
    BY <2>3 DEF PeekOutcomes
  <2> DEFINE Rest == [w + 1 .. w -> Cell]
  <2>6. \A rest \in Rest : left(rest) = shown
    BY <2>2
  <2>7. Rest # {}
    <3>1. [i \in w + 1 .. w |-> w] \in Rest
      BY <2>2
    <3> QED BY <3>1
  <2>8. {left(rest) : rest \in Rest} = {shown}
    <3> HIDE DEF left, shown, Rest
    <3> QED BY <2>6, <2>7
  <2> QED BY <2>4, <2>5, <2>8
<1>2. Init => IInv
  BY InitIInv
<1>3. IInv /\ [Next]_vars => IInv'
  BY NextIInv
<1> QED BY <1>1, <1>2, <1>3, PTL DEF Spec

=============================================================================
