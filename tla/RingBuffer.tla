----------------------------- MODULE RingBuffer ------------------------------
(***************************************************************************)
(* One RingBuffer object and its public operations, called in any order by *)
(* the one thread that owns it (recyclr-buffer.h:6, "this ain't            *)
(* threadsafe").                                                           *)
(***************************************************************************)
EXTENDS RingOps

CONSTANTS Chunk,        \* the sequences of cells that callers write
          Length        \* the lengths that callers read, pop or peek

ASSUME CallAssumption == Chunk \subseteq Seq(Cell) /\ Length \subseteq Nat

VARIABLES ring,         \* the fields of the object
          ret           \* what the last call returned: a count and cells

vars == <<ring, ret>>

Init == /\ ring \in NewRing
        /\ ret = [len |-> 0, data |-> <<>>]

\* The effect of read(data, len) on the object and on the caller.
Give(len) == /\ ret' = [len |-> ReadLen(ring, len), data |-> ReadData(ring, len)]
             /\ ring' = AfterRead(ring, len)

Write(data) == /\ ring' = write(ring, data)
               /\ ret' = [len |-> WriteLen(ring, data), data |-> <<>>]

Read(len) == Give(len)

Pop(len) == Give(IF CanPop(ring, len) THEN len ELSE 0)

ReadAll(bufferLen) == Give(IF CanReadAll(ring, bufferLen) THEN ring.size ELSE 0)

Next == \/ \E data \in Chunk : Write(data)
        \/ \E len \in Length : Read(len) \/ Pop(len) \/ ReadAll(len)

Spec == Init /\ [][Next]_vars

-----------------------------------------------------------------------------
\* The fields stay in range whatever the sequence of calls.
TypeOK == /\ ring \in Ring
          /\ ret \in [len : Nat, data : Seq(Cell)]

\* The three counters are redundant and must agree after any sequence of
\* calls: the end is size slots after the start, and an empty ring is back at
\* slot 0 (the "reset to head" of recyclr-buffer.cpp:73).
IndexInv == /\ ring.end = Wrap(ring.start + ring.size)
            /\ ring.size = 0 => ring.start = 0 /\ ring.end = 0

\* peek<T> shows exactly the cells that the next pop<T> removes, as long as
\* the ring has not wrapped (recyclr-buffer.h:42-54; used by the handshake,
\* recyclr-net.cpp:43).
PeekMatchesPop ==
    \A w \in Length :
        w <= ring.size /\ ring.start < ring.end
            => PeekOutcomes(ring, w) = {ReadData(ring, w)}

\* The ring implements a bounded queue: no cell is lost, duplicated,
\* reordered or overwritten by any sequence of write, read, read_all, pop and
\* pop_buf calls, and a full ring accepts a prefix (recyclr-buffer.cpp:17-89).
Fifo == INSTANCE BoundedFifo WITH queue <- Contents(ring)

FifoSpec == Fifo!Spec

=============================================================================
