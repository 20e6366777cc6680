------------------------------- MODULE RingOps -------------------------------
(***************************************************************************)
(* The operations of class RingBuffer (recyclr-buffer.h, .cpp) as pure     *)
(* operators on a ring record.  A connection owns two rings; the state     *)
(* machine of one ring alone is module RingBuffer.                         *)
(*                                                                         *)
(* A cell stands for a byte, or for a run of bytes that the program never  *)
(* tells apart.  Slots are numbered from 0 as in the code; the data handed *)
(* in and out are sequences, numbered from 1.                              *)
(***************************************************************************)
EXTENDS Integers, Sequences

CONSTANTS Capacity,     \* _capacity, the argument of the constructor
          Cell          \* what a slot of _ring_buffer may hold

ASSUME CapacityAssumption == Capacity \in Nat \ {0}

Slot == 0 .. Capacity - 1

\* _start_idx, _end_idx, _size and _ring_buffer.
Ring == [start : Slot, end : Slot, size : 0 .. Capacity, cells : [Slot -> Cell]]

\* The constructor: "new char[capacity]" leaves the slots with any content.
NewRing == [start : {0}, end : {0}, size : {0}, cells : [Slot -> Cell]]

Least(a, b) == IF a <= b THEN a ELSE b

get_space(r) == Capacity - r.size

-----------------------------------------------------------------------------
\* memcpy(cells + at, data + from, n)
Copy(cells, at, data, from, n) ==
    [s \in Slot |-> IF s \in at .. at + n - 1 THEN data[from + s - at + 1]
                                              ELSE cells[s]]

\* How many cells of data write() accepts, which is what it returns.
WriteLen(r, data) == Least(Len(data), get_space(r))

writeNoWrap(r, data) ==                 \* mutant: _end_idx stays at _capacity
    [start |-> r.start, end |-> r.end + WriteLen(r, data),
     size |-> r.size + WriteLen(r, data),
     cells |-> Copy(r.cells, r.end, data, 0, WriteLen(r, data))]
writeTwiceFirst(r, data) ==             \* mutant: "buffer + end_write_len" forgotten
    LET n     == WriteLen(r, data)
        toEnd == Least(n, Capacity - r.end)
    IN  [start |-> r.start, end |-> (r.end + n) % Capacity, size |-> r.size + n,
         cells |-> Copy(Copy(r.cells, r.end, data, 0, toEnd), 0, data, 0, n - toEnd)]

\* RingBuffer::write: one copy when the cells fit before the end of the
\* array, two copies otherwise; what does not fit in the ring is ignored.
write(r, data) ==
    LET n     == WriteLen(r, data)
        toEnd == Capacity - r.end
    IN  IF n <= toEnd
        THEN [start |-> r.start,
              end   |-> IF r.end + n = Capacity THEN 0 ELSE r.end + n,
              size  |-> r.size + n,
              cells |-> Copy(r.cells, r.end, data, 0, n)]
        ELSE [start |-> r.start,
              end   |-> n - toEnd,
              size  |-> r.size + n,
              cells |-> Copy(Copy(r.cells, r.end, data, 0, toEnd),
                             0, data, toEnd, n - toEnd)]

-----------------------------------------------------------------------------
ReadLen(r, len) == Least(len, r.size)

ReadNoWrap(r, len) ==                   \* mutant: the second copy is offset
    [i \in 1 .. ReadLen(r, len) |->
        IF i <= Capacity - r.start THEN r.cells[r.start + i - 1] ELSE r.cells[i - 1]]

\* The cells that RingBuffer::read copies to its caller.
ReadData(r, len) ==
    [i \in 1 .. ReadLen(r, len) |->
        IF i <= Capacity - r.start THEN r.cells[r.start + i - 1]
                                   ELSE r.cells[i - 1 - (Capacity - r.start)]]

AfterReadNoReset(r, len) ==             \* mutant: only _start_idx is reset
    LET n == ReadLen(r, len)
    IN  [start |-> IF n = r.size THEN 0 ELSE (r.start + n) % Capacity,
         end |-> r.end, size |-> r.size - n, cells |-> r.cells]

\* The ring that RingBuffer::read leaves: the start moves over what was
\* read, and both indices go back to 0 when nothing is left.
AfterRead(r, len) ==
    LET n     == ReadLen(r, len)
        toEnd == Capacity - r.start
    IN  IF n = 0 THEN r
        ELSE IF n = r.size
        THEN [start |-> 0, end |-> 0, size |-> 0, cells |-> r.cells]
        ELSE [start |-> IF n < toEnd THEN r.start + n ELSE n - toEnd,
              end   |-> r.end,
              size  |-> r.size - n,
              cells |-> r.cells]

\* pop<T> and pop_buf take exactly len cells or none.
CanPop(r, len) == r.size >= len

\* read_all takes everything, when the caller's buffer can hold it.
CanReadAll(r, bufferLen) == bufferLen >= r.size

-----------------------------------------------------------------------------
(***************************************************************************)
(* peek<T>.  When the ring is wrapped it computes its copies from          *)
(* get_size() - _start_idx, which is not the distance to the end of the    *)
(* array, and offsets the second one in units of T.                        *)
(***************************************************************************)
Wrapped(r) == r.end < r.start

\* A copy length that is negative as a size_t, where memcpy cannot survive.
PeekFatal(r, w) == Wrapped(r) /\ (r.size < r.start \/ r.size - r.start > w)

\* The second copy then lies outside the destination.
PeekOverruns(r, w) == Wrapped(r) /\ r.size - r.start \in 1 .. w - 1

PeekHead(r, w) ==                       \* mutant: "+ _start_idx" forgotten
    {[i \in 1 .. w |-> r.cells[i - 1]]}

\* What peek may leave in a destination of w cells, w <= r.size, when it is
\* not fatal.  Wrapped with size = start, it reads from slot 0.  Otherwise the
\* cells that the first copy does not take from the array (the rest went
\* beyond the destination, or came from beyond the array) can be anything.
PeekOutcomes(r, w) ==
    LET n == IF Wrapped(r) THEN r.size - r.start
                           ELSE Least(w, Capacity - r.start)
    IN  IF Wrapped(r) /\ n = 0
        THEN {[i \in 1 .. w |-> r.cells[i - 1]]}
        ELSE {[i \in 1 .. w |-> IF i <= n THEN r.cells[r.start + i - 1]
                                          ELSE rest[i]] :
                 rest \in [n + 1 .. w -> Cell]}

-----------------------------------------------------------------------------
\* The queue a ring stands for: its cells in the order they were written.
Wrap(k) == IF k < Capacity THEN k ELSE k - Capacity

Contents(r) == [i \in 1 .. r.size |-> r.cells[Wrap(r.start + i - 1)]]

=============================================================================
