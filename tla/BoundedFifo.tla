----------------------------- MODULE BoundedFifo -----------------------------
(***************************************************************************)
(* What class RingBuffer promises to the code that uses it: a queue of at  *)
(* most Capacity cells.  It hands out the cells it accepted, each once, in *)
(* the order in which they were accepted, and it accepts a prefix of what  *)
(* it is given whenever there is no room for all of it.                    *)
(***************************************************************************)
EXTENDS Integers, Sequences

CONSTANTS Capacity, Cell,
          Chunk,        \* the sequences of cells that callers write
          Length        \* the lengths that callers read, pop or peek

VARIABLES queue,        \* the cells held
          ret           \* what the last call returned: a count and cells

vars == <<queue, ret>>

Lesser(a, b) == IF a <= b THEN a ELSE b

Init == /\ queue = <<>>
        /\ ret = [len |-> 0, data |-> <<>>]

\* Give the n oldest cells to the caller.
Give(n) == /\ ret' = [len |-> n, data |-> SubSeq(queue, 1, n)]
           /\ queue' = SubSeq(queue, n + 1, Len(queue))

Write(data) ==
    LET n == Lesser(Len(data), Capacity - Len(queue))
    IN  /\ queue' = queue \o SubSeq(data, 1, n)
        /\ ret' = [len |-> n, data |-> <<>>]

Read(len) == Give(Lesser(len, Len(queue)))

Pop(len) == Give(IF Len(queue) >= len THEN len ELSE 0)

ReadAll(bufferLen) == Give(IF bufferLen >= Len(queue) THEN Len(queue) ELSE 0)

Next == \/ \E data \in Chunk : Write(data)
        \/ \E len \in Length : Read(len) \/ Pop(len) \/ ReadAll(len)

Spec == Init /\ [][Next]_vars

=============================================================================
