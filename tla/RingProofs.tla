------------------------------ MODULE RingProofs -----------------------------
(***************************************************************************)
(* Lemmas about the operations of RingOps, for every capacity and every    *)
(* set of cells: what write and read return, preserve and do to the queue  *)
(* that a ring stands for.  RingBufferProofs uses them for one ring,       *)
(* ConnectionProofs for the two buffers of a connection.                   *)
(***************************************************************************)
EXTENDS RingOps, SequenceTheorems, TLAPS

\* The fields of a ring are in range.
LEMMA RingFields ==
    ASSUME NEW r \in Ring
    PROVE  /\ Capacity \in Nat \ {0}
           /\ r.start \in Slot
           /\ r.end \in Slot
           /\ r.size \in 0 .. Capacity
           /\ r.cells \in [Slot -> Cell]
BY CapacityAssumption DEF Ring

\* Fields in range make a ring.
LEMMA MakeRing ==
    ASSUME NEW s \in Slot, NEW e \in Slot, NEW z \in 0 .. Capacity,
           NEW c \in [Slot -> Cell]
    PROVE  [start |-> s, end |-> e, size |-> z, cells |-> c] \in Ring
BY DEF Ring

\* memcpy from a sequence of cells into the array keeps the array's type.
LEMMA CopyType ==
    ASSUME NEW cells \in [Slot -> Cell], NEW data \in Seq(Cell),
           NEW at \in Nat, NEW from \in Nat, NEW n \in Nat,
           from + n <= Len(data)
    PROVE  Copy(cells, at, data, from, n) \in [Slot -> Cell]
BY DEF Copy, Slot

\* The index relation, for a ring that is not necessarily the variable.
Consistent(r) == /\ r.end = Wrap(r.start + r.size)
                 /\ r.size = 0 => r.start = 0 /\ r.end = 0

\* The arithmetic of _end_idx: writing n cells that fit moves it by n around
\* the array, in one copy or in two.
LEMMA EndAfterWrite ==
    ASSUME NEW s \in Slot, NEW e \in Slot, NEW z \in 0 .. Capacity,
           NEW n \in 0 .. Capacity - z,
           e = Wrap(s + z)
    PROVE  /\ n <= Capacity - e =>
                 /\ e + n <= Capacity
                 /\ Wrap(s + z + n) = IF e + n = Capacity THEN 0 ELSE e + n
           /\ ~(n <= Capacity - e) =>
                 /\ n - (Capacity - e) \in Slot
                 /\ Wrap(s + z + n) = n - (Capacity - e)
BY CapacityAssumption DEF Slot, Wrap

\* The arithmetic of _start_idx: likewise for reading n of z cells.
LEMMA StartAfterRead ==
    ASSUME NEW s \in Slot, NEW z \in 0 .. Capacity, NEW n \in 0 .. z
    PROVE  /\ n < Capacity - s =>
                 /\ s + n \in Slot
                 /\ Wrap(s + z) = Wrap((s + n) + (z - n))
           /\ ~(n < Capacity - s) =>
                 /\ n - (Capacity - s) \in Slot
                 /\ Wrap(s + z) = Wrap((n - (Capacity - s)) + (z - n))
BY CapacityAssumption DEF Slot, Wrap

-----------------------------------------------------------------------------
\* The three counters and the array after write(), one field at a time.
LEMMA WriteFields ==
    ASSUME NEW r \in Ring, NEW data \in Seq(Cell),
           NEW n, n = WriteLen(r, data),
           NEW toEnd, toEnd = Capacity - r.end
    PROVE  /\ write(r, data).start = r.start
           /\ write(r, data).size = r.size + n
           /\ n <= toEnd =>
                /\ write(r, data).end =
                       IF r.end + n = Capacity THEN 0 ELSE r.end + n
                /\ write(r, data).cells = Copy(r.cells, r.end, data, 0, n)
           /\ ~(n <= toEnd) =>
                /\ write(r, data).end = n - toEnd
                /\ write(r, data).cells =
                       Copy(Copy(r.cells, r.end, data, 0, toEnd),
                            0, data, toEnd, n - toEnd)
           /\ write(r, data) =
                [start |-> write(r, data).start, end |-> write(r, data).end,
                 size |-> write(r, data).size, cells |-> write(r, data).cells]
BY DEF write

\* write() accepts a prefix that fits.
LEMMA WriteLenRange ==
    ASSUME NEW r \in Ring, NEW data \in Seq(Cell)
    PROVE  /\ Len(data) \in Nat
           /\ WriteLen(r, data) \in 0 .. Len(data)
           /\ WriteLen(r, data) \in 0 .. Capacity - r.size
BY RingFields DEF WriteLen, Least, get_space

\* write() keeps the fields in range and the indices consistent.
LEMMA WriteRing ==
    ASSUME NEW r \in Ring, NEW data \in Seq(Cell), Consistent(r)
    PROVE  /\ write(r, data) \in Ring
           /\ Consistent(write(r, data))
<1> DEFINE n == WriteLen(r, data)
           toEnd == Capacity - r.end
           w == write(r, data)
<1>1. /\ Capacity \in Nat \ {0}
      /\ r.start \in Slot
      /\ r.end \in Slot
      /\ r.size \in 0 .. Capacity
      /\ r.cells \in [Slot -> Cell]
  BY RingFields
<1>2. /\ Len(data) \in Nat /\ n \in 0 .. Len(data)
      /\ n \in 0 .. Capacity - r.size
  BY WriteLenRange
<1>3. /\ toEnd \in Nat /\ toEnd > 0 /\ r.end \in Nat
  BY <1>1 DEF Slot
<1>4. /\ n <= toEnd =>
           /\ r.end + n <= Capacity
           /\ Wrap(r.start + r.size + n) =
                  IF r.end + n = Capacity THEN 0 ELSE r.end + n
      /\ ~(n <= toEnd) =>
           /\ n - toEnd \in Slot
           /\ Wrap(r.start + r.size + n) = n - toEnd
  <2> HIDE DEF n
  <2> QED BY <1>1, <1>2, EndAfterWrite DEF Consistent
<1>5. /\ w.start = r.start
      /\ w.size = r.size + n
      /\ w = [start |-> w.start, end |-> w.end, size |-> w.size,
              cells |-> w.cells]
  BY WriteFields
<1>6. w.size \in 0 .. Capacity
  <2> HIDE DEF n, w
  <2> QED BY <1>1, <1>2, <1>5
<1>7. w.end \in Slot /\ w.end = Wrap(w.start + w.size)
  <2>1. CASE n <= toEnd
    <3>1. w.end = IF r.end + n = Capacity THEN 0 ELSE r.end + n
      BY <2>1, WriteFields
    <3>2. (IF r.end + n = Capacity THEN 0 ELSE r.end + n) \in Slot
      <4> HIDE DEF n
      <4> QED BY <1>1, <1>2, <1>3, <1>4, <2>1 DEF Slot
    <3>3. w.start + w.size = r.start + r.size + n
      <4> HIDE DEF n, w
      <4> QED BY <1>1, <1>2, <1>5 DEF Slot
    <3> QED BY <1>4, <2>1, <3>1, <3>2, <3>3
  <2>2. CASE ~(n <= toEnd)
    <3>1. w.end = n - toEnd
      BY <2>2, WriteFields
    <3>2. w.start + w.size = r.start + r.size + n
      <4> HIDE DEF n, w
      <4> QED BY <1>1, <1>2, <1>5 DEF Slot
    <3> QED BY <1>4, <2>2, <3>1, <3>2
  <2> QED BY <2>1, <2>2
<1>8. w.cells \in [Slot -> Cell]
  <2>1. CASE n <= toEnd
    <3>1. w.cells = Copy(r.cells, r.end, data, 0, n)
      BY <2>1, WriteFields
    <3> HIDE DEF n, w, toEnd
    <3> QED BY <1>1, <1>2, <1>3, <3>1, CopyType
  <2>2. CASE ~(n <= toEnd)
    <3>1. w.cells = Copy(Copy(r.cells, r.end, data, 0, toEnd),
                         0, data, toEnd, n - toEnd)
      BY <2>2, WriteFields
    <3> HIDE DEF n, w, toEnd
    <3>2. Copy(r.cells, r.end, data, 0, toEnd) \in [Slot -> Cell]
      BY <1>1, <1>2, <1>3, <2>2, CopyType
    <3>3. n - toEnd \in Nat /\ toEnd + (n - toEnd) <= Len(data)
      BY <1>2, <1>3, <2>2
    <3> DEFINE m == n - toEnd
               half == Copy(r.cells, r.end, data, 0, toEnd)
    <3> HIDE DEF m, half
    <3>4. Copy(half, 0, data, toEnd, m) \in [Slot -> Cell]
      BY <1>3, <3>2, <3>3, CopyType DEF m, half
    <3> QED BY <3>1, <3>4 DEF m, half
  <2> QED BY <2>1, <2>2
<1>9. w.size = 0 => w.start = 0 /\ w.end = 0
  <2>1. SUFFICES ASSUME w.size = 0
                 PROVE  w.start = 0 /\ w.end = 0
    OBVIOUS
  <2>2. r.size = 0 /\ n = 0
    <3> HIDE DEF n, w
    <3> QED BY <1>1, <1>2, <1>5, <2>1
  <2>3. r.start = 0 /\ r.end = 0
    BY <2>2 DEF Consistent
  <2>4. w.end = Wrap(0 + 0)
    BY <1>5, <1>7, <2>1, <2>3
  <2> QED BY <1>1, <1>5, <2>3, <2>4 DEF Wrap
<1> QED
  <2> HIDE DEF w
  <2>1. w \in Ring
    BY <1>1, <1>5, <1>6, <1>7, <1>8, MakeRing
  <2>2. Consistent(w)
    BY <1>7, <1>9 DEF Consistent
  <2> QED BY <2>1, <2>2 DEF w

-----------------------------------------------------------------------------
\* What read() hands out is a sequence of cells.
LEMMA ReadDataType ==
    ASSUME NEW r \in Ring, NEW len \in Nat
    PROVE  /\ ReadLen(r, len) \in 0 .. r.size
           /\ ReadData(r, len) \in Seq(Cell)
<1> DEFINE n == ReadLen(r, len)
           c(i) == IF i <= Capacity - r.start
                   THEN r.cells[r.start + i - 1]
                   ELSE r.cells[i - 1 - (Capacity - r.start)]
<1>1. n \in 0 .. r.size /\ n \in Nat
  BY RingFields DEF ReadLen, Least
<1>2. \A i \in 1 .. n : c(i) \in Cell
  <2> HIDE DEF n
  <2> TAKE i \in 1 .. n
  <2>1. IF i <= Capacity - r.start THEN r.start + i - 1 \in Slot
                                   ELSE i - 1 - (Capacity - r.start) \in Slot
    BY <1>1, RingFields DEF Slot
  <2> QED BY <2>1, RingFields
<1>3. ReadData(r, len) = [i \in 1 .. n |-> c(i)]
  BY DEF ReadData
<1>4. [i \in 1 .. n |-> c(i)] \in Seq(Cell)
  <2> HIDE DEF c, n
  <2> QED BY <1>1, <1>2
<1> QED BY <1>1, <1>3, <1>4

\* read() keeps the fields in range and the indices consistent.
LEMMA ReadRing ==
    ASSUME NEW r \in Ring, NEW len \in Nat, Consistent(r)
    PROVE  /\ AfterRead(r, len) \in Ring
           /\ Consistent(AfterRead(r, len))
<1> DEFINE n == ReadLen(r, len)
           toEnd == Capacity - r.start
           a == AfterRead(r, len)
<1>1. /\ Capacity \in Nat \ {0}
      /\ r.start \in Slot
      /\ r.end \in Slot
      /\ r.size \in 0 .. Capacity
      /\ r.cells \in [Slot -> Cell]
  BY RingFields
<1>2. n \in 0 .. r.size
  BY ReadDataType
<1>3. CASE n = 0
  BY <1>3 DEF AfterRead, Consistent
<1>4. CASE n # 0 /\ n = r.size
  <2>1. a = [start |-> 0, end |-> 0, size |-> 0, cells |-> r.cells]
    BY <1>4 DEF AfterRead
  <2>2. 0 \in Slot /\ 0 \in 0 .. Capacity /\ Wrap(0) = 0
    BY <1>1 DEF Slot, Wrap
  <2> QED BY <1>1, <2>1, <2>2, MakeRing DEF Consistent
<1>5. CASE n # 0 /\ n # r.size
  <2> DEFINE s == IF n < toEnd THEN r.start + n ELSE n - toEnd
  <2>1. a = [start |-> s, end |-> r.end, size |-> r.size - n,
             cells |-> r.cells]
    BY <1>5 DEF AfterRead
  <2>2. s \in Slot /\ Wrap(r.start + r.size) = Wrap(s + (r.size - n))
    <3> HIDE DEF n
    <3> QED BY <1>1, <1>2, StartAfterRead
  <2>3. r.size - n \in 1 .. Capacity
    <3> HIDE DEF n
    <3> QED BY <1>1, <1>2, <1>5
  <2> HIDE DEF n, s, toEnd
  <2>4. a \in Ring
    BY <1>1, <2>1, <2>2, <2>3, MakeRing
  <2>5. Consistent(a)
    BY <1>1, <2>1, <2>2, <2>3 DEF Consistent
  <2> QED BY <2>4, <2>5
<1> QED BY <1>3, <1>4, <1>5

-----------------------------------------------------------------------------
\* The queue that a ring stands for, cell by cell.
LEMMA ContentsType ==
    ASSUME NEW r \in Ring
    PROVE  /\ Contents(r) \in Seq(Cell)
           /\ Len(Contents(r)) = r.size
           /\ \A i \in 1 .. r.size :
                 /\ Wrap(r.start + i - 1) \in Slot
                 /\ Contents(r)[i] = r.cells[Wrap(r.start + i - 1)]
<1> DEFINE c(i) == r.cells[Wrap(r.start + i - 1)]
           z == r.size
<1>1. z \in Nat /\ z <= Capacity
  BY RingFields
<1>2. \A i \in 1 .. z : Wrap(r.start + i - 1) \in Slot
  BY <1>1, RingFields DEF Wrap, Slot
<1>3. \A i \in 1 .. z : c(i) \in Cell
  BY <1>2, RingFields
<1>4. Contents(r) = [i \in 1 .. z |-> c(i)]
  BY DEF Contents
<1>5. /\ [i \in 1 .. z |-> c(i)] \in Seq(Cell)
      /\ Len([i \in 1 .. z |-> c(i)]) = z
      /\ \A i \in 1 .. z : [j \in 1 .. z |-> c(j)][i] = c(i)
  <2> HIDE DEF c, z
  <2> QED BY <1>1, <1>3
<1> QED BY <1>2, <1>4, <1>5

\* Where the cells go: those already held keep clear of the slots written,
\* and the k-th cell written follows the k - 1 before it.
LEMMA WriteSlots ==
    ASSUME NEW s \in Slot, NEW e \in Slot, NEW z \in 0 .. Capacity,
           NEW n \in 0 .. Capacity - z, NEW toEnd,
           toEnd = Capacity - e, e = Wrap(s + z)
    PROVE  /\ \A i \in 1 .. z :
                 /\ n <= toEnd => Wrap(s + i - 1) \notin e .. e + n - 1
                 /\ ~(n <= toEnd) =>
                       /\ Wrap(s + i - 1) \notin e .. e + toEnd - 1
                       /\ Wrap(s + i - 1) \notin 0 .. 0 + (n - toEnd) - 1
           /\ \A k \in 1 .. n :
                 Wrap(s + z + k - 1) = IF k <= toEnd THEN e + k - 1
                                                     ELSE k - 1 - toEnd
BY CapacityAssumption DEF Slot, Wrap

\* After write() the array still holds the old cells and holds the new ones.
LEMMA WriteCells ==
    ASSUME NEW r \in Ring, NEW data \in Seq(Cell), Consistent(r)
    PROVE  /\ \A i \in 1 .. r.size :
                 write(r, data).cells[Wrap(r.start + i - 1)]
                     = r.cells[Wrap(r.start + i - 1)]
           /\ \A k \in 1 .. WriteLen(r, data) :
                 write(r, data).cells[Wrap(r.start + r.size + k - 1)] = data[k]
<1> DEFINE n == WriteLen(r, data)
           toEnd == Capacity - r.end
           c == write(r, data).cells
           p(i) == Wrap(r.start + i - 1)
           q(k) == Wrap(r.start + r.size + k - 1)
<1>1. /\ Capacity \in Nat \ {0}
      /\ r.start \in Slot
      /\ r.end \in Slot
      /\ r.size \in 0 .. Capacity
  BY RingFields
<1>2. n \in Nat /\ n \in 0 .. Capacity - r.size
  BY WriteLenRange, RingFields
<1>3. toEnd \in Nat /\ r.end \in Nat
  BY <1>1 DEF Slot
<1>4. r.end = Wrap(r.start + r.size)
  BY DEF Consistent
<1>5. /\ \A i \in 1 .. r.size :
            /\ n <= toEnd => p(i) \notin r.end .. r.end + n - 1
            /\ ~(n <= toEnd) =>
                  /\ p(i) \notin r.end .. r.end + toEnd - 1
                  /\ p(i) \notin 0 .. 0 + (n - toEnd) - 1
      /\ \A k \in 1 .. n :
            q(k) = IF k <= toEnd THEN r.end + k - 1 ELSE k - 1 - toEnd
  <2> HIDE DEF n
  <2> QED BY <1>1, <1>2, <1>4, WriteSlots
<1>6. \A i \in 1 .. r.size : p(i) \in Slot
  BY ContentsType
<1>7. ASSUME NEW k \in 1 .. n
      PROVE  /\ q(k) \in Slot /\ q(k) \in Nat /\ k \in Nat /\ k >= 1
             /\ k <= n
             /\ k <= toEnd => q(k) = r.end + k - 1
             /\ ~(k <= toEnd) => q(k) = k - 1 - toEnd
  <2>1. q(k) = IF k <= toEnd THEN r.end + k - 1 ELSE k - 1 - toEnd
    BY <1>5
  <2> HIDE DEF n, q
  <2> QED BY <1>1, <1>2, <1>3, <2>1 DEF Slot
<1>8. CASE n <= toEnd
  <2>1. c = Copy(r.cells, r.end, data, 0, n)
    BY <1>8, WriteFields
  <2>2. c = [s \in Slot |-> IF s \in r.end .. r.end + n - 1
                            THEN data[0 + s - r.end + 1] ELSE r.cells[s]]
    <3> HIDE DEF n, c
    <3> QED BY <2>1 DEF Copy
  <2> HIDE DEF n, c, p, q
  <2>3. \A i \in 1 .. r.size : c[p(i)] = r.cells[p(i)]
    BY <1>5, <1>6, <1>8, <2>2
  <2>4. \A k \in 1 .. n : c[q(k)] = data[k]
    <3> TAKE k \in 1 .. n
    <3>1. q(k) \in r.end .. r.end + n - 1 /\ 0 + q(k) - r.end + 1 = k
      <4> HIDE DEF toEnd
      <4> QED BY <1>2, <1>3, <1>7, <1>8
    <3> QED BY <1>7, <2>2, <3>1
  <2> QED BY <2>3, <2>4 DEF n, c, p, q
<1>9. CASE ~(n <= toEnd)
  <2> DEFINE half == [s \in Slot |-> IF s \in r.end .. r.end + toEnd - 1
                                     THEN data[0 + s - r.end + 1]
                                     ELSE r.cells[s]]
             m == n - toEnd
  <2>1. c = Copy(Copy(r.cells, r.end, data, 0, toEnd), 0, data, toEnd, m)
    BY <1>9, WriteFields
  <2>2. Copy(r.cells, r.end, data, 0, toEnd) = half
    BY DEF Copy
  <2>3. c = [s \in Slot |-> IF s \in 0 .. 0 + m - 1
                            THEN data[toEnd + s - 0 + 1] ELSE half[s]]
    <3> HIDE DEF n, c, half, m, toEnd
    <3> QED BY <2>1, <2>2 DEF Copy
  <2> HIDE DEF n, c, p, q, half
  <2>4. \A i \in 1 .. r.size : c[p(i)] = r.cells[p(i)]
    <3> TAKE i \in 1 .. r.size
    <3>1. c[p(i)] = half[p(i)]
      BY <1>5, <1>6, <1>9, <2>3
    <3>2. half[p(i)] = r.cells[p(i)]
      BY <1>5, <1>6, <1>9 DEF half
    <3> QED BY <3>1, <3>2
  <2>5. \A k \in 1 .. n : c[q(k)] = data[k]
    <3> TAKE k \in 1 .. n
    <3>1. CASE k <= toEnd
      <4>1. /\ q(k) \notin 0 .. 0 + m - 1
            /\ q(k) \in r.end .. r.end + toEnd - 1
            /\ 0 + q(k) - r.end + 1 = k
        <5>1. n - toEnd <= r.end
          BY <1>1, <1>2 DEF Slot
        <5> HIDE DEF toEnd
        <5> QED BY <1>2, <1>3, <1>7, <1>9, <3>1, <5>1
      <4> QED BY <1>7, <2>3, <4>1 DEF half
    <3>2. CASE ~(k <= toEnd)
      <4>1. q(k) \in 0 .. 0 + m - 1 /\ toEnd + q(k) - 0 + 1 = k
        BY <1>2, <1>3, <1>7, <1>9, <3>2
      <4> QED BY <1>7, <2>3, <4>1
    <3> QED BY <3>1, <3>2
  <2> QED BY <2>4, <2>5 DEF n, c, p, q
<1> QED BY <1>8, <1>9

\* write() appends the prefix it accepts to the queue.
LEMMA WriteContents ==
    ASSUME NEW r \in Ring, NEW data \in Seq(Cell), Consistent(r)
    PROVE  Contents(write(r, data))
               = Contents(r) \o SubSeq(data, 1, WriteLen(r, data))
<1> DEFINE n == WriteLen(r, data)
           w == write(r, data)
           new == SubSeq(data, 1, n)
           old == Contents(r)
           all == old \o new
<1>1. /\ n \in Nat /\ Len(data) \in Nat /\ n <= Len(data)
      /\ r.size \in Nat /\ r.start \in Nat
  BY WriteLenRange, RingFields DEF Slot
<1>2. w \in Ring /\ w.start = r.start /\ w.size = r.size + n
  BY WriteRing, WriteFields
<1>3. /\ Contents(w) \in Seq(Cell)
      /\ Len(Contents(w)) = r.size + n
      /\ \A i \in 1 .. r.size + n :
            Contents(w)[i] = w.cells[Wrap(r.start + i - 1)]
  <2> HIDE DEF n, w
  <2> QED BY <1>2, ContentsType
<1>4. /\ old \in Seq(Cell) /\ Len(old) = r.size
      /\ \A i \in 1 .. r.size : old[i] = r.cells[Wrap(r.start + i - 1)]
  BY ContentsType
<1>5. /\ new \in Seq(Cell) /\ Len(new) = n
      /\ \A k \in 1 .. n : new[k] = data[k]
  <2> HIDE DEF n
  <2>1. \A i \in 1 .. n : data[i] \in Cell
    BY <1>1
  <2> QED BY <1>1, <2>1, SubSeqProperties
<1>6. /\ all \in Seq(Cell) /\ Len(all) = r.size + n
      /\ \A i \in 1 .. r.size + n :
            all[i] = IF i <= r.size THEN old[i] ELSE new[i - r.size]
  <2> HIDE DEF old, new, n
  <2>1. /\ old \o new \in Seq(Cell)
        /\ Len(old \o new) = Len(old) + Len(new)
        /\ \A i \in 1 .. Len(old) + Len(new) :
              (old \o new)[i] =
                  IF i <= Len(old) THEN old[i] ELSE new[i - Len(old)]
    BY <1>4, <1>5, ConcatProperties
  <2> QED BY <1>4, <1>5, <2>1
<1>7. ASSUME NEW i \in 1 .. r.size + n
      PROVE  Contents(w)[i] = all[i]
  <2>1. CASE i <= r.size
    <3>1. w.cells[Wrap(r.start + i - 1)] = r.cells[Wrap(r.start + i - 1)]
      <4>1. i \in 1 .. r.size
        <5> HIDE DEF n
        <5> QED BY <1>1, <2>1
      <4> QED BY <4>1, WriteCells
    <3>2. i \in 1 .. r.size
      <4> HIDE DEF n
      <4> QED BY <1>1, <2>1
    <3> HIDE DEF n, w, old, new, all
    <3> QED BY <1>3, <1>4, <1>6, <2>1, <3>1, <3>2
  <2>2. CASE ~(i <= r.size)
    <3> DEFINE k == i - r.size
    <3>1. k \in 1 .. n /\ r.start + r.size + k - 1 = r.start + i - 1
      <4> HIDE DEF n
      <4> QED BY <1>1, <2>2
    <3>2. w.cells[Wrap(r.start + r.size + k - 1)] = data[k]
      <4> HIDE DEF k
      <4> QED BY <3>1, WriteCells
    <3> HIDE DEF n, w, old, new, all
    <3> QED BY <1>3, <1>5, <1>6, <2>2, <3>1, <3>2
  <2> QED BY <2>1, <2>2
<1>8. Contents(w) = all
  <2> HIDE DEF n, w, old, new, all
  <2> QED BY <1>1, <1>3, <1>6, <1>7, SeqEqual
<1> QED BY <1>8

-----------------------------------------------------------------------------
\* read() hands out the oldest cells of the queue, in order.
LEMMA ReadContents ==
    ASSUME NEW r \in Ring, NEW len \in Nat
    PROVE  ReadData(r, len) = SubSeq(Contents(r), 1, ReadLen(r, len))
<1> DEFINE n == ReadLen(r, len)
           q == Contents(r)
           d == ReadData(r, len)
           front == SubSeq(q, 1, n)
<1>1. /\ n \in Nat /\ n <= r.size /\ r.size \in Nat
      /\ r.start \in Nat /\ Capacity \in Nat /\ r.start < Capacity
      /\ r.size <= Capacity
  <2> HIDE DEF n
  <2>1. n \in 0 .. r.size
    BY ReadDataType DEF n
  <2> QED BY <2>1, RingFields DEF Slot
<1>2. /\ q \in Seq(Cell) /\ Len(q) = r.size
      /\ \A i \in 1 .. r.size : q[i] = r.cells[Wrap(r.start + i - 1)]
  BY ContentsType
<1>3. /\ front \in Seq(Cell) /\ Len(front) = n
      /\ \A i \in 1 .. n : front[i] = q[i]
  <2> HIDE DEF n, q
  <2>1. \A i \in 1 .. n : q[i] \in Cell
    BY <1>1, <1>2
  <2> QED BY <1>1, <2>1, SubSeqProperties
<1>4. /\ d \in Seq(Cell)
      /\ d = [i \in 1 .. n |->
                 IF i <= Capacity - r.start
                 THEN r.cells[r.start + i - 1]
                 ELSE r.cells[i - 1 - (Capacity - r.start)]]
  BY ReadDataType DEF ReadData
<1> HIDE DEF n, q, d, front
<1>5. Len(d) = n
  BY <1>1, <1>4
<1>6. ASSUME NEW i \in 1 .. n
      PROVE  d[i] = front[i]
  <2>1. Wrap(r.start + i - 1) = IF i <= Capacity - r.start
                                THEN r.start + i - 1
                                ELSE i - 1 - (Capacity - r.start)
    BY <1>1 DEF Wrap
  <2>2. i \in 1 .. r.size
    BY <1>1
  <2> QED BY <1>2, <1>3, <1>4, <2>1, <2>2
<1>7. d = front
  BY <1>1, <1>3, <1>4, <1>5, <1>6, SeqEqual
<1> QED BY <1>7 DEF d, front, q, n

\* read() leaves the rest of the queue.
LEMMA AfterReadContents ==
    ASSUME NEW r \in Ring, NEW len \in Nat, Consistent(r)
    PROVE  Contents(AfterRead(r, len))
               = SubSeq(Contents(r), ReadLen(r, len) + 1, Len(Contents(r)))
<1> DEFINE n == ReadLen(r, len)
           q == Contents(r)
           a == AfterRead(r, len)
           rest == SubSeq(q, n + 1, r.size)
<1>1. /\ n \in Nat /\ n <= r.size /\ r.size \in Nat
      /\ r.start \in Nat /\ Capacity \in Nat /\ r.start < Capacity
      /\ r.size <= Capacity
  <2> HIDE DEF n
  <2>1. n \in 0 .. r.size
    BY ReadDataType DEF n
  <2> QED BY <2>1, RingFields DEF Slot
<1>2. /\ q \in Seq(Cell) /\ Len(q) = r.size
      /\ \A i \in 1 .. r.size : q[i] = r.cells[Wrap(r.start + i - 1)]
  BY ContentsType
<1>3. a \in Ring /\ a.cells = r.cells /\ a.size = r.size - n
  <2>1. a.cells = r.cells
    BY DEF AfterRead
  <2>2. a.size = r.size - n
    BY <1>1 DEF AfterRead
  <2> QED BY <2>1, <2>2, ReadRing
<1>4. /\ Contents(a) \in Seq(Cell)
      /\ Len(Contents(a)) = r.size - n
      /\ \A i \in 1 .. r.size - n :
            Contents(a)[i] = r.cells[Wrap(a.start + i - 1)]
  <2> HIDE DEF a, n
  <2> QED BY <1>3, ContentsType
<1>5. /\ rest \in Seq(Cell) /\ Len(rest) = r.size - n
      /\ \A i \in 1 .. r.size - n : rest[i] = q[n + i]
  <2> HIDE DEF n, q
  <2>1. \A i \in n + 1 .. r.size : q[i] \in Cell
    BY <1>1, <1>2
  <2>2. /\ rest \in Seq(Cell)
        /\ Len(rest) = IF n + 1 <= r.size THEN r.size - (n + 1) + 1 ELSE 0
        /\ \A i \in 1 .. r.size - (n + 1) + 1 : rest[i] = q[n + 1 + i - 1]
    BY <1>1, <2>1, SubSeqProperties
  <2> HIDE DEF rest
  <2> QED BY <1>1, <2>2
<1>6. \A i \in 1 .. r.size - n :
         Wrap(a.start + i - 1) = Wrap(r.start + (n + i) - 1)
  <2>1. CASE n = 0
    <3>1. a = r
      BY <2>1 DEF AfterRead
    <3> HIDE DEF a, n
    <3> QED BY <1>1, <2>1, <3>1
  <2>2. CASE n = r.size
    <3> HIDE DEF a, n
    <3> QED BY <1>1, <2>2
  <2>3. CASE n # 0 /\ n # r.size
    <3>1. a.start = IF n < Capacity - r.start THEN r.start + n
                                              ELSE n - (Capacity - r.start)
      BY <2>3 DEF AfterRead
    <3> HIDE DEF a, n
    <3> QED BY <1>1, <3>1 DEF Wrap
  <2> QED BY <2>1, <2>2, <2>3
<1> HIDE DEF a, n, q, rest
<1>7. ASSUME NEW i \in 1 .. r.size - n
      PROVE  Contents(a)[i] = rest[i]
  <2>1. n + i \in 1 .. r.size
    BY <1>1
  <2> QED BY <1>2, <1>4, <1>5, <1>6, <2>1
<1>8. Contents(a) = rest
  BY <1>1, <1>4, <1>5, <1>7, SeqEqual
<1> QED BY <1>2, <1>8 DEF a, n, q, rest

=============================================================================
