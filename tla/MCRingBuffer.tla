---------------------------- MODULE MCRingBuffer -----------------------------
(***************************************************************************)
(* RingBuffer on a small instance: the calls write up to MaxChunk cells    *)
(* and ask for up to MaxChunk cells.  MaxChunk is larger than the capacity *)
(* so that writes are cut short and reads ask for more than there is.      *)
(***************************************************************************)
EXTENDS RingBuffer, SequencesExt

CONSTANT MaxChunk

MCChunk == UNION {[1 .. n -> Cell] : n \in 0 .. MaxChunk}
MCLength == 0 .. MaxChunk

=============================================================================
