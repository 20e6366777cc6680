------------------------------ MODULE Messages -------------------------------
(***************************************************************************)
(* struct recyclr_msg_header (recyclr-msg.h) on the wire.                  *)
(*                                                                         *)
(* A header is two cells: one for the fields before msg_magic and one for  *)
(* msg_magic itself, so that half a header can arrive, and so that reading *)
(* at the wrong offset is visible.  A payload is a run of cells that can   *)
(* hold anything, parts of headers and the magic included.                 *)
(* priority and micro_ts are written and never read; they are left out.    *)
(***************************************************************************)
EXTENDS Integers, Sequences

CONSTANTS ByteVals,     \* the values of "byte destination : 8", 256 in the code
          MaxPayload    \* the largest payload_len on the wire

ASSUME MessagesAssumption == /\ ByteVals \in Nat \ {0}
                             /\ MaxPayload \in Nat

\* enum MessageCode, the codes that the connection compares with or sends;
\* "other" stands for the rest, which it never tells apart.
Code == {"open", "ack", "test", "other"}

\* magic: msg_magic = MSG_MAGIC.
Header == [code : Code, dest : 0 .. ByteVals - 1, plen : 0 .. MaxPayload,
           magic : BOOLEAN]

\* The value-initialised header of the Connection constructor.
NoHeader == [code |-> "other", dest |-> 0, plen |-> 0, magic |-> FALSE]

-----------------------------------------------------------------------------
\* A cell is a run of bytes, told apart by what the program may read them as: the
\* fields of a header, where one starts with them, and MSG_MAGIC or not, where
\* msg_magic is looked for.  No byte says that it belongs to a header.
Cell == Header

\* What nobody looks at: a slot of a new buffer, the payload of a reply.
Blank == NoHeader

HeaderLen == 2

HeaderCells(h) == <<[h EXCEPT !.magic = FALSE], [NoHeader EXCEPT !.magic = h.magic]>>

\* The bytes of a message of the program: the header, then payload_len bytes
\* that send_msg leaves uninitialised.
MessageCells(h) == HeaderCells(h) \o [i \in 1 .. h.plen |-> Blank]

-----------------------------------------------------------------------------
\* msg_magic of the header that starts with the cell c[1].
MagicIn(c) == c[2].magic

\* The header that the cells c start with, whatever they were sent as.
ReadHeader(c) == [c[1] EXCEPT !.magic = MagicIn(c)]

=============================================================================
