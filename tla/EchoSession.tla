----------------------------- MODULE EchoSession -----------------------------
(***************************************************************************)
(* What one connection promises a peer that speaks the protocol: its       *)
(* messages are answered one by one and in order until it ends the         *)
(* session.  Module Connection implements this, with its buffers, partial  *)
(* reads and edge-triggered events.                                        *)
(***************************************************************************)
EXTENDS Messages, FiniteSets

CONSTANTS PeerMsgs,     \* the headers of the messages that the peer sends
          ReplyPayload  \* the payload_len of a reply, 100 in the code

VARIABLES asked,        \* the messages that the peer sent
          answered,     \* the answers that the program sent
          gone,         \* the peer has ended the session
          over          \* the program has

vars == <<asked, answered, gone, over>>

\* An OPEN comes before the message i of ms.
Opened(ms, i) == \E j \in 1 .. i - 1 : ms[j].magic /\ ms[j].code = "open"

\* The messages that call for an answer: the first OPEN, then each message with
\* a payload.  One without the magic calls for nothing.
Asking(ms) ==
    {i \in 1 .. Len(ms) :
        /\ ms[i].magic
        /\ IF Opened(ms, i) THEN ms[i].plen > 0 ELSE ms[i].code = "open"}

\* An OPEN is acknowledged; any other message is replied to.  Either answer
\* goes to a destination plus one.
AnswerTo(ms, i) ==
    IF Opened(ms, i)
    THEN [code |-> "test", dest |-> (ms[i].dest + 1) % ByteVals,
          plen |-> ReplyPayload, magic |-> TRUE]
    ELSE [code |-> "ack", dest |-> 1 % ByteVals, plen |-> 0, magic |-> TRUE]

\* How many of the messages up to i call for an answer.
Rank(ms, i) == Cardinality(Asking(ms) \cap 1 .. i)

\* The answers that the messages ms call for, one by one and in order.
Replies(ms) ==
    [n \in 1 .. Cardinality(Asking(ms)) |->
        AnswerTo(ms, CHOOSE i \in Asking(ms) : Rank(ms, i) = n)]

Init == asked = <<>> /\ answered = <<>> /\ gone = FALSE /\ over = FALSE

Ask(h) == /\ ~gone /\ ~over
          /\ asked' = Append(asked, h)
          /\ UNCHANGED <<answered, gone, over>>

Leave == /\ ~gone /\ ~over
         /\ gone' = TRUE
         /\ UNCHANGED <<asked, answered, over>>

\* The next answer that is owed.  To a peer that has left it may be the last
\* thing that the program does.
Answer == /\ ~over /\ Len(answered) < Len(Replies(asked))
          /\ answered' = Append(answered, Replies(asked)[Len(answered) + 1])
          /\ over' \in {FALSE, gone}
          /\ UNCHANGED <<asked, gone>>

\* The program ends a session only after the peer.
End == /\ gone /\ ~over
       /\ over' = TRUE
       /\ UNCHANGED <<asked, answered, gone>>

Next == (\E h \in PeerMsgs : Ask(h)) \/ Leave \/ Answer \/ End

Spec == Init /\ [][Next]_vars /\ WF_vars(Answer) /\ WF_vars(End)

=============================================================================
