---------------------------- MODULE MCConnection -----------------------------
(***************************************************************************)
(* Instances of Connection: peers that speak the protocol and peers that   *)
(* do not.                                                                 *)
(***************************************************************************)
EXTENDS Connection

Message(code, dest, plen, magic) ==
    HeaderCells([code |-> code, dest |-> dest, plen |-> plen, magic |-> magic])

Open == Message("open", 0, 0, TRUE)

\* A payload that reads as an OPEN, with the magic.
Decoy == [code |-> "open", dest |-> 0, plen |-> 0, magic |-> TRUE]

\* A handshake, then work for either destination, and messages without payload.
PoliteMsgs == {Open, Message("other", 1, 1, TRUE) \o <<Decoy>>, Message("other", 0, 0, TRUE)}

\* Work with an OPEN for a payload, also before the handshake; a handshake with a
\* payload; a bad magic before a payload that is a request itself.
RudeMsgs == {Open, Message("other", 1, 2, TRUE) \o Open,
             Message("open", 0, 1, TRUE) \o <<Blank>>,
             Message("open", 0, 3, FALSE) \o Message("other", 0, 1, TRUE) \o <<Blank>>}

\* Early messages without payload, one of them with a bad magic.
EarlyMsgs == {Message("other", 0, 0, TRUE), Message("other", 0, 0, FALSE)}

\* A peer that never leaves the protocol.
PoliteSpec == Init /\ [][Next /\ WellFormed']_vars /\ Fairness

=============================================================================
