--------------------------- MODULE ConnectionLife ----------------------------
(***************************************************************************)
(* The life of one connection object between the two loops of the network  *)
(* thread, NetClient::handle_socket and NetClient::process_connections.    *)
(* It is what NetClient relies on and what Connection promises: module     *)
(* Connection implements it, and so does every connection of NetClient.    *)
(***************************************************************************)
VARIABLES life,     \* of the object, see Lives
          turn      \* which of the two loops comes next or is going on

vars == <<life, turn>>

Turns == {"event", "state"}

\* "none": not accepted, or accepted and lost before the object was in the
\* vector.  "shut": the object is live and its socket closed.
Lives == {"none", "open", "shut", "deleted", "crashed"}

Init == life \in {"none", "open"} /\ turn \in Turns

Accept == turn = "event" /\ life = "none" /\ life' = "open"

\* handle_epoll_event may delete the object but never closes its socket alone.
EventCall == turn = "event" /\ life = "open" /\ life' = "deleted"

\* A state function may close the socket, or delete the object.
StateCall == turn = "state" /\ life = "open" /\ life' \in {"shut", "deleted"}

\* The process dies, here or in another connection.
Crash == life \in {"open", "shut"} /\ life' = "crashed"

\* turn changes freely: the loops alternate, and may pass over a connection.
Step == /\ Accept \/ EventCall \/ StateCall \/ Crash \/ UNCHANGED life
        /\ turn' \in Turns

Spec == Init /\ [][Step]_vars

=============================================================================
