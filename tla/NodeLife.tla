------------------------------- MODULE NodeLife -------------------------------
(***************************************************************************)
(* The life of one node object (NetClient, Controller, ImageController):   *)
(* its constructor starts a thread, its destructor stops and joins it.     *)
(* This is what RecyclrClient relies on and what each node promises.       *)
(***************************************************************************)
VARIABLES thread,   \* of the node, see Threads
          owner     \* the object, as its owner's thread sees it, see Owners

vars == <<thread, owner>>

\* "crashed": the process is gone, by whatever thread.
Threads == {"none", "running", "exited", "crashed"}

\* "stopping": the destructor has begun.  "joining": it has cleared _running.
Owners == {"absent", "using", "stopping", "joining", "destroyed"}

Init == <<thread, owner>> \in {<<"none", "absent">>, <<"running", "using">>}

Create == /\ thread = "none" /\ owner = "absent"
          /\ thread' = "running" /\ owner' = "using"

\* By an error, by itself, or because it was told to.
ThreadEnds == thread = "running" /\ thread' = "exited" /\ UNCHANGED owner

Crash == thread # "crashed" /\ thread' = "crashed" /\ UNCHANGED owner

Delete == /\ thread # "crashed" /\ owner = "using"
          /\ owner' = "stopping" /\ UNCHANGED thread

Stop == /\ thread # "crashed" /\ owner = "stopping"
        /\ owner' = "joining" /\ UNCHANGED thread

\* The object is gone only when its thread is.
Join == /\ thread = "exited" /\ owner = "joining"
        /\ owner' = "destroyed" /\ UNCHANGED thread

Next == Create \/ ThreadEnds \/ Crash \/ Delete \/ Stop \/ Join

Steps == Init /\ [][Next]_vars

\* A thread that is told to end does, and the destructor goes on.
Fairness == /\ WF_vars(owner = "joining" /\ ThreadEnds)
            /\ WF_vars(Stop) /\ WF_vars(Join)

Spec == Steps /\ Fairness

=============================================================================
