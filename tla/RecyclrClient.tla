---------------------------- MODULE RecyclrClient ----------------------------
(***************************************************************************)
(* The process: main and class RecyclrClient (recyclr-client.cpp), which   *)
(* constructs the three nodes, pins their threads to cores and, in its     *)
(* destructor, deletes them; and the two nodes Controller and              *)
(* ImageController, whose code is the same.  The third node, NetClient, is *)
(* here what module NetClient is shown to implement: a NodeLife.           *)
(***************************************************************************)
EXTENDS Integers, Sequences

CONSTANT MaxCore    \* the highest core number that a host may have

ASSUME CoreAssumption == MaxCore \in Nat

\* In the order of construction, and of deletion.
Order == <<"net", "controller", "image">>

Workers == {"controller", "image"}

Nodes == {"net"} \cup Workers

\* enum thread_mask: the core of each node's thread, and the main thread's.
Mask == [net |-> 1, image |-> 2, controller |-> 3]

BaseMask == 0

VARIABLES
    process,    \* "alive"; "aborted" by an exception, "crashed" by the network
    pc,         \* where the main thread is, see Places
    k,          \* the place in Order of the node that it is at
    thread,     \* of each node: "none", "running", "exited"
    state_fn,   \* _state_fn of each worker
    running,    \* _running of each node
    affinity,   \* the cores that each thread may run on
    host        \* the cores that the host has

vars == <<process, pc, k, thread, state_fn, running, affinity, host>>

place  == <<pc, k>>
node   == <<thread, state_fn, running>>

\* In main: "pin", "setup", "loop"; in the constructors: "new", "affinity"; in
\* the destructors: "stop", "join", and "destroyed" after them.
Places == {"pin", "new", "affinity", "setup", "loop", "stop", "join", "destroyed"}

Init ==
    /\ process = "alive" /\ pc = "pin" /\ k = 1
    /\ host \in SUBSET (0 .. MaxCore) /\ host # {}
    /\ thread = [n \in Nodes |-> "none"]
    /\ state_fn = [w \in Workers |-> "null"]
    /\ running = [n \in Nodes |-> FALSE]
    /\ affinity = [t \in Nodes \cup {"main"} |-> host]

\* The main thread is at p.
At(p) == process = "alive" /\ pc = p

\* After the node k, the first step of the next one, or what follows the last.
NextNode(first, last) == IF k < Len(Order) THEN pc' = first /\ k' = k + 1
                                           ELSE pc' = last /\ k' = 1

-----------------------------------------------------------------------------
(***************************************************************************)
(* Thread affinity.                                                        *)
(***************************************************************************)
PinnedAnyway(t, c) == [affinity EXCEPT ![t] = {c}]  \* mutant: any core will do

\* The affinities after a call that pins the thread t to the core c, which
\* fails on a host without that core.
Pinned(t, c) == IF c \in host THEN [affinity EXCEPT ![t] = {c}] ELSE affinity

\* pthread_setaffinity_np on a thread whose run() has returned, but that is not
\* yet joined: it is still there, or the call is an error, or, as in the GNU C
\* library, which passes the cleared thread id 0 to the kernel, the thread that
\* is moved is the caller.
PinnedLate(n, c) == {Pinned(n, c), affinity, Pinned("main", c)}

\* main: the result of set_process_affinity is not looked at.
PinProcess ==
    /\ At("pin")
    /\ affinity' = Pinned("main", BaseMask)
    /\ pc' = "new"
    /\ UNCHANGED <<process, k, node, host>>

-----------------------------------------------------------------------------
(***************************************************************************)
(* The constructors.                                                       *)
(***************************************************************************)
\* A new thread may run where its creator may.
NewThread ==
    /\ At("new")
    /\ running' = [running EXCEPT ![Order[k]] = TRUE]
    /\ thread' = [thread EXCEPT ![Order[k]] = "running"]
    /\ affinity' = [affinity EXCEPT ![Order[k]] = affinity["main"]]
    /\ pc' = "affinity"
    /\ UNCHANGED <<process, k, state_fn, host>>

\* The constructor of std::thread throws, and nothing catches.
NewThreadThrows ==
    /\ At("new")
    /\ process' = "aborted"
    /\ running' = [running EXCEPT ![Order[k]] = TRUE]
    /\ UNCHANGED <<place, thread, state_fn, affinity, host>>

\* set_thread_affinity: an error is only logged.
PinNext ==                              \* mutant: the mask of the next node
    /\ At("affinity")
    /\ affinity' \in IF thread[Order[k]] = "running"
                     THEN {Pinned(Order[k], Mask[Order[1 + (k % 3)]])}
                     ELSE PinnedLate(Order[k], Mask[Order[k]])
    /\ NextNode("new", "setup")
    /\ UNCHANGED <<process, node, host>>

PinThread ==
    /\ At("affinity")
    /\ affinity' \in IF thread[Order[k]] = "running"
                     THEN {Pinned(Order[k], Mask[Order[k]])}
                     ELSE PinnedLate(Order[k], Mask[Order[k]])
    /\ NextNode("new", "setup")
    /\ UNCHANGED <<process, node, host>>

-----------------------------------------------------------------------------
(***************************************************************************)
(* setup_client and the loop of main.  Whether it finds the address and    *)
(* the number of cores is logged and looked at by nobody, its result       *)
(* included.  main never leaves its loop; the destructor is what the class *)
(* does for any owner.                                                     *)
(***************************************************************************)
SetupClient ==
    /\ At("setup")
    /\ pc' = "loop"
    /\ UNCHANGED <<process, k, node, affinity, host>>

Destroy ==
    /\ At("loop")
    /\ pc' = "stop"
    /\ UNCHANGED <<process, k, node, affinity, host>>

-----------------------------------------------------------------------------
(***************************************************************************)
(* The destructors: each node is stopped and joined before the next.       *)
(***************************************************************************)
StopForgotten ==                        \* mutant: _running is not cleared
    /\ At("stop")
    /\ pc' = "join"
    /\ UNCHANGED <<process, k, node, affinity, host>>

StopNode ==
    /\ At("stop")
    /\ running' = [running EXCEPT ![Order[k]] = FALSE]
    /\ pc' = "join"
    /\ UNCHANGED <<process, k, thread, state_fn, affinity, host>>

DetachNode ==                           \* mutant: detach() instead of join()
    /\ At("join")
    /\ NextNode("stop", "destroyed")
    /\ UNCHANGED <<process, node, affinity, host>>

JoinNode ==
    /\ At("join") /\ thread[Order[k]] = "exited"
    /\ NextNode("stop", "destroyed")
    /\ UNCHANGED <<process, node, affinity, host>>

-----------------------------------------------------------------------------
(***************************************************************************)
(* The threads of the workers: run, start and close.                       *)
(***************************************************************************)
Runs(w) == process = "alive" /\ thread[w] = "running"

\* Other than w, nothing changes.
Worker == UNCHANGED <<process, place, running, affinity, host>>

RunBegins(w) ==
    /\ Runs(w) /\ state_fn[w] = "null"
    /\ state_fn' = [state_fn EXCEPT ![w] = "start"]
    /\ UNCHANGED thread /\ Worker

\* The test of the loop in run().
RunEnds(w) ==
    /\ Runs(w) /\ state_fn[w] # "null" /\ ~running[w]
    /\ thread' = [thread EXCEPT ![w] = "exited"]
    /\ UNCHANGED state_fn /\ Worker

Start(w) ==
    /\ Runs(w) /\ state_fn[w] = "start" /\ running[w]
    /\ state_fn' = [state_fn EXCEPT ![w] = "close"]
    /\ UNCHANGED thread /\ Worker

CloseGoesOn(w) ==                       \* mutant: close returns 0
    /\ Runs(w) /\ state_fn[w] = "close" /\ running[w]
    /\ state_fn' = [state_fn EXCEPT ![w] = "close"]
    /\ UNCHANGED thread /\ Worker

\* close returns -1, which ends the loop.
Close(w) ==
    /\ Runs(w) /\ state_fn[w] = "close" /\ running[w]
    /\ thread' = [thread EXCEPT ![w] = "exited"]
    /\ UNCHANGED state_fn /\ Worker

WorkerThread(w) == RunBegins(w) \/ RunEnds(w) \/ Start(w) \/ Close(w)

-----------------------------------------------------------------------------
(***************************************************************************)
(* The thread of the network node, as NodeLife has it.                     *)
(***************************************************************************)
NetEnds ==
    /\ Runs("net")
    /\ thread' = [thread EXCEPT !["net"] = "exited"]
    /\ UNCHANGED state_fn /\ Worker

NetCrashes ==
    /\ Runs("net")
    /\ process' = "crashed"
    /\ UNCHANGED <<place, node, affinity, host>>

-----------------------------------------------------------------------------
Main == \/ PinProcess \/ NewThread \/ NewThreadThrows \/ PinThread
        \/ SetupClient \/ Destroy \/ StopNode \/ JoinNode

Next == Main \/ (\E w \in Workers : WorkerThread(w)) \/ NetEnds \/ NetCrashes

\* The threads run; a network thread that is told to end does; nothing obliges
\* the owner to begin the destructor.
Fairness == /\ WF_vars(Main /\ pc # "loop")
            /\ \A w \in Workers : WF_vars(WorkerThread(w))
            /\ WF_vars(NetEnds /\ ~running["net"])

Spec == Init /\ [][Next]_vars /\ Fairness

-----------------------------------------------------------------------------
\* The place of the node n in Order.
Index(n) == CHOOSE i \in 1 .. Len(Order) : Order[i] = n

Made(n) == \/ pc \notin {"pin", "new", "affinity"}
           \/ pc = "new" /\ k > Index(n)
           \/ pc = "affinity" /\ k >= Index(n)

Gone(n) == \/ pc = "destroyed"
           \/ pc \in {"stop", "join"} /\ k > Index(n)

\* The object of the node n, as the main thread sees it.
OwnerOf(n) == IF ~Made(n) THEN "absent"
              ELSE IF Gone(n) THEN "destroyed"
              ELSE IF pc = "stop" /\ k = Index(n) THEN "stopping"
              ELSE IF pc = "join" /\ k = Index(n) THEN "joining"
              ELSE "using"

-----------------------------------------------------------------------------
\* Type invariant.
TypeOK ==
    /\ process \in {"alive", "aborted", "crashed"}
    /\ pc \in Places /\ k \in 1 .. Len(Order)
    /\ thread \in [Nodes -> {"none", "running", "exited"}]
    /\ state_fn \in [Workers -> {"null", "start", "close"}]
    /\ running \in [Nodes -> BOOLEAN]
    /\ affinity \in [Nodes \cup {"main"} -> SUBSET host]
    /\ host \subseteq 0 .. MaxCore

\* No thread outlives its node, on which it runs: a node is there as long as
\* its thread is, and a thread is told to end only by the destructor of its
\* own node, wherever it is when the destructor begins
\* (recyclr-client.cpp:25-41, recyclr-controller.cpp:17-25).
NoneOutlives ==
    \A n \in Nodes :
        /\ thread[n] = "running" => OwnerOf(n) \in {"using", "stopping", "joining"}
        /\ thread[n] # "none" => (running[n] <=> OwnerOf(n) \in {"using", "stopping"})

\* Once its constructor has returned, the thread of a node runs on the core
\* that is its own, if the host has it: neither where its creator was when it
\* was made, nor what a late call for another thread moves, changes that
\* (recyclr-net.cpp:225-230, recyclr-controller.cpp:10-14).
NodesPinned ==
    \A n \in Nodes :
        /\ thread[n] = "running" /\ OwnerOf(n) # "absent" /\ Mask[n] \in host
        /\ ~(pc = "affinity" /\ Order[k] = n)
        => affinity[n] = {Mask[n]}

\* Each node lives as NodeLife says: constructed once, its thread joined before
\* the object is gone, its destructor returning (recyclr-client.cpp:14-41,
\* recyclr-controller.cpp:4-57, recyclr-image-controller.cpp:3-56).
Node(n) == INSTANCE NodeLife WITH
               thread <- IF process = "alive" THEN thread[n] ELSE "crashed",
               owner  <- OwnerOf(n)

NodeSteps ==
    /\ \A n \in Nodes : Node(n)!Init
    /\ [][\A n \in Nodes : [Node(n)!Next]_(Node(n)!vars)]_vars

NodeSpec == NodeSteps /\ \A n \in Nodes : Node(n)!Fairness

\* The threads of the workers end by themselves, whether or not the destructor
\* comes in between (recyclr-controller.cpp:27-57).
WorkersEnd ==
    \A w \in Workers : thread[w] = "running" ~> thread[w] = "exited" \/ process # "alive"

\* ~RecyclrClient returns, whatever the three threads are doing
\* (recyclr-client.cpp:25-41).
DestructorReturns == pc = "stop" ~> pc = "destroyed" \/ process # "alive"

\* The comment of recyclr-client.cpp:127, "Pin our main thread to core 0", on a
\* host that has that core.
MainPinned == pc = "loop" /\ BaseMask \in host => affinity["main"] = {BaseMask}

=============================================================================
