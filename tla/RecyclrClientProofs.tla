------------------------- MODULE RecyclrClientProofs -------------------------
(***************************************************************************)
(* Theorems about RecyclrClient, for every set of cores of the host.       *)
(***************************************************************************)
EXTENDS RecyclrClient, TLAPS

\* What the invariants rest on: a node has a thread from its construction on,
\* and the walks through Order begin with the first node.
Placed ==
    /\ pc \in {"pin", "setup", "loop"} => k = 1
    /\ \A n \in Nodes : thread[n] = "none" <=> OwnerOf(n) = "absent"

IInv == TypeOK /\ Placed /\ NoneOutlives /\ NodesPinned

LEMMA OrderFacts ==
    /\ Len(Order) = 3
    /\ \A i \in 1 .. 3 : Order[i] \in Nodes /\ Index(Order[i]) = i
    /\ \A n \in Nodes : Index(n) \in 1 .. 3 /\ Order[Index(n)] = n
<1>1. Len(Order) = 3 /\ Order[1] = "net" /\ Order[2] = "controller" /\ Order[3] = "image"
  BY DEF Order
<1>2. Index("net") = 1 /\ Index("controller") = 2 /\ Index("image") = 3
  BY <1>1 DEF Index
<1> QED
  BY <1>1, <1>2 DEF Nodes, Workers

-----------------------------------------------------------------------------
(***************************************************************************)
(* Types.                                                                  *)
(***************************************************************************)
LEMMA PinnedType ==
    ASSUME TypeOK, NEW t \in Nodes \cup {"main"}, NEW c \in 0 .. 3
    PROVE  Pinned(t, c) \in [Nodes \cup {"main"} -> SUBSET host]
BY DEF TypeOK, Pinned

LEMMA MaskType == BaseMask \in 0 .. 3 /\ \A n \in Nodes : Mask[n] \in 0 .. 3
BY DEF Mask, BaseMask, Nodes, Workers

LEMMA PlaceType ==
    ASSUME TypeOK, NEW p \in Places, NEW q \in Places, NextNode(p, q)
    PROVE  (pc \in Places /\ k \in 1 .. Len(Order))'
BY OrderFacts DEF TypeOK, NextNode

LEMMA TypeStep == TypeOK /\ [Next]_vars => TypeOK'
<1> SUFFICES ASSUME TypeOK, [Next]_vars PROVE TypeOK'
  OBVIOUS
<1> USE DEF place, node, At, Places
<1>1. CASE PinProcess
  BY <1>1, PinnedType, MaskType DEF PinProcess, TypeOK
<1>2. CASE NewThread
  <2>1. Order[k] \in Nodes
    BY OrderFacts DEF TypeOK
  <2>2. affinity' \in [Nodes \cup {"main"} -> SUBSET host]
    BY <1>2, <2>1 DEF NewThread, TypeOK
  <2> QED
    BY <1>2, <2>1, <2>2 DEF NewThread, TypeOK
<1>3. CASE NewThreadThrows
  BY <1>3 DEF NewThreadThrows, TypeOK
<1>4. CASE PinThread
  <2>1. Order[k] \in Nodes /\ Mask[Order[k]] \in 0 .. 3
    BY OrderFacts, MaskType DEF TypeOK
  <2>2. affinity' \in [Nodes \cup {"main"} -> SUBSET host]
    <3>1. affinity \in [Nodes \cup {"main"} -> SUBSET host]
      BY DEF TypeOK
    <3>2. /\ Pinned(Order[k], Mask[Order[k]]) \in [Nodes \cup {"main"} -> SUBSET host]
          /\ Pinned("main", Mask[Order[k]]) \in [Nodes \cup {"main"} -> SUBSET host]
      BY <2>1, PinnedType
    <3> QED
      BY <1>4, <3>1, <3>2 DEF PinThread, PinnedLate
  <2>3. (pc \in Places /\ k \in 1 .. Len(Order))'
    BY <1>4, PlaceType DEF PinThread
  <2> QED
    BY <1>4, <2>2, <2>3 DEF PinThread, TypeOK
<1>5. CASE SetupClient
  BY <1>5 DEF SetupClient, TypeOK
<1>6. CASE Destroy
  BY <1>6 DEF Destroy, TypeOK
<1>7. CASE StopNode
  BY <1>7 DEF StopNode, TypeOK
<1>8. CASE JoinNode
  <2>1. (pc \in Places /\ k \in 1 .. Len(Order))'
    BY <1>8, PlaceType DEF JoinNode
  <2> QED
    BY <1>8, <2>1 DEF JoinNode, TypeOK
<1>9. ASSUME NEW w \in Workers, WorkerThread(w) PROVE TypeOK'
  BY <1>9 DEF WorkerThread, RunBegins, RunEnds, Start, Close, Runs, Worker, TypeOK, Nodes
<1>10. CASE NetEnds \/ NetCrashes
  BY <1>10 DEF NetEnds, NetCrashes, Runs, Worker, TypeOK
<1>11. CASE UNCHANGED vars
  BY <1>11 DEF vars, TypeOK
<1> QED
  BY <1>1, <1>2, <1>3, <1>4, <1>5, <1>6, <1>7, <1>8, <1>9, <1>10, <1>11 DEF Next, Main

-----------------------------------------------------------------------------
(***************************************************************************)
(* What each step does to the objects.                                     *)
(***************************************************************************)
LEMMA SameOwner == UNCHANGED place => \A n \in Nodes : OwnerOf(n)' = OwnerOf(n)
BY DEF place, OwnerOf, Made, Gone

\* The main thread keeps every object as it is.
LEMMA OwnerKept ==
    ASSUME TypeOK, Placed, NEW n \in Nodes,
           PinProcess \/ NewThreadThrows \/ PinThread \/ SetupClient
    PROVE  OwnerOf(n)' = OwnerOf(n)
<1>1. Index(n) \in 1 .. 3 /\ Len(Order) = 3 /\ k \in 1 .. 3
  BY OrderFacts DEF TypeOK
<1>2. CASE PinProcess
  BY <1>1, <1>2 DEF PinProcess, At, Placed, OwnerOf, Made, Gone
<1>3. CASE NewThreadThrows
  BY <1>3, SameOwner DEF NewThreadThrows
<1>4. CASE PinThread
  BY <1>1, <1>4 DEF PinThread, At, NextNode, OwnerOf, Made, Gone
<1>5. CASE SetupClient
  BY <1>5 DEF SetupClient, At, OwnerOf, Made, Gone
<1> QED
  BY <1>2, <1>3, <1>4, <1>5

\* A constructor and the two steps of a destructor.
LEMMA OwnerMoves ==
    ASSUME TypeOK, Placed, NEW n \in Nodes
    PROVE  /\ NewThread =>
                IF n = Order[k] THEN OwnerOf(n) = "absent" /\ OwnerOf(n)' = "using"
                                ELSE OwnerOf(n)' = OwnerOf(n)
           /\ Destroy =>
                /\ OwnerOf(n) = "using"
                /\ OwnerOf(n)' = IF n = Order[1] THEN "stopping" ELSE "using"
           /\ StopNode =>
                IF n = Order[k] THEN OwnerOf(n) = "stopping" /\ OwnerOf(n)' = "joining"
                                ELSE OwnerOf(n)' = OwnerOf(n)
           /\ JoinNode =>
                IF n = Order[k] THEN OwnerOf(n) = "joining" /\ OwnerOf(n)' = "destroyed"
                                ELSE \/ OwnerOf(n)' = OwnerOf(n)
                                     \/ OwnerOf(n) = "using" /\ OwnerOf(n)' = "stopping"
<1>1. /\ Index(n) \in 1 .. 3 /\ Len(Order) = 3 /\ k \in 1 .. 3
      /\ n = Order[k] <=> Index(n) = k
      /\ n = Order[1] <=> Index(n) = 1
  BY OrderFacts DEF TypeOK
<1>2. NewThread =>
        IF Index(n) = k THEN OwnerOf(n) = "absent" /\ OwnerOf(n)' = "using"
                        ELSE OwnerOf(n)' = OwnerOf(n)
  BY <1>1 DEF NewThread, At, OwnerOf, Made, Gone
<1>3. Destroy =>
        /\ OwnerOf(n) = "using"
        /\ OwnerOf(n)' = IF Index(n) = 1 THEN "stopping" ELSE "using"
  BY <1>1 DEF Destroy, At, Placed, OwnerOf, Made, Gone
<1>4. StopNode =>
        IF Index(n) = k THEN OwnerOf(n) = "stopping" /\ OwnerOf(n)' = "joining"
                        ELSE OwnerOf(n)' = OwnerOf(n)
  BY <1>1 DEF StopNode, At, OwnerOf, Made, Gone
<1>5. JoinNode =>
        IF Index(n) = k THEN OwnerOf(n) = "joining" /\ OwnerOf(n)' = "destroyed"
                        ELSE \/ OwnerOf(n)' = OwnerOf(n)
                             \/ OwnerOf(n) = "using" /\ OwnerOf(n)' = "stopping"
  BY <1>1 DEF JoinNode, At, NextNode, OwnerOf, Made, Gone
<1> QED
  BY <1>1, <1>2, <1>3, <1>4, <1>5

\* The steps of the other threads change no object, and start no thread.
LEMMA ThreadMoves ==
    ASSUME TypeOK, (\E w \in Workers : WorkerThread(w)) \/ NetEnds \/ NetCrashes
    PROVE  /\ UNCHANGED <<place, running, affinity, host>>
           /\ process = "alive"
           /\ \/ process' = process
              \/ process' = "crashed" /\ thread' = thread
           /\ \A n \in Nodes : \/ thread'[n] = thread[n]
                               \/ thread[n] = "running" /\ thread'[n] = "exited"
BY DEF WorkerThread, RunBegins, RunEnds, Start, Close, NetEnds, NetCrashes, Runs, Worker,
       TypeOK, Nodes, node

-----------------------------------------------------------------------------
(***************************************************************************)
(* The invariants.                                                         *)
(***************************************************************************)
LEMMA PlacedStep == IInv /\ [Next]_vars => Placed'
<1> SUFFICES ASSUME IInv, [Next]_vars PROVE Placed'
  OBVIOUS
<1> USE DEF IInv
<1>1. Len(Order) = 3 /\ k \in 1 .. 3
  BY OrderFacts DEF TypeOK
<1>2. (pc \in {"pin", "setup", "loop"} => k = 1)'
  <2>1. CASE Main
    BY <1>1, <2>1 DEF Main, PinProcess, NewThread, NewThreadThrows, PinThread, SetupClient,
       Destroy, StopNode, JoinNode, At, NextNode, place, Placed
  <2>2. CASE (\E w \in Workers : WorkerThread(w)) \/ NetEnds \/ NetCrashes
    BY <2>2, ThreadMoves DEF place, Placed
  <2>3. CASE UNCHANGED vars
    BY <2>3 DEF vars, Placed
  <2> QED
    BY <2>1, <2>2, <2>3 DEF Next
<1>3. ASSUME NEW n \in Nodes
      PROVE  (thread[n] = "none" <=> OwnerOf(n) = "absent")'
  <2>0. thread[n] = "none" <=> OwnerOf(n) = "absent"
    BY DEF Placed
  <2>1. CASE PinProcess \/ NewThreadThrows \/ PinThread \/ SetupClient
    BY <2>0, <2>1, OwnerKept DEF PinProcess, NewThreadThrows, PinThread, SetupClient, node
  <2>2. CASE NewThread
    <3>1. thread'[n] = IF n = Order[k] THEN "running" ELSE thread[n]
      BY <2>2 DEF NewThread, TypeOK
    <3> QED
      BY <2>0, <2>2, <3>1, OwnerMoves
  <2>3. CASE Destroy \/ StopNode \/ JoinNode
    <3>1. thread' = thread
      BY <2>3 DEF Destroy, StopNode, JoinNode, node
    <3> QED
      BY <2>0, <2>3, <3>1, OwnerMoves
  <2>4. CASE (\E w \in Workers : WorkerThread(w)) \/ NetEnds \/ NetCrashes
    BY <2>0, <2>4, ThreadMoves, SameOwner
  <2>5. CASE UNCHANGED vars
    BY <2>0, <2>5, SameOwner DEF vars, place
  <2> QED
    BY <2>1, <2>2, <2>3, <2>4, <2>5 DEF Next, Main
<1> QED
  BY <1>2, <1>3 DEF Placed

LEMMA NoneOutlivesStep == IInv /\ [Next]_vars => NoneOutlives'
<1> SUFFICES ASSUME IInv, [Next]_vars, NEW n \in Nodes
             PROVE  /\ thread'[n] = "running" =>
                         OwnerOf(n)' \in {"using", "stopping", "joining"}
                    /\ thread'[n] # "none" =>
                         (running'[n] <=> OwnerOf(n)' \in {"using", "stopping"})
  BY DEF NoneOutlives
<1> USE DEF IInv
<1>0. /\ thread[n] = "running" => OwnerOf(n) \in {"using", "stopping", "joining"}
      /\ thread[n] # "none" => (running[n] <=> OwnerOf(n) \in {"using", "stopping"})
      /\ thread[n] = "none" <=> OwnerOf(n) = "absent"
  BY DEF NoneOutlives, Placed
<1>1. CASE PinProcess \/ PinThread \/ SetupClient
  BY <1>0, <1>1, OwnerKept DEF PinProcess, PinThread, SetupClient, node
<1>2. CASE NewThreadThrows
  <2>1. OwnerOf(Order[k]) = "absent" /\ Order[k] \in Nodes
    BY <1>2, OrderFacts DEF NewThreadThrows, At, OwnerOf, Made, TypeOK
  <2>2. n # Order[k] => running'[n] = running[n]
    BY <1>2 DEF NewThreadThrows, TypeOK
  <2>3. thread' = thread /\ OwnerOf(n)' = OwnerOf(n)
    BY <1>2, OwnerKept DEF NewThreadThrows
  <2> QED
    BY <1>0, <2>1, <2>2, <2>3
<1>3. CASE NewThread
  <2>1. /\ thread'[n] = IF n = Order[k] THEN "running" ELSE thread[n]
        /\ running'[n] = IF n = Order[k] THEN TRUE ELSE running[n]
    BY <1>3 DEF NewThread, TypeOK
  <2> QED
    BY <1>0, <1>3, <2>1, OwnerMoves
<1>4. CASE Destroy
  <2>1. thread' = thread /\ running' = running
    BY <1>4 DEF Destroy, node
  <2> QED
    BY <1>0, <1>4, <2>1, OwnerMoves
<1>5. CASE StopNode
  <2>1. /\ thread' = thread
        /\ running'[n] = IF n = Order[k] THEN FALSE ELSE running[n]
    BY <1>5 DEF StopNode, TypeOK
  <2> QED
    BY <1>0, <1>5, <2>1, OwnerMoves
<1>6. CASE JoinNode
  <2>1. thread' = thread /\ running' = running /\ thread[Order[k]] = "exited"
    BY <1>6 DEF JoinNode, node
  <2> QED
    BY <1>0, <1>6, <2>1, OwnerMoves
<1>7. CASE (\E w \in Workers : WorkerThread(w)) \/ NetEnds \/ NetCrashes
  BY <1>0, <1>7, ThreadMoves, SameOwner
<1>8. CASE UNCHANGED vars
  BY <1>0, <1>8, SameOwner DEF vars, place
<1> QED
  BY <1>1, <1>2, <1>3, <1>4, <1>5, <1>6, <1>7, <1>8 DEF Next, Main

LEMMA PinnedStep == IInv /\ [Next]_vars => NodesPinned'
<1> SUFFICES ASSUME IInv, [Next]_vars, NEW n \in Nodes,
                    thread'[n] = "running", OwnerOf(n)' # "absent", Mask[n] \in host',
                    ~(pc' = "affinity" /\ Order[k'] = n)
             PROVE  affinity'[n] = {Mask[n]}
  BY DEF NodesPinned
<1> USE DEF IInv
<1>1. ASSUME host' = host, affinity'[n] = affinity[n], thread[n] = "running",
             OwnerOf(n) # "absent", ~(pc = "affinity" /\ Order[k] = n)
      PROVE  affinity'[n] = {Mask[n]}
  BY <1>1 DEF NodesPinned
<1>2. n # "main"
  BY DEF Nodes, Workers
<1>3. CASE PinProcess
  BY <1>1, <1>2, <1>3, OwnerKept DEF PinProcess, At, Pinned, node, TypeOK
<1>4. CASE NewThread
  <2>1. n # Order[k]
    BY <1>4 DEF NewThread
  <2>2. affinity'[n] = affinity[n] /\ thread'[n] = thread[n] /\ host' = host
    BY <1>2, <1>4, <2>1 DEF NewThread, TypeOK
  <2> QED
    BY <1>1, <1>4, <2>1, <2>2, OwnerMoves DEF NewThread, At
<1>5. CASE NewThreadThrows \/ SetupClient
  BY <1>1, <1>5, OwnerKept DEF NewThreadThrows, SetupClient, At, node, place
<1>6. CASE PinThread
  <2>1. thread' = thread /\ host' = host
    BY <1>6 DEF PinThread, node
  <2>2. CASE n = Order[k]
    <3>1. affinity' = Pinned(n, Mask[n])
      BY <1>6, <2>1, <2>2 DEF PinThread
    <3> QED
      BY <2>1, <3>1 DEF Pinned, TypeOK
  <2>3. CASE n # Order[k]
    <3>1. affinity'[n] = affinity[n]
      <4>1. \A t, c : t # n => Pinned(t, c)[n] = affinity[n]
        BY DEF Pinned, TypeOK
      <4>2. affinity' \in {Pinned(Order[k], Mask[Order[k]]), affinity,
                           Pinned("main", Mask[Order[k]])}
        BY <1>6 DEF PinThread, PinnedLate
      <4> QED
        BY <1>2, <2>3, <4>1, <4>2
    <3> QED
      BY <1>1, <1>6, <2>1, <2>3, <3>1, OwnerKept
  <2> QED
    BY <2>2, <2>3
<1>7. CASE Destroy \/ StopNode \/ JoinNode
  <2>1. thread' = thread /\ affinity' = affinity /\ host' = host /\ pc # "affinity"
    BY <1>7 DEF Destroy, StopNode, JoinNode, At, node
  <2> QED
    BY <1>1, <1>7, <2>1, OwnerMoves
<1>8. CASE (\E w \in Workers : WorkerThread(w)) \/ NetEnds \/ NetCrashes
  BY <1>1, <1>8, ThreadMoves, SameOwner DEF place
<1>9. CASE UNCHANGED vars
  BY <1>1, <1>9, SameOwner DEF vars, place
<1> QED
  BY <1>3, <1>4, <1>5, <1>6, <1>7, <1>8, <1>9 DEF Next, Main

LEMMA InitIInv == Init => IInv
<1> SUFFICES ASSUME Init PROVE IInv
  OBVIOUS
<1>1. \A n \in Nodes : thread[n] = "none" /\ OwnerOf(n) = "absent"
  BY DEF Init, OwnerOf, Made
<1>2. TypeOK
  <2>1. /\ thread \in [Nodes -> {"none", "running", "exited"}]
        /\ state_fn \in [Workers -> {"null", "start", "close"}]
        /\ running \in [Nodes -> BOOLEAN]
    BY DEF Init
  <2>2. affinity \in [Nodes \cup {"main"} -> SUBSET host]
    BY DEF Init
  <2>3. pc \in Places /\ k \in 1 .. Len(Order)
    BY OrderFacts DEF Init, Places
  <2> QED
    BY <2>1, <2>2, <2>3 DEF Init, TypeOK
<1> QED
  BY <1>1, <1>2 DEF Init, IInv, Placed, NoneOutlives, NodesPinned

LEMMA AlwaysIInv == Spec => []IInv
<1>1. IInv /\ [Next]_vars => IInv'
  BY TypeStep, PlacedStep, NoneOutlivesStep, PinnedStep DEF IInv
<1> QED
  BY <1>1, InitIInv, PTL DEF Spec

-----------------------------------------------------------------------------
(***************************************************************************)
(* Every node lives as NodeLife says.                                      *)
(***************************************************************************)
\* The life of the thread of the node n.
LifeOf(n) == IF process = "alive" THEN thread[n] ELSE "crashed"

LEMMA NodeStep ==
    ASSUME IInv, [Next]_vars, NEW n \in Nodes
    PROVE  [Node(n)!Next]_(Node(n)!vars)
<1> SUFFICES \/ UNCHANGED <<LifeOf(n), OwnerOf(n)>>
             \/ LifeOf(n) # "crashed" /\ LifeOf(n)' = "crashed" /\ OwnerOf(n)' = OwnerOf(n)
             \/ LifeOf(n) = "running" /\ LifeOf(n)' = "exited" /\ OwnerOf(n)' = OwnerOf(n)
             \/ LifeOf(n) = "none" /\ OwnerOf(n) = "absent"
                   /\ LifeOf(n)' = "running" /\ OwnerOf(n)' = "using"
             \/ /\ LifeOf(n) # "crashed" /\ LifeOf(n)' = LifeOf(n)
                /\ \/ OwnerOf(n) = "using" /\ OwnerOf(n)' = "stopping"
                   \/ OwnerOf(n) = "stopping" /\ OwnerOf(n)' = "joining"
                   \/ LifeOf(n) = "exited" /\ OwnerOf(n) = "joining"
                         /\ OwnerOf(n)' = "destroyed"
  BY DEF LifeOf, Node!Next, Node!vars, Node!Create, Node!ThreadEnds, Node!Crash,
         Node!Delete, Node!Stop, Node!Join
<1> USE DEF IInv
<1>0. /\ thread[n] \in {"none", "running", "exited"}
      /\ thread[n] = "none" <=> OwnerOf(n) = "absent"
  BY DEF TypeOK, Placed
<1>1. CASE PinProcess \/ NewThreadThrows \/ PinThread \/ SetupClient
  <2>1. thread' = thread /\ process = "alive" /\ process' \in {"alive", "aborted"}
    BY <1>1 DEF PinProcess, NewThreadThrows, PinThread, SetupClient, At, node
  <2> QED
    BY <1>0, <1>1, <2>1, OwnerKept DEF LifeOf
<1>2. CASE NewThread
  <2>1. /\ thread'[n] = IF n = Order[k] THEN "running" ELSE thread[n]
        /\ process = "alive" /\ process' = "alive"
    BY <1>2 DEF NewThread, At, TypeOK
  <2> QED
    BY <1>0, <1>2, <2>1, OwnerMoves DEF LifeOf
<1>3. CASE Destroy \/ StopNode
  <2>1. thread' = thread /\ process = "alive" /\ process' = "alive"
    BY <1>3 DEF Destroy, StopNode, At, node
  <2> QED
    BY <1>0, <1>3, <2>1, OwnerMoves DEF LifeOf
<1>4. CASE JoinNode
  <2>1. /\ thread' = thread /\ process = "alive" /\ process' = "alive"
        /\ thread[Order[k]] = "exited"
    BY <1>4 DEF JoinNode, At, node
  <2> QED
    BY <1>0, <1>4, <2>1, OwnerMoves DEF LifeOf
<1>5. CASE (\E w \in Workers : WorkerThread(w)) \/ NetEnds \/ NetCrashes
  BY <1>0, <1>5, ThreadMoves, SameOwner DEF LifeOf
<1>6. CASE UNCHANGED vars
  BY <1>6, SameOwner DEF vars, place, LifeOf
<1> QED
  BY <1>1, <1>2, <1>3, <1>4, <1>5, <1>6 DEF Next, Main

-----------------------------------------------------------------------------
\* Every variable of the process keeps its type (recyclr-client.h:14-22,
\* recyclr-controller.h:5-9).
THEOREM TypeCorrect == Spec => []TypeOK
<1>1. IInv => TypeOK
  BY DEF IInv
<1> QED
  BY <1>1, AlwaysIInv, PTL

\* No thread is there without its node, and only the destructor of the node
\* tells it to end (recyclr-client.cpp:25-41).
THEOREM OutliveCorrect == Spec => []NoneOutlives
<1>1. IInv => NoneOutlives
  BY DEF IInv
<1> QED
  BY <1>1, AlwaysIInv, PTL

\* Whatever the cores of the host are, and whichever threads have ended before
\* they are pinned, a running thread is on the core of its node
\* (recyclr-utils.cpp:18-29).
THEOREM PinnedCorrect == Spec => []NodesPinned
<1>1. IInv => NodesPinned
  BY DEF IInv
<1> QED
  BY <1>1, AlwaysIInv, PTL

\* The three nodes live as NodeLife says, side by side (recyclr-client.cpp:14-41).
THEOREM NodeRefinement == Spec => NodeSteps
<1>1. Init => \A n \in Nodes : Node(n)!Init
  BY DEF Init, OwnerOf, Made, Node!Init
<1>2. IInv /\ [Next]_vars => [\A n \in Nodes : [Node(n)!Next]_(Node(n)!vars)]_vars
  BY NodeStep
<1> QED
  BY <1>1, <1>2, AlwaysIInv, PTL DEF Spec, NodeSteps

=============================================================================
