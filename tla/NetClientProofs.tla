--------------------------- MODULE NetClientProofs ---------------------------
(***************************************************************************)
(* Theorems about NetClient, for every set of connections.                 *)
(***************************************************************************)
EXTENDS NetClient, SequenceTheorems, TLAPS

-----------------------------------------------------------------------------
(***************************************************************************)
(* The three changes that are made to the backlog and to the vector, on a  *)
(* sequence without repetitions.                                           *)
(***************************************************************************)
\* push_back of a new element.
LEMMA AppendNew ==
    ASSUME NEW S, NEW s \in Seq(S), NEW e \in S, IsInjective(s), e \notin ToSet(s)
    PROVE  /\ Append(s, e) \in Seq(S)
           /\ ToSet(Append(s, e)) = ToSet(s) \cup {e}
           /\ IsInjective(Append(s, e))
<1> DEFINE t == Append(s, e)
<1>1. /\ t \in Seq(S) /\ Len(t) = Len(s) + 1 /\ t[Len(s) + 1] = e
      /\ \A i \in 1 .. Len(s) : t[i] = s[i]
  BY AppendProperties
<1>2. DOMAIN s = 1 .. Len(s) /\ DOMAIN t = 1 .. Len(s) + 1 /\ Len(s) \in Nat
  BY <1>1, LenProperties
<1>3. DOMAIN t = (DOMAIN s) \cup {Len(s) + 1}
  BY <1>2
<1> HIDE DEF t
<1>4. ToSet(t) = ToSet(s) \cup {e}
  BY <1>1, <1>2, <1>3 DEF ToSet
<1>5. \A i \in DOMAIN s : s[i] # e
  BY DEF ToSet
<1>6. IsInjective(t)
  BY <1>1, <1>2, <1>3, <1>5 DEF IsInjective
<1> QED
  BY <1>1, <1>4, <1>6 DEF t

\* accept() takes the first one.
LEMMA TailOf ==
    ASSUME NEW S, NEW s \in Seq(S), IsInjective(s), s # <<>>
    PROVE  /\ Tail(s) \in Seq(S) /\ Head(s) \in ToSet(s) /\ Head(s) \in S
           /\ ToSet(Tail(s)) = ToSet(s) \ {Head(s)}
           /\ IsInjective(Tail(s))
<1> DEFINE t == Tail(s)
<1>1. /\ t \in Seq(S) /\ Len(t) = Len(s) - 1 /\ Head(s) = s[1]
      /\ \A i \in 1 .. Len(t) : t[i] = s[i + 1]
  BY HeadTailProperties
<1>2. DOMAIN s = 1 .. Len(s) /\ DOMAIN t = 1 .. Len(s) - 1 /\ Len(s) \in Nat \ {0}
  BY <1>1, LenProperties, EmptySeq
<1>3. 1 \in DOMAIN s /\ s[1] \in S
  BY <1>2, ElementOfSeq
<1> HIDE DEF t
<1>4. \A i \in DOMAIN t : i + 1 \in DOMAIN s /\ i + 1 # 1 /\ t[i] = s[i + 1]
  BY <1>1, <1>2
<1>5. \A k \in DOMAIN s : k # 1 => k - 1 \in DOMAIN t /\ t[k - 1] = s[k]
  BY <1>1, <1>2
<1>6. ToSet(t) = ToSet(s) \ {s[1]}
  <2>1. \A x \in ToSet(t) : x \in ToSet(s) /\ x # s[1]
    BY <1>3, <1>4 DEF ToSet, IsInjective
  <2>2. \A x \in ToSet(s) : x # s[1] => x \in ToSet(t)
    BY <1>5 DEF ToSet
  <2> QED
    BY <2>1, <2>2
<1>7. IsInjective(t)
  <2> SUFFICES ASSUME NEW a \in DOMAIN t, NEW b \in DOMAIN t, t[a] = t[b]
               PROVE  a = b
    BY DEF IsInjective
  <2>1. s[a + 1] = s[b + 1] /\ a + 1 \in DOMAIN s /\ b + 1 \in DOMAIN s
    BY <1>4
  <2>2. a + 1 = b + 1
    BY <2>1 DEF IsInjective
  <2>3. a \in Int /\ b \in Int
    BY <1>2
  <2> QED
    BY <2>2, <2>3
<1>8. Head(s) \in ToSet(s)
  BY <1>1, <1>3 DEF ToSet
<1> QED
  BY <1>1, <1>3, <1>6, <1>7, <1>8 DEF t

\* remove_if and erase.
LEMMA WithoutOf ==
    ASSUME NEW S, NEW s \in Seq(S), IsInjective(s), NEW c
    PROVE  /\ Without(s, c) \in Seq(S)
           /\ ToSet(Without(s, c)) = ToSet(s) \ {c}
           /\ IsInjective(Without(s, c))
<1>0. DOMAIN s = 1 .. Len(s) /\ Len(s) \in Nat
  BY LenProperties
<1>1. CASE ~ \E i \in 1 .. Len(s) : s[i] = c
  BY <1>0, <1>1 DEF Without, ToSet
<1>2. CASE \E i \in 1 .. Len(s) : s[i] = c
  <2> DEFINE k == CHOOSE i \in 1 .. Len(s) : s[i] = c
             u == SubSeq(s, 1, k - 1)
             v == SubSeq(s, k + 1, Len(s))
             t == u \o v
  <2>1. k \in 1 .. Len(s) /\ s[k] = c
    BY <1>2
  <2>2. Without(s, c) = t
    BY <1>2 DEF Without, RemoveAt
  <2> HIDE DEF k
  <2>3. /\ u \in Seq(S) /\ Len(u) = k - 1 /\ \A i \in 1 .. k - 1 : u[i] = s[i]
    BY <2>1, <1>0, SubSeqProperties
  <2>4. /\ v \in Seq(S) /\ Len(v) = Len(s) - k
        /\ \A i \in 1 .. Len(s) - k : v[i] = s[k + i]
    BY <2>1, <1>0, SubSeqProperties
  <2> HIDE DEF u, v
  <2>5. /\ t \in Seq(S) /\ Len(t) = Len(s) - 1
        /\ \A i \in 1 .. Len(t) : t[i] = IF i <= k - 1 THEN u[i] ELSE v[i - (k - 1)]
    <3>1. /\ t \in Seq(S) /\ Len(t) = Len(u) + Len(v)
          /\ \A i \in 1 .. Len(u) + Len(v) :
                t[i] = IF i <= Len(u) THEN u[i] ELSE v[i - Len(u)]
      BY <2>3, <2>4, ConcatProperties
    <3>2. Len(u) + Len(v) = Len(s) - 1
      BY <2>1, <2>3, <2>4, <1>0
    <3> QED
      BY <3>1, <3>2, <2>3
  <2>6. DOMAIN t = 1 .. Len(s) - 1
    BY <2>5, LenProperties
  <2> HIDE DEF t
  <2> DEFINE From(i) == IF i < k THEN i ELSE i + 1
  <2>7. \A i \in DOMAIN t : From(i) \in DOMAIN s /\ From(i) # k /\ t[i] = s[From(i)]
    <3> SUFFICES ASSUME NEW i \in DOMAIN t
                 PROVE  From(i) \in DOMAIN s /\ From(i) # k /\ t[i] = s[From(i)]
      OBVIOUS
    <3>1. i \in 1 .. Len(s) - 1
      BY <2>6
    <3>2. CASE i < k
      <4>1. From(i) = i /\ i \in 1 .. k - 1 /\ i \in 1 .. Len(s) /\ i # k
        BY <3>1, <3>2, <2>1, <1>0
      <4>2. t[i] = u[i]
        BY <3>1, <4>1, <2>1, <2>5, <1>0
      <4> QED
        BY <4>1, <4>2, <2>3, <1>0
    <3>3. CASE ~ i < k
      <4>1. i - (k - 1) \in 1 .. Len(s) - k /\ k + (i - (k - 1)) = i + 1
        BY <3>1, <3>3, <2>1, <1>0
      <4>2. t[i] = v[i - (k - 1)]
        BY <3>1, <3>3, <2>1, <2>5, <1>0
      <4>3. v[i - (k - 1)] = s[i + 1]
        BY <4>1, <2>4
      <4> QED
        BY <4>2, <4>3, <3>1, <3>3, <2>1, <1>0
    <3> QED
      BY <3>2, <3>3
  <2>8. \A j \in DOMAIN s : j # k => \E i \in DOMAIN t : From(i) = j
    <3> SUFFICES ASSUME NEW j \in DOMAIN s, j # k
                 PROVE  \E i \in DOMAIN t : From(i) = j
      OBVIOUS
    <3>1. CASE j < k
      <4>1. j \in DOMAIN t /\ From(j) = j
        BY <3>1, <2>1, <2>6, <1>0
      <4> QED
        BY <4>1
    <3>2. CASE ~ j < k
      <4>1. j - 1 \in DOMAIN t /\ From(j - 1) = j
        BY <3>2, <2>1, <2>6, <1>0
      <4> QED
        BY <4>1
    <3> QED
      BY <3>1, <3>2
  <2>9. \A a, b \in DOMAIN t : From(a) = From(b) => a = b
    BY <2>1, <2>6, <1>0
  <2> HIDE DEF From
  <2>10. ToSet(t) = ToSet(s) \ {c}
    <3>1. \A x \in ToSet(t) : x \in ToSet(s) /\ x # c
      BY <2>7, <2>1, <1>0 DEF ToSet, IsInjective
    <3>2. \A x \in ToSet(s) : x # c => x \in ToSet(t)
      BY <2>7, <2>8, <2>1 DEF ToSet
    <3> QED
      BY <3>1, <3>2
  <2>11. IsInjective(t)
    BY <2>7, <2>9 DEF IsInjective
  <2> QED
    BY <2>2, <2>5, <2>10, <2>11
<1> QED
  BY <1>1, <1>2





-----------------------------------------------------------------------------
(***************************************************************************)
(* The inductive invariant.  What epoll_wait returned is used up before the *)
(* thread goes on, and close is selected only on the way out of run().     *)
(***************************************************************************)
EventsUsedUp == thread = "running" /\ pc # "events" => events = {}

CloseOnlyInListen ==
    thread = "running" /\ pc \in {"loop", "events", "states"} => state_fn # "close"

IInv == /\ TypeOK /\ VectorExact /\ EventsFresh
        /\ EventsUsedUp /\ CloseOnlyInListen

\* Every variable keeps its type.
LEMMA TypeStep == IInv /\ [Next]_vars => TypeOK'
<1> SUFFICES ASSUME IInv, [Next]_vars PROVE TypeOK'
  OBVIOUS
<1> USE DEF IInv
<1>1. CASE RunEnds
  BY <1>1 DEF RunEnds, control, owner, watch, pool, TypeOK, ConStates
<1>2. CASE Start
  BY <1>2 DEF Start, Calls, Continue, control, owner, watch, pool, TypeOK, ConStates
<1>3. CASE ListenSocket
  BY <1>3 DEF ListenSocket, Calls, Break, control, owner, watch, pool, TypeOK, ConStates
<1>4. CASE ListenFlags
  BY <1>4 DEF ListenFlags, Inside, Break, control, owner, watch, pool, TypeOK, ConStates
<1>5. CASE ListenEpoll
  BY <1>5 DEF ListenEpoll, Inside, Break, control, owner, watch, pool, TypeOK, ConStates
<1>6. CASE ListenRegister
  BY <1>6 DEF ListenRegister, Inside, Break, Continue, control, owner, watch, pool, TypeOK, ConStates
<1>7. CASE EpollWait
  BY <1>7 DEF EpollWait, Calls, control, owner, watch, pool, TypeOK, ConStates
<1>8. CASE AcceptOne
  <2>1. backlog # <<>>
    BY <1>8 DEF AcceptOne
  <2>2. Tail(backlog) \in Seq(Conn) /\ Head(backlog) \in Conn
    BY <2>1, TailOf DEF TypeOK, VectorExact
  <2>3. Append(opens, Head(backlog)) \in Seq(Conn)
    BY <2>2 DEF TypeOK
  <2> QED
    BY <1>8, <2>2, <2>3 DEF AcceptOne, Accepting, Inside, control, owner, watch, pool, TypeOK, ConStates
<1>9. CASE AcceptLost
  <2>1. backlog # <<>>
    BY <1>9 DEF AcceptLost
  <2>2. Tail(backlog) \in Seq(Conn) /\ Head(backlog) \in Conn
    BY <2>1, TailOf DEF TypeOK, VectorExact
  <2> QED
    BY <1>9, <2>2 DEF AcceptLost, Accepting, Inside, Break, control, owner, watch, pool, TypeOK, ConStates
<1>10. CASE AcceptNothing
  BY <1>10 DEF AcceptNothing, Accepting, Inside, control, owner, watch, pool, TypeOK, ConStates
<1>11. CASE AcceptFatal
  BY <1>11 DEF AcceptFatal, Accepting, Inside, Break, control, owner, watch, pool, TypeOK, ConStates
<1>12. ASSUME NEW c \in Conn, EventKeeps(c) PROVE TypeOK'
  BY <1>12 DEF EventKeeps, Inside, control, owner, watch, pool, TypeOK, ConStates
<1>13. ASSUME NEW c \in Conn, EventDeletes(c) PROVE TypeOK'
  <2>1. Without(opens, c) \in Seq(Conn)
    BY WithoutOf DEF TypeOK, VectorExact
  <2> QED
    BY <1>13, <2>1 DEF EventDeletes, Inside, control, owner, watch, pool, TypeOK, ConStates
<1>14. ASSUME NEW c \in Conn, EventCrashes(c) PROVE TypeOK'
  BY <1>14 DEF EventCrashes, Inside, control, owner, watch, pool, TypeOK, ConStates
<1>15. CASE EventsDone
  BY <1>15 DEF EventsDone, Inside, Continue, control, owner, watch, pool, TypeOK, ConStates
<1>16. CASE ProcessBegins
  BY <1>16 DEF ProcessBegins, Calls, control, owner, watch, pool, TypeOK, ConStates
<1>17. ASSUME NEW c \in Conn, StateKeeps(c) PROVE TypeOK'
  BY <1>17 DEF StateKeeps, AtConnection, Inside, control, owner, watch, pool, TypeOK, ConStates
<1>18. ASSUME NEW c \in Conn, StateShuts(c) PROVE TypeOK'
  BY <1>18 DEF StateShuts, AtConnection, Inside, control, owner, watch, pool, TypeOK, ConStates
<1>19. ASSUME NEW c \in Conn, StateDeletes(c) PROVE TypeOK'
  <2>1. Without(opens, c) \in Seq(Conn)
    BY WithoutOf DEF TypeOK, VectorExact
  <2> QED
    BY <1>19, <2>1 DEF StateDeletes, AtConnection, Inside, control, owner, watch, pool, TypeOK, ConStates
<1>20. ASSUME NEW c \in Conn, StateCrashes(c) PROVE TypeOK'
  BY <1>20 DEF StateCrashes, AtConnection, Inside, control, owner, watch, pool, TypeOK, ConStates
<1>21. CASE ProcessEnds
  BY <1>21 DEF ProcessEnds, Inside, Continue, control, owner, watch, pool, TypeOK, ConStates
<1>22. CASE Stop
  BY <1>22 DEF Stop, Alive, control, owner, watch, pool, TypeOK, ConStates
<1>23. CASE DtorSocket
  <2>1. CASE socket_fd
    <3>1. con' \in [Conn -> ConStates] /\ backlog' = <<>>
      BY <1>23, <2>1 DEF DtorSocket, TypeOK, ConStates
    <3>2. <<>> \in Seq(Conn)
      OBVIOUS
    <3> QED
      BY <1>23, <2>1, <3>1, <3>2 DEF DtorSocket, TypeOK, control
  <2>2. CASE ~ socket_fd
    BY <1>23, <2>2 DEF DtorSocket, TypeOK, control
  <2> QED
    BY <2>1, <2>2
<1>24. CASE DtorStop
  BY <1>24 DEF DtorStop, Alive, control, owner, watch, pool, TypeOK, ConStates
<1>25. CASE DtorJoin
  BY <1>25 DEF DtorJoin, control, owner, watch, pool, TypeOK, ConStates
<1>26. ASSUME NEW c \in Conn, Connect(c) PROVE TypeOK'
  <2>1. Append(backlog, c) \in Seq(Conn)
    BY DEF TypeOK
  <2> QED
    BY <1>26, <2>1 DEF Connect, Alive, control, owner, watch, pool, Registered, TypeOK, ConStates
<1>27. ASSUME NEW c \in Conn, Abandon(c) PROVE TypeOK'
  <2>1. Without(backlog, c) \in Seq(Conn)
    BY WithoutOf DEF TypeOK, VectorExact
  <2> QED
    BY <1>27, <2>1 DEF Abandon, Alive, control, owner, watch, pool, TypeOK, ConStates
<1>28. ASSUME NEW c \in Conn, Activity(c) PROVE TypeOK'
  BY <1>28 DEF Activity, Alive, control, owner, watch, pool, TypeOK, ConStates
<1>29. CASE UNCHANGED vars
  BY <1>29 DEF vars, TypeOK
<1> QED
  BY <1>1, <1>2, <1>3, <1>4, <1>5, <1>6, <1>7, <1>8, <1>9, <1>10, <1>11, <1>12, <1>13, <1>14,
     <1>15, <1>16, <1>17, <1>18, <1>19, <1>20, <1>21, <1>22, <1>23, <1>24, <1>25, <1>26, <1>27, <1>28, <1>29
     DEF Next, Thread, Owner, Peers

\* The steps that touch neither the connections nor the two sequences.
LEMMA Quiet == VectorExact /\ UNCHANGED <<con, opens, backlog>> => VectorExact'
  BY DEF VectorExact

\* The vector and the backlog stay exact.
LEMMA VectorStep == IInv /\ [Next]_vars => VectorExact'
<1> SUFFICES ASSUME IInv, [Next]_vars PROVE VectorExact'
  OBVIOUS
<1> USE DEF IInv
<1>1. CASE RunEnds
  BY <1>1, Quiet DEF RunEnds, control, owner, watch, pool
<1>2. CASE Start
  BY <1>2, Quiet DEF Start, Calls, Continue, control, owner, watch, pool
<1>3. CASE ListenSocket
  BY <1>3, Quiet DEF ListenSocket, Calls, Break, control, owner, watch, pool
<1>4. CASE ListenFlags
  BY <1>4, Quiet DEF ListenFlags, Inside, Break, control, owner, watch, pool
<1>5. CASE ListenEpoll
  BY <1>5, Quiet DEF ListenEpoll, Inside, Break, control, owner, watch, pool
<1>6. CASE ListenRegister
  BY <1>6, Quiet DEF ListenRegister, Inside, Break, Continue, control, owner, watch, pool
<1>7. CASE EpollWait
  BY <1>7, Quiet DEF EpollWait, Calls, control, owner, watch, pool
<1>8. CASE AcceptOne
  <2> DEFINE h == Head(backlog)
  <2>1. backlog # <<>>
    BY <1>8 DEF AcceptOne
  <2>2. /\ ToSet(Tail(backlog)) = ToSet(backlog) \ {h} /\ IsInjective(Tail(backlog))
        /\ h \in ToSet(backlog) /\ h \in Conn
    BY <2>1, TailOf DEF VectorExact, TypeOK
  <2>3. con[h] = "pending" /\ h \notin ToSet(opens)
    BY <2>2 DEF VectorExact
  <2>4. ToSet(Append(opens, h)) = ToSet(opens) \cup {h} /\ IsInjective(Append(opens, h))
    BY <2>2, <2>3, AppendNew DEF VectorExact, TypeOK
  <2>5. backlog' = Tail(backlog) /\ opens' = Append(opens, h)
        /\ con' = [con EXCEPT ![h] = "open"]
    BY <1>8 DEF AcceptOne
  <2> HIDE DEF h
  <2> QED
    BY <2>2, <2>3, <2>4, <2>5 DEF VectorExact, TypeOK
<1>9. CASE AcceptLost
  <2> DEFINE h == Head(backlog)
  <2>1. backlog # <<>>
    BY <1>9 DEF AcceptLost
  <2>2. /\ ToSet(Tail(backlog)) = ToSet(backlog) \ {h} /\ IsInjective(Tail(backlog))
        /\ h \in ToSet(backlog) /\ h \in Conn
    BY <2>1, TailOf DEF VectorExact, TypeOK
  <2>3. con[h] = "pending"
    BY <2>2 DEF VectorExact
  <2>4. backlog' = Tail(backlog) /\ opens' = opens
        /\ con' = [con EXCEPT ![h] = "lost"]
    BY <1>9 DEF AcceptLost
  <2> HIDE DEF h
  <2> QED
    BY <2>2, <2>3, <2>4 DEF VectorExact, TypeOK
<1>10. CASE AcceptNothing
  BY <1>10, Quiet DEF AcceptNothing, Accepting, Inside, control, owner, watch, pool
<1>11. CASE AcceptFatal
  BY <1>11, Quiet DEF AcceptFatal, Accepting, Inside, Break, control, owner, watch, pool
<1>12. ASSUME NEW c \in Conn, EventKeeps(c) PROVE VectorExact'
  BY <1>12, Quiet DEF EventKeeps, Inside, control, owner, watch, pool
<1>13. ASSUME NEW c \in Conn, EventDeletes(c) PROVE VectorExact'
  <2>1. con[c] = "open"
    BY <1>13, NetClientAssumption DEF EventDeletes, Inside, EventsFresh
  <2>2. ToSet(Without(opens, c)) = ToSet(opens) \ {c} /\ IsInjective(Without(opens, c))
    BY WithoutOf DEF VectorExact, TypeOK
  <2>3. backlog' = backlog /\ opens' = Without(opens, c)
        /\ con' = [con EXCEPT ![c] = "deleted"]
    BY <1>13 DEF EventDeletes
  <2> QED
    BY <2>1, <2>2, <2>3 DEF VectorExact, TypeOK
<1>14. ASSUME NEW c \in Conn, EventCrashes(c) PROVE VectorExact'
  BY <1>14, Quiet DEF EventCrashes, Inside, control, owner, watch, pool
<1>15. CASE EventsDone
  BY <1>15, Quiet DEF EventsDone, Inside, Continue, control, owner, watch, pool
<1>16. CASE ProcessBegins
  BY <1>16, Quiet DEF ProcessBegins, Calls, control, owner, watch, pool
<1>17. ASSUME NEW c \in Conn, StateKeeps(c) PROVE VectorExact'
  BY <1>17, Quiet DEF StateKeeps, AtConnection, Inside, control, owner, watch, pool
<1>18. ASSUME NEW c \in Conn, StateShuts(c) PROVE VectorExact'
  <2>1. con[c] = "open" /\ backlog' = backlog /\ opens' = opens
        /\ con' = [con EXCEPT ![c] = "shut"]
    BY <1>18 DEF StateShuts
  <2> QED
    BY <2>1 DEF VectorExact, TypeOK
<1>19. ASSUME NEW c \in Conn, StateDeletes(c) PROVE VectorExact'
  <2>1. con[c] = "open"
    BY <1>19 DEF StateDeletes
  <2>2. ToSet(Without(opens, c)) = ToSet(opens) \ {c} /\ IsInjective(Without(opens, c))
    BY WithoutOf DEF VectorExact, TypeOK
  <2>3. backlog' = backlog /\ opens' = Without(opens, c)
        /\ con' = [con EXCEPT ![c] = "deleted"]
    BY <1>19 DEF StateDeletes
  <2> QED
    BY <2>1, <2>2, <2>3 DEF VectorExact, TypeOK
<1>20. ASSUME NEW c \in Conn, StateCrashes(c) PROVE VectorExact'
  BY <1>20, Quiet DEF StateCrashes, AtConnection, Inside, control, owner, watch, pool
<1>21. CASE ProcessEnds
  BY <1>21, Quiet DEF ProcessEnds, Inside, Continue, control, owner, watch, pool
<1>22. CASE Stop
  BY <1>22, Quiet DEF Stop, Alive, control, owner, watch, pool
<1>23. CASE DtorSocket
  <2>1. CASE socket_fd
    <3>1. opens' = opens /\ backlog' = <<>>
          /\ con' = [d \in Conn |-> IF con[d] = "pending" THEN "gone" ELSE con[d]]
      BY <1>23, <2>1 DEF DtorSocket
    <3>2. ToSet(<<>>) = {} /\ IsInjective(<<>>)
      BY DEF ToSet, IsInjective
    <3>3. \A d \in Conn : /\ con'[d] # "pending"
                          /\ con'[d] \in {"open", "shut"} <=> con[d] \in {"open", "shut"}
      BY <3>1
    <3> QED
      BY <3>1, <3>2, <3>3 DEF VectorExact
  <2>2. CASE ~ socket_fd
    BY <1>23, <2>2, Quiet DEF DtorSocket
  <2> QED
    BY <2>1, <2>2
<1>24. CASE DtorStop
  BY <1>24, Quiet DEF DtorStop, Alive, control, owner, watch, pool
<1>25. CASE DtorJoin
  BY <1>25, Quiet DEF DtorJoin, control, owner, watch, pool
<1>26. ASSUME NEW c \in Conn, Connect(c) PROVE VectorExact'
  <2>1. con[c] = "absent" /\ opens' = opens /\ backlog' = Append(backlog, c)
        /\ con' = [con EXCEPT ![c] = "pending"]
    BY <1>26 DEF Connect
  <2>2. ToSet(Append(backlog, c)) = ToSet(backlog) \cup {c} /\ IsInjective(Append(backlog, c))
    BY <2>1, AppendNew DEF VectorExact, TypeOK
  <2> QED
    BY <2>1, <2>2 DEF VectorExact, TypeOK
<1>27. ASSUME NEW c \in Conn, Abandon(c) PROVE VectorExact'
  <2>1. con[c] = "pending" /\ opens' = opens /\ backlog' = Without(backlog, c)
        /\ con' = [con EXCEPT ![c] = "gone"]
    BY <1>27 DEF Abandon
  <2>2. ToSet(Without(backlog, c)) = ToSet(backlog) \ {c} /\ IsInjective(Without(backlog, c))
    BY WithoutOf DEF VectorExact, TypeOK
  <2> QED
    BY <2>1, <2>2 DEF VectorExact, TypeOK
<1>28. ASSUME NEW c \in Conn, Activity(c) PROVE VectorExact'
  BY <1>28, Quiet DEF Activity, Alive, control, owner, watch, pool
<1>29. CASE UNCHANGED vars
  BY <1>29, Quiet DEF vars
<1> QED
  BY <1>1, <1>2, <1>3, <1>4, <1>5, <1>6, <1>7, <1>8, <1>9, <1>10, <1>11, <1>12, <1>13, <1>14,
     <1>15, <1>16, <1>17, <1>18, <1>19, <1>20, <1>21, <1>22, <1>23, <1>24, <1>25, <1>26, <1>27, <1>28, <1>29
     DEF Next, Thread, Owner, Peers

\* No event or edge outlives the socket of its connection.
LEMMA FreshStep == IInv /\ [Next]_vars => (EventsFresh /\ EventsUsedUp)'
<1> SUFFICES ASSUME IInv, [Next]_vars PROVE (EventsFresh /\ EventsUsedUp)'
  OBVIOUS
<1> USE DEF IInv
<1>1. CASE RunEnds
  BY <1>1 DEF RunEnds, control, owner, watch, pool, EventsFresh, EventsUsedUp, TypeOK
<1>2. CASE Start
  BY <1>2 DEF Start, Calls, Continue, control, owner, watch, pool, EventsFresh, EventsUsedUp, TypeOK
<1>3. CASE ListenSocket
  BY <1>3 DEF ListenSocket, Calls, Break, control, owner, watch, pool, EventsFresh, EventsUsedUp, TypeOK
<1>4. CASE ListenFlags
  BY <1>4 DEF ListenFlags, Inside, Break, control, owner, watch, pool, EventsFresh, EventsUsedUp, TypeOK
<1>5. CASE ListenEpoll
  BY <1>5 DEF ListenEpoll, Inside, Break, control, owner, watch, pool, EventsFresh, EventsUsedUp, TypeOK
<1>6. CASE ListenRegister
  BY <1>6 DEF ListenRegister, Inside, Break, Continue, control, owner, watch, pool, EventsFresh, EventsUsedUp, TypeOK
<1>7. CASE EpollWait
  BY <1>7 DEF EpollWait, Calls, control, owner, watch, pool, EventsFresh, EventsUsedUp, TypeOK
<1>8. CASE AcceptOne
  <2>1. Head(backlog) \in Conn
    BY <1>8, TailOf DEF AcceptOne, VectorExact, TypeOK
  <2> QED
    BY <1>8, <2>1 DEF AcceptOne, Accepting, Inside, control, owner, watch, pool, EventsFresh, EventsUsedUp, TypeOK
<1>9. CASE AcceptLost
  BY <1>9 DEF AcceptLost, Accepting, Inside, Break, control, owner, watch, pool, EventsFresh, EventsUsedUp, TypeOK
<1>10. CASE AcceptNothing
  BY <1>10 DEF AcceptNothing, Accepting, Inside, control, owner, watch, pool, EventsFresh, EventsUsedUp, TypeOK
<1>11. CASE AcceptFatal
  BY <1>11 DEF AcceptFatal, Accepting, Inside, Break, control, owner, watch, pool, EventsFresh, EventsUsedUp, TypeOK
<1>12. ASSUME NEW c \in Conn, EventKeeps(c) PROVE (EventsFresh /\ EventsUsedUp)'
  BY <1>12, NetClientAssumption DEF EventKeeps, Inside, control, owner, watch, pool, EventsFresh, EventsUsedUp, TypeOK
<1>13. ASSUME NEW c \in Conn, EventDeletes(c) PROVE (EventsFresh /\ EventsUsedUp)'
  BY <1>13, NetClientAssumption DEF EventDeletes, Inside, control, owner, watch, pool, EventsFresh, EventsUsedUp, TypeOK
<1>14. ASSUME NEW c \in Conn, EventCrashes(c) PROVE (EventsFresh /\ EventsUsedUp)'
  BY <1>14 DEF EventCrashes, Inside, control, owner, watch, pool, EventsFresh, EventsUsedUp, TypeOK
<1>15. CASE EventsDone
  BY <1>15 DEF EventsDone, Inside, Continue, control, owner, watch, pool, EventsFresh, EventsUsedUp, TypeOK
<1>16. CASE ProcessBegins
  BY <1>16 DEF ProcessBegins, Calls, control, owner, watch, pool, EventsFresh, EventsUsedUp, TypeOK
<1>17. ASSUME NEW c \in Conn, StateKeeps(c) PROVE (EventsFresh /\ EventsUsedUp)'
  BY <1>17 DEF StateKeeps, AtConnection, Inside, control, owner, watch, pool, EventsFresh, EventsUsedUp, TypeOK
<1>18. ASSUME NEW c \in Conn, StateShuts(c) PROVE (EventsFresh /\ EventsUsedUp)'
  BY <1>18 DEF StateShuts, AtConnection, Inside, control, owner, watch, pool, EventsFresh, EventsUsedUp, TypeOK
<1>19. ASSUME NEW c \in Conn, StateDeletes(c) PROVE (EventsFresh /\ EventsUsedUp)'
  BY <1>19 DEF StateDeletes, AtConnection, Inside, control, owner, watch, pool, EventsFresh, EventsUsedUp, TypeOK
<1>20. ASSUME NEW c \in Conn, StateCrashes(c) PROVE (EventsFresh /\ EventsUsedUp)'
  BY <1>20 DEF StateCrashes, AtConnection, Inside, control, owner, watch, pool, EventsFresh, EventsUsedUp, TypeOK
<1>21. CASE ProcessEnds
  BY <1>21 DEF ProcessEnds, Inside, Continue, control, owner, watch, pool, EventsFresh, EventsUsedUp, TypeOK
<1>22. CASE Stop
  BY <1>22 DEF Stop, Alive, control, owner, watch, pool, EventsFresh, EventsUsedUp, TypeOK
<1>23. CASE DtorSocket
  BY <1>23 DEF DtorSocket, Alive, control, owner, watch, pool, EventsFresh, EventsUsedUp, TypeOK
<1>24. CASE DtorStop
  BY <1>24 DEF DtorStop, Alive, control, owner, watch, pool, EventsFresh, EventsUsedUp, TypeOK
<1>25. CASE DtorJoin
  BY <1>25 DEF DtorJoin, control, owner, watch, pool, EventsFresh, EventsUsedUp, TypeOK
<1>26. ASSUME NEW c \in Conn, Connect(c) PROVE (EventsFresh /\ EventsUsedUp)'
  BY <1>26 DEF Connect, Alive, control, owner, watch, pool, EventsFresh, EventsUsedUp, TypeOK, Registered
<1>27. ASSUME NEW c \in Conn, Abandon(c) PROVE (EventsFresh /\ EventsUsedUp)'
  BY <1>27, NetClientAssumption DEF Abandon, Alive, control, owner, watch, pool, EventsFresh, EventsUsedUp, TypeOK
<1>28. ASSUME NEW c \in Conn, Activity(c) PROVE (EventsFresh /\ EventsUsedUp)'
  BY <1>28 DEF Activity, Alive, control, owner, watch, pool, EventsFresh, EventsUsedUp, TypeOK
<1>29. CASE UNCHANGED vars
  BY <1>29 DEF vars, EventsFresh, EventsUsedUp
<1> QED
  BY <1>1, <1>2, <1>3, <1>4, <1>5, <1>6, <1>7, <1>8, <1>9, <1>10, <1>11, <1>12, <1>13, <1>14,
     <1>15, <1>16, <1>17, <1>18, <1>19, <1>20, <1>21, <1>22, <1>23, <1>24, <1>25, <1>26, <1>27, <1>28, <1>29
     DEF Next, Thread, Owner, Peers

\* close is selected by the first step of listen() or by a step that ends run().
LEMMA CloseStep == IInv /\ [Next]_vars => CloseOnlyInListen'
<1> SUFFICES ASSUME IInv, [Next]_vars PROVE CloseOnlyInListen'
  OBVIOUS
<1> USE DEF IInv
<1>1. CASE RunEnds
  BY <1>1 DEF RunEnds, control, owner, watch, pool, CloseOnlyInListen
<1>2. CASE Start
  BY <1>2 DEF Start, Calls, Continue, control, owner, watch, pool, CloseOnlyInListen
<1>3. CASE ListenSocket
  BY <1>3 DEF ListenSocket, Calls, Break, control, owner, watch, pool, CloseOnlyInListen
<1>4. CASE ListenFlags
  BY <1>4 DEF ListenFlags, Inside, Break, control, owner, watch, pool, CloseOnlyInListen
<1>5. CASE ListenEpoll
  BY <1>5 DEF ListenEpoll, Inside, Break, control, owner, watch, pool, CloseOnlyInListen
<1>6. CASE ListenRegister
  BY <1>6 DEF ListenRegister, Inside, Break, Continue, control, owner, watch, pool, CloseOnlyInListen
<1>7. CASE EpollWait
  BY <1>7 DEF EpollWait, Calls, control, owner, watch, pool, CloseOnlyInListen
<1>8. CASE AcceptOne
  BY <1>8 DEF AcceptOne, Accepting, Inside, control, owner, watch, pool, CloseOnlyInListen
<1>9. CASE AcceptLost
  BY <1>9 DEF AcceptLost, Accepting, Inside, Break, control, owner, watch, pool, CloseOnlyInListen
<1>10. CASE AcceptNothing
  BY <1>10 DEF AcceptNothing, Accepting, Inside, control, owner, watch, pool, CloseOnlyInListen
<1>11. CASE AcceptFatal
  BY <1>11 DEF AcceptFatal, Accepting, Inside, Break, control, owner, watch, pool, CloseOnlyInListen
<1>12. ASSUME NEW c \in Conn, EventKeeps(c) PROVE CloseOnlyInListen'
  BY <1>12 DEF EventKeeps, Inside, control, owner, watch, pool, CloseOnlyInListen
<1>13. ASSUME NEW c \in Conn, EventDeletes(c) PROVE CloseOnlyInListen'
  BY <1>13 DEF EventDeletes, Inside, control, owner, watch, pool, CloseOnlyInListen
<1>14. ASSUME NEW c \in Conn, EventCrashes(c) PROVE CloseOnlyInListen'
  BY <1>14 DEF EventCrashes, Inside, control, owner, watch, pool, CloseOnlyInListen
<1>15. CASE EventsDone
  BY <1>15 DEF EventsDone, Inside, Continue, control, owner, watch, pool, CloseOnlyInListen
<1>16. CASE ProcessBegins
  BY <1>16 DEF ProcessBegins, Calls, control, owner, watch, pool, CloseOnlyInListen
<1>17. ASSUME NEW c \in Conn, StateKeeps(c) PROVE CloseOnlyInListen'
  BY <1>17 DEF StateKeeps, AtConnection, Inside, control, owner, watch, pool, CloseOnlyInListen
<1>18. ASSUME NEW c \in Conn, StateShuts(c) PROVE CloseOnlyInListen'
  BY <1>18 DEF StateShuts, AtConnection, Inside, control, owner, watch, pool, CloseOnlyInListen
<1>19. ASSUME NEW c \in Conn, StateDeletes(c) PROVE CloseOnlyInListen'
  BY <1>19 DEF StateDeletes, AtConnection, Inside, control, owner, watch, pool, CloseOnlyInListen
<1>20. ASSUME NEW c \in Conn, StateCrashes(c) PROVE CloseOnlyInListen'
  BY <1>20 DEF StateCrashes, AtConnection, Inside, control, owner, watch, pool, CloseOnlyInListen
<1>21. CASE ProcessEnds
  BY <1>21 DEF ProcessEnds, Inside, Continue, control, owner, watch, pool, CloseOnlyInListen
<1>22. CASE Stop
  BY <1>22 DEF Stop, Alive, control, owner, watch, pool, CloseOnlyInListen
<1>23. CASE DtorSocket
  BY <1>23 DEF DtorSocket, Alive, control, owner, watch, pool, CloseOnlyInListen
<1>24. CASE DtorStop
  BY <1>24 DEF DtorStop, Alive, control, owner, watch, pool, CloseOnlyInListen
<1>25. CASE DtorJoin
  BY <1>25 DEF DtorJoin, control, owner, watch, pool, CloseOnlyInListen
<1>26. ASSUME NEW c \in Conn, Connect(c) PROVE CloseOnlyInListen'
  BY <1>26 DEF Connect, Alive, control, owner, watch, pool, CloseOnlyInListen
<1>27. ASSUME NEW c \in Conn, Abandon(c) PROVE CloseOnlyInListen'
  BY <1>27 DEF Abandon, Alive, control, owner, watch, pool, CloseOnlyInListen
<1>28. ASSUME NEW c \in Conn, Activity(c) PROVE CloseOnlyInListen'
  BY <1>28 DEF Activity, Alive, control, owner, watch, pool, CloseOnlyInListen
<1>29. CASE UNCHANGED vars
  BY <1>29 DEF vars, CloseOnlyInListen
<1> QED
  BY <1>1, <1>2, <1>3, <1>4, <1>5, <1>6, <1>7, <1>8, <1>9, <1>10, <1>11, <1>12, <1>13, <1>14,
     <1>15, <1>16, <1>17, <1>18, <1>19, <1>20, <1>21, <1>22, <1>23, <1>24, <1>25, <1>26, <1>27, <1>28, <1>29
     DEF Next, Thread, Owner, Peers

-----------------------------------------------------------------------------
(***************************************************************************)
(* Every connection lives as ConnectionLife says.                          *)
(***************************************************************************)
\* The steps of ConnectionLife, in the terms of NetClient.
Moves(c) ==
    \/ LifeOf(c)' = LifeOf(c)
    \/ Turn = "event" /\ LifeOf(c) = "none" /\ LifeOf(c)' = "open"
    \/ Turn = "event" /\ LifeOf(c) = "open" /\ LifeOf(c)' = "deleted"
    \/ Turn = "state" /\ LifeOf(c) = "open" /\ LifeOf(c)' \in {"shut", "deleted"}
    \/ LifeOf(c) \in {"open", "shut"} /\ LifeOf(c)' = "crashed"

LEMMA MovesAreSteps ==
    ASSUME NEW c \in Conn, Moves(c)
    PROVE  [Life(c)!Step]_(Life(c)!vars)
BY DEF Moves, Turn, Life!Step, Life!Accept, Life!EventCall, Life!StateCall,
       Life!Crash, Life!Turns, Life!vars

LEMMA MovesStep == IInv /\ [Next]_vars => \A d \in Conn : Moves(d)
<1> SUFFICES ASSUME IInv, [Next]_vars PROVE \A d \in Conn : Moves(d)
  OBVIOUS
<1> USE DEF IInv
<1>1. CASE RunEnds
  BY <1>1 DEF RunEnds, control, owner, watch, pool, Moves, LifeOf, Turn, TypeOK
<1>2. CASE Start
  BY <1>2 DEF Start, Calls, Continue, control, owner, watch, pool, Moves, LifeOf, Turn, TypeOK
<1>3. CASE ListenSocket
  BY <1>3 DEF ListenSocket, Calls, Break, control, owner, watch, pool, Moves, LifeOf, Turn, TypeOK
<1>4. CASE ListenFlags
  BY <1>4 DEF ListenFlags, Inside, Break, control, owner, watch, pool, Moves, LifeOf, Turn, TypeOK
<1>5. CASE ListenEpoll
  BY <1>5 DEF ListenEpoll, Inside, Break, control, owner, watch, pool, Moves, LifeOf, Turn, TypeOK
<1>6. CASE ListenRegister
  BY <1>6 DEF ListenRegister, Inside, Break, Continue, control, owner, watch, pool, Moves, LifeOf, Turn, TypeOK
<1>7. CASE EpollWait
  BY <1>7 DEF EpollWait, Calls, control, owner, watch, pool, Moves, LifeOf, Turn, TypeOK
<1>8. CASE AcceptOne
  <2> DEFINE h == Head(backlog)
  <2>1. h \in ToSet(backlog)
    BY <1>8, TailOf DEF AcceptOne, VectorExact, TypeOK
  <2>2. con[h] = "pending" /\ thread = "running" /\ pc = "events"
    BY <1>8, <2>1 DEF AcceptOne, Accepting, Inside, VectorExact
  <2>3. con' = [con EXCEPT ![h] = "open"] /\ thread' = thread
    BY <1>8 DEF AcceptOne, control
  <2> HIDE DEF h
  <2> QED
    BY <2>2, <2>3 DEF Moves, LifeOf, Turn, TypeOK
<1>9. CASE AcceptLost
  <2> DEFINE h == Head(backlog)
  <2>1. h \in ToSet(backlog)
    BY <1>9, TailOf DEF AcceptLost, VectorExact, TypeOK
  <2>2. con[h] = "pending" /\ thread = "running"
    BY <1>9, <2>1 DEF AcceptLost, Accepting, Inside, VectorExact
  <2>3. con' = [con EXCEPT ![h] = "lost"] /\ thread' = "exited"
    BY <1>9 DEF AcceptLost, Break
  <2> HIDE DEF h
  <2> QED
    BY <2>2, <2>3 DEF Moves, LifeOf, Turn, TypeOK
<1>10. CASE AcceptNothing
  BY <1>10 DEF AcceptNothing, Accepting, Inside, control, owner, watch, pool, Moves, LifeOf, Turn, TypeOK
<1>11. CASE AcceptFatal
  BY <1>11 DEF AcceptFatal, Accepting, Inside, Break, control, owner, watch, pool, Moves, LifeOf, Turn, TypeOK
<1>12. ASSUME NEW c \in Conn, EventKeeps(c) PROVE \A d \in Conn : Moves(d)
  BY <1>12 DEF EventKeeps, Inside, control, owner, watch, pool, Moves, LifeOf, Turn, TypeOK
<1>13. ASSUME NEW c \in Conn, EventDeletes(c) PROVE \A d \in Conn : Moves(d)
  <2>1. con[c] = "open"
    BY <1>13, NetClientAssumption DEF EventDeletes, Inside, EventsFresh
  <2> QED
    BY <1>13, <2>1 DEF EventDeletes, Inside, control, Moves, LifeOf, Turn, TypeOK
<1>14. ASSUME NEW c \in Conn, EventCrashes(c) PROVE \A d \in Conn : Moves(d)
  BY <1>14 DEF EventCrashes, Inside, control, owner, watch, pool, Moves, LifeOf, Turn, TypeOK
<1>15. CASE EventsDone
  BY <1>15 DEF EventsDone, Inside, Continue, control, owner, watch, pool, Moves, LifeOf, Turn, TypeOK
<1>16. CASE ProcessBegins
  BY <1>16 DEF ProcessBegins, Calls, control, owner, watch, pool, Moves, LifeOf, Turn, TypeOK
<1>17. ASSUME NEW c \in Conn, StateKeeps(c) PROVE \A d \in Conn : Moves(d)
  BY <1>17 DEF StateKeeps, AtConnection, Inside, control, owner, watch, pool, Moves, LifeOf, Turn, TypeOK
<1>18. ASSUME NEW c \in Conn, StateShuts(c) PROVE \A d \in Conn : Moves(d)
  BY <1>18 DEF StateShuts, AtConnection, Inside, control, owner, watch, pool, Moves, LifeOf, Turn, TypeOK
<1>19. ASSUME NEW c \in Conn, StateDeletes(c) PROVE \A d \in Conn : Moves(d)
  BY <1>19 DEF StateDeletes, AtConnection, Inside, control, owner, watch, pool, Moves, LifeOf, Turn, TypeOK
<1>20. ASSUME NEW c \in Conn, StateCrashes(c) PROVE \A d \in Conn : Moves(d)
  BY <1>20 DEF StateCrashes, AtConnection, Inside, control, owner, watch, pool, Moves, LifeOf, Turn, TypeOK
<1>21. CASE ProcessEnds
  BY <1>21 DEF ProcessEnds, Inside, Continue, control, owner, watch, pool, Moves, LifeOf, Turn, TypeOK
<1>22. CASE Stop
  BY <1>22 DEF Stop, Alive, control, owner, watch, pool, Moves, LifeOf, Turn, TypeOK
<1>23. CASE DtorSocket
  BY <1>23 DEF DtorSocket, Alive, control, owner, watch, pool, Moves, LifeOf, Turn, TypeOK
<1>24. CASE DtorStop
  BY <1>24 DEF DtorStop, Alive, control, owner, watch, pool, Moves, LifeOf, Turn, TypeOK
<1>25. CASE DtorJoin
  BY <1>25 DEF DtorJoin, control, owner, watch, pool, Moves, LifeOf, Turn, TypeOK
<1>26. ASSUME NEW c \in Conn, Connect(c) PROVE \A d \in Conn : Moves(d)
  BY <1>26 DEF Connect, Alive, control, owner, watch, pool, Moves, LifeOf, Turn, TypeOK
<1>27. ASSUME NEW c \in Conn, Abandon(c) PROVE \A d \in Conn : Moves(d)
  BY <1>27 DEF Abandon, Alive, control, owner, watch, pool, Moves, LifeOf, Turn, TypeOK
<1>28. ASSUME NEW c \in Conn, Activity(c) PROVE \A d \in Conn : Moves(d)
  BY <1>28 DEF Activity, Alive, control, owner, watch, pool, Moves, LifeOf, Turn, TypeOK
<1>29. CASE UNCHANGED vars
  BY <1>29 DEF vars, Moves, LifeOf
<1> QED
  BY <1>1, <1>2, <1>3, <1>4, <1>5, <1>6, <1>7, <1>8, <1>9, <1>10, <1>11, <1>12, <1>13, <1>14,
     <1>15, <1>16, <1>17, <1>18, <1>19, <1>20, <1>21, <1>22, <1>23, <1>24, <1>25, <1>26, <1>27, <1>28, <1>29
     DEF Next, Thread, Owner, Peers

LEMMA NodeStep == [Next]_vars => [Node!Next]_(Node!vars)
<1> SUFFICES ASSUME [Next]_vars PROVE Node!Next \/ UNCHANGED <<thread, main>>
  BY DEF Node!vars
<1> USE DEF control, owner, watch, pool, Inside, Calls, Break, Continue, Accepting,
            Alive, AtConnection
<1> DEFINE Ends    == thread = "running" /\ thread' = "exited" /\ main' = main
           Crashes == thread = "running" /\ thread' = "crashed" /\ main' = main
           Stays   == UNCHANGED <<thread, main>>
<1>1. CASE RunEnds \/ Start \/ ListenSocket \/ ListenFlags \/ ListenEpoll
              \/ ListenRegister \/ EpollWait
  <2>1. Ends \/ Stays
    BY <1>1 DEF RunEnds, Start, ListenSocket, ListenFlags, ListenEpoll,
                ListenRegister, EpollWait
  <2> QED
    BY <2>1 DEF Node!Next, Node!ThreadEnds
<1>2. CASE AcceptOne \/ AcceptLost \/ AcceptNothing \/ AcceptFatal
  <2>1. Ends \/ Stays
    BY <1>2 DEF AcceptOne, AcceptLost, AcceptNothing, AcceptFatal
  <2> QED
    BY <2>1 DEF Node!Next, Node!ThreadEnds
<1>3. ASSUME NEW c \in Conn, EventKeeps(c) \/ EventDeletes(c) \/ EventCrashes(c)
      PROVE  Node!Next \/ Stays
  <2>1. Crashes \/ Stays
    BY <1>3 DEF EventKeeps, EventDeletes, EventCrashes
  <2> QED
    BY <2>1 DEF Node!Next, Node!Crash
<1>4. CASE EventsDone \/ ProcessBegins \/ ProcessEnds
  BY <1>4 DEF EventsDone, ProcessBegins, ProcessEnds
<1>5. ASSUME NEW c \in Conn,
             StateKeeps(c) \/ StateShuts(c) \/ StateDeletes(c) \/ StateCrashes(c)
      PROVE  Node!Next \/ Stays
  <2>1. Crashes \/ Stays
    BY <1>5 DEF StateKeeps, StateShuts, StateDeletes, StateCrashes
  <2> QED
    BY <2>1 DEF Node!Next, Node!Crash
<1>6. CASE Stop \/ DtorSocket
  BY <1>6 DEF Stop, DtorSocket, Node!Next, Node!Delete
<1>7. CASE DtorStop \/ DtorJoin
  BY <1>7 DEF DtorStop, DtorJoin, Node!Next, Node!Stop, Node!Join
<1>8. ASSUME NEW c \in Conn, Connect(c) \/ Abandon(c) \/ Activity(c) PROVE Stays
  BY <1>8 DEF Connect, Abandon, Activity
<1>9. CASE UNCHANGED vars
  BY <1>9 DEF vars
<1> QED
  BY <1>1, <1>2, <1>3, <1>4, <1>5, <1>6, <1>7, <1>8, <1>9 DEF Next, Thread, Owner, Peers

LEMMA InitIInv == Init => IInv
<1> SUFFICES ASSUME Init PROVE IInv
  OBVIOUS
<1>1. TypeOK
  <2>1. <<>> \in Seq(Conn)
    OBVIOUS
  <2>2. con \in [Conn -> ConStates]
    BY DEF Init, ConStates
  <2> QED
    BY <2>1, <2>2 DEF Init, TypeOK
<1>2. VectorExact
  BY DEF Init, VectorExact, ToSet, IsInjective
<1>3. EventsFresh /\ EventsUsedUp /\ CloseOnlyInListen
  BY DEF Init, EventsFresh, EventsUsedUp, CloseOnlyInListen
<1> QED
  BY <1>1, <1>2, <1>3 DEF IInv

LEMMA NextIInv == IInv /\ [Next]_vars => IInv'
  BY TypeStep, VectorStep, FreshStep, CloseStep DEF IInv

LEMMA AlwaysIInv == Spec => []IInv
  BY InitIInv, NextIInv, PTL DEF Spec

-----------------------------------------------------------------------------
\* Every variable of the network node keeps its type
\* (recyclr-net.h:69-77).
THEOREM TypeCorrect == Spec => []TypeOK
<1>1. IInv => TypeOK
  BY DEF IInv
<1> QED
  BY <1>1, AlwaysIInv, PTL

\* _open_connections holds exactly the live connections, each once, and the
\* backlog exactly those that wait (recyclr-net.cpp:204-213, 341-372).
THEOREM VectorCorrect == Spec => []VectorExact
<1>1. IInv => VectorExact
  BY DEF IInv
<1> QED
  BY <1>1, AlwaysIInv, PTL

\* While the thread runs, no pointer of the epoll array or of a registration is
\* one to a deleted connection (recyclr-net.cpp:315-362).
THEOREM EventsCorrect == Spec => []EventsFresh
<1>1. IInv => EventsFresh
  BY DEF IInv
<1> QED
  BY <1>1, AlwaysIInv, PTL

\* run() never calls NetClient::close (recyclr-net.cpp:259-263, 378-391).
THEOREM CloseUnreachable == Spec => []CloseNeverCalled
<1>1. IInv => CloseNeverCalled
  BY DEF IInv, CloseOnlyInListen, CloseNeverCalled, Calls
<1> QED
  BY <1>1, AlwaysIInv, PTL

\* Every connection of the node lives as ConnectionLife says, which is what
\* Connection implements: whatever the others do, its socket is closed only by a
\* state function and it gets no event afterwards (recyclr-net.cpp:313-376,
\* 398-423).
THEOREM LifeRefinement == Spec => LifeSpec
<1>1. Init => \A c \in Conn : Life(c)!Init
  BY DEF Init, Life!Init, LifeOf, Turn, Life!Turns
<1>2. IInv /\ [Next]_vars => [\A c \in Conn : [Life(c)!Step]_(Life(c)!vars)]_vars
  BY MovesStep, MovesAreSteps
<1> QED
  BY <1>1, <1>2, AlwaysIInv, PTL DEF Spec, LifeSpec

\* The node lives as NodeLife says, which is how RecyclrClient sees it: its
\* thread ends once and for all, and the object only after it
\* (recyclr-net.cpp:224-266).
THEOREM NodeRefinement == Spec => Node!Steps
<1>1. Init => Node!Init
  BY DEF Init, Node!Init
<1> QED
  BY <1>1, NodeStep, PTL DEF Spec, Node!Steps

=============================================================================
