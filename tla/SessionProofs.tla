---------------------------- MODULE SessionProofs ----------------------------
(***************************************************************************)
(* What the answers of EchoSession are, for every sequence of messages:    *)
(* the facts that let a proof about a connection follow its messages one   *)
(* by one.                                                                 *)
(***************************************************************************)
EXTENDS EchoSession, FiniteSetTheorems, SequenceTheorems, WellFoundedInduction, TLAPS

-----------------------------------------------------------------------------
(***************************************************************************)
(* Induction, as the least member of a set of numbers.                     *)
(***************************************************************************)
LEMMA LeastOf ==
    ASSUME NEW T \in SUBSET Nat, T # {}
    PROVE  \E x \in T : \A y \in T : x <= y
<1>1. IsWellFoundedOn(OpToRel(<, Nat), Nat)
  BY NatLessThanWellFounded
<1>2. PICK x \in T : \A y \in T : <<y, x>> \notin OpToRel(<, Nat)
  BY <1>1, WFMin
<1>3. \A y \in T : ~(y < x)
  BY <1>2 DEF OpToRel
<1> QED
  BY <1>3

-----------------------------------------------------------------------------
(***************************************************************************)
(* The messages that call for an answer, and their rank.                   *)
(***************************************************************************)
LEMMA AskingFinite ==
    ASSUME NEW ms, Len(ms) \in Nat
    PROVE  /\ Asking(ms) \subseteq 1 .. Len(ms)
           /\ IsFiniteSet(Asking(ms)) /\ Cardinality(Asking(ms)) \in Nat
           /\ \A i : /\ IsFiniteSet(Asking(ms) \cap 1 .. i)
                     /\ Rank(ms, i) \in 0 .. Cardinality(Asking(ms))
<1>1. Asking(ms) \subseteq 1 .. Len(ms)
  BY DEF Asking
<1>2. IsFiniteSet(1 .. Len(ms))
  BY FS_Interval
<1>3. IsFiniteSet(Asking(ms))
  BY <1>1, <1>2, FS_Subset
<1>4. Cardinality(Asking(ms)) \in Nat
  BY <1>3, FS_CardinalityType
<1>5. ASSUME NEW i
      PROVE  /\ IsFiniteSet(Asking(ms) \cap 1 .. i)
             /\ Rank(ms, i) \in 0 .. Cardinality(Asking(ms))
  <2>1. Asking(ms) \cap 1 .. i \in SUBSET Asking(ms)
    OBVIOUS
  <2>2. /\ IsFiniteSet(Asking(ms) \cap 1 .. i)
        /\ Cardinality(Asking(ms) \cap 1 .. i) <= Cardinality(Asking(ms))
    BY <1>3, <2>1, FS_Subset
  <2>3. Cardinality(Asking(ms) \cap 1 .. i) \in Nat
    BY <2>2, FS_CardinalityType
  <2> QED
    BY <1>4, <2>2, <2>3 DEF Rank
<1> QED
  BY <1>1, <1>3, <1>4, <1>5

LEMMA RankType ==
    ASSUME NEW ms, Len(ms) \in Nat, NEW i
    PROVE  /\ Rank(ms, i) \in Nat /\ Rank(ms, i) \in Int
           /\ Rank(ms, i) <= Cardinality(Asking(ms))
<1>1. Rank(ms, i) \in 0 .. Cardinality(Asking(ms)) /\ Cardinality(Asking(ms)) \in Nat
  BY AskingFinite
<1> QED
  BY <1>1

LEMMA RankStep ==
    ASSUME NEW ms, Len(ms) \in Nat, NEW i \in 1 .. Len(ms)
    PROVE  Rank(ms, i) = Rank(ms, i - 1) + (IF i \in Asking(ms) THEN 1 ELSE 0)
<1> DEFINE before == Asking(ms) \cap 1 .. i - 1
<1>1. IsFiniteSet(before)
  BY AskingFinite
<1>2. CASE i \in Asking(ms)
  <2>1. Asking(ms) \cap 1 .. i = before \cup {i} /\ i \notin before
    BY <1>2
  <2>2. Cardinality(before \cup {i}) = Cardinality(before) + 1
    BY <1>1, <2>1, FS_AddElement
  <2> QED
    BY <1>2, <2>1, <2>2 DEF Rank
<1>3. CASE i \notin Asking(ms)
  <2>1. Asking(ms) \cap 1 .. i = before
    BY <1>3
  <2>2. Rank(ms, i) = Rank(ms, i - 1)
    BY <2>1 DEF Rank
  <2>3. Rank(ms, i - 1) \in Int
    BY RankType
  <2> QED
    BY <1>3, <2>2, <2>3
<1> QED
  BY <1>2, <1>3

LEMMA RankEnds ==
    ASSUME NEW ms, Len(ms) \in Nat
    PROVE  Rank(ms, 0) = 0 /\ Rank(ms, Len(ms)) = Cardinality(Asking(ms))
<1>1. Asking(ms) \cap 1 .. 0 = {} /\ Asking(ms) \cap 1 .. Len(ms) = Asking(ms)
  BY AskingFinite
<1> QED
  BY <1>1, FS_EmptySet DEF Rank

LEMMA RankGrows ==
    ASSUME NEW ms, Len(ms) \in Nat, NEW j \in 0 .. Len(ms), NEW i \in 0 .. j
    PROVE  /\ Rank(ms, i) <= Rank(ms, j)
           /\ i < j /\ j \in Asking(ms) => Rank(ms, i) < Rank(ms, j)
<1>1. ASSUME NEW a \in 0 .. Len(ms), NEW b \in a .. Len(ms)
      PROVE  Rank(ms, a) <= Rank(ms, b)
  <2>1. Asking(ms) \cap 1 .. a \in SUBSET (Asking(ms) \cap 1 .. b)
    BY <1>1
  <2> QED
    BY <2>1, AskingFinite, RankType, FS_Subset DEF Rank
<1>2. ASSUME i < j, j \in Asking(ms)
      PROVE  Rank(ms, i) < Rank(ms, j)
  <2>1. Rank(ms, i) <= Rank(ms, j - 1)
    BY <1>1, <1>2
  <2>2. Rank(ms, j) = Rank(ms, j - 1) + 1
    BY <1>2, RankStep
  <2> QED
    BY <2>1, <2>2, AskingFinite, RankType
<1> QED
  BY <1>1, <1>2

\* The n-th message that calls for an answer is among the first j as soon as n
\* of them do, and there is only one.
LEMMA Ranked ==
    ASSUME NEW ms, Len(ms) \in Nat, NEW j \in 0 .. Len(ms), NEW n \in 1 .. Rank(ms, j)
    PROVE  \E i \in Asking(ms) \cap 1 .. j :
               Rank(ms, i) = n /\ \A k \in Asking(ms) : Rank(ms, k) = n => k = i
<1> DEFINE T == {i \in 0 .. j : Rank(ms, i) >= n}
<1>1. T \in SUBSET Nat /\ j \in T
  BY AskingFinite, RankType
<1>2. PICK i \in T : \A y \in T : i <= y
  BY <1>1, LeastOf
<1>3. i \in 1 .. j /\ i \in 1 .. Len(ms)
  BY <1>2, RankEnds
<1>4. Rank(ms, i - 1) < n
  <2>1. i - 1 \notin T
    BY <1>2, <1>3
  <2> QED
    BY <1>3, <2>1, AskingFinite, RankType
<1>5. i \in Asking(ms) /\ Rank(ms, i) = n
  BY <1>2, <1>3, <1>4, RankStep, AskingFinite, RankType
<1>6. ASSUME NEW k \in Asking(ms), Rank(ms, k) = n
      PROVE  k = i
  <2>1. k \in 1 .. Len(ms) /\ Rank(ms, k) \in Int
    BY AskingFinite, RankType
  <2>2. ~(i < k)
    BY <1>3, <1>5, <1>6, <2>1, RankGrows
  <2>3. ~(k < i)
    BY <1>3, <1>5, <1>6, <2>1, RankGrows
  <2> QED
    BY <1>3, <2>1, <2>2, <2>3
<1> QED
  BY <1>3, <1>5, <1>6

\* An OPEN is the first message that calls for an answer, or comes after it.
LEMMA OpenRanked ==
    ASSUME NEW ms, Len(ms) \in Nat, NEW o \in 1 .. Len(ms), ms[o].magic, ms[o].code = "open"
    PROVE  Rank(ms, o) >= 1
<1> DEFINE T == {i \in 1 .. o : ms[i].magic /\ ms[i].code = "open"}
<1>1. T \in SUBSET Nat /\ o \in T
  OBVIOUS
<1>2. PICK i \in T : \A y \in T : i <= y
  BY <1>1, LeastOf
<1>3. i \in 1 .. o /\ i \in 1 .. Len(ms) /\ ms[i].magic /\ ms[i].code = "open"
  BY <1>2
<1>4. ~Opened(ms, i)
  BY <1>2, <1>3 DEF Opened
<1>5. i \in Asking(ms)
  BY <1>3, <1>4 DEF Asking
<1>6. Rank(ms, 0) < Rank(ms, i) /\ Rank(ms, i) <= Rank(ms, o)
  BY <1>3, <1>5, RankGrows
<1> QED
  BY <1>6, RankEnds, AskingFinite, RankType

-----------------------------------------------------------------------------
(***************************************************************************)
(* The first n messages.                                                   *)
(***************************************************************************)
LEMMA Prefix ==
    ASSUME NEW S, NEW ms \in Seq(S), NEW n \in 0 .. Len(ms)
    PROVE  /\ Len(SubSeq(ms, 1, n)) = n
           /\ \A i \in 1 .. n : SubSeq(ms, 1, n)[i] = ms[i]
OBVIOUS

LEMMA AskingPrefix ==
    ASSUME NEW S, NEW ms \in Seq(S), NEW n \in 0 .. Len(ms)
    PROVE  /\ Asking(SubSeq(ms, 1, n)) = Asking(ms) \cap 1 .. n
           /\ \A i \in 1 .. n :
                  /\ Opened(SubSeq(ms, 1, n), i) <=> Opened(ms, i)
                  /\ AnswerTo(SubSeq(ms, 1, n), i) = AnswerTo(ms, i)
           /\ \A i \in 0 .. n : Rank(SubSeq(ms, 1, n), i) = Rank(ms, i)
<1> DEFINE p == SubSeq(ms, 1, n)
<1>1. Len(p) = n /\ \A i \in 1 .. n : p[i] = ms[i]
  BY Prefix
<1> HIDE DEF p
<1>2. ASSUME NEW i \in 1 .. n
      PROVE  Opened(p, i) <=> Opened(ms, i)
  BY <1>1 DEF Opened
<1>3. ASSUME NEW i \in 1 .. n
      PROVE  AnswerTo(p, i) = AnswerTo(ms, i)
  BY <1>1, <1>2 DEF AnswerTo
<1>4. ASSUME NEW i \in 1 .. n
      PROVE  i \in Asking(p) <=> i \in Asking(ms)
  BY <1>1, <1>2 DEF Asking
<1>5. Asking(p) = Asking(ms) \cap 1 .. n
  <2>1. Asking(p) \subseteq 1 .. n
    BY <1>1 DEF Asking
  <2> QED
    BY <1>4, <2>1
<1>6. ASSUME NEW i \in 0 .. n
      PROVE  Rank(p, i) = Rank(ms, i)
  <2>1. Asking(p) \cap 1 .. i = Asking(ms) \cap 1 .. i
    BY <1>5
  <2> QED
    BY <2>1 DEF Rank
<1> QED
  BY <1>2, <1>3, <1>5, <1>6 DEF p

\* One more message does not change the ranks of those before.
LEMMA RankAppended ==
    ASSUME NEW S, NEW ms \in Seq(S), NEW h \in S, NEW i \in 0 .. Len(ms)
    PROVE  Rank(Append(ms, h), i) = Rank(ms, i)
<1>1. /\ Append(ms, h) \in Seq(S) /\ Len(ms) \in 0 .. Len(Append(ms, h))
      /\ SubSeq(Append(ms, h), 1, Len(ms)) = ms
  OBVIOUS
<1> QED
  BY <1>1, AskingPrefix

-----------------------------------------------------------------------------
(***************************************************************************)
(* The answers.                                                            *)
(***************************************************************************)
LEMMA RepliesAt ==
    ASSUME NEW ms, Len(ms) \in Nat
    PROVE  /\ Len(Replies(ms)) = Cardinality(Asking(ms))
           /\ Replies(ms) \in Seq({AnswerTo(ms, i) : i \in Asking(ms)})
           /\ \A i \in Asking(ms) : /\ Rank(ms, i) \in 1 .. Len(Replies(ms))
                                    /\ Replies(ms)[Rank(ms, i)] = AnswerTo(ms, i)
<1> DEFINE N     == Cardinality(Asking(ms))
           at(n) == CHOOSE i \in Asking(ms) : Rank(ms, i) = n
<1>1. N \in Nat
  BY AskingFinite, RankType
<1>2. Replies(ms) = [n \in 1 .. N |-> AnswerTo(ms, at(n))]
  BY DEF Replies
<1>3. ASSUME NEW n \in 1 .. N
      PROVE  at(n) \in Asking(ms) /\ Rank(ms, at(n)) = n
  <2>1. \E i \in Asking(ms) : Rank(ms, i) = n
    BY Ranked, RankEnds
  <2> QED
    BY <2>1
<1>4. ASSUME NEW i \in Asking(ms)
      PROVE  Rank(ms, i) \in 1 .. N /\ at(Rank(ms, i)) = i
  <2>1. i \in 1 .. Len(ms)
    BY AskingFinite, RankType
  <2>2. Rank(ms, 0) < Rank(ms, i)
    BY <2>1, RankGrows
  <2>3. Rank(ms, i) \in 1 .. N
    BY <1>1, <2>2, RankEnds, AskingFinite, RankType
  <2>4. PICK k \in Asking(ms) :
            \A l \in Asking(ms) : Rank(ms, l) = Rank(ms, i) => l = k
    BY <2>3, Ranked, RankEnds
  <2>5. at(Rank(ms, i)) \in Asking(ms) /\ Rank(ms, at(Rank(ms, i))) = Rank(ms, i)
    BY <1>3, <2>3
  <2> HIDE DEF at
  <2> QED
    BY <2>3, <2>4, <2>5
<1> HIDE DEF at, N
<1>5. /\ Len(Replies(ms)) = N
      /\ Replies(ms) \in Seq({AnswerTo(ms, i) : i \in Asking(ms)})
  BY <1>1, <1>2, <1>3
<1> QED
  BY <1>1, <1>2, <1>4, <1>5 DEF N

\* What the first n messages call for is the beginning of what all call for.
LEMMA RepliesPrefix ==
    ASSUME NEW S, NEW ms \in Seq(S), NEW n \in 0 .. Len(ms)
    PROVE  /\ Len(Replies(SubSeq(ms, 1, n))) = Rank(ms, n)
           /\ Rank(ms, n) \in 0 .. Len(Replies(ms))
           /\ \A q \in 1 .. Rank(ms, n) : Replies(SubSeq(ms, 1, n))[q] = Replies(ms)[q]
<1> DEFINE p == SubSeq(ms, 1, n)
<1>1. Len(p) = n /\ Len(p) \in Nat /\ Len(ms) \in Nat
  BY Prefix
<1>2. /\ Asking(p) = Asking(ms) \cap 1 .. n
      /\ \A i \in 1 .. n : AnswerTo(p, i) = AnswerTo(ms, i)
      /\ \A i \in 0 .. n : Rank(p, i) = Rank(ms, i)
  BY AskingPrefix
<1> HIDE DEF p
<1>3. Len(Replies(p)) = Rank(ms, n)
  <2>1. Len(Replies(p)) = Cardinality(Asking(p))
    BY <1>1, RepliesAt
  <2> QED
    BY <1>2, <2>1 DEF Rank
<1>4. Rank(ms, n) \in 0 .. Len(Replies(ms))
  BY <1>1, RepliesAt, AskingFinite, RankType
<1>5. ASSUME NEW q \in 1 .. Rank(ms, n)
      PROVE  Replies(p)[q] = Replies(ms)[q]
  <2>1. PICK i \in Asking(ms) \cap 1 .. n : Rank(ms, i) = q
    BY <1>1, Ranked
  <2>2. i \in Asking(p) /\ Rank(p, i) = q /\ AnswerTo(p, i) = AnswerTo(ms, i)
    BY <1>2, <2>1
  <2>3. Replies(p)[q] = AnswerTo(p, i)
    BY <1>1, <2>2, RepliesAt
  <2>4. Replies(ms)[q] = AnswerTo(ms, i)
    BY <1>1, <2>1, RepliesAt
  <2> QED
    BY <2>2, <2>3, <2>4
<1> QED
  BY <1>3, <1>4, <1>5 DEF p

\* The next message adds its answer, or nothing.
LEMMA RepliesNext ==
    ASSUME NEW S, NEW ms \in Seq(S), NEW n \in 1 .. Len(ms)
    PROVE  Replies(SubSeq(ms, 1, n))
               = IF n \in Asking(ms)
                 THEN Append(Replies(SubSeq(ms, 1, n - 1)), AnswerTo(ms, n))
                 ELSE Replies(SubSeq(ms, 1, n - 1))
<1> DEFINE new == Replies(SubSeq(ms, 1, n))
           old == Replies(SubSeq(ms, 1, n - 1))
           all == Replies(ms)
           T   == {AnswerTo(ms, i) : i \in Asking(ms)}
<1>1. Len(ms) \in Nat /\ n - 1 \in 0 .. Len(ms) /\ n \in 0 .. Len(ms)
  OBVIOUS
<1>2. ASSUME NEW k \in 0 .. Len(ms)
      PROVE  Replies(SubSeq(ms, 1, k)) \in Seq(T)
  <2> DEFINE p == SubSeq(ms, 1, k)
  <2>1. /\ Len(p) \in Nat /\ Asking(p) = Asking(ms) \cap 1 .. k
        /\ \A i \in 1 .. k : AnswerTo(p, i) = AnswerTo(ms, i)
    BY AskingPrefix, Prefix
  <2> HIDE DEF p
  <2> DEFINE U == {AnswerTo(p, i) : i \in Asking(p)}
  <2>2. U \subseteq T
    BY <2>1
  <2>3. Replies(p) \in Seq(U)
    BY <2>1, RepliesAt
  <2> HIDE DEF U, T
  <2>4. Replies(p) \in Seq(T)
    BY <2>2, <2>3
  <2> QED
    BY <2>4 DEF p
<1>3. new \in Seq(T) /\ old \in Seq(T)
  BY <1>1, <1>2
<1>4. /\ Len(new) = Rank(ms, n) /\ Len(old) = Rank(ms, n - 1)
      /\ \A q \in 1 .. Rank(ms, n) : new[q] = all[q]
      /\ \A q \in 1 .. Rank(ms, n - 1) : old[q] = all[q]
  BY <1>1, RepliesPrefix
<1>5. /\ Rank(ms, n) = Rank(ms, n - 1) + (IF n \in Asking(ms) THEN 1 ELSE 0)
      /\ Rank(ms, n) \in Nat /\ Rank(ms, n - 1) \in Nat
  BY <1>1, RankStep, AskingFinite, RankType
<1>6. n \in Asking(ms) => all[Rank(ms, n)] = AnswerTo(ms, n) /\ AnswerTo(ms, n) \in T
  BY <1>1, RepliesAt
<1> HIDE DEF new, old, all, T
<1>7. CASE n \in Asking(ms)
  <2> DEFINE longer == Append(old, AnswerTo(ms, n))
  <2>1. /\ longer \in Seq(T) /\ Len(longer) = Rank(ms, n)
        /\ \A q \in 1 .. Rank(ms, n - 1) : longer[q] = old[q]
        /\ longer[Rank(ms, n)] = AnswerTo(ms, n)
    BY <1>3, <1>4, <1>5, <1>6, <1>7
  <2> HIDE DEF longer
  <2>2. \A q \in 1 .. Len(new) : new[q] = longer[q]
    BY <1>4, <1>5, <1>6, <1>7, <2>1
  <2>3. new = longer
    <3>1. Len(new) = Len(longer)
      BY <1>4, <2>1
    <3> QED
      BY <1>3, <2>1, <2>2, <3>1, SeqEqual
  <2> QED
    BY <1>7, <2>3 DEF longer, new, old
<1>8. CASE n \notin Asking(ms)
  <2>1. \A q \in 1 .. Len(new) : new[q] = old[q]
    BY <1>4, <1>5, <1>8
  <2>2. new = old
    <3>1. Len(new) = Len(old)
      BY <1>4, <1>5, <1>8
    <3> QED
      BY <1>3, <2>1, <3>1, SeqEqual
  <2> QED
    BY <1>8, <2>2 DEF new, old
<1> QED
  BY <1>7, <1>8

-----------------------------------------------------------------------------
(***************************************************************************)
(* The session answers what is owed, and nothing else.                     *)
(***************************************************************************)
\* The answers so far are the first of those that the messages call for.
Owed == /\ Len(answered) \in Nat /\ Len(answered) <= Len(Replies(asked))
        /\ \A q \in 1 .. Len(answered) : answered[q] = Replies(asked)[q]

OInv == asked \in Seq(PeerMsgs) /\ (\E T : answered \in Seq(T)) /\ Owed

LEMMA InitOInv == Init => OInv
<1> SUFFICES ASSUME Init
             PROVE  OInv
  OBVIOUS
<1>1. asked = <<>> /\ answered = <<>> /\ Len(asked) \in Nat /\ Len(answered) = 0
  BY DEF Init
<1>2. Len(Replies(asked)) \in Nat
  BY <1>1, RepliesAt, AskingFinite
<1>3. asked \in Seq(PeerMsgs) /\ answered \in Seq({})
  BY <1>1
<1> QED
  BY <1>1, <1>2, <1>3 DEF OInv, Owed

LEMMA AskOwed ==
    ASSUME OInv, NEW h \in PeerMsgs, Ask(h)
    PROVE  OInv'
<1>1. /\ asked \in Seq(PeerMsgs) /\ Owed /\ answered' = answered
      /\ asked' = Append(asked, h) /\ Len(asked) \in Nat
  BY DEF OInv, Ask
<1>2. /\ asked' \in Seq(PeerMsgs) /\ Len(asked) \in 0 .. Len(asked')
      /\ SubSeq(asked', 1, Len(asked)) = asked
  BY <1>1
<1>3. /\ Len(Replies(asked)) = Rank(asked', Len(asked))
      /\ Rank(asked', Len(asked)) \in 0 .. Len(Replies(asked'))
      /\ \A q \in 1 .. Rank(asked', Len(asked)) : Replies(asked)[q] = Replies(asked')[q]
  BY <1>2, RepliesPrefix
<1>4. Len(Replies(asked)) \in Nat /\ Len(Replies(asked')) \in Nat
  BY <1>1, <1>2, RepliesAt, AskingFinite
<1>5. Len(answered) \in Nat /\ Len(answered) <= Len(Replies(asked))
  BY <1>1 DEF Owed
<1>6. Len(Replies(asked)) <= Len(Replies(asked'))
  BY <1>3, <1>4
<1>7. \A q \in 1 .. Len(answered) : answered[q] = Replies(asked')[q]
  <2> TAKE q \in 1 .. Len(answered)
  <2>1. q \in 1 .. Rank(asked', Len(asked))
    BY <1>3, <1>4, <1>5
  <2> QED
    BY <1>1, <1>3, <2>1 DEF Owed
<1>8. Len(answered') <= Len(Replies(asked'))
  BY <1>1, <1>4, <1>5, <1>6
<1>9. Owed'
  BY <1>1, <1>5, <1>7, <1>8 DEF Owed
<1> QED
  BY <1>1, <1>2, <1>9 DEF OInv

LEMMA AnswerOwed ==
    ASSUME OInv, Answer
    PROVE  OInv'
<1> DEFINE x == Replies(asked)[Len(answered) + 1]
<1>1. /\ asked \in Seq(PeerMsgs) /\ Owed /\ asked' = asked
      /\ Len(answered) < Len(Replies(asked)) /\ answered' = Append(answered, x)
      /\ Len(asked) \in Nat
  BY DEF OInv, Answer
<1>2. PICK T : answered \in Seq(T)
  BY DEF OInv
<1>3. Len(Replies(asked)) \in Nat
  BY <1>1, RepliesAt, AskingFinite
<1> HIDE DEF x
<1>4. answered \in Seq(T \cup {x}) /\ x \in T \cup {x}
  BY <1>2
<1>5. /\ answered' \in Seq(T \cup {x}) /\ Len(answered') = Len(answered) + 1
      /\ answered'[Len(answered) + 1] = x
      /\ \A q \in 1 .. Len(answered) : answered'[q] = answered[q]
  BY <1>1, <1>4
<1>6. Len(answered) \in Nat /\ Len(answered') \in Nat /\ Len(answered') <= Len(Replies(asked'))
  BY <1>1, <1>3, <1>5 DEF Owed
<1>7. \A q \in 1 .. Len(answered') : answered'[q] = Replies(asked')[q]
  <2> TAKE q \in 1 .. Len(answered')
  <2>1. CASE q = Len(answered) + 1
    BY <1>1, <1>5, <2>1 DEF x
  <2>2. CASE q # Len(answered) + 1
    <3>1. q \in 1 .. Len(answered)
      BY <1>5, <1>6, <2>2
    <3> QED
      BY <1>1, <1>5, <3>1 DEF Owed
  <2> QED
    BY <2>1, <2>2
<1> QED
  BY <1>1, <1>5, <1>6, <1>7 DEF OInv, Owed

\* In the abstract session every answer is one that a message calls for, at its
\* place: nothing is answered twice, out of order or without a request
\* (recyclr-net.cpp:59-139).
THEOREM AnsweredOwed == Spec => []Owed
<1>1. OInv /\ [Next]_vars => OInv'
  <2> SUFFICES ASSUME OInv, [Next]_vars
               PROVE  OInv'
    OBVIOUS
  <2>1. CASE \E h \in PeerMsgs : Ask(h)
    BY <2>1, AskOwed
  <2>2. CASE Answer
    BY <2>2, AnswerOwed
  <2>3. CASE Leave \/ End \/ UNCHANGED vars
    BY <2>3 DEF Leave, End, vars, OInv, Owed
  <2> QED
    BY <2>1, <2>2, <2>3 DEF Next
<1>2. OInv => Owed
  BY DEF OInv
<1> QED
  BY <1>1, <1>2, InitOInv, PTL DEF Spec

=============================================================================
