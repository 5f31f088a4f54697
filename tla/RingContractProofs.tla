------------------------- MODULE RingContractProofs -------------------------
(***************************************************************************)
(* The promises of RingContract, for every capacity and every number of    *)
(* operations.  Through KoruRing's refinement (module KoruRingProofs) they *)
(* hold of the ring.                                                       *)
(***************************************************************************)
EXTENDS RingContract, TLAPS

\* The numbers of accepted operations, one of them more.
LEMMA MoreNumbers ==
  ASSUME NEW n \in Nat
  PROVE  /\ 1..n \subseteq 1..(n + 1)
         /\ Seq(1..n) \subseteq Seq(1..(n + 1))
         /\ n + 1 \in 1..(n + 1)
  <1>1. 1..n \subseteq 1..(n + 1)
    OBVIOUS
  <1>2. ASSUME NEW s \in Seq(1..n)
        PROVE  s \in Seq(1..(n + 1))
    BY <1>1, SMT
  <1> QED
    BY <1>1, <1>2

\* Type correctness: only accepted operations are owed, queued or taken.
THEOREM RingTypeCorrect == RingSpec => []RingTypeOK
  <1>1. RingInit => RingTypeOK
    BY MaxOpsAssumption DEF RingInit, RingTypeOK
  <1>2. RingTypeOK /\ [RingNext]_ringVars => RingTypeOK'
    <2> SUFFICES ASSUME RingTypeOK, [RingNext]_ringVars
                 PROVE  RingTypeOK'
      OBVIOUS
    <2> USE MaxOpsAssumption DEF RingTypeOK
    <2>1. CASE Accept
      <3>1. accepted \in Nat /\ accepted' = accepted + 1 /\ accepted' \in 0..MaxOps
        BY <2>1 DEF Accept
      <3>2. owed' \subseteq 1..accepted'
        BY <2>1, <3>1, MoreNumbers DEF Accept
      <3>3. queue' \in Seq(1..accepted') /\ taken' \in Seq(1..accepted')
        BY <2>1, <3>1, MoreNumbers DEF Accept
      <3> QED
        BY <3>1, <3>2, <3>3
    <2>2. ASSUME NEW q \in 1..MaxOps, Answer(q)
          PROVE  RingTypeOK'
      BY <2>2 DEF Answer
    <2>3. CASE Take
      BY <2>3 DEF Take
    <2>4. CASE UNCHANGED ringVars
      BY <2>4 DEF ringVars
    <2> QED
      BY <2>1, <2>2, <2>3, <2>4 DEF RingNext
  <1> QED
    BY <1>1, <1>2, PTL DEF RingSpec

\* The length of the answers, and each of them.
LEMMA AnswersAre ==
  ASSUME NEW S, NEW a \in Seq(S), NEW b \in Seq(S)
  PROVE  /\ Len(a \o b) = Len(a) + Len(b)
         /\ \A i \in 1..Len(a \o b) :
              (a \o b)[i] = IF i <= Len(a) THEN a[i] ELSE b[i - Len(a)]
  OBVIOUS

\* Answering adds one answer at the end.
LEMMA AnswerAppends ==
  ASSUME RingTypeOK, NEW q \in 1..MaxOps, Answer(q)
  PROVE  /\ Len(Answers) \in Nat
         /\ Len(Answers') = Len(Answers) + 1
         /\ \A i \in 1..Len(Answers) : Answers'[i] = Answers[i]
         /\ Answers'[Len(Answers) + 1] = q
  <1> DEFINE S == 1..accepted
  <1>1. /\ q \in S
        /\ queue \in Seq(S) /\ taken \in Seq(S) /\ queue' \in Seq(S) /\ taken' = taken
        /\ queue' = Append(queue, q)
    BY DEF RingTypeOK, Answer
  <1>2. /\ Len(queue') = Len(queue) + 1
        /\ \A i \in 1..Len(queue) : queue'[i] = queue[i]
        /\ queue'[Len(queue) + 1] = q
    BY <1>1
  <1> HIDE DEF S
  <1> QED
    BY <1>1, <1>2, AnswersAre DEF Answers

\* Taking hands the oldest one over and changes none of them.
LEMMA TakeMoves ==
  ASSUME RingTypeOK, Take
  PROVE  /\ Len(Answers') = Len(Answers)
         /\ \A i \in 1..Len(Answers) : Answers'[i] = Answers[i]
  <1> DEFINE S == 1..accepted
  <1>1. /\ queue \in Seq(S) /\ taken \in Seq(S)
        /\ queue # <<>> /\ queue' = Tail(queue) /\ taken' = Append(taken, Head(queue))
    BY DEF RingTypeOK, Take
  <1> HIDE DEF S
  <1>2. /\ Len(queue) \in Nat \ {0} /\ Len(taken) \in Nat
        /\ queue' \in Seq(S) /\ taken' \in Seq(S)
        /\ Len(queue') = Len(queue) - 1
        /\ \A i \in 1..(Len(queue) - 1) : queue'[i] = queue[i + 1]
    BY <1>1
  <1>3. /\ Len(taken') = Len(taken) + 1
        /\ \A i \in 1..Len(taken) : taken'[i] = taken[i]
        /\ taken'[Len(taken) + 1] = queue[1]
    BY <1>1, <1>2
  <1>4. Len(Answers') = Len(Answers)
    BY <1>1, <1>2, <1>3, AnswersAre DEF Answers
  <1>5. ASSUME NEW i \in 1..Len(Answers)
        PROVE  Answers'[i] = Answers[i]
    <2>1. Answers[i] = IF i <= Len(taken) THEN taken[i] ELSE queue[i - Len(taken)]
      BY <1>1, AnswersAre DEF Answers
    <2>2. Answers'[i] = IF i <= Len(taken') THEN taken'[i] ELSE queue'[i - Len(taken')]
      BY <1>2, <1>4, AnswersAre DEF Answers
    <2>3. Len(Answers) = Len(taken) + Len(queue)
      BY <1>1, AnswersAre DEF Answers
    <2> QED
      BY <1>2, <1>3, <2>1, <2>2, <2>3
  <1> QED
    BY <1>4, <1>5

\* C1 of doc/Notes.md: an operation the ring consumed is owed a completion until
\* it has been handed one, and is never handed two.
THEOREM OneAnswerEachHolds == RingSpec => []OneAnswerEach
  <1>1. RingInit => OneAnswerEach
    BY DEF RingInit, OneAnswerEach, Answers
  <1>2. RingTypeOK /\ OneAnswerEach /\ [RingNext]_ringVars => OneAnswerEach'
    <2> SUFFICES ASSUME RingTypeOK, OneAnswerEach, [RingNext]_ringVars
                 PROVE  OneAnswerEach'
      OBVIOUS
    <2>1. CASE Accept
      <3>1. /\ accepted \in Nat /\ accepted' = accepted + 1
            /\ owed' = owed \cup {accepted + 1} /\ Answers' = Answers
        BY <2>1 DEF Accept, RingTypeOK, Answers
      <3>2. \A i \in 1..Len(Answers) : Answers[i] \in 1..accepted
        BY AnswersAre DEF RingTypeOK, Answers
      <3> QED
        BY <3>1, <3>2 DEF OneAnswerEach
    <2>2. ASSUME NEW q \in 1..MaxOps, Answer(q)
          PROVE  OneAnswerEach'
      <3>1. q \in owed /\ q \in 1..accepted /\ owed' = owed \ {q} /\ accepted' = accepted
        BY <2>2 DEF Answer, RingTypeOK
      <3>2. \A i \in 1..Len(Answers) : Answers[i] # q
        BY <3>1 DEF OneAnswerEach
      <3>3. /\ Len(Answers) \in Nat /\ Len(Answers') = Len(Answers) + 1
            /\ \A i \in 1..Len(Answers) : Answers'[i] = Answers[i]
            /\ Answers'[Len(Answers) + 1] = q
        BY <2>2, AnswerAppends
      <3>4. ASSUME NEW p \in 1..accepted'
            PROVE  p \in owed' <=> \A i \in 1..Len(Answers') : Answers'[i] # p
        <4>1. CASE p = q
          BY <3>1, <3>3, <4>1
        <4>2. CASE p # q
          <5>1. p \in owed <=> \A i \in 1..Len(Answers) : Answers[i] # p
            BY <3>1 DEF OneAnswerEach
          <5> QED
            BY <3>1, <3>3, <4>2, <5>1
        <4> QED
          BY <4>1, <4>2
      <3>5. ASSUME NEW i \in 1..Len(Answers'), NEW j \in 1..Len(Answers'),
                   Answers'[i] = Answers'[j]
            PROVE  i = j
        BY <3>2, <3>3, <3>5 DEF OneAnswerEach
      <3> QED
        BY <3>4, <3>5 DEF OneAnswerEach
    <2>3. CASE Take
      <3>1. accepted' = accepted /\ owed' = owed
        BY <2>3 DEF Take
      <3> QED
        BY <2>3, <3>1, TakeMoves DEF OneAnswerEach
    <2>4. CASE UNCHANGED ringVars
      BY <2>4 DEF ringVars, OneAnswerEach, Answers
    <2> QED
      BY <2>1, <2>2, <2>3, <2>4 DEF RingNext
  <1> QED
    BY <1>1, <1>2, RingTypeCorrect, PTL DEF RingSpec
=============================================================================
