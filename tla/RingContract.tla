---------------------------- MODULE RingContract ----------------------------
(***************************************************************************)
(* What the koru ring promises its users, and nothing about how.           *)
(*                                                                         *)
(* An operation the ring has consumed is owed exactly one completion       *)
(* (invariant C1 of doc/Notes.md); completions leave in the order they     *)
(* were queued; and an operation is only consumed when its completion      *)
(* already has a place in the completion queue (admission control), so the *)
(* queue can never overflow.                                               *)
(*                                                                         *)
(* Operations are numbered in the order the ring consumes them.            *)
(***************************************************************************)
EXTENDS Naturals, Sequences, FiniteSets

CONSTANTS Capacity,     \* completions the queue can hold (cq_entries)
          MaxOps        \* bound: operations ever consumed

ASSUME CapacityAssumption == Capacity \in Nat \ {0}
ASSUME MaxOpsAssumption == MaxOps \in Nat

VARIABLES accepted,     \* how many operations were consumed
          owed,         \* those not answered yet
          queue,        \* answered, not yet handed to the user, oldest first
          taken         \* handed to the user, in that order

ringVars == <<accepted, owed, queue, taken>>

RingInit ==
  /\ accepted = 0
  /\ owed = {}
  /\ queue = <<>>
  /\ taken = <<>>

-----------------------------------------------------------------------------
\* The completion's place is found before the operation is consumed.
Accept ==
  /\ accepted < MaxOps
  /\ Cardinality(owed) + Len(queue) < Capacity
  /\ accepted' = accepted + 1
  /\ owed' = owed \cup {accepted + 1}
  /\ UNCHANGED <<queue, taken>>

\* Any owed operation may be the next to finish.
Answer(q) ==
  /\ q \in owed
  /\ owed' = owed \ {q}
  /\ queue' = Append(queue, q)
  /\ UNCHANGED <<accepted, taken>>

Take ==
  /\ queue # <<>>
  /\ taken' = Append(taken, Head(queue))
  /\ queue' = Tail(queue)
  /\ UNCHANGED <<accepted, owed>>

RingNext == Accept \/ (\E q \in 1..MaxOps : Answer(q)) \/ Take

RingSpec == RingInit /\ [][RingNext]_ringVars

\* Every owed completion eventually arrives.
FairRingSpec == RingSpec /\ \A q \in 1..MaxOps : WF_ringVars(Answer(q))

-----------------------------------------------------------------------------
RingTypeOK ==
  /\ accepted \in 0..MaxOps
  /\ owed \subseteq 1..accepted
  /\ queue \in Seq(1..accepted)
  /\ taken \in Seq(1..accepted)

\* Everything the user has been or will be handed, in order.
Answers == taken \o queue

\* C1: every consumed operation is owed a completion or has received one, and
\* none receives two.
OneAnswerEach ==
  /\ \A q \in 1..accepted : q \in owed <=> \A i \in 1..Len(Answers) : Answers[i] # q
  /\ \A i, j \in 1..Len(Answers) : Answers[i] = Answers[j] => i = j
=============================================================================
