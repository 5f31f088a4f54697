-------------------------- MODULE KernelOpsProofs --------------------------
(***************************************************************************)
(* Proofs about the kernel's operations: deferred ones and polls (KoruOp), *)
(* for any number of them, and those on paths (KoruPath), for any number   *)
(* of tasks, directories and mounts.                                       *)
(*                                                                         *)
(* KoruOp.  Counting the parties that hold an operation is not enough:     *)
(* that the one who drops a reference holds it follows from where the      *)
(* operation, the submitter and the ring's fd are.  An armed poll that is  *)
(* registered is nobody's but the token's; one whose token is taken and    *)
(* whose work has not begun is in the hand of whoever took it (Claimed).   *)
(*                                                                         *)
(* KoruPath.  A task's guards are a stack.  The section of an operation    *)
(* (creating, dirop, renaming) is opened by its last step but those that   *)
(* change something, so that it is on top of the stack and alone           *)
(* (Stacked): what a task has locked is what its section names, or what    *)
(* the renaming it is about to open has locked so far (Locks).  The rest   *)
(* is a count: every reference and every write count is that of one guard  *)
(* (CountInv), and each step adds or drops the guard on top.               *)
(***************************************************************************)
EXTENDS KoruOp, KoruPath, Integers, FiniteSetTheorems, SequenceTheorems, TLAPS

One(b) == IF b THEN 1 ELSE 0

\* The submitter's reference: alloc_op has returned it.
Held(q) == hand = q /\ at # "alloc"

\* The parties of Holders, counted.
Count(q) ==
  One(Held(q)) + One(q \in registry) + One(CreditOut(q)) + One(work[q] \in Running)
    + One(q \in drained)

Counted(q) == refs[q] = Count(q) /\ (refs[q] > 0 <=> life[q] = "live")

Unborn(q) ==
  life[q] = "unborn" =>
    /\ work[q] = "idle" /\ token[q] = "armed" /\ q \notin waitq
    /\ (hand = q => at = "alloc")

\* What the submitter has done by each of its places.
InHand(q) ==
  hand = q =>
    /\ at # "idle"
    /\ at = "alloc" => life[q] = "unborn" /\ answers[q] = 0
    /\ at = "complete" => work[q] = "over" /\ answers[q] = 0
    /\ at = "register" => token[q] = "armed" /\ q \notin waitq /\ q \notin registry
    /\ at \in {"register", "enqueue", "refuse", "credit", "arm", "disarm", "reclaim", "unregister"}
         => work[q] = "idle" /\ q \notin waking
    /\ at = "refuse" => q \notin registry /\ (q \in Polls => token[q] = "taken" \/ q \notin waitq)
    /\ at = "enqueue" => q \notin Polls /\ q \in registry
    /\ at \in {"credit", "arm"} =>
         q \in Polls /\ q \in registry /\ token[q] = "armed" /\ q \notin waitq
    /\ at = "claim" => q \in Polls /\ (token[q] = "armed" => q \in registry)
    /\ at \in {"disarm", "reclaim", "unregister"} =>
         q \in Polls /\ q \in registry /\ token[q] = "taken"
    /\ at = "armed" /\ q \notin Polls => work[q] = "over"

\* Whose turn it is to finish an operation.
Claimed(q) ==
  /\ q \in waking => q \in Polls /\ work[q] = "idle" /\ token[q] = "taken"
  /\ q \in Polls /\ work[q] # "idle" => token[q] = "taken"
  /\ q \in waitq /\ token[q] = "armed" =>
       life[q] = "live" /\ q \in Polls /\ (hand = q => at \in {"claim", "armed"})
  /\ life[q] = "live" /\ work[q] = "idle" /\ q \notin waking
     /\ (q \in Polls => token[q] = "taken") =>
       hand = q /\ at \in {"register", "enqueue", "refuse", "disarm", "reclaim", "unregister"}

\* An answer belongs to the step from "complete" on, or to the one that refuses.
Answered(q) ==
  /\ answers[q] <= 1
  /\ life[q] = "live" /\ work[q] \in {"idle", "queued", "disarm", "complete"} => answers[q] = 0
  /\ work[q] \in {"unregister", "drop"} => answers[q] = 1
  /\ work[q] = "over" /\ fd = "open" => answers[q] = 1 \/ (hand = q /\ at = "complete")
  /\ life[q] = "freed" /\ fd = "open" => answers[q] = 1

\* While the ring is open an entry on a waitqueue has somebody who will take it off.
Entered(q) ==
  fd = "open" /\ q \in waitq =>
    /\ q \in Polls /\ life[q] = "live"
    /\ \/ token[q] = "armed" \/ q \in waking \/ work[q] \in {"queued", "disarm"}
       \/ hand = q /\ at = "disarm"

\* No call is in progress once release begins, and cancel_all visits the registry.
Closing ==
  /\ at = "idle" <=> hand = NoOp
  /\ fd # "open" => at = "idle"
  /\ visit \subseteq registry /\ (visit # {} => fd = "cancel")
  /\ drained # {} => fd = "drain"
  /\ fd \in {"drain", "closed"} => registry = {}

Live == {q \in Ops : life[q] = "live"}

Pinned ==
  /\ ringRefs = Cardinality(Live) + One(fd # "closed")
  /\ modRefs = ringRefs + One(at = "alloc")

OpInv(q) == Counted(q) /\ Unborn(q) /\ InHand(q) /\ Claimed(q) /\ Answered(q) /\ Entered(q)

IInv == TypeOK /\ Closing /\ Pinned /\ \A q \in Ops : OpInv(q)

-----------------------------------------------------------------------------
(* Counting.                                                               *)

\* What a Drop of a live operation does, in the terms of the invariant.
Dropped(q) ==
  /\ refs' = [refs EXCEPT ![q] = @ - 1]
  /\ life' = [life EXCEPT ![q] = IF refs[q] = 1 THEN "freed" ELSE @]
  /\ refs' \in [Ops -> Nat] /\ life' \in [Ops -> {"unborn", "live", "freed"}]
  /\ ringRefs' = Cardinality(Live)' + One(fd # "closed")
  /\ modRefs' = ringRefs' + One(at = "alloc")
  /\ ringRefs' \in Nat /\ modRefs' \in Nat

LEMMA LiveFinite == IsFiniteSet(Live) /\ Cardinality(Live) \in Nat
  <1>1. Live \subseteq Ops
    BY DEF Live
  <1> QED BY <1>1, OpsAssumption, FS_Subset, FS_CardinalityType

LEMMA BornCount ==
  ASSUME TypeOK, NEW q \in Ops, life[q] # "live", life' = [life EXCEPT ![q] = "live"]
  PROVE  Cardinality(Live)' = Cardinality(Live) + 1
  <1>1. Live' = Live \cup {q} /\ q \notin Live
    BY DEF Live, TypeOK
  <1> QED BY <1>1, LiveFinite, FS_AddElement

LEMMA FreedCount ==
  ASSUME TypeOK, NEW q \in Ops, life[q] = "live", life' = [life EXCEPT ![q] = "freed"]
  PROVE  Cardinality(Live)' = Cardinality(Live) - 1 /\ Cardinality(Live)' \in Nat
  <1>1. Live' = Live \ {q} /\ q \in Live
    BY DEF Live, TypeOK
  <1>2. IsFiniteSet(Live') /\ Cardinality(Live') \in Nat
    BY <1>1, LiveFinite, FS_Subset, FS_CardinalityType
  <1> QED BY <1>1, <1>2, LiveFinite, FS_RemoveElement

LEMMA DropEffect ==
  ASSUME TypeOK, Pinned, NEW q \in Ops, Drop(q), life[q] = "live", refs[q] \in Nat \ {0}
  PROVE  Dropped(q)
  <1>1. /\ refs' = [refs EXCEPT ![q] = @ - 1] /\ refs' \in [Ops -> Nat]
        /\ life \in [Ops -> {"unborn", "live", "freed"}] /\ Cardinality(Live) \in Nat
    BY LiveFinite DEF TypeOK, Drop
  <1>2. CASE refs[q] = 1
    <2>1. life' = [life EXCEPT ![q] = "freed"] /\ modRefs' = modRefs - 1 /\ ringRefs' = ringRefs - 1
      BY <1>2 DEF Drop
    <2>2. Cardinality(Live)' = Cardinality(Live) - 1 /\ Cardinality(Live)' \in Nat
      BY <2>1, FreedCount
    <2> QED BY <1>1, <1>2, <2>1, <2>2 DEF Dropped, Pinned, One
  <1>3. CASE refs[q] # 1
    <2>1. life' = life /\ ringRefs' = ringRefs /\ modRefs' = modRefs /\ Live' = Live
      BY <1>3 DEF Drop, Live
    <2>2. ringRefs \in Nat /\ modRefs \in Nat
      BY DEF TypeOK
    <2> QED BY <1>1, <1>3, <2>1, <2>2 DEF Dropped, Pinned
  <1> QED BY <1>2, <1>3

LEMMA AddIf ==
  ASSUME NEW S, IsFiniteSet(S), NEW x, x \notin S, NEW T, NEW n,
         \/ T = S \cup {x} /\ n = 1
         \/ T = S /\ n = 0
  PROVE  IsFiniteSet(T) /\ Cardinality(T) = Cardinality(S) + n
  BY FS_AddElement, FS_CardinalityType

LEMMA HoldersCounted == ASSUME NEW q \in Ops PROVE Cardinality(Holders(q)) = Count(q)
  <1> DEFINE A == {h \in {"submitter"} : Held(q)}
             B == A \cup {h \in {"registry"} : q \in registry}
             C == B \cup {h \in {"credit"} : CreditOut(q)}
             D == C \cup {h \in {"worker"} : work[q] \in Running}
             E == D \cup {h \in {"release"} : q \in drained}
  <1>1. Holders(q) = E
    BY DEF Holders, Held
  <1>2. IsFiniteSet({}) /\ Cardinality({}) = 0
    BY FS_EmptySet
  <1>3. IsFiniteSet(A) /\ Cardinality(A) = Cardinality({}) + One(Held(q))
    <2>1. "submitter" \notin {}
      OBVIOUS
    <2>2. \/ A = {} \cup {"submitter"} /\ One(Held(q)) = 1
          \/ A = {} /\ One(Held(q)) = 0
      BY DEF One
    <2> HIDE DEF A, B, C, D, E
    <2> QED
      BY <1>2, <2>1, <2>2, AddIf
  <1>4. IsFiniteSet(B) /\ Cardinality(B) = Cardinality(A) + One(q \in registry)
    <2>1. "registry" \notin A
      OBVIOUS
    <2>2. \/ B = A \cup {"registry"} /\ One(q \in registry) = 1
          \/ B = A /\ One(q \in registry) = 0
      BY DEF One
    <2> HIDE DEF A, B, C, D, E
    <2> QED
      BY <1>3, <2>1, <2>2, AddIf
  <1>5. IsFiniteSet(C) /\ Cardinality(C) = Cardinality(B) + One(CreditOut(q))
    <2>1. "credit" \notin B
      OBVIOUS
    <2>2. \/ C = B \cup {"credit"} /\ One(CreditOut(q)) = 1
          \/ C = B /\ One(CreditOut(q)) = 0
      BY DEF One
    <2> HIDE DEF A, B, C, D, E
    <2> QED
      BY <1>4, <2>1, <2>2, AddIf
  <1>6. IsFiniteSet(D) /\ Cardinality(D) = Cardinality(C) + One(work[q] \in Running)
    <2>1. "worker" \notin C
      OBVIOUS
    <2>2. \/ D = C \cup {"worker"} /\ One(work[q] \in Running) = 1
          \/ D = C /\ One(work[q] \in Running) = 0
      BY DEF One
    <2> HIDE DEF A, B, C, D, E
    <2> QED
      BY <1>5, <2>1, <2>2, AddIf
  <1>7. IsFiniteSet(E) /\ Cardinality(E) = Cardinality(D) + One(q \in drained)
    <2>1. "release" \notin D
      OBVIOUS
    <2>2. \/ E = D \cup {"release"} /\ One(q \in drained) = 1
          \/ E = D /\ One(q \in drained) = 0
      BY DEF One
    <2> HIDE DEF A, B, C, D, E
    <2> QED
      BY <1>6, <2>1, <2>2, AddIf
  <1> HIDE DEF A, B, C, D, E
  <1> QED
    BY <1>1, <1>2, <1>3, <1>4, <1>5, <1>6, <1>7 DEF Count, One

-----------------------------------------------------------------------------
(* alloc_op and defer.                                                     *)

LEMMA BeginKeeps ==
  ASSUME IInv, NEW q \in Ops, Begin(q)
  PROVE  IInv'
  <1>1. TypeOK /\ Closing /\ Pinned /\ \A r \in Ops : OpInv(r)
    BY DEF IInv
  <1>2. TypeOK'
    BY <1>1, OpsAssumption, LiveFinite DEF TypeOK, WorkStates, Pinned, One, Begin, poll, close
  <1>3. Closing'
    BY <1>1, OpsAssumption DEF OpInv, TypeOK, Closing, InHand, Begin, poll, close
  <1>4. Pinned'
    BY <1>1, LiveFinite DEF TypeOK, Pinned, One, Live, Closing, Begin, poll, close
  <1>5. ASSUME NEW r \in Ops PROVE OpInv(r)'
    <2>1. Counted(r)'
      BY <1>5, <1>1, OpsAssumption
         DEF OpInv, Counted, Count, One, Held, CreditOut, Running, Unborn, InHand, Claimed,
             Answered, Closing, TypeOK, Begin, poll, close
    <2>2. Unborn(r)'
      BY <1>5, <1>1, OpsAssumption
         DEF OpInv, Unborn, InHand, Claimed, Answered, Closing, TypeOK, Begin, poll, close
    <2>3. InHand(r)'
      BY <1>5, <1>1, OpsAssumption
         DEF OpInv, Unborn, InHand, Claimed, Answered, Closing, TypeOK, Begin, poll, close
    <2>4. Claimed(r)'
      BY <1>5, <1>1, OpsAssumption
         DEF OpInv, Counted, Count, One, Held, CreditOut, Running, Unborn, InHand, Claimed,
             Answered, Closing, TypeOK, Begin, poll, close
    <2>5. Answered(r)'
      BY <1>5, <1>1, OpsAssumption
         DEF OpInv, Counted, Count, One, Held, CreditOut, Running, Unborn, InHand, Claimed,
             Answered, Closing, TypeOK, Begin, poll, close
    <2>6. Entered(r)'
      BY <1>5, <1>1, OpsAssumption
         DEF OpInv, Entered, Counted, Count, One, Held, CreditOut, Running, Unborn, InHand,
             Claimed, Answered, Closing, TypeOK, Begin, poll, close
    <2> QED BY <2>1, <2>2, <2>3, <2>4, <2>5, <2>6 DEF OpInv
  <1> QED BY <1>2, <1>3, <1>4, <1>5 DEF IInv

LEMMA AllocKeeps ==
  ASSUME IInv, Alloc
  PROVE  IInv'
  <1>1. TypeOK /\ Closing /\ Pinned /\ \A r \in Ops : OpInv(r)
    BY DEF IInv
  <1>2. hand \in Ops
    BY <1>1, OpsAssumption DEF TypeOK, Closing, Alloc
  <1>3. life[hand] = "unborn"
    BY <1>1, <1>2 DEF OpInv, InHand, Alloc
  <1>4. Cardinality(Live)' = Cardinality(Live) + 1
    BY <1>1, <1>2, <1>3, BornCount DEF Alloc, TypeOK
  <1>5. TypeOK'
    BY <1>1, <1>2, <1>3, <1>4, OpsAssumption, LiveFinite
       DEF TypeOK, WorkStates, Pinned, One, Alloc, Goto, poll, close
  <1>6. Closing'
    BY <1>1, <1>2, <1>3, <1>4, OpsAssumption
       DEF OpInv, TypeOK, Closing, InHand, Alloc, Goto, poll, close
  <1>7. Pinned'
    BY <1>1, <1>2, <1>3, <1>4, LiveFinite
       DEF TypeOK, Pinned, One, Live, Closing, Alloc, Goto, poll, close
  <1>8. ASSUME NEW r \in Ops PROVE OpInv(r)'
    <2>1. Counted(r)'
      BY <1>8, <1>1, <1>2, <1>3, <1>4, OpsAssumption
         DEF OpInv, Counted, Count, One, Held, CreditOut, Running, Unborn, InHand, Claimed,
             Answered, Closing, TypeOK, Alloc, Goto, poll, close
    <2>2. Unborn(r)'
      BY <1>8, <1>1, <1>2, <1>3, <1>4, OpsAssumption
         DEF OpInv, Unborn, InHand, Claimed, Answered, Closing, TypeOK, Alloc, Goto, poll, close
    <2>3. InHand(r)'
      BY <1>8, <1>1, <1>2, <1>3, <1>4, OpsAssumption
         DEF OpInv, Counted, Count, One, Held, Unborn, InHand, Claimed, Answered, Closing, TypeOK,
             Alloc, Goto, poll, close
    <2>4. Claimed(r)'
      BY <1>8, <1>1, <1>2, <1>3, <1>4, OpsAssumption
         DEF OpInv, Counted, Count, One, Held, CreditOut, Running, Unborn, InHand, Claimed,
             Answered, Closing, TypeOK, Alloc, Goto, poll, close
    <2>5. Answered(r)'
      BY <1>8, <1>1, <1>2, <1>3, <1>4, OpsAssumption
         DEF OpInv, Counted, Count, One, Held, CreditOut, Running, Unborn, InHand, Claimed,
             Answered, Closing, TypeOK, Alloc, Goto, poll, close
    <2>6. Entered(r)'
      BY <1>8, <1>1, <1>2, <1>3, <1>4, OpsAssumption
         DEF OpInv, Entered, Counted, Count, One, Held, CreditOut, Running, Unborn, InHand,
             Claimed, Answered, Closing, TypeOK, Alloc, Goto, poll, close
    <2> QED BY <2>1, <2>2, <2>3, <2>4, <2>5, <2>6 DEF OpInv
  <1> QED BY <1>5, <1>6, <1>7, <1>8 DEF IInv

LEMMA AllocFailsKeeps ==
  ASSUME IInv, AllocFails
  PROVE  IInv'
  <1>1. TypeOK /\ Closing /\ Pinned /\ \A r \in Ops : OpInv(r)
    BY DEF IInv
  <1>2. hand \in Ops
    BY <1>1, OpsAssumption DEF TypeOK, Closing, AllocFails
  <1>3. TypeOK'
    BY <1>1, <1>2, OpsAssumption, LiveFinite
       DEF TypeOK, WorkStates, Pinned, One, AllocFails, Answer, poll, close
  <1>4. Closing'
    BY <1>1, <1>2, OpsAssumption DEF OpInv, TypeOK, Closing, InHand, AllocFails, Answer, poll, close
  <1>5. Pinned'
    BY <1>1, <1>2, LiveFinite
       DEF TypeOK, Pinned, One, Live, Closing, AllocFails, Answer, poll, close
  <1>6. ASSUME NEW r \in Ops PROVE OpInv(r)'
    <2>1. Counted(r)'
      BY <1>6, <1>1, <1>2, OpsAssumption
         DEF OpInv, Counted, Count, One, Held, CreditOut, Running, Unborn, InHand, Claimed,
             Answered, Closing, TypeOK, AllocFails, Answer, poll, close
    <2>2. Unborn(r)'
      BY <1>6, <1>1, <1>2, OpsAssumption
         DEF OpInv, Unborn, InHand, Claimed, Answered, Closing, TypeOK, AllocFails, Answer, poll,
             close
    <2>3. InHand(r)'
      BY <1>6, <1>1, <1>2, OpsAssumption
         DEF OpInv, Unborn, InHand, Claimed, Answered, Closing, TypeOK, AllocFails, Answer, poll,
             close
    <2>4. Claimed(r)'
      BY <1>6, <1>1, <1>2, OpsAssumption
         DEF OpInv, Counted, Count, One, Held, CreditOut, Running, Unborn, InHand, Claimed,
             Answered, Closing, TypeOK, AllocFails, Answer, poll, close
    <2>5. Answered(r)'
      BY <1>6, <1>1, <1>2, OpsAssumption
         DEF OpInv, Counted, Count, One, Held, CreditOut, Running, Unborn, InHand, Claimed,
             Answered, Closing, TypeOK, AllocFails, Answer, poll, close
    <2>6. Entered(r)'
      BY <1>6, <1>1, <1>2, OpsAssumption
         DEF OpInv, Entered, Counted, Count, One, Held, CreditOut, Running, Unborn, InHand,
             Claimed, Answered, Closing, TypeOK, AllocFails, Answer, poll, close
    <2> QED BY <2>1, <2>2, <2>3, <2>4, <2>5, <2>6 DEF OpInv
  <1> QED BY <1>3, <1>4, <1>5, <1>6 DEF IInv

LEMMA RegisterKeeps ==
  ASSUME IInv, Register
  PROVE  IInv'
  <1>1. TypeOK /\ Closing /\ Pinned /\ \A r \in Ops : OpInv(r)
    BY DEF IInv
  <1>2. hand \in Ops
    BY <1>1, OpsAssumption DEF TypeOK, Closing, Register
  <1>3. TypeOK'
    BY <1>1, <1>2, OpsAssumption, LiveFinite
       DEF TypeOK, WorkStates, Pinned, One, Register, Goto, poll, close
  <1>4. Closing'
    BY <1>1, <1>2, OpsAssumption DEF OpInv, TypeOK, Closing, InHand, Register, Goto, poll, close
  <1>5. Pinned'
    BY <1>1, <1>2, LiveFinite DEF TypeOK, Pinned, One, Live, Closing, Register, Goto, poll, close
  <1>6. ASSUME NEW r \in Ops PROVE OpInv(r)'
    <2>1. Counted(r)'
      BY <1>6, <1>1, <1>2, OpsAssumption
         DEF OpInv, Counted, Count, One, Held, CreditOut, Running, Unborn, InHand, Claimed,
             Answered, Closing, TypeOK, Register, Goto, poll, close
    <2>2. Unborn(r)'
      BY <1>6, <1>1, <1>2, OpsAssumption
         DEF OpInv, Unborn, InHand, Claimed, Answered, Closing, TypeOK, Register, Goto, poll,
             close
    <2>3. InHand(r)'
      BY <1>6, <1>1, <1>2, OpsAssumption
         DEF OpInv, Unborn, InHand, Claimed, Answered, Closing, TypeOK, Register, Goto, poll,
             close
    <2>4. Claimed(r)'
      BY <1>6, <1>1, <1>2, OpsAssumption
         DEF OpInv, Counted, Count, One, Held, CreditOut, Running, Unborn, InHand, Claimed,
             Answered, Closing, TypeOK, Register, Goto, poll, close
    <2>5. Answered(r)'
      BY <1>6, <1>1, <1>2, OpsAssumption
         DEF OpInv, Counted, Count, One, Held, CreditOut, Running, Unborn, InHand, Claimed,
             Answered, Closing, TypeOK, Register, Goto, poll, close
    <2>6. Entered(r)'
      BY <1>6, <1>1, <1>2, OpsAssumption
         DEF OpInv, Entered, Counted, Count, One, Held, CreditOut, Running, Unborn, InHand,
             Claimed, Answered, Closing, TypeOK, Register, Goto, poll, close
    <2> QED BY <2>1, <2>2, <2>3, <2>4, <2>5, <2>6 DEF OpInv
  <1> QED BY <1>3, <1>4, <1>5, <1>6 DEF IInv

LEMMA RegisterFailsKeeps ==
  ASSUME IInv, RegisterFails
  PROVE  IInv'
  <1>1. TypeOK /\ Closing /\ Pinned /\ \A r \in Ops : OpInv(r)
    BY DEF IInv
  <1>2. hand \in Ops
    BY <1>1, OpsAssumption DEF TypeOK, Closing, RegisterFails
  <1>3. TypeOK'
    BY <1>1, <1>2, OpsAssumption, LiveFinite
       DEF TypeOK, WorkStates, Pinned, One, RegisterFails, Goto, memory, poll, close
  <1>4. Closing'
    BY <1>1, <1>2, OpsAssumption
       DEF OpInv, TypeOK, Closing, InHand, RegisterFails, Goto, memory, poll, close
  <1>5. Pinned'
    BY <1>1, <1>2, LiveFinite
       DEF TypeOK, Pinned, One, Live, Closing, RegisterFails, Goto, memory, poll, close
  <1>6. ASSUME NEW r \in Ops PROVE OpInv(r)'
    <2>1. Counted(r)'
      BY <1>6, <1>1, <1>2, OpsAssumption
         DEF OpInv, Counted, Count, One, Held, CreditOut, Running, Unborn, InHand, Claimed,
             Answered, Closing, TypeOK, RegisterFails, Goto, memory, poll, close
    <2>2. Unborn(r)'
      BY <1>6, <1>1, <1>2, OpsAssumption
         DEF OpInv, Unborn, InHand, Claimed, Answered, Closing, TypeOK, RegisterFails, Goto,
             memory, poll, close
    <2>3. InHand(r)'
      BY <1>6, <1>1, <1>2, OpsAssumption
         DEF OpInv, Unborn, InHand, Claimed, Answered, Closing, TypeOK, RegisterFails, Goto,
             memory, poll, close
    <2>4. Claimed(r)'
      BY <1>6, <1>1, <1>2, OpsAssumption
         DEF OpInv, Counted, Count, One, Held, CreditOut, Running, Unborn, InHand, Claimed,
             Answered, Closing, TypeOK, RegisterFails, Goto, memory, poll, close
    <2>5. Answered(r)'
      BY <1>6, <1>1, <1>2, OpsAssumption
         DEF OpInv, Counted, Count, One, Held, CreditOut, Running, Unborn, InHand, Claimed,
             Answered, Closing, TypeOK, RegisterFails, Goto, memory, poll, close
    <2>6. Entered(r)'
      BY <1>6, <1>1, <1>2, OpsAssumption
         DEF OpInv, Entered, Counted, Count, One, Held, CreditOut, Running, Unborn, InHand,
             Claimed, Answered, Closing, TypeOK, RegisterFails, Goto, memory, poll, close
    <2> QED BY <2>1, <2>2, <2>3, <2>4, <2>5, <2>6 DEF OpInv
  <1> QED BY <1>3, <1>4, <1>5, <1>6 DEF IInv

LEMMA EnqueueKeeps ==
  ASSUME IInv, Enqueue
  PROVE  IInv'
  <1>1. TypeOK /\ Closing /\ Pinned /\ \A r \in Ops : OpInv(r)
    BY DEF IInv
  <1>2. hand \in Ops
    BY <1>1, OpsAssumption DEF TypeOK, Closing, Enqueue
  <1>3. TypeOK'
    BY <1>1, <1>2, OpsAssumption, LiveFinite
       DEF TypeOK, WorkStates, Pinned, One, Enqueue, memory, poll, close
  <1>4. Closing'
    BY <1>1, <1>2, OpsAssumption DEF OpInv, TypeOK, Closing, InHand, Enqueue, memory, poll, close
  <1>5. Pinned'
    BY <1>1, <1>2, LiveFinite DEF TypeOK, Pinned, One, Live, Closing, Enqueue, memory, poll, close
  <1>6. ASSUME NEW r \in Ops PROVE OpInv(r)'
    <2>1. Counted(r)'
      BY <1>6, <1>1, <1>2, OpsAssumption
         DEF OpInv, Counted, Count, One, Held, CreditOut, Running, Unborn, InHand, Claimed,
             Answered, Closing, TypeOK, Enqueue, memory, poll, close
    <2>2. Unborn(r)'
      BY <1>6, <1>1, <1>2, OpsAssumption
         DEF OpInv, Unborn, InHand, Claimed, Answered, Closing, TypeOK, Enqueue, memory, poll,
             close
    <2>3. InHand(r)'
      BY <1>6, <1>1, <1>2, OpsAssumption
         DEF OpInv, Unborn, InHand, Claimed, Answered, Closing, TypeOK, Enqueue, memory, poll,
             close
    <2>4. Claimed(r)'
      BY <1>6, <1>1, <1>2, OpsAssumption
         DEF OpInv, Counted, Count, One, Held, CreditOut, Running, Unborn, InHand, Claimed,
             Answered, Closing, TypeOK, Enqueue, memory, poll, close
    <2>5. Answered(r)'
      BY <1>6, <1>1, <1>2, OpsAssumption
         DEF OpInv, Counted, Count, One, Held, CreditOut, Running, Unborn, InHand, Claimed,
             Answered, Closing, TypeOK, Enqueue, memory, poll, close
    <2>6. Entered(r)'
      BY <1>6, <1>1, <1>2, OpsAssumption
         DEF OpInv, Entered, Counted, Count, One, Held, CreditOut, Running, Unborn, InHand,
             Claimed, Answered, Closing, TypeOK, Enqueue, memory, poll, close
    <2> QED BY <2>1, <2>2, <2>3, <2>4, <2>5, <2>6 DEF OpInv
  <1> QED BY <1>3, <1>4, <1>5, <1>6 DEF IInv

LEMMA EnqueueFailsKeeps ==
  ASSUME IInv, EnqueueFails
  PROVE  IInv'
  <1>1. TypeOK /\ Closing /\ Pinned /\ \A r \in Ops : OpInv(r)
    BY DEF IInv
  <1>2. hand \in Ops
    BY <1>1, OpsAssumption DEF TypeOK, Closing, EnqueueFails
  <1>3. (hand \in registry) => life[hand] = "live" /\ refs[hand] \in Nat \ {0}
    BY <1>1, <1>2
       DEF OpInv, TypeOK, Counted, Count, One, Held, CreditOut, Running, InHand, Closing,
           EnqueueFails
  <1>4. IF hand \in registry THEN Dropped(hand) ELSE UNCHANGED memory
    BY <1>1, <1>2, <1>3, DropEffect DEF EnqueueFails, Goto, Unregister, poll, close, Drop, memory
  <1>5. TypeOK'
    BY <1>1, <1>2, <1>3, <1>4, OpsAssumption, LiveFinite
       DEF TypeOK, WorkStates, Pinned, One, EnqueueFails, Goto, Unregister, poll, close, memory,
           Dropped
  <1>6. Closing'
    BY <1>1, <1>2, <1>3, <1>4, OpsAssumption
       DEF OpInv, TypeOK, Closing, InHand, EnqueueFails, Goto, Unregister, poll, close, memory,
           Dropped
  <1>7. Pinned'
    BY <1>1, <1>2, <1>3, <1>4, LiveFinite
       DEF TypeOK, Pinned, One, Live, Closing, EnqueueFails, Goto, Unregister, poll, close,
           memory, Dropped
  <1>8. ASSUME NEW r \in Ops PROVE OpInv(r)'
    <2>1. Counted(r)'
      BY <1>8, <1>1, <1>2, <1>3, <1>4, OpsAssumption
         DEF OpInv, Counted, Count, One, Held, CreditOut, Running, Unborn, InHand, Claimed,
             Answered, Closing, TypeOK, EnqueueFails, Goto, Unregister, poll, close, memory,
             Dropped
    <2>2. Unborn(r)'
      BY <1>8, <1>1, <1>2, <1>3, <1>4, OpsAssumption
         DEF OpInv, Unborn, InHand, Claimed, Answered, Closing, TypeOK, EnqueueFails, Goto,
             Unregister, poll, close, memory, Dropped
    <2>3. InHand(r)'
      BY <1>8, <1>1, <1>2, <1>3, <1>4, OpsAssumption
         DEF OpInv, Unborn, InHand, Claimed, Answered, Closing, TypeOK, EnqueueFails, Goto,
             Unregister, poll, close, memory, Dropped
    <2>4. Claimed(r)'
      BY <1>8, <1>1, <1>2, <1>3, <1>4, OpsAssumption
         DEF OpInv, Counted, Count, One, Held, CreditOut, Running, Unborn, InHand, Claimed,
             Answered, Closing, TypeOK, EnqueueFails, Goto, Unregister, poll, close, memory,
             Dropped
    <2>5. Answered(r)'
      BY <1>8, <1>1, <1>2, <1>3, <1>4, OpsAssumption
         DEF OpInv, Counted, Count, One, Held, CreditOut, Running, Unborn, InHand, Claimed,
             Answered, Closing, TypeOK, EnqueueFails, Goto, Unregister, poll, close, memory,
             Dropped
    <2>6. Entered(r)'
      BY <1>8, <1>1, <1>2, <1>3, <1>4, OpsAssumption
         DEF OpInv, Entered, Counted, Count, One, Held, CreditOut, Running, Unborn, InHand,
             Claimed, Answered, Closing, TypeOK, EnqueueFails, Goto, Unregister, poll, close,
             memory, Dropped
    <2> QED BY <2>1, <2>2, <2>3, <2>4, <2>5, <2>6 DEF OpInv
  <1> QED BY <1>5, <1>6, <1>7, <1>8 DEF IInv

LEMMA RefuseKeeps ==
  ASSUME IInv, Refuse
  PROVE  IInv'
  <1>1. TypeOK /\ Closing /\ Pinned /\ \A r \in Ops : OpInv(r)
    BY DEF IInv
  <1>2. hand \in Ops
    BY <1>1, OpsAssumption DEF TypeOK, Closing, Refuse
  <1>3. life[hand] = "live" /\ refs[hand] \in Nat \ {0}
    BY <1>1, <1>2
       DEF OpInv, TypeOK, Counted, Count, One, Held, CreditOut, Running, InHand, Closing, Refuse
  <1>4. Dropped(hand)
    BY <1>1, <1>2, <1>3, DropEffect DEF Refuse, Answer, Drop, poll, close
  <1>5. /\ refs[hand] = 1 /\ hand \notin registry /\ drained = {} /\ work[hand] = "idle"
        /\ hand \notin waking /\ answers[hand] = 0 /\ fd = "open" /\ at = "refuse"
    BY <1>1, <1>2, <1>3
       DEF OpInv, TypeOK, Counted, Count, One, Held, CreditOut, Running, InHand, Answered,
           Closing, Refuse
  <1>6. TypeOK'
    BY <1>1, <1>2, <1>3, <1>4, <1>5, OpsAssumption, LiveFinite
       DEF TypeOK, WorkStates, Pinned, One, Refuse, Answer, poll, close, Dropped
  <1>7. Closing'
    BY <1>1, <1>2, <1>3, <1>4, <1>5, OpsAssumption
       DEF OpInv, TypeOK, Closing, InHand, Refuse, Answer, poll, close, Dropped
  <1>8. Pinned'
    BY <1>1, <1>2, <1>3, <1>4, <1>5, LiveFinite
       DEF TypeOK, Pinned, One, Live, Closing, Refuse, Answer, poll, close, Dropped
  <1>9. ASSUME NEW r \in Ops PROVE OpInv(r)'
    <2>1. Counted(r)'
      BY <1>9, <1>1, <1>2, <1>3, <1>4, <1>5, OpsAssumption
         DEF OpInv, Counted, Count, One, Held, CreditOut, Running, Unborn, InHand, Claimed,
             Answered, Closing, TypeOK, Refuse, Answer, poll, close, Dropped
    <2>2. Unborn(r)'
      BY <1>9, <1>1, <1>2, <1>3, <1>4, <1>5, OpsAssumption
         DEF OpInv, Unborn, InHand, Claimed, Answered, Closing, TypeOK, Refuse, Answer, poll,
             close, Dropped
    <2>3. InHand(r)'
      BY <1>9, <1>1, <1>2, <1>3, <1>4, <1>5, OpsAssumption
         DEF OpInv, Unborn, InHand, Claimed, Answered, Closing, TypeOK, Refuse, Answer, poll,
             close, Dropped
    <2>4. Claimed(r)'
      BY <1>9, <1>1, <1>2, <1>3, <1>4, <1>5, OpsAssumption
         DEF OpInv, Counted, Count, One, Held, CreditOut, Running, Unborn, InHand, Claimed,
             Answered, Closing, TypeOK, Refuse, Answer, poll, close, Dropped
    <2>5. Answered(r)'
      BY <1>9, <1>1, <1>2, <1>3, <1>4, <1>5, OpsAssumption
         DEF OpInv, Counted, Count, One, Held, CreditOut, Running, Unborn, InHand, Claimed,
             Answered, Closing, TypeOK, Refuse, Answer, poll, close, Dropped
    <2>6. Entered(r)'
      BY <1>9, <1>1, <1>2, <1>3, <1>4, <1>5, OpsAssumption
         DEF OpInv, Entered, Counted, Count, One, Held, CreditOut, Running, Unborn, InHand,
             Claimed, Answered, Closing, TypeOK, Refuse, Answer, poll, close, Dropped
    <2> QED BY <2>1, <2>2, <2>3, <2>4, <2>5, <2>6 DEF OpInv
  <1> QED BY <1>6, <1>7, <1>8, <1>9 DEF IInv

-----------------------------------------------------------------------------
(* poll_op.                                                                *)

LEMMA CreditKeeps ==
  ASSUME IInv, Credit
  PROVE  IInv'
  <1>1. TypeOK /\ Closing /\ Pinned /\ \A r \in Ops : OpInv(r)
    BY DEF IInv
  <1>2. hand \in Ops
    BY <1>1, OpsAssumption DEF TypeOK, Closing, Credit
  <1>3. TypeOK'
    BY <1>1, <1>2, OpsAssumption, LiveFinite
       DEF TypeOK, WorkStates, Pinned, One, Credit, Goto, poll, close
  <1>4. Closing'
    BY <1>1, <1>2, OpsAssumption DEF OpInv, TypeOK, Closing, InHand, Credit, Goto, poll, close
  <1>5. Pinned'
    BY <1>1, <1>2, LiveFinite DEF TypeOK, Pinned, One, Live, Closing, Credit, Goto, poll, close
  <1>6. ASSUME NEW r \in Ops PROVE OpInv(r)'
    <2>1. Counted(r)'
      BY <1>6, <1>1, <1>2, OpsAssumption
         DEF OpInv, Counted, Count, One, Held, CreditOut, Running, Unborn, InHand, Claimed,
             Answered, Closing, TypeOK, Credit, Goto, poll, close
    <2>2. Unborn(r)'
      BY <1>6, <1>1, <1>2, OpsAssumption
         DEF OpInv, Unborn, InHand, Claimed, Answered, Closing, TypeOK, Credit, Goto, poll, close
    <2>3. InHand(r)'
      BY <1>6, <1>1, <1>2, OpsAssumption
         DEF OpInv, Unborn, InHand, Claimed, Answered, Closing, TypeOK, Credit, Goto, poll, close
    <2>4. Claimed(r)'
      BY <1>6, <1>1, <1>2, OpsAssumption
         DEF OpInv, Counted, Count, One, Held, CreditOut, Running, Unborn, InHand, Claimed,
             Answered, Closing, TypeOK, Credit, Goto, poll, close
    <2>5. Answered(r)'
      BY <1>6, <1>1, <1>2, OpsAssumption
         DEF OpInv, Counted, Count, One, Held, CreditOut, Running, Unborn, InHand, Claimed,
             Answered, Closing, TypeOK, Credit, Goto, poll, close
    <2>6. Entered(r)'
      BY <1>6, <1>1, <1>2, OpsAssumption
         DEF OpInv, Entered, Counted, Count, One, Held, CreditOut, Running, Unborn, InHand,
             Claimed, Answered, Closing, TypeOK, Credit, Goto, poll, close
    <2> QED BY <2>1, <2>2, <2>3, <2>4, <2>5, <2>6 DEF OpInv
  <1> QED BY <1>3, <1>4, <1>5, <1>6 DEF IInv

LEMMA ArmKeeps ==
  ASSUME IInv, Arm
  PROVE  IInv'
  <1>1. TypeOK /\ Closing /\ Pinned /\ \A r \in Ops : OpInv(r)
    BY DEF IInv
  <1>2. hand \in Ops
    BY <1>1, OpsAssumption DEF TypeOK, Closing, Arm
  <1>3. TypeOK'
    BY <1>1, <1>2, OpsAssumption, LiveFinite
       DEF TypeOK, WorkStates, Pinned, One, Arm, Goto, memory, close
  <1>4. Closing'
    BY <1>1, <1>2, OpsAssumption DEF OpInv, TypeOK, Closing, InHand, Arm, Goto, memory, close
  <1>5. Pinned'
    BY <1>1, <1>2, LiveFinite DEF TypeOK, Pinned, One, Live, Closing, Arm, Goto, memory, close
  <1>6. ASSUME NEW r \in Ops PROVE OpInv(r)'
    <2>1. Counted(r)'
      BY <1>6, <1>1, <1>2, OpsAssumption
         DEF OpInv, Counted, Count, One, Held, CreditOut, Running, Unborn, InHand, Claimed,
             Answered, Closing, TypeOK, Arm, Goto, memory, close
    <2>2. Unborn(r)'
      BY <1>6, <1>1, <1>2, OpsAssumption
         DEF OpInv, Unborn, InHand, Claimed, Answered, Closing, TypeOK, Arm, Goto, memory, close
    <2>3. InHand(r)'
      BY <1>6, <1>1, <1>2, OpsAssumption
         DEF OpInv, Unborn, InHand, Claimed, Answered, Closing, TypeOK, Arm, Goto, memory, close
    <2>4. Claimed(r)'
      BY <1>6, <1>1, <1>2, OpsAssumption
         DEF OpInv, Counted, Count, One, Held, CreditOut, Running, Unborn, InHand, Claimed,
             Answered, Closing, TypeOK, Arm, Goto, memory, close
    <2>5. Answered(r)'
      BY <1>6, <1>1, <1>2, OpsAssumption
         DEF OpInv, Counted, Count, One, Held, CreditOut, Running, Unborn, InHand, Claimed,
             Answered, Closing, TypeOK, Arm, Goto, memory, close
    <2>6. Entered(r)'
      BY <1>6, <1>1, <1>2, OpsAssumption
         DEF OpInv, Entered, Counted, Count, One, Held, CreditOut, Running, Unborn, InHand,
             Claimed, Answered, Closing, TypeOK, Arm, Goto, memory, close
    <2> QED BY <2>1, <2>2, <2>3, <2>4, <2>5, <2>6 DEF OpInv
  <1> QED BY <1>3, <1>4, <1>5, <1>6 DEF IInv

LEMMA ClaimWonKeeps ==
  ASSUME IInv, ClaimWon
  PROVE  IInv'
  <1>1. TypeOK /\ Closing /\ Pinned /\ \A r \in Ops : OpInv(r)
    BY DEF IInv
  <1>2. hand \in Ops
    BY <1>1, OpsAssumption DEF TypeOK, Closing, ClaimWon
  <1>3. TypeOK'
    BY <1>1, <1>2, OpsAssumption, LiveFinite
       DEF TypeOK, WorkStates, Pinned, One, ClaimWon, Goto, memory, close
  <1>4. Closing'
    BY <1>1, <1>2, OpsAssumption DEF OpInv, TypeOK, Closing, InHand, ClaimWon, Goto, memory, close
  <1>5. Pinned'
    BY <1>1, <1>2, LiveFinite DEF TypeOK, Pinned, One, Live, Closing, ClaimWon, Goto, memory, close
  <1>6. ASSUME NEW r \in Ops PROVE OpInv(r)'
    <2>1. Counted(r)'
      BY <1>6, <1>1, <1>2, OpsAssumption
         DEF OpInv, Counted, Count, One, Held, CreditOut, Running, Unborn, InHand, Claimed,
             Answered, Closing, TypeOK, ClaimWon, Goto, memory, close
    <2>2. Unborn(r)'
      BY <1>6, <1>1, <1>2, OpsAssumption
         DEF OpInv, Unborn, InHand, Claimed, Answered, Closing, TypeOK, ClaimWon, Goto, memory,
             close
    <2>3. InHand(r)'
      BY <1>6, <1>1, <1>2, OpsAssumption
         DEF OpInv, Unborn, InHand, Claimed, Answered, Closing, TypeOK, ClaimWon, Goto, memory,
             close
    <2>4. Claimed(r)'
      BY <1>6, <1>1, <1>2, OpsAssumption
         DEF OpInv, Counted, Count, One, Held, CreditOut, Running, Unborn, InHand, Claimed,
             Answered, Closing, TypeOK, ClaimWon, Goto, memory, close
    <2>5. Answered(r)'
      BY <1>6, <1>1, <1>2, OpsAssumption
         DEF OpInv, Counted, Count, One, Held, CreditOut, Running, Unborn, InHand, Claimed,
             Answered, Closing, TypeOK, ClaimWon, Goto, memory, close
    <2>6. Entered(r)'
      BY <1>6, <1>1, <1>2, OpsAssumption
         DEF OpInv, Entered, Counted, Count, One, Held, CreditOut, Running, Unborn, InHand,
             Claimed, Answered, Closing, TypeOK, ClaimWon, Goto, memory, close
    <2> QED BY <2>1, <2>2, <2>3, <2>4, <2>5, <2>6 DEF OpInv
  <1> QED BY <1>3, <1>4, <1>5, <1>6 DEF IInv

LEMMA ClaimLostKeeps ==
  ASSUME IInv, ClaimLost
  PROVE  IInv'
  <1>1. TypeOK /\ Closing /\ Pinned /\ \A r \in Ops : OpInv(r)
    BY DEF IInv
  <1>2. hand \in Ops
    BY <1>1, OpsAssumption DEF TypeOK, Closing, ClaimLost
  <1>3. TypeOK'
    BY <1>1, <1>2, OpsAssumption, LiveFinite
       DEF TypeOK, WorkStates, Pinned, One, ClaimLost, Goto, memory, poll, close
  <1>4. Closing'
    BY <1>1, <1>2, OpsAssumption
       DEF OpInv, TypeOK, Closing, InHand, ClaimLost, Goto, memory, poll, close
  <1>5. Pinned'
    BY <1>1, <1>2, LiveFinite
       DEF TypeOK, Pinned, One, Live, Closing, ClaimLost, Goto, memory, poll, close
  <1>6. ASSUME NEW r \in Ops PROVE OpInv(r)'
    <2>1. Counted(r)'
      BY <1>6, <1>1, <1>2, OpsAssumption
         DEF OpInv, Counted, Count, One, Held, CreditOut, Running, Unborn, InHand, Claimed,
             Answered, Closing, TypeOK, ClaimLost, Goto, memory, poll, close
    <2>2. Unborn(r)'
      BY <1>6, <1>1, <1>2, OpsAssumption
         DEF OpInv, Unborn, InHand, Claimed, Answered, Closing, TypeOK, ClaimLost, Goto, memory,
             poll, close
    <2>3. InHand(r)'
      BY <1>6, <1>1, <1>2, OpsAssumption
         DEF OpInv, Unborn, InHand, Claimed, Answered, Closing, TypeOK, ClaimLost, Goto, memory,
             poll, close
    <2>4. Claimed(r)'
      BY <1>6, <1>1, <1>2, OpsAssumption
         DEF OpInv, Counted, Count, One, Held, CreditOut, Running, Unborn, InHand, Claimed,
             Answered, Closing, TypeOK, ClaimLost, Goto, memory, poll, close
    <2>5. Answered(r)'
      BY <1>6, <1>1, <1>2, OpsAssumption
         DEF OpInv, Counted, Count, One, Held, CreditOut, Running, Unborn, InHand, Claimed,
             Answered, Closing, TypeOK, ClaimLost, Goto, memory, poll, close
    <2>6. Entered(r)'
      BY <1>6, <1>1, <1>2, OpsAssumption
         DEF OpInv, Entered, Counted, Count, One, Held, CreditOut, Running, Unborn, InHand,
             Claimed, Answered, Closing, TypeOK, ClaimLost, Goto, memory, poll, close
    <2> QED BY <2>1, <2>2, <2>3, <2>4, <2>5, <2>6 DEF OpInv
  <1> QED BY <1>3, <1>4, <1>5, <1>6 DEF IInv

LEMMA SubmitDisarmKeeps ==
  ASSUME IInv, SubmitDisarm
  PROVE  IInv'
  <1>1. TypeOK /\ Closing /\ Pinned /\ \A r \in Ops : OpInv(r)
    BY DEF IInv
  <1>2. hand \in Ops
    BY <1>1, OpsAssumption DEF TypeOK, Closing, SubmitDisarm
  <1>3. TypeOK'
    BY <1>1, <1>2, OpsAssumption, LiveFinite
       DEF TypeOK, WorkStates, Pinned, One, SubmitDisarm, Goto, memory, close
  <1>4. Closing'
    BY <1>1, <1>2, OpsAssumption
       DEF OpInv, TypeOK, Closing, InHand, SubmitDisarm, Goto, memory, close
  <1>5. Pinned'
    BY <1>1, <1>2, LiveFinite
       DEF TypeOK, Pinned, One, Live, Closing, SubmitDisarm, Goto, memory, close
  <1>6. ASSUME NEW r \in Ops PROVE OpInv(r)'
    <2>1. Counted(r)'
      BY <1>6, <1>1, <1>2, OpsAssumption
         DEF OpInv, Counted, Count, One, Held, CreditOut, Running, Unborn, InHand, Claimed,
             Answered, Closing, TypeOK, SubmitDisarm, Goto, memory, close
    <2>2. Unborn(r)'
      BY <1>6, <1>1, <1>2, OpsAssumption
         DEF OpInv, Unborn, InHand, Claimed, Answered, Closing, TypeOK, SubmitDisarm, Goto,
             memory, close
    <2>3. InHand(r)'
      BY <1>6, <1>1, <1>2, OpsAssumption
         DEF OpInv, Unborn, InHand, Claimed, Answered, Closing, TypeOK, SubmitDisarm, Goto,
             memory, close
    <2>4. Claimed(r)'
      BY <1>6, <1>1, <1>2, OpsAssumption
         DEF OpInv, Counted, Count, One, Held, CreditOut, Running, Unborn, InHand, Claimed,
             Answered, Closing, TypeOK, SubmitDisarm, Goto, memory, close
    <2>5. Answered(r)'
      BY <1>6, <1>1, <1>2, OpsAssumption
         DEF OpInv, Counted, Count, One, Held, CreditOut, Running, Unborn, InHand, Claimed,
             Answered, Closing, TypeOK, SubmitDisarm, Goto, memory, close
    <2>6. Entered(r)'
      BY <1>6, <1>1, <1>2, OpsAssumption
         DEF OpInv, Entered, Counted, Count, One, Held, CreditOut, Running, Unborn, InHand,
             Claimed, Answered, Closing, TypeOK, SubmitDisarm, Goto, memory, close
    <2> QED BY <2>1, <2>2, <2>3, <2>4, <2>5, <2>6 DEF OpInv
  <1> QED BY <1>3, <1>4, <1>5, <1>6 DEF IInv

LEMMA ReclaimKeeps ==
  ASSUME IInv, Reclaim
  PROVE  IInv'
  <1>1. TypeOK /\ Closing /\ Pinned /\ \A r \in Ops : OpInv(r)
    BY DEF IInv
  <1>2. hand \in Ops
    BY <1>1, OpsAssumption DEF TypeOK, Closing, Reclaim
  <1>3. life[hand] = "live" /\ refs[hand] \in Nat \ {0}
    BY <1>1, <1>2
       DEF OpInv, TypeOK, Counted, Count, One, Held, CreditOut, Running, InHand, Closing, Reclaim
  <1>4. Dropped(hand)
    BY <1>1, <1>2, <1>3, DropEffect DEF Reclaim, Goto, Drop, poll, close
  <1>5. TypeOK'
    BY <1>1, <1>2, <1>3, <1>4, OpsAssumption, LiveFinite
       DEF TypeOK, WorkStates, Pinned, One, Reclaim, Goto, poll, close, Dropped
  <1>6. Closing'
    BY <1>1, <1>2, <1>3, <1>4, OpsAssumption
       DEF OpInv, TypeOK, Closing, InHand, Reclaim, Goto, poll, close, Dropped
  <1>7. Pinned'
    BY <1>1, <1>2, <1>3, <1>4, LiveFinite
       DEF TypeOK, Pinned, One, Live, Closing, Reclaim, Goto, poll, close, Dropped
  <1>8. ASSUME NEW r \in Ops PROVE OpInv(r)'
    <2>1. Counted(r)'
      BY <1>8, <1>1, <1>2, <1>3, <1>4, OpsAssumption
         DEF OpInv, Counted, Count, One, Held, CreditOut, Running, Unborn, InHand, Claimed,
             Answered, Closing, TypeOK, Reclaim, Goto, poll, close, Dropped
    <2>2. Unborn(r)'
      BY <1>8, <1>1, <1>2, <1>3, <1>4, OpsAssumption
         DEF OpInv, Unborn, InHand, Claimed, Answered, Closing, TypeOK, Reclaim, Goto, poll,
             close, Dropped
    <2>3. InHand(r)'
      BY <1>8, <1>1, <1>2, <1>3, <1>4, OpsAssumption
         DEF OpInv, Unborn, InHand, Claimed, Answered, Closing, TypeOK, Reclaim, Goto, poll,
             close, Dropped
    <2>4. Claimed(r)'
      BY <1>8, <1>1, <1>2, <1>3, <1>4, OpsAssumption
         DEF OpInv, Counted, Count, One, Held, CreditOut, Running, Unborn, InHand, Claimed,
             Answered, Closing, TypeOK, Reclaim, Goto, poll, close, Dropped
    <2>5. Answered(r)'
      BY <1>8, <1>1, <1>2, <1>3, <1>4, OpsAssumption
         DEF OpInv, Counted, Count, One, Held, CreditOut, Running, Unborn, InHand, Claimed,
             Answered, Closing, TypeOK, Reclaim, Goto, poll, close, Dropped
    <2>6. Entered(r)'
      BY <1>8, <1>1, <1>2, <1>3, <1>4, OpsAssumption
         DEF OpInv, Entered, Counted, Count, One, Held, CreditOut, Running, Unborn, InHand,
             Claimed, Answered, Closing, TypeOK, Reclaim, Goto, poll, close, Dropped
    <2> QED BY <2>1, <2>2, <2>3, <2>4, <2>5, <2>6 DEF OpInv
  <1> QED BY <1>5, <1>6, <1>7, <1>8 DEF IInv

LEMMA SubmitUnregisterKeeps ==
  ASSUME IInv, SubmitUnregister
  PROVE  IInv'
  <1>1. TypeOK /\ Closing /\ Pinned /\ \A r \in Ops : OpInv(r)
    BY DEF IInv
  <1>2. hand \in Ops
    BY <1>1, OpsAssumption DEF TypeOK, Closing, SubmitUnregister
  <1>3. (hand \in registry) => life[hand] = "live" /\ refs[hand] \in Nat \ {0}
    BY <1>1, <1>2
       DEF OpInv, TypeOK, Counted, Count, One, Held, CreditOut, Running, InHand, Closing,
           SubmitUnregister
  <1>4. IF hand \in registry THEN Dropped(hand) ELSE UNCHANGED memory
    BY <1>1, <1>2, <1>3, DropEffect
       DEF SubmitUnregister, Goto, Unregister, poll, close, Drop, memory
  <1>5. TypeOK'
    BY <1>1, <1>2, <1>3, <1>4, OpsAssumption, LiveFinite
       DEF TypeOK, WorkStates, Pinned, One, SubmitUnregister, Goto, Unregister, poll, close,
           memory, Dropped
  <1>6. Closing'
    BY <1>1, <1>2, <1>3, <1>4, OpsAssumption
       DEF OpInv, TypeOK, Closing, InHand, SubmitUnregister, Goto, Unregister, poll, close,
           memory, Dropped
  <1>7. Pinned'
    BY <1>1, <1>2, <1>3, <1>4, LiveFinite
       DEF TypeOK, Pinned, One, Live, Closing, SubmitUnregister, Goto, Unregister, poll, close,
           memory, Dropped
  <1>8. ASSUME NEW r \in Ops PROVE OpInv(r)'
    <2>1. Counted(r)'
      BY <1>8, <1>1, <1>2, <1>3, <1>4, OpsAssumption
         DEF OpInv, Counted, Count, One, Held, CreditOut, Running, Unborn, InHand, Claimed,
             Answered, Closing, TypeOK, SubmitUnregister, Goto, Unregister, poll, close, memory,
             Dropped
    <2>2. Unborn(r)'
      BY <1>8, <1>1, <1>2, <1>3, <1>4, OpsAssumption
         DEF OpInv, Unborn, InHand, Claimed, Answered, Closing, TypeOK, SubmitUnregister, Goto,
             Unregister, poll, close, memory, Dropped
    <2>3. InHand(r)'
      BY <1>8, <1>1, <1>2, <1>3, <1>4, OpsAssumption
         DEF OpInv, Unborn, InHand, Claimed, Answered, Closing, TypeOK, SubmitUnregister, Goto,
             Unregister, poll, close, memory, Dropped
    <2>4. Claimed(r)'
      BY <1>8, <1>1, <1>2, <1>3, <1>4, OpsAssumption
         DEF OpInv, Counted, Count, One, Held, CreditOut, Running, Unborn, InHand, Claimed,
             Answered, Closing, TypeOK, SubmitUnregister, Goto, Unregister, poll, close, memory,
             Dropped
    <2>5. Answered(r)'
      BY <1>8, <1>1, <1>2, <1>3, <1>4, OpsAssumption
         DEF OpInv, Counted, Count, One, Held, CreditOut, Running, Unborn, InHand, Claimed,
             Answered, Closing, TypeOK, SubmitUnregister, Goto, Unregister, poll, close, memory,
             Dropped
    <2>6. Entered(r)'
      BY <1>8, <1>1, <1>2, <1>3, <1>4, OpsAssumption
         DEF OpInv, Entered, Counted, Count, One, Held, CreditOut, Running, Unborn, InHand,
             Claimed, Answered, Closing, TypeOK, SubmitUnregister, Goto, Unregister, poll, close,
             memory, Dropped
    <2> QED BY <2>1, <2>2, <2>3, <2>4, <2>5, <2>6 DEF OpInv
  <1> QED BY <1>5, <1>6, <1>7, <1>8 DEF IInv

LEMMA LeaveArmedKeeps ==
  ASSUME IInv, LeaveArmed
  PROVE  IInv'
  <1>1. TypeOK /\ Closing /\ Pinned /\ \A r \in Ops : OpInv(r)
    BY DEF IInv
  <1>2. hand \in Ops
    BY <1>1, OpsAssumption DEF TypeOK, Closing, LeaveArmed
  <1>3. life[hand] = "live" /\ refs[hand] \in Nat \ {0}
    BY <1>1, <1>2
       DEF OpInv, TypeOK, Counted, Count, One, Held, CreditOut, Running, InHand, Closing,
           LeaveArmed
  <1>4. Dropped(hand)
    BY <1>1, <1>2, <1>3, DropEffect DEF LeaveArmed, Drop, poll, close
  <1>5. refs[hand] = 1 => answers[hand] = 1
    BY <1>1, <1>2, <1>3
       DEF OpInv, TypeOK, WorkStates, Counted, Count, One, Held, CreditOut, Running, InHand,
           Answered, Claimed, Closing, LeaveArmed
  <1>6. TypeOK'
    BY <1>1, <1>2, <1>3, <1>4, <1>5, OpsAssumption, LiveFinite
       DEF TypeOK, WorkStates, Pinned, One, LeaveArmed, poll, close, Dropped
  <1>7. Closing'
    BY <1>1, <1>2, <1>3, <1>4, <1>5, OpsAssumption
       DEF OpInv, TypeOK, Closing, InHand, LeaveArmed, poll, close, Dropped
  <1>8. Pinned'
    BY <1>1, <1>2, <1>3, <1>4, <1>5, LiveFinite
       DEF TypeOK, Pinned, One, Live, Closing, LeaveArmed, poll, close, Dropped
  <1>9. ASSUME NEW r \in Ops PROVE OpInv(r)'
    <2>1. Counted(r)'
      BY <1>9, <1>1, <1>2, <1>3, <1>4, <1>5, OpsAssumption
         DEF OpInv, Counted, Count, One, Held, CreditOut, Running, Unborn, InHand, Claimed,
             Answered, Closing, TypeOK, LeaveArmed, poll, close, Dropped
    <2>2. Unborn(r)'
      BY <1>9, <1>1, <1>2, <1>3, <1>4, <1>5, OpsAssumption
         DEF OpInv, Unborn, InHand, Claimed, Answered, Closing, TypeOK, LeaveArmed, poll, close,
             Dropped
    <2>3. InHand(r)'
      BY <1>9, <1>1, <1>2, <1>3, <1>4, <1>5, OpsAssumption
         DEF OpInv, Unborn, InHand, Claimed, Answered, Closing, TypeOK, LeaveArmed, poll, close,
             Dropped
    <2>4. Claimed(r)'
      BY <1>9, <1>1, <1>2, <1>3, <1>4, <1>5, OpsAssumption
         DEF OpInv, Counted, Count, One, Held, CreditOut, Running, Unborn, InHand, Claimed,
             Answered, Closing, TypeOK, LeaveArmed, poll, close, Dropped
    <2>5. Answered(r)'
      BY <1>9, <1>1, <1>2, <1>3, <1>4, <1>5, OpsAssumption
         DEF OpInv, Counted, Count, One, Held, CreditOut, Running, Unborn, InHand, Claimed,
             Answered, Closing, TypeOK, LeaveArmed, poll, close, Dropped
    <2>6. Entered(r)'
      BY <1>9, <1>1, <1>2, <1>3, <1>4, <1>5, OpsAssumption
         DEF OpInv, Entered, Counted, Count, One, Held, CreditOut, Running, Unborn, InHand,
             Claimed, Answered, Closing, TypeOK, LeaveArmed, poll, close, Dropped
    <2> QED BY <2>1, <2>2, <2>3, <2>4, <2>5, <2>6 DEF OpInv
  <1> QED BY <1>6, <1>7, <1>8, <1>9 DEF IInv

-----------------------------------------------------------------------------
(* poll_wake and run.                                                      *)

LEMMA WakeKeeps ==
  ASSUME IInv, NEW q \in Ops, Wake(q)
  PROVE  IInv'
  <1>1. TypeOK /\ Closing /\ Pinned /\ \A r \in Ops : OpInv(r)
    BY DEF IInv
  <1>2. TypeOK'
    BY <1>1, OpsAssumption, LiveFinite
       DEF TypeOK, WorkStates, Pinned, One, Wake, memory, submitter, close
  <1>3. Closing'
    BY <1>1, OpsAssumption DEF OpInv, TypeOK, Closing, InHand, Wake, memory, submitter, close
  <1>4. Pinned'
    BY <1>1, LiveFinite DEF TypeOK, Pinned, One, Live, Closing, Wake, memory, submitter, close
  <1>5. ASSUME NEW r \in Ops PROVE OpInv(r)'
    <2>1. Counted(r)'
      BY <1>5, <1>1, OpsAssumption
         DEF OpInv, Counted, Count, One, Held, CreditOut, Running, Unborn, InHand, Claimed,
             Answered, Closing, TypeOK, Wake, memory, submitter, close
    <2>2. Unborn(r)'
      BY <1>5, <1>1, OpsAssumption
         DEF OpInv, Unborn, InHand, Claimed, Answered, Closing, TypeOK, Wake, memory, submitter,
             close
    <2>3. InHand(r)'
      BY <1>5, <1>1, OpsAssumption
         DEF OpInv, Unborn, InHand, Claimed, Answered, Closing, TypeOK, Wake, memory, submitter,
             close
    <2>4. Claimed(r)'
      BY <1>5, <1>1, OpsAssumption
         DEF OpInv, Counted, Count, One, Held, CreditOut, Running, Unborn, InHand, Claimed,
             Answered, Closing, TypeOK, Wake, memory, submitter, close
    <2>5. Answered(r)'
      BY <1>5, <1>1, OpsAssumption
         DEF OpInv, Counted, Count, One, Held, CreditOut, Running, Unborn, InHand, Claimed,
             Answered, Closing, TypeOK, Wake, memory, submitter, close
    <2>6. Entered(r)'
      BY <1>5, <1>1, OpsAssumption
         DEF OpInv, Entered, Counted, Count, One, Held, CreditOut, Running, Unborn, InHand,
             Claimed, Answered, Closing, TypeOK, Wake, memory, submitter, close
    <2> QED BY <2>1, <2>2, <2>3, <2>4, <2>5, <2>6 DEF OpInv
  <1> QED BY <1>2, <1>3, <1>4, <1>5 DEF IInv

LEMMA WakeQueuesKeeps ==
  ASSUME IInv, NEW q \in Ops, WakeQueues(q)
  PROVE  IInv'
  <1>1. TypeOK /\ Closing /\ Pinned /\ \A r \in Ops : OpInv(r)
    BY DEF IInv
  <1>2. TypeOK'
    BY <1>1, OpsAssumption, LiveFinite
       DEF TypeOK, WorkStates, Pinned, One, WakeQueues, memory, submitter, close
  <1>3. Closing'
    BY <1>1, OpsAssumption DEF OpInv, TypeOK, Closing, InHand, WakeQueues, memory, submitter, close
  <1>4. Pinned'
    BY <1>1, LiveFinite DEF TypeOK, Pinned, One, Live, Closing, WakeQueues, memory, submitter, close
  <1>5. ASSUME NEW r \in Ops PROVE OpInv(r)'
    <2>1. Counted(r)'
      BY <1>5, <1>1, OpsAssumption
         DEF OpInv, Counted, Count, One, Held, CreditOut, Running, Unborn, InHand, Claimed,
             Answered, Closing, TypeOK, WakeQueues, memory, submitter, close
    <2>2. Unborn(r)'
      BY <1>5, <1>1, OpsAssumption
         DEF OpInv, Unborn, InHand, Claimed, Answered, Closing, TypeOK, WakeQueues, memory,
             submitter, close
    <2>3. InHand(r)'
      BY <1>5, <1>1, OpsAssumption
         DEF OpInv, Unborn, InHand, Claimed, Answered, Closing, TypeOK, WakeQueues, memory,
             submitter, close
    <2>4. Claimed(r)'
      BY <1>5, <1>1, OpsAssumption
         DEF OpInv, Counted, Count, One, Held, CreditOut, Running, Unborn, InHand, Claimed,
             Answered, Closing, TypeOK, WakeQueues, memory, submitter, close
    <2>5. Answered(r)'
      BY <1>5, <1>1, OpsAssumption
         DEF OpInv, Counted, Count, One, Held, CreditOut, Running, Unborn, InHand, Claimed,
             Answered, Closing, TypeOK, WakeQueues, memory, submitter, close
    <2>6. Entered(r)'
      BY <1>5, <1>1, OpsAssumption
         DEF OpInv, Entered, Counted, Count, One, Held, CreditOut, Running, Unborn, InHand,
             Claimed, Answered, Closing, TypeOK, WakeQueues, memory, submitter, close
    <2> QED BY <2>1, <2>2, <2>3, <2>4, <2>5, <2>6 DEF OpInv
  <1> QED BY <1>2, <1>3, <1>4, <1>5 DEF IInv

LEMMA RunStartKeeps ==
  ASSUME IInv, NEW q \in Ops, RunStart(q)
  PROVE  IInv'
  <1>1. TypeOK /\ Closing /\ Pinned /\ \A r \in Ops : OpInv(r)
    BY DEF IInv
  <1>2. TypeOK'
    BY <1>1, OpsAssumption, LiveFinite
       DEF TypeOK, WorkStates, Pinned, One, RunStart, memory, poll, submitter, close
  <1>3. Closing'
    BY <1>1, OpsAssumption
       DEF OpInv, TypeOK, Closing, InHand, RunStart, memory, poll, submitter, close
  <1>4. Pinned'
    BY <1>1, LiveFinite
       DEF TypeOK, Pinned, One, Live, Closing, RunStart, memory, poll, submitter, close
  <1>5. ASSUME NEW r \in Ops PROVE OpInv(r)'
    <2>1. Counted(r)'
      BY <1>5, <1>1, OpsAssumption
         DEF OpInv, Counted, Count, One, Held, CreditOut, Running, Unborn, InHand, Claimed,
             Answered, Closing, TypeOK, RunStart, memory, poll, submitter, close
    <2>2. Unborn(r)'
      BY <1>5, <1>1, OpsAssumption
         DEF OpInv, Unborn, InHand, Claimed, Answered, Closing, TypeOK, RunStart, memory, poll,
             submitter, close
    <2>3. InHand(r)'
      BY <1>5, <1>1, OpsAssumption
         DEF OpInv, Unborn, InHand, Claimed, Answered, Closing, TypeOK, RunStart, memory, poll,
             submitter, close
    <2>4. Claimed(r)'
      BY <1>5, <1>1, OpsAssumption
         DEF OpInv, Counted, Count, One, Held, CreditOut, Running, Unborn, InHand, Claimed,
             Answered, Closing, TypeOK, RunStart, memory, poll, submitter, close
    <2>5. Answered(r)'
      BY <1>5, <1>1, OpsAssumption
         DEF OpInv, Counted, Count, One, Held, CreditOut, Running, Unborn, InHand, Claimed,
             Answered, Closing, TypeOK, RunStart, memory, poll, submitter, close
    <2>6. Entered(r)'
      BY <1>5, <1>1, OpsAssumption
         DEF OpInv, Entered, Counted, Count, One, Held, CreditOut, Running, Unborn, InHand,
             Claimed, Answered, Closing, TypeOK, RunStart, memory, poll, submitter, close
    <2> QED BY <2>1, <2>2, <2>3, <2>4, <2>5, <2>6 DEF OpInv
  <1> QED BY <1>2, <1>3, <1>4, <1>5 DEF IInv

LEMMA RunDisarmKeeps ==
  ASSUME IInv, NEW q \in Ops, RunDisarm(q)
  PROVE  IInv'
  <1>1. TypeOK /\ Closing /\ Pinned /\ \A r \in Ops : OpInv(r)
    BY DEF IInv
  <1>2. TypeOK'
    BY <1>1, OpsAssumption, LiveFinite
       DEF TypeOK, WorkStates, Pinned, One, RunDisarm, memory, submitter, close
  <1>3. Closing'
    BY <1>1, OpsAssumption DEF OpInv, TypeOK, Closing, InHand, RunDisarm, memory, submitter, close
  <1>4. Pinned'
    BY <1>1, LiveFinite DEF TypeOK, Pinned, One, Live, Closing, RunDisarm, memory, submitter, close
  <1>5. ASSUME NEW r \in Ops PROVE OpInv(r)'
    <2>1. Counted(r)'
      BY <1>5, <1>1, OpsAssumption
         DEF OpInv, Counted, Count, One, Held, CreditOut, Running, Unborn, InHand, Claimed,
             Answered, Closing, TypeOK, RunDisarm, memory, submitter, close
    <2>2. Unborn(r)'
      BY <1>5, <1>1, OpsAssumption
         DEF OpInv, Unborn, InHand, Claimed, Answered, Closing, TypeOK, RunDisarm, memory,
             submitter, close
    <2>3. InHand(r)'
      BY <1>5, <1>1, OpsAssumption
         DEF OpInv, Unborn, InHand, Claimed, Answered, Closing, TypeOK, RunDisarm, memory,
             submitter, close
    <2>4. Claimed(r)'
      BY <1>5, <1>1, OpsAssumption
         DEF OpInv, Counted, Count, One, Held, CreditOut, Running, Unborn, InHand, Claimed,
             Answered, Closing, TypeOK, RunDisarm, memory, submitter, close
    <2>5. Answered(r)'
      BY <1>5, <1>1, OpsAssumption
         DEF OpInv, Counted, Count, One, Held, CreditOut, Running, Unborn, InHand, Claimed,
             Answered, Closing, TypeOK, RunDisarm, memory, submitter, close
    <2>6. Entered(r)'
      BY <1>5, <1>1, OpsAssumption
         DEF OpInv, Entered, Counted, Count, One, Held, CreditOut, Running, Unborn, InHand,
             Claimed, Answered, Closing, TypeOK, RunDisarm, memory, submitter, close
    <2> QED BY <2>1, <2>2, <2>3, <2>4, <2>5, <2>6 DEF OpInv
  <1> QED BY <1>2, <1>3, <1>4, <1>5 DEF IInv

LEMMA RunCompleteKeeps ==
  ASSUME IInv, NEW q \in Ops, RunComplete(q)
  PROVE  IInv'
  <1>1. TypeOK /\ Closing /\ Pinned /\ \A r \in Ops : OpInv(r)
    BY DEF IInv
  <1>2. TypeOK'
    BY <1>1, OpsAssumption, LiveFinite
       DEF TypeOK, WorkStates, Pinned, One, RunComplete, Answer, memory, poll, submitter, close
  <1>3. Closing'
    BY <1>1, OpsAssumption
       DEF OpInv, TypeOK, Closing, InHand, RunComplete, Answer, memory, poll, submitter, close
  <1>4. Pinned'
    BY <1>1, LiveFinite
       DEF TypeOK, Pinned, One, Live, Closing, RunComplete, Answer, memory, poll, submitter, close
  <1>5. ASSUME NEW r \in Ops PROVE OpInv(r)'
    <2>1. Counted(r)'
      BY <1>5, <1>1, OpsAssumption
         DEF OpInv, Counted, Count, One, Held, CreditOut, Running, Unborn, InHand, Claimed,
             Answered, Closing, TypeOK, RunComplete, Answer, memory, poll, submitter, close
    <2>2. Unborn(r)'
      BY <1>5, <1>1, OpsAssumption
         DEF OpInv, Unborn, InHand, Claimed, Answered, Closing, TypeOK, RunComplete, Answer,
             memory, poll, submitter, close
    <2>3. InHand(r)'
      BY <1>5, <1>1, OpsAssumption
         DEF OpInv, Unborn, InHand, Claimed, Answered, Closing, TypeOK, RunComplete, Answer,
             memory, poll, submitter, close
    <2>4. Claimed(r)'
      BY <1>5, <1>1, OpsAssumption
         DEF OpInv, Counted, Count, One, Held, CreditOut, Running, Unborn, InHand, Claimed,
             Answered, Closing, TypeOK, RunComplete, Answer, memory, poll, submitter, close
    <2>5. Answered(r)'
      BY <1>5, <1>1, OpsAssumption
         DEF OpInv, Counted, Count, One, Held, CreditOut, Running, Unborn, InHand, Claimed,
             Answered, Closing, TypeOK, RunComplete, Answer, memory, poll, submitter, close
    <2>6. Entered(r)'
      BY <1>5, <1>1, OpsAssumption
         DEF OpInv, Entered, Counted, Count, One, Held, CreditOut, Running, Unborn, InHand,
             Claimed, Answered, Closing, TypeOK, RunComplete, Answer, memory, poll, submitter,
             close
    <2> QED BY <2>1, <2>2, <2>3, <2>4, <2>5, <2>6 DEF OpInv
  <1> QED BY <1>2, <1>3, <1>4, <1>5 DEF IInv

LEMMA RunUnregisterKeeps ==
  ASSUME IInv, NEW q \in Ops, RunUnregister(q)
  PROVE  IInv'
  <1>1. TypeOK /\ Closing /\ Pinned /\ \A r \in Ops : OpInv(r)
    BY DEF IInv
  <1>2. (q \in registry) => life[q] = "live" /\ refs[q] \in Nat \ {0}
    BY <1>1
       DEF OpInv, TypeOK, Counted, Count, One, Held, CreditOut, Running, InHand, Closing,
           RunUnregister
  <1>3. IF q \in registry THEN Dropped(q) ELSE UNCHANGED memory
    BY <1>1, <1>2, DropEffect DEF RunUnregister, Unregister, poll, submitter, close, Drop, memory
  <1>4. TypeOK'
    BY <1>1, <1>2, <1>3, OpsAssumption, LiveFinite
       DEF TypeOK, WorkStates, Pinned, One, RunUnregister, Unregister, poll, submitter, close,
           memory, Dropped
  <1>5. Closing'
    BY <1>1, <1>2, <1>3, OpsAssumption
       DEF OpInv, TypeOK, Closing, InHand, RunUnregister, Unregister, poll, submitter, close,
           memory, Dropped
  <1>6. Pinned'
    BY <1>1, <1>2, <1>3, LiveFinite
       DEF TypeOK, Pinned, One, Live, Closing, RunUnregister, Unregister, poll, submitter, close,
           memory, Dropped
  <1>7. ASSUME NEW r \in Ops PROVE OpInv(r)'
    <2>1. Counted(r)'
      BY <1>7, <1>1, <1>2, <1>3, OpsAssumption
         DEF OpInv, Counted, Count, One, Held, CreditOut, Running, Unborn, InHand, Claimed,
             Answered, Closing, TypeOK, RunUnregister, Unregister, poll, submitter, close, memory,
             Dropped
    <2>2. Unborn(r)'
      BY <1>7, <1>1, <1>2, <1>3, OpsAssumption
         DEF OpInv, Unborn, InHand, Claimed, Answered, Closing, TypeOK, RunUnregister, Unregister,
             poll, submitter, close, memory, Dropped
    <2>3. InHand(r)'
      BY <1>7, <1>1, <1>2, <1>3, OpsAssumption
         DEF OpInv, Unborn, InHand, Claimed, Answered, Closing, TypeOK, RunUnregister, Unregister,
             poll, submitter, close, memory, Dropped
    <2>4. Claimed(r)'
      BY <1>7, <1>1, <1>2, <1>3, OpsAssumption
         DEF OpInv, Counted, Count, One, Held, CreditOut, Running, Unborn, InHand, Claimed,
             Answered, Closing, TypeOK, RunUnregister, Unregister, poll, submitter, close, memory,
             Dropped
    <2>5. Answered(r)'
      BY <1>7, <1>1, <1>2, <1>3, OpsAssumption
         DEF OpInv, Counted, Count, One, Held, CreditOut, Running, Unborn, InHand, Claimed,
             Answered, Closing, TypeOK, RunUnregister, Unregister, poll, submitter, close, memory,
             Dropped
    <2>6. Entered(r)'
      BY <1>7, <1>1, <1>2, <1>3, OpsAssumption
         DEF OpInv, Entered, Counted, Count, One, Held, CreditOut, Running, Unborn, InHand,
             Claimed, Answered, Closing, TypeOK, RunUnregister, Unregister, poll, submitter,
             close, memory, Dropped
    <2> QED BY <2>1, <2>2, <2>3, <2>4, <2>5, <2>6 DEF OpInv
  <1> QED BY <1>4, <1>5, <1>6, <1>7 DEF IInv

LEMMA RunDropKeeps ==
  ASSUME IInv, NEW q \in Ops, RunDrop(q)
  PROVE  IInv'
  <1>1. TypeOK /\ Closing /\ Pinned /\ \A r \in Ops : OpInv(r)
    BY DEF IInv
  <1>2. life[q] = "live" /\ refs[q] \in Nat \ {0}
    BY <1>1
       DEF OpInv, TypeOK, Counted, Count, One, Held, CreditOut, Running, InHand, Closing, RunDrop
  <1>3. Dropped(q)
    BY <1>1, <1>2, DropEffect DEF RunDrop, Drop, poll, submitter, close
  <1>4. TypeOK'
    BY <1>1, <1>2, <1>3, OpsAssumption, LiveFinite
       DEF TypeOK, WorkStates, Pinned, One, RunDrop, poll, submitter, close, Dropped
  <1>5. Closing'
    BY <1>1, <1>2, <1>3, OpsAssumption
       DEF OpInv, TypeOK, Closing, InHand, RunDrop, poll, submitter, close, Dropped
  <1>6. Pinned'
    BY <1>1, <1>2, <1>3, LiveFinite
       DEF TypeOK, Pinned, One, Live, Closing, RunDrop, poll, submitter, close, Dropped
  <1>7. ASSUME NEW r \in Ops PROVE OpInv(r)'
    <2>1. Counted(r)'
      BY <1>7, <1>1, <1>2, <1>3, OpsAssumption
         DEF OpInv, Counted, Count, One, Held, CreditOut, Running, Unborn, InHand, Claimed,
             Answered, Closing, TypeOK, RunDrop, poll, submitter, close, Dropped
    <2>2. Unborn(r)'
      BY <1>7, <1>1, <1>2, <1>3, OpsAssumption
         DEF OpInv, Unborn, InHand, Claimed, Answered, Closing, TypeOK, RunDrop, poll, submitter,
             close, Dropped
    <2>3. InHand(r)'
      BY <1>7, <1>1, <1>2, <1>3, OpsAssumption
         DEF OpInv, Unborn, InHand, Claimed, Answered, Closing, TypeOK, RunDrop, poll, submitter,
             close, Dropped
    <2>4. Claimed(r)'
      BY <1>7, <1>1, <1>2, <1>3, OpsAssumption
         DEF OpInv, Counted, Count, One, Held, CreditOut, Running, Unborn, InHand, Claimed,
             Answered, Closing, TypeOK, RunDrop, poll, submitter, close, Dropped
    <2>5. Answered(r)'
      BY <1>7, <1>1, <1>2, <1>3, OpsAssumption
         DEF OpInv, Counted, Count, One, Held, CreditOut, Running, Unborn, InHand, Claimed,
             Answered, Closing, TypeOK, RunDrop, poll, submitter, close, Dropped
    <2>6. Entered(r)'
      BY <1>7, <1>1, <1>2, <1>3, OpsAssumption
         DEF OpInv, Entered, Counted, Count, One, Held, CreditOut, Running, Unborn, InHand,
             Claimed, Answered, Closing, TypeOK, RunDrop, poll, submitter, close, Dropped
    <2> QED BY <2>1, <2>2, <2>3, <2>4, <2>5, <2>6 DEF OpInv
  <1> QED BY <1>4, <1>5, <1>6, <1>7 DEF IInv

-----------------------------------------------------------------------------
(* cancel_op, and release with cancel_all.                                 *)

LEMMA CancelWonKeeps ==
  ASSUME IInv, NEW q \in Ops, CancelWon(q)
  PROVE  IInv'
  <1>1. TypeOK /\ Closing /\ Pinned /\ \A r \in Ops : OpInv(r)
    BY DEF IInv
  <1>2. refs[q] \in Nat \ {0} /\ life[q] = "live" /\ hand = NoOp /\ q # NoOp
    BY <1>1, OpsAssumption
       DEF OpInv, TypeOK, Counted, Count, One, Held, CreditOut, Running, Closing, CancelWon
  <1>3. TypeOK'
    BY <1>1, <1>2, OpsAssumption, LiveFinite DEF TypeOK, WorkStates, Pinned, One, CancelWon, close
  <1>4. Closing'
    BY <1>1, <1>2, OpsAssumption DEF OpInv, TypeOK, Closing, InHand, CancelWon, close
  <1>5. Pinned'
    BY <1>1, <1>2, LiveFinite DEF TypeOK, Pinned, One, Live, Closing, CancelWon, close
  <1>6. ASSUME NEW r \in Ops PROVE OpInv(r)'
    <2>1. Counted(r)'
      BY <1>6, <1>1, <1>2, OpsAssumption
         DEF OpInv, Counted, Count, One, Held, CreditOut, Running, Unborn, InHand, Claimed,
             Answered, Closing, TypeOK, CancelWon, close
    <2>2. Unborn(r)'
      BY <1>6, <1>1, <1>2, OpsAssumption
         DEF OpInv, Unborn, InHand, Claimed, Answered, Closing, TypeOK, CancelWon, close
    <2>3. InHand(r)'
      BY <1>6, <1>1, <1>2, OpsAssumption
         DEF OpInv, Unborn, InHand, Claimed, Answered, Closing, TypeOK, CancelWon, close
    <2>4. Claimed(r)'
      BY <1>6, <1>1, <1>2, OpsAssumption
         DEF OpInv, Counted, Count, One, Held, CreditOut, Running, Unborn, InHand, Claimed,
             Answered, Closing, TypeOK, CancelWon, close
    <2>5. Answered(r)'
      BY <1>6, <1>1, <1>2, OpsAssumption
         DEF OpInv, Counted, Count, One, Held, CreditOut, Running, Unborn, InHand, Claimed,
             Answered, Closing, TypeOK, CancelWon, close
    <2>6. Entered(r)'
      BY <1>6, <1>1, <1>2, OpsAssumption
         DEF OpInv, Entered, Counted, Count, One, Held, CreditOut, Running, Unborn, InHand,
             Claimed, Answered, Closing, TypeOK, CancelWon, close
    <2> QED BY <2>1, <2>2, <2>3, <2>4, <2>5, <2>6 DEF OpInv
  <1> QED BY <1>3, <1>4, <1>5, <1>6 DEF IInv

LEMMA CancelCompleteKeeps ==
  ASSUME IInv, CancelComplete
  PROVE  IInv'
  <1>1. TypeOK /\ Closing /\ Pinned /\ \A r \in Ops : OpInv(r)
    BY DEF IInv
  <1>2. hand \in Ops
    BY <1>1, OpsAssumption DEF TypeOK, Closing, CancelComplete
  <1>3. TypeOK'
    BY <1>1, <1>2, OpsAssumption, LiveFinite
       DEF TypeOK, WorkStates, Pinned, One, CancelComplete, Goto, Answer, memory, poll, close
  <1>4. Closing'
    BY <1>1, <1>2, OpsAssumption
       DEF OpInv, TypeOK, Closing, InHand, CancelComplete, Goto, Answer, memory, poll, close
  <1>5. Pinned'
    BY <1>1, <1>2, LiveFinite
       DEF TypeOK, Pinned, One, Live, Closing, CancelComplete, Goto, Answer, memory, poll, close
  <1>6. ASSUME NEW r \in Ops PROVE OpInv(r)'
    <2>1. Counted(r)'
      BY <1>6, <1>1, <1>2, OpsAssumption
         DEF OpInv, Counted, Count, One, Held, CreditOut, Running, Unborn, InHand, Claimed,
             Answered, Closing, TypeOK, CancelComplete, Goto, Answer, memory, poll, close
    <2>2. Unborn(r)'
      BY <1>6, <1>1, <1>2, OpsAssumption
         DEF OpInv, Unborn, InHand, Claimed, Answered, Closing, TypeOK, CancelComplete, Goto,
             Answer, memory, poll, close
    <2>3. InHand(r)'
      BY <1>6, <1>1, <1>2, OpsAssumption
         DEF OpInv, Unborn, InHand, Claimed, Answered, Closing, TypeOK, CancelComplete, Goto,
             Answer, memory, poll, close
    <2>4. Claimed(r)'
      BY <1>6, <1>1, <1>2, OpsAssumption
         DEF OpInv, Counted, Count, One, Held, CreditOut, Running, Unborn, InHand, Claimed,
             Answered, Closing, TypeOK, CancelComplete, Goto, Answer, memory, poll, close
    <2>5. Answered(r)'
      BY <1>6, <1>1, <1>2, OpsAssumption
         DEF OpInv, Counted, Count, One, Held, CreditOut, Running, Unborn, InHand, Claimed,
             Answered, Closing, TypeOK, CancelComplete, Goto, Answer, memory, poll, close
    <2>6. Entered(r)'
      BY <1>6, <1>1, <1>2, OpsAssumption
         DEF OpInv, Entered, Counted, Count, One, Held, CreditOut, Running, Unborn, InHand,
             Claimed, Answered, Closing, TypeOK, CancelComplete, Goto, Answer, memory, poll, close
    <2> QED BY <2>1, <2>2, <2>3, <2>4, <2>5, <2>6 DEF OpInv
  <1> QED BY <1>3, <1>4, <1>5, <1>6 DEF IInv

LEMMA CloseKeeps ==
  ASSUME IInv, Close
  PROVE  IInv'
  <1>1. TypeOK /\ Closing /\ Pinned /\ \A r \in Ops : OpInv(r)
    BY DEF IInv
  <1>2. TypeOK'
    BY <1>1, OpsAssumption, LiveFinite
       DEF TypeOK, WorkStates, Pinned, One, Close, memory, poll, submitter
  <1>3. Closing'
    BY <1>1, OpsAssumption DEF OpInv, TypeOK, Closing, InHand, Close, memory, poll, submitter
  <1>4. Pinned'
    BY <1>1, LiveFinite DEF TypeOK, Pinned, One, Live, Closing, Close, memory, poll, submitter
  <1>5. ASSUME NEW r \in Ops PROVE OpInv(r)'
    <2>1. Counted(r)'
      BY <1>5, <1>1, OpsAssumption
         DEF OpInv, Counted, Count, One, Held, CreditOut, Running, Unborn, InHand, Claimed,
             Answered, Closing, TypeOK, Close, memory, poll, submitter
    <2>2. Unborn(r)'
      BY <1>5, <1>1, OpsAssumption
         DEF OpInv, Unborn, InHand, Claimed, Answered, Closing, TypeOK, Close, memory, poll,
             submitter
    <2>3. InHand(r)'
      BY <1>5, <1>1, OpsAssumption
         DEF OpInv, Unborn, InHand, Claimed, Answered, Closing, TypeOK, Close, memory, poll,
             submitter
    <2>4. Claimed(r)'
      BY <1>5, <1>1, OpsAssumption
         DEF OpInv, Counted, Count, One, Held, CreditOut, Running, Unborn, InHand, Claimed,
             Answered, Closing, TypeOK, Close, memory, poll, submitter
    <2>5. Answered(r)'
      BY <1>5, <1>1, OpsAssumption
         DEF OpInv, Counted, Count, One, Held, CreditOut, Running, Unborn, InHand, Claimed,
             Answered, Closing, TypeOK, Close, memory, poll, submitter
    <2>6. Entered(r)'
      BY <1>5, <1>1, OpsAssumption
         DEF OpInv, Entered, Counted, Count, One, Held, CreditOut, Running, Unborn, InHand,
             Claimed, Answered, Closing, TypeOK, Close, memory, poll, submitter
    <2> QED BY <2>1, <2>2, <2>3, <2>4, <2>5, <2>6 DEF OpInv
  <1> QED BY <1>2, <1>3, <1>4, <1>5 DEF IInv

LEMMA CancelOneKeeps ==
  ASSUME IInv, NEW q \in Ops, CancelOne(q)
  PROVE  IInv'
  <1>1. TypeOK /\ Closing /\ Pinned /\ \A r \in Ops : OpInv(r)
    BY DEF IInv
  <1>2. (q \in Polls /\ token[q] = "armed") \/ work[q] = "queued" =>
         life[q] = "live" /\ refs[q] \in Nat \ {0}
    BY <1>1
       DEF OpInv, TypeOK, Counted, Count, One, Held, CreditOut, Running, InHand, Closing,
           CancelOne
  <1>3. IF (q \in Polls /\ token[q] = "armed") \/ work[q] = "queued"
       THEN Dropped(q) ELSE UNCHANGED memory
    BY <1>1, <1>2, DropEffect DEF CancelOne, Drop, memory, submitter
  <1>4. TypeOK'
    BY <1>1, <1>2, <1>3, OpsAssumption, LiveFinite
       DEF TypeOK, WorkStates, Pinned, One, CancelOne, memory, submitter, Dropped
  <1>5. Closing'
    BY <1>1, <1>2, <1>3, OpsAssumption
       DEF OpInv, TypeOK, Closing, InHand, CancelOne, memory, submitter, Dropped
  <1>6. Pinned'
    BY <1>1, <1>2, <1>3, LiveFinite
       DEF TypeOK, Pinned, One, Live, Closing, CancelOne, memory, submitter, Dropped
  <1>7. ASSUME NEW r \in Ops PROVE OpInv(r)'
    <2>1. Counted(r)'
      BY <1>7, <1>1, <1>2, <1>3, OpsAssumption
         DEF OpInv, Counted, Count, One, Held, CreditOut, Running, Unborn, InHand, Claimed,
             Answered, Closing, TypeOK, CancelOne, memory, submitter, Dropped
    <2>2. Unborn(r)'
      BY <1>7, <1>1, <1>2, <1>3, OpsAssumption
         DEF OpInv, Unborn, InHand, Claimed, Answered, Closing, TypeOK, CancelOne, memory,
             submitter, Dropped
    <2>3. InHand(r)'
      BY <1>7, <1>1, <1>2, <1>3, OpsAssumption
         DEF OpInv, Unborn, InHand, Claimed, Answered, Closing, TypeOK, CancelOne, memory,
             submitter, Dropped
    <2>4. Claimed(r)'
      BY <1>7, <1>1, <1>2, <1>3, OpsAssumption
         DEF OpInv, Counted, Count, One, Held, CreditOut, Running, Unborn, InHand, Claimed,
             Answered, Closing, TypeOK, CancelOne, memory, submitter, Dropped
    <2>5. Answered(r)'
      BY <1>7, <1>1, <1>2, <1>3, OpsAssumption
         DEF OpInv, Counted, Count, One, Held, CreditOut, Running, Unborn, InHand, Claimed,
             Answered, Closing, TypeOK, CancelOne, memory, submitter, Dropped
    <2>6. Entered(r)'
      BY <1>7, <1>1, <1>2, <1>3, OpsAssumption
         DEF OpInv, Entered, Counted, Count, One, Held, CreditOut, Running, Unborn, InHand,
             Claimed, Answered, Closing, TypeOK, CancelOne, memory, submitter, Dropped
    <2> QED BY <2>1, <2>2, <2>3, <2>4, <2>5, <2>6 DEF OpInv
  <1> QED BY <1>4, <1>5, <1>6, <1>7 DEF IInv

LEMMA CancelledAllKeeps ==
  ASSUME IInv, CancelledAll
  PROVE  IInv'
  <1>1. TypeOK /\ Closing /\ Pinned /\ \A r \in Ops : OpInv(r)
    BY DEF IInv
  <1>2. TypeOK'
    BY <1>1, OpsAssumption, LiveFinite
       DEF TypeOK, WorkStates, Pinned, One, CancelledAll, memory, poll, submitter
  <1>3. Closing'
    BY <1>1, OpsAssumption DEF OpInv, TypeOK, Closing, InHand, CancelledAll, memory, poll, submitter
  <1>4. Pinned'
    BY <1>1, LiveFinite
       DEF TypeOK, Pinned, One, Live, Closing, CancelledAll, memory, poll, submitter
  <1>5. ASSUME NEW r \in Ops PROVE OpInv(r)'
    <2>1. Counted(r)'
      BY <1>5, <1>1, OpsAssumption
         DEF OpInv, Counted, Count, One, Held, CreditOut, Running, Unborn, InHand, Claimed,
             Answered, Closing, TypeOK, CancelledAll, memory, poll, submitter
    <2>2. Unborn(r)'
      BY <1>5, <1>1, OpsAssumption
         DEF OpInv, Unborn, InHand, Claimed, Answered, Closing, TypeOK, CancelledAll, memory,
             poll, submitter
    <2>3. InHand(r)'
      BY <1>5, <1>1, OpsAssumption
         DEF OpInv, Unborn, InHand, Claimed, Answered, Closing, TypeOK, CancelledAll, memory,
             poll, submitter
    <2>4. Claimed(r)'
      BY <1>5, <1>1, OpsAssumption
         DEF OpInv, Counted, Count, One, Held, CreditOut, Running, Unborn, InHand, Claimed,
             Answered, Closing, TypeOK, CancelledAll, memory, poll, submitter
    <2>5. Answered(r)'
      BY <1>5, <1>1, OpsAssumption
         DEF OpInv, Counted, Count, One, Held, CreditOut, Running, Unborn, InHand, Claimed,
             Answered, Closing, TypeOK, CancelledAll, memory, poll, submitter
    <2>6. Entered(r)'
      BY <1>5, <1>1, OpsAssumption
         DEF OpInv, Entered, Counted, Count, One, Held, CreditOut, Running, Unborn, InHand,
             Claimed, Answered, Closing, TypeOK, CancelledAll, memory, poll, submitter
    <2> QED BY <2>1, <2>2, <2>3, <2>4, <2>5, <2>6 DEF OpInv
  <1> QED BY <1>2, <1>3, <1>4, <1>5 DEF IInv

LEMMA SwapKeeps ==
  ASSUME IInv, Swap
  PROVE  IInv'
  <1>1. TypeOK /\ Closing /\ Pinned /\ \A r \in Ops : OpInv(r)
    BY DEF IInv
  <1>2. TypeOK'
    BY <1>1, OpsAssumption, LiveFinite
       DEF TypeOK, WorkStates, Pinned, One, Swap, memory, poll, submitter
  <1>3. Closing'
    BY <1>1, OpsAssumption DEF OpInv, TypeOK, Closing, InHand, Swap, memory, poll, submitter
  <1>4. Pinned'
    BY <1>1, LiveFinite DEF TypeOK, Pinned, One, Live, Closing, Swap, memory, poll, submitter
  <1>5. ASSUME NEW r \in Ops PROVE OpInv(r)'
    <2>1. Counted(r)'
      BY <1>5, <1>1, OpsAssumption
         DEF OpInv, Counted, Count, One, Held, CreditOut, Running, Unborn, InHand, Claimed,
             Answered, Closing, TypeOK, Swap, memory, poll, submitter
    <2>2. Unborn(r)'
      BY <1>5, <1>1, OpsAssumption
         DEF OpInv, Unborn, InHand, Claimed, Answered, Closing, TypeOK, Swap, memory, poll,
             submitter
    <2>3. InHand(r)'
      BY <1>5, <1>1, OpsAssumption
         DEF OpInv, Unborn, InHand, Claimed, Answered, Closing, TypeOK, Swap, memory, poll,
             submitter
    <2>4. Claimed(r)'
      BY <1>5, <1>1, OpsAssumption
         DEF OpInv, Counted, Count, One, Held, CreditOut, Running, Unborn, InHand, Claimed,
             Answered, Closing, TypeOK, Swap, memory, poll, submitter
    <2>5. Answered(r)'
      BY <1>5, <1>1, OpsAssumption
         DEF OpInv, Counted, Count, One, Held, CreditOut, Running, Unborn, InHand, Claimed,
             Answered, Closing, TypeOK, Swap, memory, poll, submitter
    <2>6. Entered(r)'
      BY <1>5, <1>1, OpsAssumption
         DEF OpInv, Entered, Counted, Count, One, Held, CreditOut, Running, Unborn, InHand,
             Claimed, Answered, Closing, TypeOK, Swap, memory, poll, submitter
    <2> QED BY <2>1, <2>2, <2>3, <2>4, <2>5, <2>6 DEF OpInv
  <1> QED BY <1>2, <1>3, <1>4, <1>5 DEF IInv

LEMMA DropDrainedKeeps ==
  ASSUME IInv, NEW q \in Ops, DropDrained(q)
  PROVE  IInv'
  <1>1. TypeOK /\ Closing /\ Pinned /\ \A r \in Ops : OpInv(r)
    BY DEF IInv
  <1>2. life[q] = "live" /\ refs[q] \in Nat \ {0}
    BY <1>1
       DEF OpInv, TypeOK, Counted, Count, One, Held, CreditOut, Running, InHand, Closing,
           DropDrained
  <1>3. Dropped(q)
    BY <1>1, <1>2, DropEffect DEF DropDrained, Drop, poll, submitter
  <1>4. TypeOK'
    BY <1>1, <1>2, <1>3, OpsAssumption, LiveFinite
       DEF TypeOK, WorkStates, Pinned, One, DropDrained, poll, submitter, Dropped
  <1>5. Closing'
    BY <1>1, <1>2, <1>3, OpsAssumption
       DEF OpInv, TypeOK, Closing, InHand, DropDrained, poll, submitter, Dropped
  <1>6. Pinned'
    BY <1>1, <1>2, <1>3, LiveFinite
       DEF TypeOK, Pinned, One, Live, Closing, DropDrained, poll, submitter, Dropped
  <1>7. ASSUME NEW r \in Ops PROVE OpInv(r)'
    <2>1. Counted(r)'
      BY <1>7, <1>1, <1>2, <1>3, OpsAssumption
         DEF OpInv, Counted, Count, One, Held, CreditOut, Running, Unborn, InHand, Claimed,
             Answered, Closing, TypeOK, DropDrained, poll, submitter, Dropped
    <2>2. Unborn(r)'
      BY <1>7, <1>1, <1>2, <1>3, OpsAssumption
         DEF OpInv, Unborn, InHand, Claimed, Answered, Closing, TypeOK, DropDrained, poll,
             submitter, Dropped
    <2>3. InHand(r)'
      BY <1>7, <1>1, <1>2, <1>3, OpsAssumption
         DEF OpInv, Unborn, InHand, Claimed, Answered, Closing, TypeOK, DropDrained, poll,
             submitter, Dropped
    <2>4. Claimed(r)'
      BY <1>7, <1>1, <1>2, <1>3, OpsAssumption
         DEF OpInv, Counted, Count, One, Held, CreditOut, Running, Unborn, InHand, Claimed,
             Answered, Closing, TypeOK, DropDrained, poll, submitter, Dropped
    <2>5. Answered(r)'
      BY <1>7, <1>1, <1>2, <1>3, OpsAssumption
         DEF OpInv, Counted, Count, One, Held, CreditOut, Running, Unborn, InHand, Claimed,
             Answered, Closing, TypeOK, DropDrained, poll, submitter, Dropped
    <2>6. Entered(r)'
      BY <1>7, <1>1, <1>2, <1>3, OpsAssumption
         DEF OpInv, Entered, Counted, Count, One, Held, CreditOut, Running, Unborn, InHand,
             Claimed, Answered, Closing, TypeOK, DropDrained, poll, submitter, Dropped
    <2> QED BY <2>1, <2>2, <2>3, <2>4, <2>5, <2>6 DEF OpInv
  <1> QED BY <1>4, <1>5, <1>6, <1>7 DEF IInv

LEMMA ReleasedKeeps ==
  ASSUME IInv, Released
  PROVE  IInv'
  <1>1. TypeOK /\ Closing /\ Pinned /\ \A r \in Ops : OpInv(r)
    BY DEF IInv
  <1>2. TypeOK'
    BY <1>1, OpsAssumption, LiveFinite
       DEF TypeOK, WorkStates, Pinned, One, Released, poll, submitter
  <1>3. Closing'
    BY <1>1, OpsAssumption DEF OpInv, TypeOK, Closing, InHand, Released, poll, submitter
  <1>4. Pinned'
    BY <1>1, LiveFinite DEF TypeOK, Pinned, One, Live, Closing, Released, poll, submitter
  <1>5. ASSUME NEW r \in Ops PROVE OpInv(r)'
    <2>1. Counted(r)'
      BY <1>5, <1>1, OpsAssumption
         DEF OpInv, Counted, Count, One, Held, CreditOut, Running, Unborn, InHand, Claimed,
             Answered, Closing, TypeOK, Released, poll, submitter
    <2>2. Unborn(r)'
      BY <1>5, <1>1, OpsAssumption
         DEF OpInv, Unborn, InHand, Claimed, Answered, Closing, TypeOK, Released, poll, submitter
    <2>3. InHand(r)'
      BY <1>5, <1>1, OpsAssumption
         DEF OpInv, Unborn, InHand, Claimed, Answered, Closing, TypeOK, Released, poll, submitter
    <2>4. Claimed(r)'
      BY <1>5, <1>1, OpsAssumption
         DEF OpInv, Counted, Count, One, Held, CreditOut, Running, Unborn, InHand, Claimed,
             Answered, Closing, TypeOK, Released, poll, submitter
    <2>5. Answered(r)'
      BY <1>5, <1>1, OpsAssumption
         DEF OpInv, Counted, Count, One, Held, CreditOut, Running, Unborn, InHand, Claimed,
             Answered, Closing, TypeOK, Released, poll, submitter
    <2>6. Entered(r)'
      BY <1>5, <1>1, OpsAssumption
         DEF OpInv, Entered, Counted, Count, One, Held, CreditOut, Running, Unborn, InHand,
             Claimed, Answered, Closing, TypeOK, Released, poll, submitter
    <2> QED BY <2>1, <2>2, <2>3, <2>4, <2>5, <2>6 DEF OpInv
  <1> QED BY <1>2, <1>3, <1>4, <1>5 DEF IInv

-----------------------------------------------------------------------------
(* The invariant.                                                          *)

LEMMA OpInit == Init => IInv
  <1> SUFFICES ASSUME Init PROVE IInv
    OBVIOUS
  <1>1. TypeOK /\ Closing
    BY OpsAssumption DEF Init, TypeOK, Closing, WorkStates
  <1>2. Live = {}
    BY DEF Init, Live
  <1>3. Pinned
    BY <1>2, FS_EmptySet DEF Init, Pinned, One
  <1>4. ASSUME NEW q \in Ops PROVE OpInv(q)
    BY <1>4, OpsAssumption
       DEF Init, OpInv, Counted, Count, One, Held, CreditOut, Running, Unborn, InHand, Claimed,
           Answered, Entered
  <1> QED
    BY <1>1, <1>3, <1>4 DEF IInv

LEMMA OpStep == IInv /\ [Next]_vars => IInv'
  <1> SUFFICES ASSUME IInv, [Next]_vars PROVE IInv'
    OBVIOUS
  <1>1. CASE Alloc
    BY <1>1, AllocKeeps
  <1>2. CASE AllocFails
    BY <1>2, AllocFailsKeeps
  <1>3. CASE Register
    BY <1>3, RegisterKeeps
  <1>4. CASE RegisterFails
    BY <1>4, RegisterFailsKeeps
  <1>5. CASE Enqueue
    BY <1>5, EnqueueKeeps
  <1>6. CASE EnqueueFails
    BY <1>6, EnqueueFailsKeeps
  <1>7. CASE Refuse
    BY <1>7, RefuseKeeps
  <1>8. CASE Credit
    BY <1>8, CreditKeeps
  <1>9. CASE Arm
    BY <1>9, ArmKeeps
  <1>10. CASE ClaimWon
    BY <1>10, ClaimWonKeeps
  <1>11. CASE ClaimLost
    BY <1>11, ClaimLostKeeps
  <1>12. CASE SubmitDisarm
    BY <1>12, SubmitDisarmKeeps
  <1>13. CASE Reclaim
    BY <1>13, ReclaimKeeps
  <1>14. CASE SubmitUnregister
    BY <1>14, SubmitUnregisterKeeps
  <1>15. CASE LeaveArmed
    BY <1>15, LeaveArmedKeeps
  <1>16. CASE CancelComplete
    BY <1>16, CancelCompleteKeeps
  <1>17. CASE Close
    BY <1>17, CloseKeeps
  <1>18. CASE CancelledAll
    BY <1>18, CancelledAllKeeps
  <1>19. CASE Swap
    BY <1>19, SwapKeeps
  <1>20. CASE Released
    BY <1>20, ReleasedKeeps
  <1>21. ASSUME NEW q \in Ops, Begin(q) PROVE IInv'
    BY <1>21, BeginKeeps
  <1>22. ASSUME NEW q \in Ops, Wake(q) PROVE IInv'
    BY <1>22, WakeKeeps
  <1>23. ASSUME NEW q \in Ops, WakeQueues(q) PROVE IInv'
    BY <1>23, WakeQueuesKeeps
  <1>24. ASSUME NEW q \in Ops, RunStart(q) PROVE IInv'
    BY <1>24, RunStartKeeps
  <1>25. ASSUME NEW q \in Ops, RunDisarm(q) PROVE IInv'
    BY <1>25, RunDisarmKeeps
  <1>26. ASSUME NEW q \in Ops, RunComplete(q) PROVE IInv'
    BY <1>26, RunCompleteKeeps
  <1>27. ASSUME NEW q \in Ops, RunUnregister(q) PROVE IInv'
    BY <1>27, RunUnregisterKeeps
  <1>28. ASSUME NEW q \in Ops, RunDrop(q) PROVE IInv'
    BY <1>28, RunDropKeeps
  <1>29. ASSUME NEW q \in Ops, CancelWon(q) PROVE IInv'
    BY <1>29, CancelWonKeeps
  <1>30. ASSUME NEW q \in Ops, CancelOne(q) PROVE IInv'
    BY <1>30, CancelOneKeeps
  <1>31. ASSUME NEW q \in Ops, DropDrained(q) PROVE IInv'
    BY <1>31, DropDrainedKeeps
  <1>32. CASE UNCHANGED vars
    <2>1. TypeOK' /\ Closing' /\ Pinned'
      BY <1>32 DEF IInv, TypeOK, Closing, Pinned, Live, vars, memory, poll, submitter, close
    <2>2. ASSUME NEW q \in Ops PROVE OpInv(q)'
      BY ZenonT(40), <1>32, <2>2 DEF IInv, OpInv, Counted, Count, Held, CreditOut, Unborn, InHand,
         Claimed,
         Answered, Entered, vars, memory, poll, submitter, close
    <2> QED
      BY <2>1, <2>2 DEF IInv
  <1> QED
    BY <1>1, <1>2, <1>3, <1>4, <1>5, <1>6, <1>7, <1>8, <1>9, <1>10, <1>11, <1>12, <1>13,
       <1>14, <1>15, <1>16, <1>17, <1>18, <1>19, <1>20, <1>21, <1>22, <1>23, <1>24, <1>25,
       <1>26, <1>27, <1>28, <1>29, <1>30, <1>31, <1>32
       DEF Next, Submit, Release, Run

\* Where each operation is and who holds it, in every reachable state.
THEOREM OpInvariant == Spec => []IInv
  <1>1. Init => IInv
    BY OpInit
  <1>2. IInv /\ [Next]_vars => IInv'
    BY OpStep
  <1> QED
    BY <1>1, <1>2, PTL DEF Spec

\* The variables keep their types; no count falls below 0.
THEOREM OpTypeCorrect == Spec => []TypeOK
  <1>1. IInv => TypeOK
    BY DEF IInv
  <1> QED
    BY <1>1, OpInvariant, PTL

\* The refcount rule: an operation is freed when the last party that holds it
\* lets go, and the ring and the module outlive each operation that pins them.
THEOREM RefsExactHolds == Spec => []RefsExact
  <1>1. IInv => RefsExact
    <2> SUFFICES ASSUME IInv PROVE RefsExact
      OBVIOUS
    <2>1. ASSUME NEW q \in Ops
          PROVE  refs[q] = Cardinality(Holders(q)) /\ (refs[q] > 0 <=> life[q] = "live")
      BY HoldersCounted DEF IInv, OpInv, Counted
    <2>2. Pinned
      BY DEF IInv
    <2> QED
      BY <2>1, <2>2 DEF RefsExact, Pinned, Live, One
  <1> QED
    BY <1>1, OpInvariant, PTL

\* Whoever wins the token or the work item, an operation has one completion, and
\* one that is freed while the ring is open has had it.
THEOREM AnsweredOnceHolds == Spec => []AnsweredOnce
  <1>1. IInv => AnsweredOnce
    BY DEF IInv, OpInv, Answered, AnsweredOnce
  <1> QED
    BY <1>1, OpInvariant, PTL

\* Until the last close poll_wake never finds a freed operation.
THEOREM WaitEntryAliveHolds == Spec => []WaitEntryAliveWhileOpen
  <1>1. IInv => WaitEntryAliveWhileOpen
    BY DEF IInv, TypeOK, OpInv, Entered, WaitEntryAliveWhileOpen, WaitEntryAlive
  <1> QED
    BY <1>1, OpInvariant, PTL
-----------------------------------------------------------------------------
(* The invariant.                                                          *)

Sections == {"creating", "dirop", "renaming"}
GuardKinds == Sections \cup {"slot", "path", "link", "write", "victim"}
AnyGuard == [kind : GuardKinds, dirs : SUBSET Dirs, live : BOOLEAN]

\* The steps in a section.
Inside == {"hold", "call", "mkdir"}

Types ==
  /\ op \in [Tasks -> Operations \cup {Idle}]
  /\ step \in [Tasks -> 0..9]
  /\ held \in [Tasks -> Seq(AnyGuard)]
  /\ dirLock \in [Dirs -> Tasks \cup {NoTask}]
  /\ renameLock \in Tasks \cup {NoTask}
  /\ busy \subseteq Tasks

\* A task has fewer guards than steps behind it, and none left of the steps
\* that give them back.
Placed(t) ==
  /\ op[t] = Idle => step[t] = 0 /\ held[t] = <<>>
  /\ step[t] > 0 => step[t] <= Len(Program[op[t].kind]) /\ Len(held[t]) < step[t]
  /\ Len(held[t]) <= 9
  /\ step[t] = 1 => held[t] = <<>>
  /\ step[t] = 2 => held[t] = <<Guard("slot", {})>>
  /\ step[t] = 3 /\ op[t].kind = "mkdir" => held[t] = <<>>
  /\ AtStep(t, "mkdir") => held[t] = <<Guard("creating", {op[t].dir})>>

\* A section is the last guard an operation takes, and the first it drops.
Stacked(t) ==
  \A i \in 1..Len(held[t]) :
    LET g == held[t][i] IN
    /\ g.kind \in Sections => i = Len(held[t])
    /\ g.kind \in Sections /\ step[t] > 0 => Program[op[t].kind][step[t]] \in Inside
    /\ g.kind = "slot" => i = 1
    /\ ~g.live => g.kind = "victim" \/ (g.kind = "creating" /\ step[t] = 0)

\* A task has the locks of its section, or of the renaming it is to open.
Locks(t) ==
  /\ \A d \in Dirs :
       dirLock[d] = t =>
         \/ AtStep(t, "renaming") /\ d \in {op[t].dir, op[t].to}
         \/ \E i \in 1..Len(held[t]) :
              held[t][i].kind \in Sections /\ held[t][i].live /\ d \in held[t][i].dirs
  /\ renameLock = t =>
       \/ AtStep(t, "renaming")
       \/ \E i \in 1..Len(held[t]) : held[t][i].kind = "renaming"

\* SectionsKept, of one task.
Kept(t) ==
  \A i \in 1..Len(held[t]) :
    LET g == held[t][i] IN
    /\ g.kind \in Sections /\ g.live => \A d \in g.dirs : dirLock[d] = t
    /\ g.kind \in {"write", "creating"} => \A d \in g.dirs : MountOf[d] \notin readonly

Claims(t) == t \in busy <=> \E i \in 1..Len(held[t]) : held[t][i].kind = "slot"

TaskInv(t) == Placed(t) /\ Stacked(t) /\ Locks(t) /\ Kept(t) /\ Claims(t)

CountInv ==
  /\ \A d \in Dirs : IsFiniteSet(Holding(d))
  /\ pathRefs = [d \in Dirs |-> Cardinality(Holding(d))]
  /\ \A m \in Mounts : IsFiniteSet(Writing(m))
  /\ writers = [m \in Mounts |-> Cardinality(Writing(m))]

PathInv == Types /\ CountInv /\ \A t \in Tasks : TaskInv(t)

-----------------------------------------------------------------------------
(* The programs.                                                           *)

\* Where the steps that matter stand in each operation.
LEMMA Programs ==
  ASSUME NEW k \in Kinds, NEW n \in 1..Len(Program[k])
  PROVE  /\ Len(Program[k]) \in 4..9
         /\ Program[k][n] = "claim" <=> n = 1
         /\ Program[k][n] \in {"copy", "snapshot"} <=> n = 2
         /\ k = "mkdir" /\ n = 2 => Program[k][n] = "copy"
         /\ Program[k][n] = "mkdir" <=> k = "mkdir" /\ n = 4
         /\ k = "mkdir" /\ n = 3 => Program[k][n] = "creating"
         /\ Program[k][n] \notin {"call", "mkdir"} => n < Len(Program[k])
         /\ Program[k][n] \in Sections \cup {"hold"} => Program[k][n + 1] \in Inside
         /\ k = "mkdir" => Len(Program[k]) = 4
  <1>1. CASE k = "attr"
    BY <1>1 DEF Program, Sections, Inside
  <1>2. CASE k = "statx"
    BY <1>2 DEF Program, Sections, Inside
  <1>3. CASE k = "readlink"
    BY <1>3 DEF Program, Sections, Inside
  <1>4. CASE k = "mkdir"
    BY <1>4 DEF Program, Sections, Inside
  <1>5. CASE k = "symlink"
    BY <1>5 DEF Program, Sections, Inside
  <1>6. CASE k = "remove"
    BY <1>6 DEF Program, RemoveSteps, Sections, Inside
  <1>7. CASE k = "rename"
    BY <1>7 DEF Program, RenameSteps, Sections, Inside
  <1>8. QED
    BY <1>1, <1>2, <1>3, <1>4, <1>5, <1>6, <1>7 DEF Kinds, Program

\* What a task that is at a step can rely on.
LEMMA AtStepFacts ==
  ASSUME Types, NEW t \in Tasks, Placed(t), step[t] > 0
  PROVE  /\ op[t] \in Operations /\ op[t].kind \in Kinds
         /\ op[t].dir \in Dirs /\ op[t].to \in Dirs
         /\ step[t] \in 1..Len(Program[op[t].kind]) /\ step[t] \in Nat /\ op[t] # Idle
         /\ held[t] \in Seq(AnyGuard) /\ Len(held[t]) \in 0..8
         /\ \A i \in 1..Len(held[t]) : held[t][i] \in AnyGuard
  <1>1. op[t] \in Operations /\ op[t] # Idle
    BY DEF Types, Placed
  <1>2. op[t].kind \in Kinds /\ op[t].dir \in Dirs /\ op[t].to \in Dirs
    BY <1>1 DEF Operations
  <1>3. step[t] \in 0..9 /\ held[t] \in Seq(AnyGuard)
    BY DEF Types
  <1>4. step[t] <= Len(Program[op[t].kind]) /\ Len(held[t]) < step[t]
    BY DEF Placed
  <1>5. Len(Program[op[t].kind]) \in Nat
    BY <1>2 DEF Program, Kinds, RemoveSteps, RenameSteps
  <1> DEFINE h == held[t]
             l == Len(h)
             p == Len(Program[op[t].kind])
  <1>6. h \in Seq(AnyGuard) /\ l < step[t] /\ step[t] \in 0..9 /\ step[t] <= p /\ p \in Nat
    BY <1>3, <1>4, <1>5
  <1> HIDE DEF h, l, p
  <1>7. step[t] \in 1..p /\ step[t] \in Nat /\ l \in Nat
    BY <1>6 DEF l
  <1>8. l \in 0..8
    BY <1>6, <1>7
  <1>9. \A i \in 1..l : h[i] \in AnyGuard
    BY <1>6 DEF l
  <1>10. held[t] \in Seq(AnyGuard) /\ Len(held[t]) \in 0..8 /\ \A i \in 1..Len(held[t]) : held[t][i] \in AnyGuard
    BY <1>6, <1>8, <1>9 DEF h, l
  <1>11. QED
    BY <1>1, <1>2, <1>7, <1>10 DEF p

\* Where a step leads when it is done.
LEMMA AdvanceIs ==
  ASSUME Types, NEW t \in Tasks, Placed(t), NEW s, AtStep(t, s), Advance(t)
  PROVE  /\ s \in {"call", "mkdir"} \/ (step'[t] = step[t] + 1 /\ step'[t] <= Len(Program[op[t].kind]))
         /\ step' \in [Tasks -> 0..9]
         /\ \A u \in Tasks : u # t => step'[u] = step[u]
  <1> DEFINE k == op[t].kind
             n == step[t]
             l == Len(Program[k])
  <1>1. k \in Kinds /\ n \in 1..l
    BY AtStepFacts DEF AtStep
  <1>2. l \in 4..9 /\ (Program[k][n] \notin {"call", "mkdir"} => n < l)
    BY <1>1, Programs
  <1>3. Program[k][n] = s
    BY DEF AtStep
  <1>4. step' = [step EXCEPT ![t] = IF n = l THEN 0 ELSE n + 1]
    BY DEF Advance, GotoStep
  <1>5. step \in [Tasks -> 0..9]
    BY DEF Types
  <1> HIDE DEF k, n, l
  <1>6. (IF n = l THEN 0 ELSE n + 1) \in 0..9
    BY <1>1, <1>2
  <1>7. step' \in [Tasks -> 0..9] /\ \A u \in Tasks : u # t => step'[u] = step[u]
    BY <1>4, <1>5, <1>6
  <1>8. step'[t] = IF n = l THEN 0 ELSE n + 1
    BY <1>4, <1>5
  <1>9. s \in {"call", "mkdir"} \/ (step'[t] = n + 1 /\ step'[t] <= l)
    BY <1>1, <1>2, <1>3, <1>8
  <1>10. QED
    BY <1>7, <1>9 DEF n, l, k

\* The other tasks: a step that leaves them, their locks and their slots alone.
Beside(t) ==
  \A u \in Tasks \ {t} :
    /\ op'[u] = op[u] /\ step'[u] = step[u] /\ held'[u] = held[u]
    /\ \A d \in Dirs : dirLock'[d] = u <=> dirLock[d] = u
    /\ renameLock' = u <=> renameLock = u
    /\ u \in busy' <=> u \in busy

\* A step leaves the invariant to the tasks it leaves alone.
LEMMA OthersKeep ==
  ASSUME Types, NEW t \in Tasks, \A u \in Tasks : TaskInv(u), Beside(t), readonly' = readonly,
         TaskInv(t)'
  PROVE  \A u \in Tasks : TaskInv(u)'
  <1> SUFFICES ASSUME NEW u \in Tasks \ {t} PROVE TaskInv(u)'
    OBVIOUS
  <1>1. /\ op'[u] = op[u] /\ step'[u] = step[u] /\ held'[u] = held[u]
        /\ \A d \in Dirs : dirLock'[d] = u <=> dirLock[d] = u
        /\ renameLock' = u <=> renameLock = u
        /\ u \in busy' <=> u \in busy
    BY DEF Beside
  <1>2. Placed(u)'
    BY <1>1 DEF TaskInv, Placed, AtStep
  <1>3. Stacked(u)'
    BY <1>1 DEF TaskInv, Stacked
  <1>4. Locks(u)'
    BY <1>1 DEF TaskInv, Locks, AtStep
  <1>5. Kept(u)'
    <2>1. held[u] \in Seq(AnyGuard)
      BY DEF Types
    <2>2. \A i \in 1..Len(held[u]) : held[u][i].dirs \subseteq Dirs
      <3>1. \A i \in 1..Len(held[u]) : held[u][i] \in AnyGuard
        BY <2>1
      <3>2. QED
        BY <3>1 DEF AnyGuard
    <2>3. Kept(u)
      BY DEF TaskInv
    <2>4. QED
      BY <1>1, <2>2, <2>3 DEF Kept
  <1>6. Claims(u)'
    BY <1>1 DEF TaskInv, Claims
  <1>7. QED
    BY <1>2, <1>3, <1>4, <1>5, <1>6 DEF TaskInv

-----------------------------------------------------------------------------
(* Counting guards.                                                        *)

\* A guard g of operation o holds a reference of d, a write count of m.
HoldsRef(o, g, d) ==
  \/ g.kind \in {"path", "creating"} /\ d \in g.dirs
  \/ g.kind = "renaming" /\ d = o.dir

HoldsWrite(g, m) == g.kind \in {"write", "creating"} /\ m \in MountsOf(g.dirs)

HoldingForm ==
  \A d, m :
    /\ Holding(d) = {x \in Tasks \X (1..9) : x[2] \in 1..Len(held[x[1]])
                           /\ HoldsRef(op[x[1]], held[x[1]][x[2]], d)}
    /\ Writing(m) = {x \in Tasks \X (1..9) : x[2] \in 1..Len(held[x[1]])
                           /\ HoldsWrite(held[x[1]][x[2]], m)}

\* The counted guards, by their place in the stacks.
LEMMA HoldingIs == Types => HoldingForm
  <1> SUFFICES ASSUME Types PROVE HoldingForm
    OBVIOUS
  <1>1. \A t \in Tasks : DOMAIN held[t] = 1..Len(held[t])
    <2>1. ASSUME NEW t \in Tasks PROVE DOMAIN held[t] = 1..Len(held[t])
      <3>1. held[t] \in Seq(AnyGuard)
        BY DEF Types
      <3>2. QED
        BY <3>1
    <2>2. QED
      BY <2>1
  <1>2. Guards = {x \in Tasks \X (1..9) : x[2] \in 1..Len(held[x[1]])}
    BY <1>1 DEF Guards
  <1>3. QED
    BY <1>2 DEF HoldingForm, Holding, Writing, HoldsRef, HoldsWrite

\* Nothing is counted that was not, where guards change nothing that counts.
LEMMA SameCount ==
  ASSUME Types, Types', CountInv, pathRefs' = pathRefs, writers' = writers,
         \A t \in Tasks, i \in 1..9 :
           /\ (i \in 1..Len(held'[t]) /\ held'[t][i].kind \in GuardKinds \ {"slot", "victim", "link", "dirop"})
                <=> (i \in 1..Len(held[t]) /\ held[t][i].kind \in GuardKinds \ {"slot", "victim", "link", "dirop"})
           /\ i \in 1..Len(held[t]) /\ i \in 1..Len(held'[t]) =>
                /\ held'[t][i].kind = held[t][i].kind /\ held'[t][i].dirs = held[t][i].dirs
                /\ op'[t] = op[t]
  PROVE  CountInv'
  <1>1. ASSUME NEW t \in Tasks, NEW i \in 1..9, NEW d, NEW m
        PROVE  /\ (i \in 1..Len(held'[t]) /\ HoldsRef(op'[t], held'[t][i], d))
                    <=> (i \in 1..Len(held[t]) /\ HoldsRef(op[t], held[t][i], d))
               /\ (i \in 1..Len(held'[t]) /\ HoldsWrite(held'[t][i], m))
                    <=> (i \in 1..Len(held[t]) /\ HoldsWrite(held[t][i], m))
    BY DEF HoldsRef, HoldsWrite, GuardKinds, Sections
  <1>2. HoldingForm /\ HoldingForm'
    BY HoldingIs, PTL
  <1>3. ASSUME NEW d, NEW m PROVE Holding(d)' = Holding(d) /\ Writing(m)' = Writing(m)
    <2>1. ASSUME NEW x \in Tasks \X (1..9)
          PROVE  /\ (x[2] \in 1..Len(held'[x[1]]) /\ HoldsRef(op'[x[1]], held'[x[1]][x[2]], d))
                      <=> (x[2] \in 1..Len(held[x[1]]) /\ HoldsRef(op[x[1]], held[x[1]][x[2]], d))
                 /\ (x[2] \in 1..Len(held'[x[1]]) /\ HoldsWrite(held'[x[1]][x[2]], m))
                      <=> (x[2] \in 1..Len(held[x[1]]) /\ HoldsWrite(held[x[1]][x[2]], m))
      <3>1. x[1] \in Tasks /\ x[2] \in 1..9
        OBVIOUS
      <3>2. QED
        BY <1>1, <3>1
    <2>2. /\ Holding(d) = {x \in Tasks \X (1..9) : x[2] \in 1..Len(held[x[1]])
                                 /\ HoldsRef(op[x[1]], held[x[1]][x[2]], d)}
          /\ Writing(m) = {x \in Tasks \X (1..9) : x[2] \in 1..Len(held[x[1]])
                                 /\ HoldsWrite(held[x[1]][x[2]], m)}
          /\ Holding(d)' = {x \in Tasks \X (1..9) : x[2] \in 1..Len(held'[x[1]])
                                 /\ HoldsRef(op'[x[1]], held'[x[1]][x[2]], d)}
          /\ Writing(m)' = {x \in Tasks \X (1..9) : x[2] \in 1..Len(held'[x[1]])
                                 /\ HoldsWrite(held'[x[1]][x[2]], m)}
      BY <1>2, Zenon DEF HoldingForm
    <2>3. QED
      BY <2>1, <2>2, Zenon
  <1>4. \A d : Holding(d)' = Holding(d)
    BY <1>3
  <1>5. \A m : Writing(m)' = Writing(m)
    BY <1>3
  <1>6. QED
    BY <1>4, <1>5 DEF CountInv

\* One pair more, or none.
LEMMA OneMore ==
  ASSUME NEW S, IsFiniteSet(S), NEW x, x \notin S, NEW T, NEW b \in BOOLEAN,
         T = S \cup (IF b THEN {x} ELSE {})
  PROVE  /\ IsFiniteSet(T) /\ Cardinality(S) \in Nat
         /\ Cardinality(T) = Cardinality(S) + (IF b THEN 1 ELSE 0)
  <1>1. Cardinality(S) \in Nat
    BY FS_CardinalityType
  <1>2. CASE b
    BY <1>1, <1>2, FS_AddElement
  <1>3. CASE ~b
    <2>1. T = S
      BY <1>3
    <2>2. QED
      BY <1>1, <1>3, <2>1
  <1>4. QED
    BY <1>2, <1>3

\* And one less.
LEMMA OneLess ==
  ASSUME NEW T, IsFiniteSet(T), NEW S, NEW x, x \notin S, NEW b \in BOOLEAN,
         T = S \cup (IF b THEN {x} ELSE {})
  PROVE  /\ IsFiniteSet(S)
         /\ Cardinality(S) = Cardinality(T) - (IF b THEN 1 ELSE 0)
  <1>1. S \subseteq T
    OBVIOUS
  <1>2. IsFiniteSet(S)
    BY <1>1, FS_Subset
  <1>3. /\ Cardinality(S) \in Nat
        /\ Cardinality(T) = Cardinality(S) + (IF b THEN 1 ELSE 0)
    BY <1>2, OneMore
  <1>4. QED
    BY <1>2, <1>3

\* The guards in held' are those in held, and g is the n-th of t.
GoesOnTop(t, n, g, h, h2, o, o2) ==
  /\ n \in 1..9 /\ o2[t] = o[t]
  /\ n \notin 1..Len(h[t]) /\ n \in 1..Len(h2[t]) /\ h2[t][n] = g
  /\ \A u \in Tasks, i \in 1..9 :
       u # t \/ i # n =>
         /\ i \in 1..Len(h2[u]) <=> i \in 1..Len(h[u])
         /\ i \in 1..Len(h[u]) => h2[u][i] = h[u][i]
         /\ o2[u] = o[u]

RefPairs(h, o, d) ==
  {x \in Tasks \X (1..9) : x[2] \in 1..Len(h[x[1]]) /\ HoldsRef(o[x[1]], h[x[1]][x[2]], d)}

WritePairs(h, m) ==
  {x \in Tasks \X (1..9) : x[2] \in 1..Len(h[x[1]]) /\ HoldsWrite(h[x[1]][x[2]], m)}

\* What the n-th guard of t, g, adds to them.
TopRef(t, n, g, o, d) == IF HoldsRef(o[t], g, d) THEN {<<t, n>>} ELSE {}
TopWrite(t, n, g, m) == IF HoldsWrite(g, m) THEN {<<t, n>>} ELSE {}

\* A guard on top is one pair more in what is counted of it, and none elsewhere.
LEMMA OnePair ==
  ASSUME NEW t \in Tasks, NEW n, NEW g, NEW h, NEW h2, NEW o, NEW o2,
         GoesOnTop(t, n, g, h, h2, o, o2), NEW d, NEW m
  PROVE  /\ <<t, n>> \notin RefPairs(h, o, d) /\ <<t, n>> \notin WritePairs(h, m)
         /\ RefPairs(h2, o2, d) = RefPairs(h, o, d) \cup TopRef(t, n, g, o, d)
         /\ WritePairs(h2, m) = WritePairs(h, m) \cup TopWrite(t, n, g, m)
  <1>1. <<t, n>> \in Tasks \X (1..9) /\ <<t, n>>[1] = t /\ <<t, n>>[2] = n
    BY DEF GoesOnTop
  <1>2. <<t, n>> \notin RefPairs(h, o, d) /\ <<t, n>> \notin WritePairs(h, m)
    BY <1>1 DEF GoesOnTop, RefPairs, WritePairs
  <1>3. /\ <<t, n>> \in RefPairs(h2, o2, d) <=> HoldsRef(o[t], g, d)
        /\ <<t, n>> \in WritePairs(h2, m) <=> HoldsWrite(g, m)
    BY <1>1 DEF GoesOnTop, RefPairs, WritePairs
  <1>4. ASSUME NEW x \in Tasks \X (1..9), x # <<t, n>>
        PROVE  /\ x \in RefPairs(h2, o2, d) <=> x \in RefPairs(h, o, d)
               /\ x \in WritePairs(h2, m) <=> x \in WritePairs(h, m)
    <2>1. x[1] \in Tasks /\ x[2] \in 1..9 /\ (x[1] # t \/ x[2] # n)
      BY <1>4
    <2>2. /\ x[2] \in 1..Len(h2[x[1]]) <=> x[2] \in 1..Len(h[x[1]])
          /\ x[2] \in 1..Len(h[x[1]]) => h2[x[1]][x[2]] = h[x[1]][x[2]]
          /\ o2[x[1]] = o[x[1]]
      BY <2>1 DEF GoesOnTop
    <2>3. QED
      BY <2>2 DEF RefPairs, WritePairs
  <1>5. /\ RefPairs(h2, o2, d) \subseteq Tasks \X (1..9) /\ RefPairs(h, o, d) \subseteq Tasks \X (1..9)
        /\ WritePairs(h2, m) \subseteq Tasks \X (1..9) /\ WritePairs(h, m) \subseteq Tasks \X (1..9)
    BY DEF RefPairs, WritePairs
  <1>6. RefPairs(h2, o2, d) = RefPairs(h, o, d) \cup TopRef(t, n, g, o, d)
    BY <1>1, <1>2, <1>3, <1>4, <1>5 DEF TopRef
  <1>7. WritePairs(h2, m) = WritePairs(h, m) \cup TopWrite(t, n, g, m)
    BY <1>1, <1>2, <1>3, <1>4, <1>5 DEF TopWrite
  <1>8. QED
    BY <1>2, <1>6, <1>7

\* The counts stay exact when a guard is pushed with what it takes.
LEMMA Pushed ==
  ASSUME Types, Types', CountInv, NEW t \in Tasks, NEW g \in AnyGuard, Len(held[t]) \in 0..8,
         Push(t, g), op' = op,
         pathRefs' = [d \in Dirs |-> IF HoldsRef(op[t], g, d) THEN pathRefs[d] + 1 ELSE pathRefs[d]],
         writers' = [m \in Mounts |-> IF HoldsWrite(g, m) THEN writers[m] + 1 ELSE writers[m]]
  PROVE  CountInv'
  <1> DEFINE n == Len(held[t]) + 1
  <1>1. held \in [Tasks -> Seq(AnyGuard)]
    BY DEF Types
  <1>2. held'[t] = Append(held[t], g) /\ \A u \in Tasks : u # t => held'[u] = held[u]
    BY <1>1 DEF Push
  <1>3. /\ Len(held'[t]) = n /\ held'[t][n] = g
        /\ \A i \in 1..Len(held[t]) : held'[t][i] = held[t][i]
    <2>1. held[t] \in Seq(AnyGuard)
      BY <1>1
    <2>2. QED
      BY <1>2, <2>1, AppendProperties
  <1>4. n \in 1..9 /\ Len(held[t]) = n - 1
    <2> DEFINE l == Len(held[t])
    <2>1. l \in 0..8
      OBVIOUS
    <2> HIDE DEF l
    <2>2. l + 1 \in 1..9 /\ l = (l + 1) - 1
      BY <2>1
    <2>3. QED
      BY <2>2 DEF l
  <1> HIDE DEF n
  <1>5. GoesOnTop(t, n, g, held, held', op, op')
    <2>1. n \notin 1..Len(held[t]) /\ n \in 1..Len(held'[t])
      BY <1>3, <1>4
    <2>2. ASSUME NEW u \in Tasks, NEW i \in 1..9, u # t \/ i # n
          PROVE  /\ i \in 1..Len(held'[u]) <=> i \in 1..Len(held[u])
                 /\ i \in 1..Len(held[u]) => held'[u][i] = held[u][i]
                 /\ op'[u] = op[u]
      <3>1. CASE u # t
        BY <1>2, <3>1
      <3>2. CASE u = t
        BY <1>3, <1>4, <2>2, <3>2
      <3>3. QED
        BY <3>1, <3>2
    <2>3. QED
      BY <1>3, <1>4, <2>1, <2>2 DEF GoesOnTop
  <1>6. HoldingForm /\ HoldingForm'
    BY HoldingIs, PTL
  <1>7. \A d, m : /\ Holding(d) = RefPairs(held, op, d) /\ Writing(m) = WritePairs(held, m)
                  /\ Holding(d)' = RefPairs(held', op', d) /\ Writing(m)' = WritePairs(held', m)
    BY <1>6, Zenon DEF HoldingForm, RefPairs, WritePairs
  <1>8. ASSUME NEW d \in Dirs
        PROVE  /\ IsFiniteSet(Holding(d)') /\ Cardinality(Holding(d)') = pathRefs'[d]
    <2>1. /\ <<t, n>> \notin Holding(d) /\ HoldsRef(op[t], g, d) \in BOOLEAN
          /\ Holding(d)' = Holding(d) \cup (IF HoldsRef(op[t], g, d) THEN {<<t, n>>} ELSE {})
      BY <1>5, <1>7, OnePair DEF TopRef, HoldsRef
    <2>2. IsFiniteSet(Holding(d)) /\ pathRefs[d] = Cardinality(Holding(d))
      BY DEF CountInv
    <2>3. /\ IsFiniteSet(Holding(d)') /\ Cardinality(Holding(d)) \in Nat
          /\ Cardinality(Holding(d)') = Cardinality(Holding(d)) + (IF HoldsRef(op[t], g, d) THEN 1 ELSE 0)
      BY <2>1, <2>2, OneMore
    <2>4. pathRefs'[d] = IF HoldsRef(op[t], g, d) THEN pathRefs[d] + 1 ELSE pathRefs[d]
      OBVIOUS
    <2>5. QED
      BY <2>2, <2>3, <2>4
  <1>9. ASSUME NEW m \in Mounts
        PROVE  /\ IsFiniteSet(Writing(m)') /\ Cardinality(Writing(m)') = writers'[m]
    <2>1. /\ <<t, n>> \notin Writing(m) /\ HoldsWrite(g, m) \in BOOLEAN
          /\ Writing(m)' = Writing(m) \cup (IF HoldsWrite(g, m) THEN {<<t, n>>} ELSE {})
      BY <1>5, <1>7, OnePair DEF TopWrite, HoldsWrite
    <2>2. IsFiniteSet(Writing(m)) /\ writers[m] = Cardinality(Writing(m))
      BY DEF CountInv
    <2>3. /\ IsFiniteSet(Writing(m)') /\ Cardinality(Writing(m)) \in Nat
          /\ Cardinality(Writing(m)') = Cardinality(Writing(m)) + (IF HoldsWrite(g, m) THEN 1 ELSE 0)
      BY <2>1, <2>2, OneMore
    <2>4. writers'[m] = IF HoldsWrite(g, m) THEN writers[m] + 1 ELSE writers[m]
      OBVIOUS
    <2>5. QED
      BY <2>2, <2>3, <2>4
  <1>10. pathRefs' = [d \in Dirs |-> pathRefs'[d]] /\ writers' = [m \in Mounts |-> writers'[m]]
    OBVIOUS
  <1>11. QED
    BY <1>8, <1>9, <1>10, Zenon DEF CountInv

\* The guard on top is dropped.
Pop(t) == held' = [held EXCEPT ![t] = SubSeq(@, 1, Len(@) - 1)]

TopOf(t) == held[t][Len(held[t])]

\* And when the one on top is dropped with what it gives back.
LEMMA Popped ==
  ASSUME Types, Types', CountInv, NEW t \in Tasks, held[t] # <<>>, Len(held[t]) \in 0..9,
         Pop(t), op' = op, NEW g, g = TopOf(t),
         pathRefs' = [d \in Dirs |-> IF HoldsRef(op[t], g, d) THEN pathRefs[d] - 1 ELSE pathRefs[d]],
         writers' = [m \in Mounts |-> IF HoldsWrite(g, m) THEN writers[m] - 1 ELSE writers[m]]
  PROVE  CountInv'
  <1> DEFINE n == Len(held[t])
  <1>1. held \in [Tasks -> Seq(AnyGuard)]
    BY DEF Types
  <1>2. held'[t] = SubSeq(held[t], 1, n - 1) /\ \A u \in Tasks : u # t => held'[u] = held[u]
    BY <1>1 DEF Pop
  <1>3. n \in 1..9
    <2>1. held[t] \in Seq(AnyGuard)
      BY <1>1
    <2>2. n # 0 /\ n \in 0..9
      BY <2>1, EmptySeq
    <2> HIDE DEF n
    <2>3. QED
      BY <2>2
  <1>4. /\ Len(held'[t]) = n - 1
        /\ \A i \in 1..(n - 1) : held'[t][i] = held[t][i]
    <2> DEFINE h == held[t]
    <2>1. h \in Seq(AnyGuard) /\ Len(h) = n
      BY <1>1
    <2> HIDE DEF h, n
    <2>2. SubSeq(h, 1, n - 1) = [i \in 1..(n - 1) |-> h[i]] /\ n - 1 \in Nat
      BY <1>3, <2>1
    <2>3. QED
      BY <1>2, <2>2 DEF h
  <1>5. held[t][n] = g /\ Len(held[t]) = n
    BY DEF TopOf
  <1> HIDE DEF n
  <1>6. GoesOnTop(t, n, g, held', held, op, op)
    <2>1. n \notin 1..Len(held'[t]) /\ n \in 1..Len(held[t])
      BY <1>3, <1>4, <1>5
    <2>2. ASSUME NEW u \in Tasks, NEW i \in 1..9, u # t \/ i # n
          PROVE  /\ i \in 1..Len(held[u]) <=> i \in 1..Len(held'[u])
                 /\ i \in 1..Len(held'[u]) => held[u][i] = held'[u][i]
      <3>1. CASE u # t
        BY <1>2, <3>1
      <3>2. CASE u = t
        BY <1>3, <1>4, <1>5, <2>2, <3>2
      <3>3. QED
        BY <3>1, <3>2
    <2>3. QED
      BY <1>3, <1>5, <2>1, <2>2 DEF GoesOnTop
  <1>7. HoldingForm /\ HoldingForm'
    BY HoldingIs, PTL
  <1>8. \A d, m : /\ Holding(d) = RefPairs(held, op, d) /\ Writing(m) = WritePairs(held, m)
                  /\ Holding(d)' = RefPairs(held', op, d) /\ Writing(m)' = WritePairs(held', m)
    BY <1>7 DEF HoldingForm, RefPairs, WritePairs
  <1>9. op' = op
    OBVIOUS
  <1>10. ASSUME NEW d, NEW m
         PROVE  /\ <<t, n>> \notin Holding(d)' /\ <<t, n>> \notin Writing(m)'
                /\ HoldsRef(op[t], g, d) \in BOOLEAN /\ HoldsWrite(g, m) \in BOOLEAN
                /\ Holding(d) = Holding(d)' \cup (IF HoldsRef(op[t], g, d) THEN {<<t, n>>} ELSE {})
                /\ Writing(m) = Writing(m)' \cup (IF HoldsWrite(g, m) THEN {<<t, n>>} ELSE {})
    <2>1. /\ <<t, n>> \notin RefPairs(held', op, d) /\ <<t, n>> \notin WritePairs(held', m)
          /\ RefPairs(held, op, d) = RefPairs(held', op, d) \cup TopRef(t, n, g, op, d)
          /\ WritePairs(held, m) = WritePairs(held', m) \cup TopWrite(t, n, g, m)
      BY <1>6, OnePair
    <2>2. Holding(d) = Holding(d)' \cup TopRef(t, n, g, op, d)
      BY <1>8, <2>1
    <2>3. Writing(m) = Writing(m)' \cup TopWrite(t, n, g, m)
      BY <1>8, <2>1
    <2>4. <<t, n>> \notin Holding(d)' /\ <<t, n>> \notin Writing(m)'
      BY <1>8, <2>1
    <2>5. QED
      BY <2>2, <2>3, <2>4 DEF TopRef, TopWrite, HoldsRef, HoldsWrite
  <1>11. ASSUME NEW d \in Dirs
        PROVE  /\ IsFiniteSet(Holding(d)') /\ Cardinality(Holding(d)') = pathRefs'[d]
    <2>1. /\ <<t, n>> \notin Holding(d)' /\ HoldsRef(op[t], g, d) \in BOOLEAN
          /\ Holding(d) = Holding(d)' \cup (IF HoldsRef(op[t], g, d) THEN {<<t, n>>} ELSE {})
      BY <1>10
    <2>2. IsFiniteSet(Holding(d)) /\ pathRefs[d] = Cardinality(Holding(d))
      BY DEF CountInv
    <2>3. /\ IsFiniteSet(Holding(d)')
          /\ Cardinality(Holding(d)') = Cardinality(Holding(d)) - (IF HoldsRef(op[t], g, d) THEN 1 ELSE 0)
      BY <2>1, <2>2, OneLess
    <2>4. pathRefs'[d] = IF HoldsRef(op[t], g, d) THEN pathRefs[d] - 1 ELSE pathRefs[d]
      OBVIOUS
    <2>5. Cardinality(Holding(d)) \in Nat
      BY <2>2, FS_CardinalityType
    <2>6. CASE HoldsRef(op[t], g, d)
      <3>1. Cardinality(Holding(d)') = Cardinality(Holding(d)) - 1 /\ pathRefs'[d] = pathRefs[d] - 1
        BY <2>3, <2>4, <2>6
      <3>2. QED
        BY <2>2, <2>3, <3>1
    <2>7. CASE ~HoldsRef(op[t], g, d)
      <3>1. Cardinality(Holding(d)') = Cardinality(Holding(d)) /\ pathRefs'[d] = pathRefs[d]
        BY <2>3, <2>4, <2>5, <2>7
      <3>2. QED
        BY <2>2, <2>3, <3>1
    <2>8. QED
      BY <2>6, <2>7
  <1>12. ASSUME NEW m \in Mounts
         PROVE  /\ IsFiniteSet(Writing(m)') /\ Cardinality(Writing(m)') = writers'[m]
    <2>1. /\ <<t, n>> \notin Writing(m)' /\ HoldsWrite(g, m) \in BOOLEAN
          /\ Writing(m) = Writing(m)' \cup (IF HoldsWrite(g, m) THEN {<<t, n>>} ELSE {})
      BY <1>10
    <2>2. IsFiniteSet(Writing(m)) /\ writers[m] = Cardinality(Writing(m))
      BY DEF CountInv
    <2>3. /\ IsFiniteSet(Writing(m)')
          /\ Cardinality(Writing(m)') = Cardinality(Writing(m)) - (IF HoldsWrite(g, m) THEN 1 ELSE 0)
      BY <2>1, <2>2, OneLess
    <2>4. writers'[m] = IF HoldsWrite(g, m) THEN writers[m] - 1 ELSE writers[m]
      OBVIOUS
    <2>5. Cardinality(Writing(m)) \in Nat
      BY <2>2, FS_CardinalityType
    <2>6. CASE HoldsWrite(g, m)
      <3>1. Cardinality(Writing(m)') = Cardinality(Writing(m)) - 1 /\ writers'[m] = writers[m] - 1
        BY <2>3, <2>4, <2>6
      <3>2. QED
        BY <2>2, <2>3, <3>1
    <2>7. CASE ~HoldsWrite(g, m)
      <3>1. Cardinality(Writing(m)') = Cardinality(Writing(m)) /\ writers'[m] = writers[m]
        BY <2>3, <2>4, <2>5, <2>7
      <3>2. QED
        BY <2>2, <2>3, <3>1
    <2>8. QED
      BY <2>6, <2>7
  <1>13. pathRefs' = [d \in Dirs |-> pathRefs'[d]] /\ writers' = [m \in Mounts |-> writers'[m]]
    OBVIOUS
  <1>14. QED
    BY <1>11, <1>12, <1>13, Zenon DEF CountInv

-----------------------------------------------------------------------------
(* Steps.                                                                  *)

\* A step of one task, put together.
LEMMA StepIs ==
  ASSUME PathInv, NEW t \in Tasks, Types', CountInv', Beside(t), readonly' = readonly, TaskInv(t)'
  PROVE  PathInv'
  <1>1. \A u \in Tasks : TaskInv(u)'
    BY OthersKeep DEF PathInv
  <1>2. QED
    BY <1>1 DEF PathInv

\* What comes after a step.
LEMMA NextStep ==
  ASSUME Types, NEW t \in Tasks, Placed(t), NEW s, AtStep(t, s), Advance(t), op' = op,
         s \notin {"call", "mkdir"}
  PROVE  /\ step' \in [Tasks -> 0..9] /\ \A u \in Tasks : u # t => step'[u] = step[u]
         /\ step'[t] = step[t] + 1 /\ step'[t] \in 2..Len(Program[op[t].kind])
         /\ step'[t] = 2 <=> s = "claim"
         /\ step'[t] = 3 /\ op[t].kind = "mkdir" => s = "copy"
         /\ AtStep(t, "mkdir")' => s = "creating" /\ op[t].kind = "mkdir" /\ step[t] = 3
         /\ s \in Sections \cup {"hold"} => Program[op[t].kind][step'[t]] \in Inside
         /\ s = "creating" /\ op[t].kind = "mkdir" => step[t] = 3
  <1> DEFINE k == op[t].kind
             n == step[t]
             l == Len(Program[k])
  <1>1. k \in Kinds /\ n \in 1..l /\ Program[k][n] = s
    BY AtStepFacts DEF AtStep
  <1>2. /\ step' \in [Tasks -> 0..9] /\ \A u \in Tasks : u # t => step'[u] = step[u]
        /\ step'[t] = n + 1 /\ step'[t] <= l
    BY AdvanceIs
  <1>3. /\ l \in 4..9
        /\ s = "claim" <=> n = 1
        /\ s \in {"copy", "snapshot"} <=> n = 2
        /\ k = "mkdir" /\ n = 2 => s = "copy"
        /\ k = "mkdir" /\ n = 3 => s = "creating"
        /\ s \in Sections \cup {"hold"} => Program[k][n + 1] \in Inside
    BY <1>1, Programs
  <1>4. n + 1 \in 1..l
    <2> HIDE DEF n, l, k
    <2>1. QED
      BY <1>1, <1>2, <1>3
  <1>5. Program[k][n + 1] = "mkdir" => k = "mkdir" /\ n + 1 = 4
    BY <1>1, <1>4, Programs
  <1>6. AtStep(t, "mkdir")' => k = "mkdir" /\ n = 3
    BY <1>1, <1>2, <1>5 DEF AtStep
  <1>7. s = "creating" /\ k = "mkdir" => n = 3
    <2>1. k = "mkdir" => l = 4
      BY <1>1, Programs
    <2>2. Program[k][n] = "mkdir" <=> k = "mkdir" /\ n = 4
      BY <1>1, Programs
    <2> HIDE DEF n, l, k
    <2>3. QED
      BY <1>1, <1>3, <2>1, <2>2
  <1> HIDE DEF n, l, k
  <1>8. step'[t] \in 2..l /\ (step'[t] = 2 <=> s = "claim") /\ (step'[t] = 3 /\ k = "mkdir" => s = "copy")
    BY <1>1, <1>2, <1>3
  <1>9. QED
    BY <1>1, <1>2, <1>3, <1>6, <1>7, <1>8 DEF n, l, k

\* Everything that a step which moves `at' alone leaves.
Still == op' = op /\ held' = held /\ UNCHANGED <<dirLock, renameLock, pathRefs, writers, readonly, busy>>

\* Such a step keeps the types, the counts and the other tasks.
LEMMA StillKeeps ==
  ASSUME PathInv, NEW t \in Tasks, Still, step' \in [Tasks -> 0..9],
         \A u \in Tasks : u # t => step'[u] = step[u]
  PROVE  Types' /\ CountInv' /\ Beside(t)
  <1>1. Types'
    BY DEF PathInv, Types, Still
  <1>2. CountInv'
    BY DEF PathInv, CountInv, Still, Holding, Writing, Guards
  <1>3. Beside(t)
    BY DEF Still, Beside
  <1>4. QED
    BY <1>1, <1>2, <1>3

\* An error, or the end of the work: the guards are to be dropped.
LEMMA ToUnwind ==
  ASSUME PathInv, NEW t \in Tasks, step[t] > 0, ~AtStep(t, "renaming"), GotoStep(t, 0), Still
  PROVE  PathInv'
  <1>1. step \in [Tasks -> 0..9] /\ Placed(t) /\ Stacked(t) /\ Locks(t) /\ Kept(t) /\ Claims(t)
    BY DEF PathInv, Types, TaskInv
  <1>2. /\ step' \in [Tasks -> 0..9] /\ step'[t] = 0
        /\ \A u \in Tasks : u # t => step'[u] = step[u]
    BY <1>1 DEF GotoStep
  <1>3. Types' /\ CountInv' /\ Beside(t)
    BY <1>2, StillKeeps
  <1>4. op[t] # Idle
    BY <1>1 DEF Placed
  <1>5. Placed(t)'
    BY <1>1, <1>2, <1>4 DEF Placed, Still, AtStep
  <1>6. Stacked(t)'
    BY <1>1, <1>2 DEF Stacked, Still
  <1>7. Locks(t)'
    BY <1>1 DEF Locks, Still
  <1>8. Kept(t)'
    BY <1>1 DEF Kept, Still
  <1>9. Claims(t)'
    BY <1>1 DEF Claims, Still
  <1>10. QED
    BY <1>3, <1>5, <1>6, <1>7, <1>8, <1>9, StepIs DEF TaskInv, Still

\* A step that acquires nothing.
LEMMA OnStep ==
  ASSUME PathInv, NEW t \in Tasks, NEW s \in {"snapshot", "split", "mount", "hold"}, AtStep(t, s),
         Advance(t), Still
  PROVE  PathInv'
  <1>1. Types /\ Placed(t) /\ Stacked(t) /\ Locks(t) /\ Kept(t) /\ Claims(t) /\ step[t] > 0
    BY DEF PathInv, TaskInv, AtStep
  <1>2. /\ step' \in [Tasks -> 0..9] /\ \A u \in Tasks : u # t => step'[u] = step[u]
        /\ step'[t] = step[t] + 1 /\ step'[t] \in 2..Len(Program[op[t].kind]) /\ step'[t] # 2
        /\ ~(step'[t] = 3 /\ op[t].kind = "mkdir") /\ ~AtStep(t, "mkdir")'
        /\ s \in Sections \cup {"hold"} => Program[op[t].kind][step'[t]] \in Inside
    BY <1>1, NextStep DEF Still
  <1>3. Types' /\ CountInv' /\ Beside(t)
    BY <1>2, StillKeeps
  <1>4. op[t] # Idle /\ Len(held[t]) \in 0..8 /\ step[t] \in Nat
    BY <1>1, AtStepFacts
  <1>5. Placed(t)'
    <2>1. Len(held[t]) < step[t]
      BY <1>1 DEF Placed
    <2> DEFINE l == Len(held[t])
               p == Len(Program[op[t].kind])
    <2> HIDE DEF l, p
    <2>2. step'[t] <= p /\ l < step'[t] /\ l <= 9 /\ step'[t] # 1 /\ step'[t] # 2
      BY <1>2, <1>4, <2>1 DEF l, p
    <2>3. QED
      BY <1>2, <1>4, <2>2 DEF Placed, Still, l, p
  <1>6. Stacked(t)'
    <2>1. ASSUME NEW i \in 1..Len(held[t])
          PROVE  /\ held[t][i].kind \in Sections => i = Len(held[t])
                 /\ held[t][i].kind \in Sections => s \in Inside
                 /\ held[t][i].kind = "slot" => i = 1
                 /\ ~held[t][i].live => held[t][i].kind = "victim"
      BY <1>1, <1>4 DEF Stacked, AtStep
    <2>2. s \in Inside => Program[op[t].kind][step'[t]] \in Inside
      BY <1>2 DEF Inside
    <2>3. QED
      BY <2>1, <2>2 DEF Stacked, Still
  <1>7. Locks(t)'
    BY <1>1 DEF Locks, Still, AtStep
  <1>8. Kept(t)'
    BY <1>1 DEF Kept, Still
  <1>9. Claims(t)'
    BY <1>1 DEF Claims, Still
  <1>10. QED
    BY <1>3, <1>5, <1>6, <1>7, <1>8, <1>9, StepIs DEF TaskInv, Still

\* What a push does.
LEMMA PushIs ==
  ASSUME Types, NEW t \in Tasks, NEW g \in AnyGuard, Push(t, g)
  PROVE  /\ held' \in [Tasks -> Seq(AnyGuard)]
         /\ \A u \in Tasks : u # t => held'[u] = held[u]
         /\ held'[t] = Append(held[t], g) /\ Len(held[t]) \in Nat
         /\ Len(held'[t]) = Len(held[t]) + 1 /\ held'[t][Len(held[t]) + 1] = g
         /\ \A i \in 1..Len(held[t]) : held'[t][i] = held[t][i]
         /\ \A i \in 1..Len(held'[t]) : i \in 1..Len(held[t]) \/ i = Len(held[t]) + 1
  <1>1. held \in [Tasks -> Seq(AnyGuard)]
    BY DEF Types
  <1>2. held[t] \in Seq(AnyGuard) /\ Len(held[t]) \in Nat
    BY <1>1
  <1>3. Append(held[t], g) \in Seq(AnyGuard)
    BY <1>2, AppendProperties
  <1>4. /\ held' \in [Tasks -> Seq(AnyGuard)] /\ held'[t] = Append(held[t], g)
        /\ \A u \in Tasks : u # t => held'[u] = held[u]
    BY <1>1, <1>3 DEF Push
  <1>5. /\ Len(held'[t]) = Len(held[t]) + 1 /\ held'[t][Len(held[t]) + 1] = g
        /\ \A i \in 1..Len(held[t]) : held'[t][i] = held[t][i]
    BY <1>2, <1>4, AppendProperties
  <1>6. \A i \in 1..Len(held'[t]) : i \in 1..Len(held[t]) \/ i = Len(held[t]) + 1
    BY <1>2, <1>5
  <1>7. QED
    BY <1>2, <1>4, <1>5, <1>6

\* A step that acquires a guard, but opens no section.
LEMMA PushStep ==
  ASSUME PathInv, NEW t \in Tasks, NEW s \in {"lookup", "link", "write", "victim"}, AtStep(t, s),
         Advance(t), NEW g \in AnyGuard, g.kind \in {"path", "link", "write", "victim"},
         g.live \/ g.kind = "victim", Push(t, g),
         op' = op, UNCHANGED <<dirLock, renameLock, readonly, busy>>,
         pathRefs' = [d \in Dirs |-> IF HoldsRef(op[t], g, d) THEN pathRefs[d] + 1 ELSE pathRefs[d]],
         writers' = [m \in Mounts |-> IF HoldsWrite(g, m) THEN writers[m] + 1 ELSE writers[m]],
         g.kind = "write" => \A d \in g.dirs : MountOf[d] \notin readonly
  PROVE  PathInv'
  <1>1. /\ Types /\ Placed(t) /\ Stacked(t) /\ Locks(t) /\ Kept(t) /\ Claims(t) /\ step[t] > 0
        /\ CountInv
    BY DEF PathInv, TaskInv, AtStep
  <1>2. /\ step' \in [Tasks -> 0..9] /\ \A u \in Tasks : u # t => step'[u] = step[u]
        /\ step'[t] = step[t] + 1 /\ step'[t] \in 2..Len(Program[op[t].kind]) /\ step'[t] # 2
        /\ ~(step'[t] = 3 /\ op[t].kind = "mkdir") /\ ~AtStep(t, "mkdir")'
    BY <1>1, NextStep
  <1>3. /\ held' \in [Tasks -> Seq(AnyGuard)]
        /\ \A u \in Tasks : u # t => held'[u] = held[u]
        /\ Len(held'[t]) = Len(held[t]) + 1 /\ held'[t][Len(held[t]) + 1] = g
        /\ \A i \in 1..Len(held[t]) : held'[t][i] = held[t][i]
        /\ \A i \in 1..Len(held'[t]) : i \in 1..Len(held[t]) \/ i = Len(held[t]) + 1
    BY <1>1, PushIs
  <1>4. op[t] # Idle /\ Len(held[t]) \in 0..8 /\ step[t] \in Nat
    BY <1>1, AtStepFacts
  <1>5. Types'
    BY <1>1, <1>2, <1>3 DEF Types
  <1>6. CountInv'
    BY <1>1, <1>4, <1>5, Pushed
  <1>7. Beside(t)
    BY <1>2, <1>3 DEF Beside
  <1>8. Placed(t)'
    <2>1. Len(held[t]) < step[t]
      BY <1>1 DEF Placed
    <2> DEFINE l == Len(held[t])
               p == Len(Program[op[t].kind])
    <2> HIDE DEF l, p
    <2>2. step'[t] <= p /\ l + 1 < step'[t] /\ l + 1 <= 9 /\ step'[t] # 1 /\ step'[t] # 2
      BY <1>2, <1>4, <2>1 DEF l, p
    <2>3. QED
      BY <1>2, <1>3, <1>4, <2>2 DEF Placed, l, p
  <1>9. \A i \in 1..Len(held[t]) : held[t][i].kind \notin Sections
    BY <1>1 DEF Stacked, AtStep, Inside
  <1>10. g.kind \notin Sections /\ g.kind # "slot"
    BY DEF Sections
  <1>11. Stacked(t)'
    <2>1. ASSUME NEW i \in 1..Len(held[t])
          PROVE  /\ held[t][i].kind \notin Sections
                 /\ held[t][i].kind = "slot" => i = 1
                 /\ ~held[t][i].live => held[t][i].kind = "victim"
      BY <1>1, <1>4, <1>9 DEF Stacked
    <2>2. QED
      BY <1>3, <1>10, <2>1 DEF Stacked
  <1>12. Locks(t)'
    <2>1. \A d \in Dirs : dirLock[d] # t
      BY <1>1, <1>9 DEF Locks, AtStep
    <2>2. renameLock # t
      BY <1>1, <1>9 DEF Locks, AtStep, Sections
    <2>3. QED
      BY <2>1, <2>2 DEF Locks
  <1>13. Kept(t)'
    BY <1>1, <1>3, <1>10 DEF Kept, Sections
  <1>14. Claims(t)'
    <2>1. t \in busy' <=> \E i \in 1..Len(held[t]) : held[t][i].kind = "slot"
      BY <1>1 DEF Claims
    <2>2. (\E i \in 1..Len(held[t]) : held[t][i].kind = "slot")
            <=> \E i \in 1..Len(held'[t]) : held'[t][i].kind = "slot"
      <3>1. \A i \in 1..Len(held[t]) : i \in 1..Len(held'[t])
        BY <1>3, <1>4
      <3>2. QED
        BY <1>3, <1>10, <3>1
    <2>3. QED
      BY <2>1, <2>2 DEF Claims
  <1>15. QED
    BY <1>5, <1>6, <1>7, <1>8, <1>11, <1>12, <1>13, <1>14, StepIs DEF TaskInv

\* The guard of start_creating_path.
Creates(t, g) == g = Guard("creating", {op[t].dir}) /\ MountOf[op[t].dir] \notin readonly

\* The section of an operation is opened, and what it locks is locked.
LEMMA SectionStep ==
  ASSUME PathInv, NEW t \in Tasks, NEW s \in Sections, AtStep(t, s), Advance(t),
         NEW g \in AnyGuard, g.kind = s, g.live, Push(t, g), op' = op, readonly' = readonly,
         busy' = busy, renameLock' = renameLock,
         s = "creating" => Creates(t, g),
         dirLock' \in [Dirs -> Tasks \cup {NoTask}],
         \A u \in Tasks \ {t}, d \in Dirs : dirLock'[d] = u <=> dirLock[d] = u,
         \A d \in Dirs : dirLock'[d] = t <=> d \in g.dirs,
         s = "renaming" \/ renameLock # t,
         pathRefs' = [d \in Dirs |-> IF HoldsRef(op[t], g, d) THEN pathRefs[d] + 1 ELSE pathRefs[d]],
         writers' = [m \in Mounts |-> IF HoldsWrite(g, m) THEN writers[m] + 1 ELSE writers[m]]
  PROVE  PathInv'
  <1>1. /\ Types /\ Placed(t) /\ Stacked(t) /\ Locks(t) /\ Kept(t) /\ Claims(t) /\ step[t] > 0
        /\ CountInv
    BY DEF PathInv, TaskInv, AtStep
  <1>0. s \notin {"call", "mkdir", "claim", "copy", "hold"}
    BY DEF Sections
  <1>2. /\ step' \in [Tasks -> 0..9] /\ \A u \in Tasks : u # t => step'[u] = step[u]
        /\ step'[t] = step[t] + 1 /\ step'[t] \in 2..Len(Program[op[t].kind]) /\ step'[t] # 2
        /\ ~(step'[t] = 3 /\ op[t].kind = "mkdir")
        /\ AtStep(t, "mkdir")' => s = "creating" /\ op[t].kind = "mkdir" /\ step[t] = 3
        /\ Program[op[t].kind][step'[t]] \in Inside
    BY <1>0, <1>1, NextStep
  <1>3. /\ held' \in [Tasks -> Seq(AnyGuard)]
        /\ \A u \in Tasks : u # t => held'[u] = held[u]
        /\ held'[t] = Append(held[t], g)
        /\ Len(held'[t]) = Len(held[t]) + 1 /\ held'[t][Len(held[t]) + 1] = g
        /\ \A i \in 1..Len(held[t]) : held'[t][i] = held[t][i]
        /\ \A i \in 1..Len(held'[t]) : i \in 1..Len(held[t]) \/ i = Len(held[t]) + 1
    BY <1>1, PushIs
  <1>4. op[t] # Idle /\ Len(held[t]) \in 0..8 /\ step[t] \in Nat
    BY <1>1, AtStepFacts
  <1>5. Types'
    BY <1>1, <1>2, <1>3 DEF Types
  <1>6. CountInv'
    BY <1>1, <1>4, <1>5, Pushed
  <1>7. Beside(t)
    BY <1>2, <1>3 DEF Beside
  <1>8. Placed(t)'
    <2>1. Len(held[t]) < step[t]
      BY <1>1 DEF Placed
    <2>2. AtStep(t, "mkdir")' => held'[t] = <<Guard("creating", {op[t].dir})>>
      <3>1. AtStep(t, "mkdir")' => held[t] = <<>> /\ g = Guard("creating", {op[t].dir})
        BY <1>1, <1>2 DEF Placed, Creates
      <3>2. Append(<<>>, g) = <<g>>
        OBVIOUS
      <3>3. QED
        BY <1>3, <3>1, <3>2
    <2> DEFINE l == Len(held[t])
               p == Len(Program[op[t].kind])
               n == step[t]
    <2>3. l \in 0..8 /\ l < n /\ n \in Nat /\ step'[t] = n + 1 /\ step'[t] \in 2..p /\ step'[t] # 2
      BY <1>2, <1>4, <2>1
    <2> HIDE DEF l, p, n
    <2>4. step'[t] <= p /\ l + 1 < step'[t] /\ l + 1 <= 9 /\ step'[t] # 1 /\ step'[t] # 2
      BY <2>3
    <2>5. QED
      BY <1>2, <1>3, <1>4, <2>2, <2>4 DEF Placed, l, p
  <1>9. \A i \in 1..Len(held[t]) : held[t][i].kind \notin Sections
    BY <1>1 DEF Stacked, AtStep, Inside, Sections
  <1>10. g.kind # "slot" /\ g.kind # "write"
    BY DEF Sections
  <1>11. Stacked(t)'
    <2>1. ASSUME NEW i \in 1..Len(held[t])
          PROVE  /\ held[t][i].kind \notin Sections
                 /\ held[t][i].kind = "slot" => i = 1
                 /\ ~held[t][i].live => held[t][i].kind = "victim"
      BY <1>1, <1>4, <1>9 DEF Stacked
    <2>2. QED
      BY <1>2, <1>3, <1>10, <2>1 DEF Stacked
  <1>12. Len(held[t]) + 1 \in 1..Len(held'[t])
    BY <1>3, <1>4
  <1>13. Locks(t)'
    <2>1. renameLock = t => s = "renaming"
      OBVIOUS
    <2>2. QED
      BY <1>3, <1>12, <2>1 DEF Locks
  <1>14. Kept(t)'
    <2>1. ASSUME NEW i \in 1..Len(held[t])
          PROVE  /\ held[t][i].kind \notin Sections
                 /\ held[t][i].kind \in {"write", "creating"} =>
                      \A d \in held[t][i].dirs : MountOf[d] \notin readonly
      BY <1>1, <1>9 DEF Kept
    <2>2. g.dirs \subseteq Dirs
      BY DEF AnyGuard
    <2>3. g.kind \in {"write", "creating"} => \A d \in g.dirs : MountOf[d] \notin readonly
      BY <1>10 DEF Guard, Creates
    <2>4. QED
      BY <1>3, <2>1, <2>2, <2>3 DEF Kept
  <1>15. Claims(t)'
    <2>1. t \in busy' <=> \E i \in 1..Len(held[t]) : held[t][i].kind = "slot"
      BY <1>1 DEF Claims
    <2>2. (\E i \in 1..Len(held[t]) : held[t][i].kind = "slot")
            <=> \E i \in 1..Len(held'[t]) : held'[t][i].kind = "slot"
      <3>1. \A i \in 1..Len(held[t]) : i \in 1..Len(held'[t])
        BY <1>3, <1>4
      <3>2. QED
        BY <1>3, <1>10, <3>1
    <2>3. QED
      BY <2>1, <2>2 DEF Claims
  <1>16. QED
    BY <1>5, <1>6, <1>7, <1>8, <1>11, <1>13, <1>14, <1>15, StepIs DEF TaskInv

-----------------------------------------------------------------------------
(* The operations' steps.                                                  *)

\* A task submits an operation: it has nothing yet.
LEMMA SubmitStep ==
  ASSUME PathInv, NEW t \in Tasks, SubmitPath(t)
  PROVE  PathInv'
  <1>1. /\ op[t] = Idle /\ held' = held /\ UNCHANGED <<vfs, readonly, busy>>
        /\ \E o \in Submissions : op' = [op EXCEPT ![t] = o]
        /\ step' = [step EXCEPT ![t] = 1]
    BY DEF SubmitPath, GotoStep
  <1>2. PICK o \in Submissions : op' = [op EXCEPT ![t] = o]
    BY <1>1
  <1>3. o \in Operations /\ o.kind \in Kinds /\ o # Idle
    <2>1. o \in Operations
      BY PathAssumption
    <2>2. o.kind \in Kinds
      BY <2>1 DEF Operations
    <2>3. "none" \notin Kinds
      BY DEF Kinds, Program
    <2>4. QED
      BY <2>1, <2>2, <2>3 DEF Idle
  <1>4. /\ Types /\ Placed(t) /\ Stacked(t) /\ Locks(t) /\ Kept(t) /\ Claims(t) /\ CountInv
        /\ held[t] = <<>> /\ step[t] = 0
    BY <1>1 DEF PathInv, TaskInv, Placed
  <1>5. /\ op' \in [Tasks -> Operations \cup {Idle}] /\ step' \in [Tasks -> 0..9]
        /\ op'[t] = o /\ step'[t] = 1
        /\ \A u \in Tasks : u # t => op'[u] = op[u] /\ step'[u] = step[u]
    BY <1>1, <1>2, <1>3, <1>4 DEF Types
  <1>6. Types'
    BY <1>1, <1>4, <1>5 DEF Types, vfs
  <1>7. CountInv'
    <2>1. \A i \in 1..9 : i \notin 1..Len(held[t])
      BY <1>4
    <2>2. \A u \in Tasks, i \in 1..9 : i \in 1..Len(held[u]) => op'[u] = op[u]
      BY <1>5, <2>1
    <2>3. QED
      BY <1>1, <1>4, <1>6, <2>2, SameCount DEF vfs
  <1>8. Beside(t)
    BY <1>1, <1>5 DEF Beside, vfs
  <1>9. Placed(t)'
    <2>1. 1 <= Len(Program[o.kind])
      BY <1>3 DEF Program, Kinds, RemoveSteps, RenameSteps
    <2>2. ~AtStep(t, "mkdir")'
      <3>1. Program[o.kind][1] = "claim"
        BY <1>3 DEF Program, Kinds, RemoveSteps, RenameSteps
      <3>2. QED
        BY <1>5, <3>1 DEF AtStep
    <2>3. QED
      BY <1>1, <1>3, <1>4, <1>5, <2>1, <2>2 DEF Placed
  <1>10. \A i \in 1..Len(held[t]) : FALSE
    BY <1>4
  <1>11. Stacked(t)' /\ Kept(t)'
    BY <1>1, <1>10 DEF Stacked, Kept
  <1>12. Locks(t)'
    <2>1. /\ \A d \in Dirs : dirLock[d] # t
          /\ renameLock # t
      BY <1>4, <1>10 DEF Locks, AtStep
    <2>2. QED
      BY <1>1, <2>1 DEF Locks, vfs
  <1>13. Claims(t)'
    BY <1>1, <1>4 DEF Claims
  <1>14. QED
    BY <1>1, <1>6, <1>7, <1>8, <1>9, <1>11, <1>12, <1>13, StepIs DEF TaskInv

\* The slot's claim is the first guard, alone in the stack.
LEMMA ClaimStep ==
  ASSUME PathInv, NEW t \in Tasks, Claim(t)
  PROVE  PathInv'
  <1> DEFINE g == Guard("slot", {})
  <1>1. /\ AtStep(t, "claim") /\ busy' = busy \cup {t} /\ Push(t, g) /\ Advance(t)
        /\ op' = op /\ UNCHANGED <<vfs, readonly>>
    BY DEF Claim
  <1>2. /\ Types /\ Placed(t) /\ Stacked(t) /\ Locks(t) /\ Kept(t) /\ Claims(t) /\ step[t] > 0
        /\ CountInv
    BY <1>1 DEF PathInv, TaskInv, AtStep
  <1>3. /\ step' \in [Tasks -> 0..9] /\ \A u \in Tasks : u # t => step'[u] = step[u]
        /\ step'[t] = step[t] + 1 /\ step'[t] \in 2..Len(Program[op[t].kind]) /\ step'[t] = 2
        /\ ~AtStep(t, "mkdir")'
    BY <1>1, <1>2, NextStep
  <1>4. step[t] = 1 /\ op[t] # Idle /\ step[t] \in Nat
    BY <1>2, <1>3, AtStepFacts
  <1>5. held[t] = <<>> /\ g \in AnyGuard
    BY <1>2, <1>4 DEF Placed, Guard, AnyGuard, GuardKinds
  <1>6. /\ held' \in [Tasks -> Seq(AnyGuard)]
        /\ \A u \in Tasks : u # t => held'[u] = held[u]
        /\ held'[t] = Append(held[t], g)
    BY <1>1, <1>2, <1>5, PushIs
  <1>7. held'[t] = <<g>>
    <2>1. Append(<<>>, g) = <<g>>
      OBVIOUS
    <2>2. QED
      BY <1>5, <1>6, <2>1
  <1>8. Len(held'[t]) = 1 /\ held'[t][1] = g /\ Len(held[t]) = 0
    BY <1>5, <1>7
  <1>9. g.kind = "slot" /\ g.live
    BY DEF Guard
  <1>10. Types'
    BY <1>1, <1>2, <1>3, <1>6 DEF Types, vfs
  <1>11. CountInv'
    <2>1. ASSUME NEW u \in Tasks, NEW i \in 1..9
          PROVE  /\ (i \in 1..Len(held'[u]) /\ held'[u][i].kind \in GuardKinds \ {"slot", "victim", "link", "dirop"})
                      <=> (i \in 1..Len(held[u]) /\ held[u][i].kind \in GuardKinds \ {"slot", "victim", "link", "dirop"})
                 /\ i \in 1..Len(held[u]) /\ i \in 1..Len(held'[u]) =>
                      held'[u][i] = held[u][i]
      <3>1. CASE u = t
        BY <1>8, <1>9, <3>1
      <3>2. CASE u # t
        BY <1>6, <3>2
      <3>3. QED
        BY <3>1, <3>2
    <2>2. QED
      BY <1>1, <1>2, <1>10, <2>1, SameCount DEF vfs
  <1>12. Beside(t)
    BY <1>1, <1>3, <1>6 DEF Beside, vfs
  <1>13. Placed(t)'
    BY <1>1, <1>3, <1>4, <1>7, <1>8 DEF Placed
  <1>14. Stacked(t)'
    BY <1>8, <1>9 DEF Stacked, Sections
  <1>15. Locks(t)'
    <2>1. (\A d \in Dirs : dirLock[d] # t) /\ renameLock # t
      BY <1>1, <1>2, <1>8 DEF Locks, AtStep
    <2>2. QED
      BY <1>1, <2>1 DEF Locks, vfs
  <1>16. Kept(t)'
    BY <1>8, <1>9 DEF Kept, Sections
  <1>17. Claims(t)'
    BY <1>1, <1>8, <1>9 DEF Claims
  <1>18. QED
    BY <1>1, <1>10, <1>11, <1>12, <1>13, <1>14, <1>15, <1>16, <1>17, StepIs DEF TaskInv

\* The slot is given back with the copy: the stack is empty again.
LEMMA CopyStep ==
  ASSUME PathInv, NEW t \in Tasks, Copy(t)
  PROVE  PathInv'
  <1>1. /\ AtStep(t, "copy") /\ busy' = busy \ {t} /\ held' = [held EXCEPT ![t] = <<>>]
        /\ Advance(t) /\ op' = op /\ UNCHANGED <<vfs, readonly>>
    BY DEF Copy
  <1>2. /\ Types /\ Placed(t) /\ Stacked(t) /\ Locks(t) /\ Kept(t) /\ Claims(t) /\ step[t] > 0
        /\ CountInv
    BY <1>1 DEF PathInv, TaskInv, AtStep
  <1>3. /\ step' \in [Tasks -> 0..9] /\ \A u \in Tasks : u # t => step'[u] = step[u]
        /\ step'[t] = step[t] + 1 /\ step'[t] \in 2..Len(Program[op[t].kind]) /\ step'[t] # 2
        /\ ~AtStep(t, "mkdir")'
    BY <1>1, <1>2, NextStep
  <1>4. /\ op[t].kind \in Kinds /\ step[t] \in 1..Len(Program[op[t].kind]) /\ op[t] # Idle
        /\ step[t] \in Nat
    BY <1>2, AtStepFacts
  <1>5. step[t] = 2
    BY <1>1, <1>4, Programs DEF AtStep
  <1>6. held[t] = <<Guard("slot", {})>>
    BY <1>2, <1>5 DEF Placed
  <1>7. Len(held[t]) = 1 /\ held[t][1].kind = "slot" /\ held[t][1].live
    BY <1>6 DEF Guard
  <1>8. /\ held' \in [Tasks -> Seq(AnyGuard)] /\ held'[t] = <<>> /\ Len(held'[t]) = 0
        /\ \A u \in Tasks : u # t => held'[u] = held[u]
    BY <1>1, <1>2 DEF Types
  <1>9. Types'
    BY <1>1, <1>2, <1>3, <1>8 DEF Types, vfs
  <1>10. CountInv'
    <2>1. ASSUME NEW u \in Tasks, NEW i \in 1..9
          PROVE  /\ (i \in 1..Len(held'[u]) /\ held'[u][i].kind \in GuardKinds \ {"slot", "victim", "link", "dirop"})
                      <=> (i \in 1..Len(held[u]) /\ held[u][i].kind \in GuardKinds \ {"slot", "victim", "link", "dirop"})
                 /\ i \in 1..Len(held[u]) /\ i \in 1..Len(held'[u]) =>
                      held'[u][i] = held[u][i]
      <3>1. CASE u = t
        BY <1>7, <1>8, <3>1
      <3>2. CASE u # t
        BY <1>8, <3>2
      <3>3. QED
        BY <3>1, <3>2
    <2>2. QED
      BY <1>1, <1>2, <1>9, <2>1, SameCount DEF vfs
  <1>11. Beside(t)
    BY <1>1, <1>3, <1>8 DEF Beside, vfs
  <1>12. Placed(t)'
    BY <1>1, <1>3, <1>4, <1>5, <1>8 DEF Placed
  <1>13. Stacked(t)' /\ Kept(t)'
    BY <1>8 DEF Stacked, Kept
  <1>14. Locks(t)'
    <2>1. (\A d \in Dirs : dirLock[d] # t) /\ renameLock # t
      BY <1>1, <1>2, <1>7 DEF Locks, AtStep, Sections
    <2>2. QED
      BY <1>1, <2>1 DEF Locks, vfs
  <1>15. Claims(t)'
    BY <1>1, <1>8 DEF Claims
  <1>16. QED
    BY <1>1, <1>9, <1>10, <1>11, <1>12, <1>13, <1>14, <1>15, StepIs DEF TaskInv

\* The steps that only look.
LEMMA LookStep ==
  ASSUME PathInv, NEW t \in Tasks, Snapshot(t) \/ Split(t) \/ SameMount(t)
  PROVE  PathInv'
  <1>1. PICK s \in {"snapshot", "split", "mount"} : AtStep(t, s)
    BY DEF Snapshot, Split, SameMount
  <1>2. Still
    BY DEF Snapshot, Split, SameMount, Still, vfs
  <1>3. Advance(t) \/ GotoStep(t, 0)
    BY DEF Snapshot, Split, SameMount
  <1>4. CASE Advance(t)
    BY <1>1, <1>2, <1>4, OnStep
  <1>5. CASE GotoStep(t, 0)
    BY <1>1, <1>2, <1>5, ToUnwind DEF AtStep
  <1>6. QED
    BY <1>3, <1>4, <1>5

\* The change is made, or a step is refused.
LEMMA EndingStep ==
  ASSUME PathInv, NEW t \in Tasks, Call(t) \/ ReadOnly(t) \/ Fail(t)
  PROVE  PathInv'
  <1>1. step[t] > 0 /\ ~AtStep(t, "renaming")
    BY DEF Call, ReadOnly, Fail, AtStep
  <1>2. GotoStep(t, 0) /\ Still
    BY DEF Call, ReadOnly, Fail, Still, vfs
  <1>3. QED
    BY <1>1, <1>2, ToUnwind

\* A path is looked up: a reference of its directory.
LEMMA LookupStep ==
  ASSUME PathInv, NEW t \in Tasks, Lookup(t)
  PROVE  PathInv'
  <1>1. AtStep(t, "lookup") /\ step[t] > 0 /\ Types /\ CountInv /\ Placed(t)
    BY DEF Lookup, AtStep, PathInv, TaskInv
  <1>2. op[t].dir \in Dirs /\ op[t].to \in Dirs
    BY <1>1, AtStepFacts
  <1>3. PICK d0 \in Dirs : /\ pathRefs' = [pathRefs EXCEPT ![d0] = @ + 1]
                           /\ Push(t, Guard("path", {d0}))
    BY <1>2 DEF Lookup
  <1> DEFINE g == Guard("path", {d0})
  <1>4. g \in AnyGuard /\ g.kind = "path" /\ g.live /\ g.dirs = {d0}
    BY DEF Guard, AnyGuard, GuardKinds
  <1>5. /\ \A d \in Dirs : HoldsRef(op[t], g, d) <=> d = d0
        /\ \A m \in Mounts : ~HoldsWrite(g, m)
    BY <1>4 DEF HoldsRef, HoldsWrite
  <1> HIDE DEF g
  <1>6. pathRefs' = [d \in Dirs |-> IF HoldsRef(op[t], g, d) THEN pathRefs[d] + 1 ELSE pathRefs[d]]
    <2>1. pathRefs = [d \in Dirs |-> pathRefs[d]]
      BY <1>1 DEF CountInv
    <2>2. QED
      BY <1>3, <1>5, <2>1
  <1>7. writers' = [m \in Mounts |-> IF HoldsWrite(g, m) THEN writers[m] + 1 ELSE writers[m]]
    <2>1. writers = [m \in Mounts |-> writers[m]]
      BY <1>1 DEF CountInv
    <2>2. writers' = writers
      BY DEF Lookup
    <2>3. QED
      BY <1>5, <2>1, <2>2
  <1>8. Push(t, g)
    BY <1>3 DEF g
  <1>9. Advance(t) /\ op' = op /\ UNCHANGED <<dirLock, renameLock, readonly, busy>>
    BY DEF Lookup
  <1>10. QED
    BY <1>1, <1>4, <1>6, <1>7, <1>8, <1>9, PushStep

\* vfs_get_link's teardown, and the place of the victim.
LEMMA EmptyGuardStep ==
  ASSUME PathInv, NEW t \in Tasks, GetLink(t) \/ DeclareVictim(t)
  PROVE  PathInv'
  <1>1. \E s \in {"link", "victim"} : \E g \in AnyGuard :
          /\ AtStep(t, s) /\ Push(t, g)
          /\ g.kind = s /\ (g.live \/ g.kind = "victim") /\ g.dirs = {}
    <2>1. CASE GetLink(t)
      <3> DEFINE g == Guard("link", {})
      <3>1. g \in AnyGuard /\ g.kind = "link" /\ g.live /\ g.dirs = {}
        BY DEF Guard, AnyGuard, GuardKinds
      <3>2. AtStep(t, "link") /\ Push(t, g)
        BY <2>1 DEF GetLink
      <3> HIDE DEF g
      <3>3. QED
        BY <3>1, <3>2
    <2>2. CASE DeclareVictim(t)
      <3> DEFINE g == [Guard("victim", {}) EXCEPT !.live = FALSE]
      <3>1. g \in AnyGuard /\ g.kind = "victim" /\ g.dirs = {}
        BY DEF Guard, AnyGuard, GuardKinds
      <3>2. AtStep(t, "victim") /\ Push(t, g)
        BY <2>2 DEF DeclareVictim
      <3> HIDE DEF g
      <3>3. QED
        BY <3>1, <3>2
    <2>3. QED
      BY <2>1, <2>2
  <1>2. PICK s \in {"link", "victim"}, g \in AnyGuard :
          /\ AtStep(t, s) /\ Push(t, g)
          /\ g.kind = s /\ (g.live \/ g.kind = "victim") /\ g.dirs = {}
    BY <1>1
  <1>3. /\ \A d \in Dirs : ~HoldsRef(op[t], g, d)
        /\ \A m \in Mounts : ~HoldsWrite(g, m)
    BY <1>2 DEF HoldsRef, HoldsWrite
  <1>4. Advance(t) /\ op' = op /\ UNCHANGED <<vfs, readonly, busy>>
    BY DEF GetLink, DeclareVictim
  <1>5. pathRefs = [d \in Dirs |-> pathRefs[d]] /\ writers = [m \in Mounts |-> writers[m]]
    BY DEF PathInv, CountInv
  <1>6. pathRefs' = [d \in Dirs |-> IF HoldsRef(op[t], g, d) THEN pathRefs[d] + 1 ELSE pathRefs[d]]
    BY <1>3, <1>4, <1>5 DEF vfs
  <1>7. writers' = [m \in Mounts |-> IF HoldsWrite(g, m) THEN writers[m] + 1 ELSE writers[m]]
    BY <1>3, <1>4, <1>5 DEF vfs
  <1>8. QED
    BY <1>2, <1>4, <1>6, <1>7, PushStep DEF vfs

\* A count of one mount, one more.
LEMMA CountMount ==
  ASSUME CountInv, NEW n, NEW g,
         \A m \in Mounts : HoldsWrite(g, m) <=> m = n
  PROVE  [writers EXCEPT ![n] = @ + 1] =
           [m \in Mounts |-> IF HoldsWrite(g, m) THEN writers[m] + 1 ELSE writers[m]]
  <1>1. writers = [m \in Mounts |-> writers[m]]
    BY DEF CountInv
  <1>2. QED
    BY <1>1

\* mnt_want_write: a count of a mount that is not read-only.
LEMMA WantWriteStep ==
  ASSUME PathInv, NEW t \in Tasks, WantWrite(t)
  PROVE  PathInv'
  <1> DEFINE g == Guard("write", {op[t].dir})
             n == MountOf[op[t].dir]
  <1>1. AtStep(t, "write") /\ step[t] > 0 /\ Types /\ CountInv /\ Placed(t)
    BY DEF WantWrite, AtStep, PathInv, TaskInv
  <1>2. op[t].dir \in Dirs
    BY <1>1, AtStepFacts
  <1>3. g \in AnyGuard /\ g.kind = "write" /\ g.live /\ g.dirs = {op[t].dir}
    BY <1>2 DEF Guard, AnyGuard, GuardKinds
  <1>4. /\ \A d \in Dirs : ~HoldsRef(op[t], g, d)
        /\ \A m \in Mounts : HoldsWrite(g, m) <=> m = n
    BY <1>3 DEF HoldsRef, HoldsWrite, MountsOf
  <1>5. /\ Push(t, g) /\ Advance(t) /\ op' = op /\ n \notin readonly
        /\ writers' = [writers EXCEPT ![n] = @ + 1]
        /\ UNCHANGED <<dirLock, renameLock, pathRefs, readonly, busy>>
    BY DEF WantWrite
  <1>6. \A d \in g.dirs : MountOf[d] \notin readonly
    BY <1>3, <1>5
  <1> HIDE DEF g, n
  <1>7. pathRefs' = [d \in Dirs |-> IF HoldsRef(op[t], g, d) THEN pathRefs[d] + 1 ELSE pathRefs[d]]
    <2>1. pathRefs = [d \in Dirs |-> pathRefs[d]]
      BY <1>1 DEF CountInv
    <2>2. QED
      BY <1>4, <1>5, <2>1
  <1>8. writers' = [m \in Mounts |-> IF HoldsWrite(g, m) THEN writers[m] + 1 ELSE writers[m]]
    BY <1>1, <1>4, <1>5, CountMount
  <1>9. QED
    BY <1>1, <1>3, <1>5, <1>6, <1>7, <1>8, PushStep

\* A task that opens a section has nothing locked, unless it is a renaming.
LEMMA NothingLocked ==
  ASSUME PathInv, NEW t \in Tasks, NEW s \in Sections, AtStep(t, s)
  PROVE  /\ \A i \in 1..Len(held[t]) : held[t][i].kind \notin Sections
         /\ s # "renaming" => (\A d \in Dirs : dirLock[d] # t) /\ renameLock # t
         /\ s = "renaming" => \A d \in Dirs : dirLock[d] = t => d \in {op[t].dir, op[t].to}
  <1>1. Stacked(t) /\ Locks(t) /\ step[t] > 0
    BY DEF PathInv, TaskInv, AtStep
  <1>2. \A i \in 1..Len(held[t]) : held[t][i].kind \notin Sections
    BY <1>1 DEF Stacked, AtStep, Sections, Inside
  <1>3. QED
    BY <1>1, <1>2 DEF Locks, AtStep, Sections

\* start_creating_path: the section with all three, on a mount that is not read-only.
LEMMA StartCreatingStep ==
  ASSUME PathInv, NEW t \in Tasks, StartCreating(t)
  PROVE  PathInv'
  <1> DEFINE d0 == op[t].dir
             g == Guard("creating", {d0})
             n == MountOf[d0]
  <1>1. AtStep(t, "creating") /\ step[t] > 0 /\ Types /\ CountInv /\ Placed(t)
    BY DEF StartCreating, AtStep, PathInv, TaskInv
  <1>2. d0 \in Dirs
    BY <1>1, AtStepFacts
  <1>3. g \in AnyGuard /\ g.kind = "creating" /\ g.live /\ g.dirs = {d0}
    BY <1>2 DEF Guard, AnyGuard, GuardKinds, Sections
  <1>4. /\ \A d \in Dirs : HoldsRef(op[t], g, d) <=> d = d0
        /\ \A m \in Mounts : HoldsWrite(g, m) <=> m = n
    BY <1>3 DEF HoldsRef, HoldsWrite, MountsOf
  <1>5. /\ Push(t, g) /\ Advance(t) /\ op' = op /\ n \notin readonly
        /\ writers' = [writers EXCEPT ![n] = @ + 1]
        /\ pathRefs' = [pathRefs EXCEPT ![d0] = @ + 1]
        /\ dirLock[d0] = NoTask /\ dirLock' = [dirLock EXCEPT ![d0] = t]
        /\ UNCHANGED <<renameLock, readonly, busy>>
    BY DEF StartCreating
  <1>6. (\A d \in Dirs : dirLock[d] # t) /\ renameLock # t
    BY <1>1, NothingLocked DEF Sections
  <1>7. NoTask \notin Tasks /\ dirLock \in [Dirs -> Tasks \cup {NoTask}]
    BY <1>1, PathAssumption DEF Types
  <1>8. Creates(t, g)
    BY <1>5 DEF Creates
  <1> HIDE DEF g, n, d0
  <1>9. pathRefs' = [d \in Dirs |-> IF HoldsRef(op[t], g, d) THEN pathRefs[d] + 1 ELSE pathRefs[d]]
    <2>1. pathRefs = [d \in Dirs |-> pathRefs[d]]
      BY <1>1 DEF CountInv
    <2>2. QED
      BY <1>4, <1>5, <2>1
  <1>10. writers' = [m \in Mounts |-> IF HoldsWrite(g, m) THEN writers[m] + 1 ELSE writers[m]]
    BY <1>1, <1>4, <1>5, CountMount
  <1>11. /\ dirLock' \in [Dirs -> Tasks \cup {NoTask}]
         /\ \A u \in Tasks \ {t}, d \in Dirs : dirLock'[d] = u <=> dirLock[d] = u
         /\ \A d \in Dirs : dirLock'[d] = t <=> d \in g.dirs
    BY <1>2, <1>3, <1>5, <1>6, <1>7
  <1>12. QED
    <2>1. "creating" \in Sections
      BY DEF Sections
    <2>2. /\ op' = op /\ readonly' = readonly /\ busy' = busy /\ renameLock' = renameLock
          /\ Push(t, g) /\ Advance(t)
      BY <1>5
    <2>3. renameLock # t
      BY <1>6
    <2>4. AtStep(t, "creating")
      BY <1>1
    <2>5. QED
      BY <1>3, <1>8, <1>9, <1>10, <1>11, <2>1, <2>2, <2>3, <2>4, SectionStep

\* The section of a removal: the parent's lock.
LEMMA StartRemovingStep ==
  ASSUME PathInv, NEW t \in Tasks, StartRemoving(t)
  PROVE  PathInv'
  <1> DEFINE d0 == op[t].dir
             g == Guard("dirop", {d0})
  <1>1. AtStep(t, "dirop") /\ step[t] > 0 /\ Types /\ CountInv /\ Placed(t)
    BY DEF StartRemoving, AtStep, PathInv, TaskInv
  <1>2. d0 \in Dirs
    BY <1>1, AtStepFacts
  <1>3. g \in AnyGuard /\ g.kind = "dirop" /\ g.live /\ g.dirs = {d0}
    BY <1>2 DEF Guard, AnyGuard, GuardKinds, Sections
  <1>4. /\ \A d \in Dirs : ~HoldsRef(op[t], g, d)
        /\ \A m \in Mounts : ~HoldsWrite(g, m)
    BY <1>3 DEF HoldsRef, HoldsWrite
  <1>5. /\ Push(t, g) /\ Advance(t) /\ op' = op
        /\ dirLock[d0] = NoTask /\ dirLock' = [dirLock EXCEPT ![d0] = t]
        /\ UNCHANGED <<renameLock, pathRefs, writers, readonly, busy>>
    BY DEF StartRemoving
  <1>6. (\A d \in Dirs : dirLock[d] # t) /\ renameLock # t
    BY <1>1, NothingLocked DEF Sections
  <1>7. NoTask \notin Tasks /\ dirLock \in [Dirs -> Tasks \cup {NoTask}]
    BY <1>1, PathAssumption DEF Types
  <1> HIDE DEF g, d0
  <1>8. pathRefs = [d \in Dirs |-> pathRefs[d]] /\ writers = [m \in Mounts |-> writers[m]]
    BY <1>1 DEF CountInv
  <1>9. pathRefs' = [d \in Dirs |-> IF HoldsRef(op[t], g, d) THEN pathRefs[d] + 1 ELSE pathRefs[d]]
    BY <1>4, <1>5, <1>8
  <1>10. writers' = [m \in Mounts |-> IF HoldsWrite(g, m) THEN writers[m] + 1 ELSE writers[m]]
    BY <1>4, <1>5, <1>8
  <1>11. /\ dirLock' \in [Dirs -> Tasks \cup {NoTask}]
         /\ \A u \in Tasks \ {t}, d \in Dirs : dirLock'[d] = u <=> dirLock[d] = u
         /\ \A d \in Dirs : dirLock'[d] = t <=> d \in g.dirs
    BY <1>2, <1>3, <1>5, <1>6, <1>7
  <1>12. QED
    BY <1>1, <1>3, <1>5, <1>6, <1>9, <1>10, <1>11, SectionStep DEF Sections

\* The section of a rename: it takes over the locks lock_rename has taken.
LEMMA StartRenamingStep ==
  ASSUME PathInv, NEW t \in Tasks, StartRenaming(t)
  PROVE  PathInv'
  <1> DEFINE d0 == op[t].dir
             g == Guard("renaming", {op[t].dir, op[t].to})
  <1>1. AtStep(t, "renaming") /\ step[t] > 0 /\ Types /\ CountInv /\ Placed(t)
    BY DEF StartRenaming, AtStep, PathInv, TaskInv
  <1>2. d0 \in Dirs /\ op[t].to \in Dirs
    BY <1>1, AtStepFacts
  <1>3. g \in AnyGuard /\ g.kind = "renaming" /\ g.live /\ g.dirs = {d0, op[t].to}
    BY <1>2 DEF Guard, AnyGuard, GuardKinds, Sections
  <1>4. /\ \A d \in Dirs : HoldsRef(op[t], g, d) <=> d = d0
        /\ \A m \in Mounts : ~HoldsWrite(g, m)
    BY <1>3 DEF HoldsRef, HoldsWrite
  <1>5. /\ Push(t, g) /\ Advance(t) /\ op' = op
        /\ pathRefs' = [pathRefs EXCEPT ![d0] = @ + 1]
        /\ UNCHANGED <<dirLock, renameLock, writers, readonly, busy>>
    BY DEF StartRenaming
  <1>6. \A d \in Dirs : dirLock[d] = t <=> d \in g.dirs
    <2>1. ToLock(t) = {}
      BY DEF StartRenaming
    <2>2. \A d \in Dirs : dirLock[d] = t => d \in {d0, op[t].to}
      BY <1>1, NothingLocked DEF Sections
    <2>3. QED
      BY <1>3, <2>1, <2>2 DEF ToLock
  <1>7. dirLock \in [Dirs -> Tasks \cup {NoTask}]
    BY <1>1 DEF Types
  <1> HIDE DEF g, d0
  <1>8. pathRefs = [d \in Dirs |-> pathRefs[d]] /\ writers = [m \in Mounts |-> writers[m]]
    BY <1>1 DEF CountInv
  <1>9. pathRefs' = [d \in Dirs |-> IF HoldsRef(op[t], g, d) THEN pathRefs[d] + 1 ELSE pathRefs[d]]
    BY <1>4, <1>5, <1>8
  <1>10. writers' = [m \in Mounts |-> IF HoldsWrite(g, m) THEN writers[m] + 1 ELSE writers[m]]
    BY <1>4, <1>5, <1>8
  <1>11. QED
    <2>1. "renaming" \in Sections
      BY DEF Sections
    <2>2. /\ dirLock' \in [Dirs -> Tasks \cup {NoTask}]
          /\ \A u \in Tasks \ {t}, d \in Dirs : dirLock'[d] = u <=> dirLock[d] = u
          /\ \A d \in Dirs : dirLock'[d] = t <=> d \in g.dirs
      BY <1>5, <1>6, <1>7
    <2>3. /\ op' = op /\ readonly' = readonly /\ busy' = busy /\ renameLock' = renameLock
          /\ Push(t, g) /\ Advance(t)
      BY <1>5
    <2>4. AtStep(t, "renaming")
      BY <1>1
    <2>5. QED
      BY <1>3, <1>9, <1>10, <2>1, <2>2, <2>3, <2>4, SectionStep

\* The victim's place is filled, inside the section and under it in the stack.
LEMMA HoldVictimStep ==
  ASSUME PathInv, NEW t \in Tasks, HoldVictim(t)
  PROVE  PathInv'
  <1>1. AtStep(t, "hold") /\ Advance(t) /\ op' = op /\ UNCHANGED <<vfs, readonly, busy>>
    BY DEF HoldVictim
  <1>2. CASE held' = held
    <2>1. Still
      BY <1>1, <1>2 DEF Still, vfs
    <2>2. QED
      BY <1>1, <2>1, OnStep
  <1>3. CASE held' = [held EXCEPT ![t] = [i \in DOMAIN @ |->
                        IF @[i].kind = "victim" THEN [@[i] EXCEPT !.live = TRUE] ELSE @[i]]]
    <2> DEFINE h == held[t]
               h2 == [i \in DOMAIN h |-> IF h[i].kind = "victim" THEN [h[i] EXCEPT !.live = TRUE]
                                                                ELSE h[i]]
    <2>1. /\ Types /\ Placed(t) /\ Stacked(t) /\ Locks(t) /\ Kept(t) /\ Claims(t) /\ step[t] > 0
          /\ CountInv
      BY <1>1 DEF PathInv, TaskInv, AtStep
    <2>2. /\ step' \in [Tasks -> 0..9] /\ \A u \in Tasks : u # t => step'[u] = step[u]
          /\ step'[t] = step[t] + 1 /\ step'[t] \in 2..Len(Program[op[t].kind]) /\ step'[t] # 2
          /\ ~(step'[t] = 3 /\ op[t].kind = "mkdir") /\ ~AtStep(t, "mkdir")'
          /\ Program[op[t].kind][step'[t]] \in Inside
      BY <1>1, <2>1, NextStep
    <2>3. /\ op[t] # Idle /\ Len(h) \in 0..8 /\ step[t] \in Nat /\ h \in Seq(AnyGuard)
          /\ \A i \in 1..Len(h) : h[i] \in AnyGuard
      BY <2>1, AtStepFacts
    <2>4. /\ h2 \in Seq(AnyGuard) /\ Len(h2) = Len(h)
          /\ \A i \in 1..Len(h) : /\ h2[i].kind = h[i].kind /\ h2[i].dirs = h[i].dirs
                                  /\ ~h2[i].live => ~h[i].live
                                  /\ h2[i].live /\ h2[i].kind # "victim" => h[i].live
      <3> HIDE DEF h
      <3>1. DOMAIN h = 1..Len(h) /\ Len(h) \in Nat
        BY <2>3
      <3>2. ASSUME NEW i \in 1..Len(h)
            PROVE  /\ h2[i] \in AnyGuard /\ h2[i].kind = h[i].kind /\ h2[i].dirs = h[i].dirs
                   /\ ~h2[i].live => ~h[i].live
                   /\ h2[i].live /\ h2[i].kind # "victim" => h[i].live
        <4>1. h[i] \in AnyGuard
          BY <2>3
        <4>2. h2[i] = IF h[i].kind = "victim" THEN [h[i] EXCEPT !.live = TRUE] ELSE h[i]
          BY <3>1
        <4> HIDE DEF h2
        <4>3. QED
          BY <4>1, <4>2 DEF AnyGuard
      <3>3. h2 = [i \in 1..Len(h) |-> h2[i]]
        BY <3>1
      <3> HIDE DEF h2
      <3>4. h2 \in Seq(AnyGuard) /\ Len(h2) = Len(h)
        BY <3>1, <3>2, <3>3
      <3>5. QED
        BY <3>2, <3>4
    <2>5. held' = [held EXCEPT ![t] = h2]
      BY <1>3
    <2> HIDE DEF h2
    <2>6. /\ held' \in [Tasks -> Seq(AnyGuard)] /\ held'[t] = h2
          /\ \A u \in Tasks : u # t => held'[u] = held[u]
      BY <2>1, <2>4, <2>5 DEF Types
    <2>7. /\ Len(held'[t]) = Len(held[t])
          /\ \A i \in 1..Len(held[t]) :
               /\ held'[t][i].kind = held[t][i].kind /\ held'[t][i].dirs = held[t][i].dirs
               /\ ~held'[t][i].live => ~held[t][i].live
               /\ held'[t][i].live /\ held'[t][i].kind # "victim" => held[t][i].live
      BY <2>4, <2>6
    <2> HIDE DEF h
    <2>8. Types'
      BY <1>1, <2>1, <2>2, <2>6 DEF Types, vfs
    <2>9. CountInv'
      <3>1. ASSUME NEW u \in Tasks, NEW i \in 1..9
            PROVE  /\ i \in 1..Len(held'[u]) <=> i \in 1..Len(held[u])
                   /\ i \in 1..Len(held[u]) =>
                        held'[u][i].kind = held[u][i].kind /\ held'[u][i].dirs = held[u][i].dirs
        <4>1. CASE u = t
          BY <2>7, <4>1
        <4>2. CASE u # t
          BY <2>6, <4>2
        <4>3. QED
          BY <4>1, <4>2
      <3>2. pathRefs' = pathRefs /\ writers' = writers
        BY <1>1 DEF vfs
      <3>3. QED
        BY <1>1, <2>1, <2>8, <3>1, <3>2, SameCount
    <2>10. Beside(t)
      BY <1>1, <2>2, <2>6 DEF Beside, vfs
    <2>11. Placed(t)'
      <3>1. Len(held[t]) < step[t]
        BY <2>1 DEF Placed
      <3> DEFINE l == Len(held[t])
                 p == Len(Program[op[t].kind])
                 n == step[t]
      <3>2. l \in 0..8 /\ l < n /\ n \in Nat /\ step'[t] = n + 1 /\ step'[t] \in 2..p /\ step'[t] # 2
        BY <2>2, <2>3, <3>1 DEF h
      <3> HIDE DEF l, p, n
      <3>3. step'[t] <= p /\ l < step'[t] /\ l <= 9 /\ step'[t] # 1 /\ step'[t] # 2
        BY <3>2
      <3>4. QED
        BY <1>1, <2>2, <2>3, <2>7, <3>3 DEF Placed, l, p
    <2>12. Stacked(t)'
      <3>1. ASSUME NEW i \in 1..Len(held[t])
            PROVE  /\ held[t][i].kind \in Sections => i = Len(held[t])
                   /\ held[t][i].kind = "slot" => i = 1
                   /\ ~held[t][i].live => held[t][i].kind = "victim"
        BY <2>1, <2>3 DEF Stacked
      <3>2. QED
        BY <1>1, <2>2, <2>7, <3>1 DEF Stacked
    <2>13. Locks(t)'
      <3>1. ASSUME NEW i \in 1..Len(held[t]), held[t][i].kind \in Sections, held[t][i].live
            PROVE  held'[t][i].live
        <4>1. ~held'[t][i].live => FALSE
          BY <2>7, <3>1
        <4>2. QED
          BY <4>1
      <3>2. ASSUME NEW d \in Dirs, dirLock[d] = t
            PROVE  \E i \in 1..Len(held'[t]) :
                     held'[t][i].kind \in Sections /\ held'[t][i].live /\ d \in held'[t][i].dirs
        <4>1. PICK i \in 1..Len(held[t]) :
                held[t][i].kind \in Sections /\ held[t][i].live /\ d \in held[t][i].dirs
          BY <1>1, <2>1, <3>2 DEF Locks, AtStep
        <4>2. QED
          BY <2>7, <3>1, <4>1
      <3>3. ASSUME renameLock = t
            PROVE  \E i \in 1..Len(held'[t]) : held'[t][i].kind = "renaming"
        BY <1>1, <2>1, <2>7, <3>3 DEF Locks, AtStep
      <3>4. QED
        BY <1>1, <3>2, <3>3 DEF Locks, vfs
    <2>14. Kept(t)'
      <3>1. ASSUME NEW i \in 1..Len(held[t])
            PROVE  /\ held'[t][i].kind \in Sections /\ held'[t][i].live =>
                        \A d \in held'[t][i].dirs : dirLock'[d] = t
                   /\ held'[t][i].kind \in {"write", "creating"} =>
                        \A d \in held'[t][i].dirs : MountOf[d] \notin readonly'
        <4>1. /\ held'[t][i].kind = held[t][i].kind /\ held'[t][i].dirs = held[t][i].dirs
              /\ held'[t][i].live /\ held'[t][i].kind # "victim" => held[t][i].live
          BY <2>7
        <4>2. UNCHANGED <<dirLock, readonly>>
          BY <1>1 DEF vfs
        <4>3. "victim" \notin Sections
          BY DEF Sections
        <4>4. QED
          BY <2>1, <4>1, <4>2, <4>3 DEF Kept
      <3>2. QED
        BY <2>7, <3>1 DEF Kept
    <2>15. Claims(t)'
      BY <1>1, <2>1, <2>7 DEF Claims
    <2>16. QED
      BY <1>1, <2>8, <2>9, <2>10, <2>11, <2>12, <2>13, <2>14, <2>15, StepIs DEF TaskInv
  <1>4. QED
    BY <1>2, <1>3 DEF HoldVictim

\* lock_rename, a lock at a time.
LEMMA RenameLocksStep ==
  ASSUME PathInv, NEW t \in Tasks, RenameMutex(t) \/ LockParent(t)
  PROVE  PathInv'
  <1>1. /\ AtStep(t, "renaming") /\ UNCHANGED <<op, step, held, pathRefs, writers, readonly, busy>>
        /\ \/ renameLock = NoTask /\ renameLock' = t /\ dirLock' = dirLock
           \/ /\ renameLock' = renameLock
              /\ \E d \in ToLock(t) : dirLock[d] = NoTask /\ dirLock' = [dirLock EXCEPT ![d] = t]
    BY DEF RenameMutex, LockParent
  <1>2. /\ Types /\ Placed(t) /\ Stacked(t) /\ Locks(t) /\ Kept(t) /\ Claims(t) /\ step[t] > 0
        /\ CountInv /\ NoTask \notin Tasks
    BY <1>1, PathAssumption DEF PathInv, TaskInv, AtStep
  <1>3. /\ renameLock' \in Tasks \cup {NoTask} /\ dirLock' \in [Dirs -> Tasks \cup {NoTask}]
        /\ \A u \in Tasks \ {t}, d \in Dirs : dirLock'[d] = u <=> dirLock[d] = u
        /\ \A u \in Tasks \ {t} : renameLock' = u <=> renameLock = u
        /\ \A d \in Dirs : dirLock[d] = t => dirLock'[d] = t
        /\ \A d \in Dirs : dirLock'[d] = t => dirLock[d] = t \/ d \in {op[t].dir, op[t].to}
    <2>1. CASE renameLock = NoTask /\ renameLock' = t /\ dirLock' = dirLock
      BY <1>2, <2>1 DEF Types
    <2>2. CASE renameLock' = renameLock
               /\ \E d \in ToLock(t) : dirLock[d] = NoTask /\ dirLock' = [dirLock EXCEPT ![d] = t]
      <3>1. PICK e \in ToLock(t) : dirLock[e] = NoTask /\ dirLock' = [dirLock EXCEPT ![e] = t]
        BY <2>2
      <3>2. e \in {op[t].dir, op[t].to}
        BY DEF ToLock
      <3>3. dirLock \in [Dirs -> Tasks \cup {NoTask}] /\ renameLock \in Tasks \cup {NoTask}
        BY <1>2 DEF Types
      <3>4. QED
        BY <1>2, <2>2, <3>1, <3>2, <3>3
    <2>3. QED
      BY <1>1, <2>1, <2>2
  <1>4. Types'
    BY <1>1, <1>2, <1>3 DEF Types
  <1>5. CountInv'
    BY <1>1, <1>2 DEF CountInv, Holding, Writing, Guards
  <1>6. Beside(t)
    BY <1>1, <1>3 DEF Beside
  <1>7. Placed(t)' /\ Stacked(t)' /\ Claims(t)'
    BY <1>1, <1>2 DEF Placed, Stacked, Claims, AtStep
  <1>8. AtStep(t, "renaming")'
    BY <1>1 DEF AtStep
  <1>9. Locks(t)'
    <2>1. \A i \in 1..Len(held[t]) : held[t][i].kind \notin Sections
      BY <1>1, <1>2 DEF Stacked, AtStep, Inside, Sections
    <2>2. \A d \in Dirs : dirLock'[d] = t => d \in {op'[t].dir, op'[t].to}
      BY <1>1, <1>2, <1>3, <2>1 DEF Locks
    <2>3. QED
      BY <1>8, <2>2 DEF Locks
  <1>10. Kept(t)'
    <2>1. \A i \in 1..Len(held[t]) : held[t][i].dirs \subseteq Dirs
      <3>1. \A i \in 1..Len(held[t]) : held[t][i] \in AnyGuard
        BY <1>2, AtStepFacts
      <3>2. QED
        BY <3>1 DEF AnyGuard
    <2>2. QED
      BY <1>1, <1>2, <1>3, <2>1 DEF Kept
  <1>11. QED
    BY <1>1, <1>4, <1>5, <1>6, <1>7, <1>9, <1>10, StepIs DEF TaskInv

\* start_renaming fails: nothing of what lock_rename took stays.
LEMMA RenamingFailsStep ==
  ASSUME PathInv, NEW t \in Tasks, RenamingFails(t)
  PROVE  PathInv'
  <1>1. /\ AtStep(t, "renaming") /\ UNCHANGED <<op, held, pathRefs, writers, readonly, busy>>
        /\ dirLock' = [d \in Dirs |-> IF dirLock[d] = t THEN NoTask ELSE dirLock[d]]
        /\ renameLock' = IF renameLock = t THEN NoTask ELSE renameLock
        /\ step' = [step EXCEPT ![t] = 0]
    BY DEF RenamingFails, GotoStep
  <1>2. /\ Types /\ Placed(t) /\ Stacked(t) /\ Locks(t) /\ Kept(t) /\ Claims(t) /\ step[t] > 0
        /\ CountInv /\ NoTask \notin Tasks
    BY <1>1, PathAssumption DEF PathInv, TaskInv, AtStep
  <1>3. /\ step' \in [Tasks -> 0..9] /\ step'[t] = 0
        /\ \A u \in Tasks : u # t => step'[u] = step[u]
    BY <1>1, <1>2 DEF Types
  <1>4. /\ renameLock' \in Tasks \cup {NoTask} /\ dirLock' \in [Dirs -> Tasks \cup {NoTask}]
        /\ \A u \in Tasks \ {t}, d \in Dirs : dirLock'[d] = u <=> dirLock[d] = u
        /\ \A u \in Tasks \ {t} : renameLock' = u <=> renameLock = u
        /\ \A d \in Dirs : dirLock'[d] # t
        /\ renameLock' # t
    <2>1. dirLock \in [Dirs -> Tasks \cup {NoTask}] /\ renameLock \in Tasks \cup {NoTask}
      BY <1>2 DEF Types
    <2>2. QED
      BY <1>1, <1>2, <2>1
  <1>5. Types'
    BY <1>1, <1>2, <1>3, <1>4 DEF Types
  <1>6. CountInv'
    BY <1>1, <1>2 DEF CountInv, Holding, Writing, Guards
  <1>7. Beside(t)
    BY <1>1, <1>3, <1>4 DEF Beside
  <1>8. Placed(t)'
    BY <1>1, <1>2, <1>3 DEF Placed, AtStep
  <1>9. \A i \in 1..Len(held[t]) : held[t][i].kind \notin Sections
    BY <1>1, <1>2 DEF Stacked, AtStep, Inside, Sections
  <1>10. Stacked(t)' /\ Claims(t)'
    BY <1>1, <1>2, <1>3 DEF Stacked, Claims
  <1>11. Locks(t)'
    BY <1>4 DEF Locks
  <1>12. Kept(t)'
    BY <1>1, <1>2, <1>9 DEF Kept
  <1>13. QED
    BY <1>1, <1>5, <1>6, <1>7, <1>8, <1>10, <1>11, <1>12, StepIs DEF TaskInv

\* A stack of one guard.
LEMMA OneGuard ==
  ASSUME NEW g, NEW r, NEW h, h = <<g>>
  PROVE  Len(h) = 1 /\ h[1] = g /\ [h EXCEPT ![1] = r] = <<r>>
  <1>1. DOMAIN h = {1} /\ h[1] = g /\ h = [i \in {1} |-> g] /\ Len(h) = 1
    OBVIOUS
  <1>2. [h EXCEPT ![1] = r] = [i \in {1} |-> r]
    BY <1>1
  <1>3. <<r>> = [i \in {1} |-> r]
    OBVIOUS
  <1>4. QED
    BY <1>1, <1>2, <1>3

\* vfs_mkdir gave the dentry back, or unlocked the parent.
LEMMA MkdirStep ==
  ASSUME PathInv, NEW t \in Tasks, Mkdir(t)
  PROVE  PathInv'
  <1>1. AtStep(t, "mkdir") /\ GotoStep(t, 0) /\ op' = op
        /\ UNCHANGED <<renameLock, pathRefs, writers, readonly, busy>>
    BY DEF Mkdir
  <1>2. /\ Types /\ Placed(t) /\ Stacked(t) /\ Locks(t) /\ Kept(t) /\ Claims(t) /\ step[t] > 0
        /\ CountInv /\ NoTask \notin Tasks
    BY <1>1, PathAssumption DEF PathInv, TaskInv, AtStep
  <1>3. CASE UNCHANGED <<held, dirLock>>
    <2>1. Still
      BY <1>1, <1>3 DEF Still
    <2>2. ~AtStep(t, "renaming")
      BY <1>1 DEF AtStep
    <2>3. QED
      BY <1>1, <1>2, <2>1, <2>2, ToUnwind
  <1>4. CASE /\ held' = [held EXCEPT ![t][Len(held[t])].live = FALSE]
             /\ dirLock' = [dirLock EXCEPT ![op[t].dir] = NoTask]
    <2> DEFINE d0 == op[t].dir
               g == Guard("creating", {d0})
               g2 == [g EXCEPT !.live = FALSE]
    <2>1. held[t] = <<g>> /\ Len(held[t]) = 1 /\ held[t][1] = g
      <3>1. held[t] = <<g>>
        BY <1>1, <1>2 DEF Placed
      <3> HIDE DEF g
      <3>2. QED
        BY <3>1, OneGuard
    <2>2. d0 \in Dirs /\ op[t] # Idle
      BY <1>2, AtStepFacts
    <2>3. /\ g2 \in AnyGuard /\ g2.kind = "creating" /\ ~g2.live /\ g2.dirs = {d0}
          /\ g.kind = "creating" /\ g.live /\ g.dirs = {d0}
      BY <2>2 DEF Guard, AnyGuard, GuardKinds, Sections
    <2>4. held' = [held EXCEPT ![t] = <<g2>>]
      <3> HIDE DEF g
      <3>1. [held[t] EXCEPT ![1].live = FALSE] = <<g2>>
        <4> HIDE DEF g2
        <4>1. [held[t] EXCEPT ![1] = g2] = <<g2>>
          BY <2>1, OneGuard
        <4>2. [held[t] EXCEPT ![1].live = FALSE] = [held[t] EXCEPT ![1] = g2]
          BY <2>1 DEF g2
        <4>3. QED
          BY <4>1, <4>2
      <3>2. held \in [Tasks -> Seq(AnyGuard)]
        BY <1>2 DEF Types
      <3>3. held' = [held EXCEPT ![t] = [held[t] EXCEPT ![1].live = FALSE]]
        BY <1>4, <2>1
      <3>4. QED
        BY <3>1, <3>3
    <2> HIDE DEF g, g2, d0
    <2>5. /\ held' \in [Tasks -> Seq(AnyGuard)] /\ held'[t] = <<g2>>
          /\ \A u \in Tasks : u # t => held'[u] = held[u]
      <3>1. <<g2>> \in Seq(AnyGuard)
        BY <2>3
      <3>2. held \in [Tasks -> Seq(AnyGuard)]
        BY <1>2 DEF Types
      <3>3. QED
        BY <2>4, <3>1, <3>2
    <2>6. Len(held'[t]) = 1 /\ held'[t][1] = g2
      BY <2>5
    <2>7. /\ step' \in [Tasks -> 0..9] /\ step'[t] = 0
          /\ \A u \in Tasks : u # t => step'[u] = step[u]
      BY <1>1, <1>2 DEF Types, GotoStep
    <2>8. dirLock[d0] = t
      BY <1>2, <2>1, <2>3 DEF Kept, Sections
    <2>9. \A d \in Dirs : dirLock[d] = t => d = d0
      BY <1>1, <1>2, <2>1, <2>3 DEF Locks, AtStep
    <2>10. /\ dirLock' \in [Dirs -> Tasks \cup {NoTask}]
           /\ \A u \in Tasks \ {t}, d \in Dirs : dirLock'[d] = u <=> dirLock[d] = u
           /\ \A d \in Dirs : dirLock'[d] # t
      <3>1. dirLock \in [Dirs -> Tasks \cup {NoTask}] /\ dirLock' = [dirLock EXCEPT ![d0] = NoTask]
        BY <1>2, <1>4 DEF Types, d0
      <3>2. QED
        BY <1>2, <2>2, <2>8, <2>9, <3>1
    <2>11. renameLock # t
      BY <1>1, <1>2, <2>1, <2>3 DEF Locks, AtStep
    <2>12. Types'
      BY <1>1, <1>2, <2>5, <2>7, <2>10 DEF Types
    <2>13. CountInv'
      <3>1. ASSUME NEW u \in Tasks, NEW i \in 1..9
            PROVE  /\ i \in 1..Len(held'[u]) <=> i \in 1..Len(held[u])
                   /\ i \in 1..Len(held[u]) =>
                        held'[u][i].kind = held[u][i].kind /\ held'[u][i].dirs = held[u][i].dirs
        <4>1. CASE u = t
          <5>1. \A j \in 1..1 : j = 1
            OBVIOUS
          <5>2. Len(held'[u]) = Len(held[u]) /\ held'[u][1] = g2 /\ held[u][1] = g
            BY <2>1, <2>6, <4>1
          <5>3. i \in 1..Len(held[u]) => i = 1
            BY <2>1, <4>1, <5>1
          <5>4. g2.kind = g.kind /\ g2.dirs = g.dirs
            BY <2>3
          <5>5. QED
            BY <5>2, <5>3, <5>4
        <4>2. CASE u # t
          BY <2>5, <4>2
        <4>3. QED
          BY <4>1, <4>2
      <3>2. QED
        BY <1>1, <1>2, <2>12, <3>1, SameCount
    <2>14. Beside(t)
      BY <1>1, <2>5, <2>7, <2>10 DEF Beside
    <2>15. Placed(t)'
      BY <1>1, <2>2, <2>6, <2>7 DEF Placed, AtStep
    <2>16. Stacked(t)'
      BY <2>3, <2>6, <2>7 DEF Stacked
    <2>17. Locks(t)'
      BY <1>1, <2>10, <2>11 DEF Locks
    <2>18. Kept(t)'
      BY <1>1, <1>2, <2>1, <2>3, <2>6 DEF Kept
    <2>19. Claims(t)'
      BY <1>1, <1>2, <2>1, <2>3, <2>6 DEF Claims
    <2>20. QED
      BY <1>1, <2>12, <2>13, <2>14, <2>15, <2>16, <2>17, <2>18, <2>19, StepIs DEF TaskInv
  <1>5. QED
    BY <1>3, <1>4 DEF Mkdir

\* The answer: nothing is held.
LEMMA AnswerStep ==
  ASSUME PathInv, NEW t \in Tasks, AnswerPath(t)
  PROVE  PathInv'
  <1>1. /\ step[t] = 0 /\ held[t] = <<>> /\ op' = [op EXCEPT ![t] = Idle]
        /\ UNCHANGED <<step, held, vfs, readonly, busy>>
    BY DEF AnswerPath
  <1>2. /\ Types /\ Placed(t) /\ Stacked(t) /\ Locks(t) /\ Kept(t) /\ Claims(t) /\ CountInv
    BY DEF PathInv, TaskInv
  <1>3. /\ op' \in [Tasks -> Operations \cup {Idle}] /\ op'[t] = Idle
        /\ \A u \in Tasks : u # t => op'[u] = op[u]
    BY <1>1, <1>2 DEF Types
  <1>4. Types'
    BY <1>1, <1>2, <1>3 DEF Types, vfs
  <1>5. CountInv'
    <2>1. \A i \in 1..9 : i \notin 1..Len(held[t])
      BY <1>1
    <2>2. \A u \in Tasks, i \in 1..9 : i \in 1..Len(held[u]) => op'[u] = op[u]
      BY <1>3, <2>1
    <2>3. QED
      BY <1>1, <1>2, <1>4, <2>2, SameCount DEF vfs
  <1>6. Beside(t)
    BY <1>1, <1>3 DEF Beside, vfs
  <1>7. Placed(t)'
    BY <1>1, <1>3 DEF Placed, AtStep
  <1>8. Stacked(t)' /\ Kept(t)' /\ Claims(t)'
    BY <1>1, <1>2 DEF Stacked, Kept, Claims, vfs
  <1>9. Locks(t)'
    BY <1>1, <1>2 DEF Locks, AtStep, vfs
  <1>10. QED
    BY <1>1, <1>4, <1>5, <1>6, <1>7, <1>8, <1>9, StepIs DEF TaskInv

\* What a pop does.
LEMMA PopIs ==
  ASSUME Types, NEW t \in Tasks, Pop(t), held[t] # <<>>, Len(held[t]) <= 9
  PROVE  /\ held' \in [Tasks -> Seq(AnyGuard)]
         /\ \A u \in Tasks : u # t => held'[u] = held[u]
         /\ Len(held[t]) \in 1..9 /\ Len(held'[t]) = Len(held[t]) - 1
         /\ \A i \in 1..Len(held'[t]) :
              i \in 1..Len(held[t]) /\ i # Len(held[t]) /\ held'[t][i] = held[t][i]
         /\ \A i \in 1..Len(held[t]) : i \in 1..Len(held'[t]) \/ i = Len(held[t])
         /\ Len(held[t]) \in 1..Len(held[t]) /\ TopOf(t) \in AnyGuard
  <1> DEFINE h == held[t]
             n == Len(h)
             h2 == SubSeq(h, 1, n - 1)
  <1>1. held \in [Tasks -> Seq(AnyGuard)] /\ h \in Seq(AnyGuard)
    BY DEF Types
  <1>2. n \in 1..9
    <2>1. n \in Nat /\ n <= 9 /\ n # 0
      BY <1>1, EmptySeq
    <2> HIDE DEF n
    <2>2. QED
      BY <2>1
  <1>3. held' = [held EXCEPT ![t] = h2]
    BY DEF Pop
  <1>4. n = Len(h)
    OBVIOUS
  <1> HIDE DEF n
  <1>5. h2 \in Seq(AnyGuard) /\ Len(h2) = n - 1 /\ \A i \in 1..(n - 1) : h2[i] = h[i]
    <2> HIDE DEF h
    <2>1. h2 = [i \in 1..(n - 1) |-> h[i]] /\ n - 1 \in Nat
      BY <1>1, <1>2, <1>4
    <2>2. \A i \in 1..(n - 1) : h[i] \in AnyGuard
      BY <1>1, <1>2, <1>4
    <2> HIDE DEF h2
    <2>3. QED
      BY <2>1, <2>2
  <1> HIDE DEF h2
  <1>6. /\ held' \in [Tasks -> Seq(AnyGuard)] /\ held'[t] = h2
        /\ \A u \in Tasks : u # t => held'[u] = held[u]
    BY <1>1, <1>3, <1>5
  <1>7. /\ \A i \in 1..Len(h2) : i \in 1..n /\ i # n /\ h2[i] = h[i]
        /\ \A i \in 1..n : i \in 1..Len(h2) \/ i = n
        /\ n \in 1..n
    BY <1>2, <1>5
  <1>8. h[n] \in AnyGuard
    <2> HIDE DEF h
    <2>1. QED
      BY <1>1, <1>2, <1>4
  <1>9. QED
    BY <1>2, <1>4, <1>5, <1>6, <1>7, <1>8 DEF TopOf

\* What the guard on top counted is taken back.
LEMMA ReleaseCounts ==
  ASSUME CountInv, NEW t \in Tasks, NEW g \in AnyGuard, DropGuard(t, g)
  PROVE  /\ pathRefs' = [d \in Dirs |-> IF HoldsRef(op[t], g, d) THEN pathRefs[d] - 1 ELSE pathRefs[d]]
         /\ writers' = [m \in Mounts |-> IF HoldsWrite(g, m) THEN writers[m] - 1 ELSE writers[m]]
  <1>1. /\ pathRefs = [d \in Dirs |-> pathRefs[d]] /\ DOMAIN pathRefs = Dirs
        /\ writers = [m \in Mounts |-> writers[m]] /\ DOMAIN writers = Mounts
    BY DEF CountInv
  <1>2. pathRefs' = [d \in Dirs |-> IF HoldsRef(op[t], g, d) THEN pathRefs[d] - 1 ELSE pathRefs[d]]
    <2>1. CASE g.kind \in {"path", "creating"}
      <3>1. pathRefs' = Uncount(pathRefs, g.dirs) /\ \A d : HoldsRef(op[t], g, d) <=> d \in g.dirs
        BY <2>1 DEF DropGuard, HoldsRef
      <3>2. QED
        BY <1>1, <3>1 DEF Uncount
    <2>2. CASE g.kind = "renaming"
      <3>1. pathRefs' = Uncount(pathRefs, {op[t].dir}) /\ \A d : HoldsRef(op[t], g, d) <=> d = op[t].dir
        BY <2>2 DEF DropGuard, HoldsRef
      <3>2. QED
        BY <1>1, <3>1 DEF Uncount
    <2>3. CASE g.kind \notin {"path", "creating", "renaming"}
      <3>1. pathRefs' = pathRefs /\ \A d : ~HoldsRef(op[t], g, d)
        BY <2>3 DEF DropGuard, HoldsRef
      <3>2. QED
        BY <1>1, <3>1
    <2>4. QED
      BY <2>1, <2>2, <2>3
  <1>3. writers' = [m \in Mounts |-> IF HoldsWrite(g, m) THEN writers[m] - 1 ELSE writers[m]]
    <2>1. CASE g.kind \in {"write", "creating"}
      <3>1. writers' = Uncount(writers, MountsOf(g.dirs))
        BY <2>1 DEF DropGuard
      <3>2. \A m : HoldsWrite(g, m) <=> m \in MountsOf(g.dirs)
        BY <2>1 DEF HoldsWrite
      <3>3. QED
        BY <1>1, <3>1, <3>2 DEF Uncount
    <2>2. CASE g.kind \notin {"write", "creating"}
      <3>1. writers' = writers /\ \A m : ~HoldsWrite(g, m)
        BY <2>2 DEF DropGuard, HoldsWrite
      <3>2. QED
        BY <1>1, <3>1
    <2>3. QED
      BY <2>1, <2>2
  <1>4. QED
    BY <1>2, <1>3

\* What it locked is unlocked, and nothing of the others: a task that unwinds
\* has no lock but those of the section on top.
LEMMA ReleaseLocks ==
  ASSUME PathInv, NEW t \in Tasks, step[t] = 0, Len(held[t]) \in 1..Len(held[t]),
         TopOf(t) \in AnyGuard, DropGuard(t, TopOf(t))
  PROVE  /\ dirLock' \in [Dirs -> Tasks \cup {NoTask}] /\ renameLock' \in Tasks \cup {NoTask}
         /\ \A u \in Tasks \ {t} : /\ \A d \in Dirs : dirLock'[d] = u <=> dirLock[d] = u
                                   /\ renameLock' = u <=> renameLock = u
         /\ \A d \in Dirs : dirLock'[d] # t
         /\ renameLock' # t
  <1>1. /\ Types /\ Stacked(t) /\ Locks(t) /\ Kept(t) /\ NoTask \notin Tasks
        /\ dirLock \in [Dirs -> Tasks \cup {NoTask}] /\ renameLock \in Tasks \cup {NoTask}
    BY PathAssumption DEF PathInv, TaskInv, Types
  <1> DEFINE n == Len(held[t])
             g == TopOf(t)
             locked == IF g.kind \in Sections /\ g.live THEN g.dirs ELSE {}
  <1>2. g = held[t][n] /\ n \in 1..Len(held[t])
    BY DEF TopOf
  <1>3. \A i \in 1..Len(held[t]) : held[t][i].kind \in Sections => i = n
    BY <1>1 DEF Stacked
  <1>4. ~AtStep(t, "renaming")
    BY DEF AtStep
  <1>5. \A d \in Dirs : dirLock[d] = t <=> d \in locked
    <2>1. ASSUME NEW d \in Dirs, dirLock[d] = t PROVE d \in locked
      BY <1>1, <1>2, <1>3, <1>4, <2>1 DEF Locks
    <2>2. ASSUME NEW d \in Dirs, d \in locked PROVE dirLock[d] = t
      BY <1>1, <1>2, <2>2 DEF Kept
    <2>3. QED
      BY <2>1, <2>2
  <1>6. renameLock = t => g.kind = "renaming"
    BY <1>1, <1>2, <1>3, <1>4 DEF Locks, Sections
  <1>7. \A d \in Dirs : dirLock'[d] = IF d \in locked THEN NoTask ELSE dirLock[d]
    BY DEF DropGuard, Unlocked, Sections
  <1>8. dirLock' \in [Dirs -> Tasks \cup {NoTask}]
    BY <1>1 DEF DropGuard, Unlocked
  <1>9. renameLock' = IF g.kind = "renaming" /\ renameLock = t THEN NoTask ELSE renameLock
    BY DEF DropGuard
  <1> HIDE DEF g, n, locked
  <1>10. /\ renameLock' \in Tasks \cup {NoTask} /\ renameLock' # t
         /\ \A u \in Tasks \ {t} : renameLock' = u <=> renameLock = u
    BY <1>1, <1>6, <1>9
  <1>11. /\ \A d \in Dirs : dirLock'[d] # t
         /\ \A u \in Tasks \ {t}, d \in Dirs : dirLock'[d] = u <=> dirLock[d] = u
    BY <1>1, <1>5, <1>7
  <1>12. QED
    BY <1>8, <1>10, <1>11

\* The guard on top is dropped.
LEMMA UnwindStep ==
  ASSUME PathInv, NEW t \in Tasks, Unwind(t)
  PROVE  PathInv'
  <1>1. /\ op[t] # Idle /\ step[t] = 0 /\ held[t] # <<>> /\ DropGuard(t, TopOf(t)) /\ Pop(t)
        /\ UNCHANGED <<op, step, readonly>>
    BY DEF Unwind, TopOf, Pop
  <1>2. /\ Types /\ Placed(t) /\ Stacked(t) /\ Locks(t) /\ Kept(t) /\ Claims(t) /\ CountInv
    BY DEF PathInv, TaskInv
  <1>3. Len(held[t]) <= 9
    BY <1>2 DEF Placed
  <1>4. /\ held' \in [Tasks -> Seq(AnyGuard)]
        /\ \A u \in Tasks : u # t => held'[u] = held[u]
        /\ Len(held[t]) \in 1..9 /\ Len(held'[t]) = Len(held[t]) - 1
        /\ \A i \in 1..Len(held'[t]) :
             i \in 1..Len(held[t]) /\ i # Len(held[t]) /\ held'[t][i] = held[t][i]
        /\ \A i \in 1..Len(held[t]) : i \in 1..Len(held'[t]) \/ i = Len(held[t])
        /\ Len(held[t]) \in 1..Len(held[t]) /\ TopOf(t) \in AnyGuard
    BY <1>1, <1>2, <1>3, PopIs
  <1>5. /\ dirLock' \in [Dirs -> Tasks \cup {NoTask}] /\ renameLock' \in Tasks \cup {NoTask}
        /\ \A u \in Tasks \ {t} : /\ \A d \in Dirs : dirLock'[d] = u <=> dirLock[d] = u
                                  /\ renameLock' = u <=> renameLock = u
        /\ \A d \in Dirs : dirLock'[d] # t
        /\ renameLock' # t
    BY <1>1, <1>4, ReleaseLocks
  <1>6. busy' = IF TopOf(t).kind = "slot" THEN busy \ {t} ELSE busy
    BY <1>1 DEF DropGuard
  <1>7. Types'
    BY <1>1, <1>2, <1>4, <1>5, <1>6 DEF Types
  <1>8. CountInv'
    <2> DEFINE g == TopOf(t)
    <2>1. /\ pathRefs' = [d \in Dirs |-> IF HoldsRef(op[t], g, d) THEN pathRefs[d] - 1 ELSE pathRefs[d]]
          /\ writers' = [m \in Mounts |-> IF HoldsWrite(g, m) THEN writers[m] - 1 ELSE writers[m]]
      BY <1>1, <1>2, <1>4, ReleaseCounts
    <2>2. Len(held[t]) \in 0..9
      BY <1>4
    <2>3. QED
      BY <1>1, <1>2, <1>7, <2>1, <2>2, Popped
  <1>9. Beside(t)
    BY <1>1, <1>4, <1>5, <1>6 DEF Beside
  <1>10. Placed(t)'
    <2> DEFINE n == Len(held[t])
               l == Len(held'[t])
    <2>0. n \in 1..9 /\ l = n - 1
      BY <1>4
    <2> HIDE DEF n, l
    <2>1. l <= 9
      BY <2>0
    <2>2. QED
      BY <1>1, <2>1 DEF Placed, AtStep, l
  <1>11. Stacked(t)'
    <2>1. \A i \in 1..Len(held'[t]) : held'[t][i].kind \notin Sections
      BY <1>2, <1>4 DEF Stacked
    <2>2. ASSUME NEW i \in 1..Len(held'[t])
          PROVE  /\ held'[t][i].kind = "slot" => i = 1
                 /\ ~held'[t][i].live => held'[t][i].kind = "victim" \/ held'[t][i].kind = "creating"
      BY <1>2, <1>4 DEF Stacked
    <2>3. QED
      BY <1>1, <2>1, <2>2 DEF Stacked
  <1>12. Locks(t)'
    BY <1>5 DEF Locks
  <1>13. Kept(t)'
    <2>1. ASSUME NEW i \in 1..Len(held'[t])
          PROVE  /\ held'[t][i].kind \notin Sections
                 /\ held'[t][i].kind \in {"write", "creating"} =>
                      \A d \in held'[t][i].dirs : MountOf[d] \notin readonly
      BY <1>2, <1>4 DEF Stacked, Kept
    <2>2. QED
      BY <1>1, <2>1 DEF Kept
  <1>14. Claims(t)'
    <2> DEFINE Slot(h) == \E i \in 1..Len(h) : h[i].kind = "slot"
    <2>1. t \in busy <=> Slot(held[t])
      BY <1>2 DEF Claims
    <2>2. CASE TopOf(t).kind = "slot"
      <3>1. Len(held[t]) = 1
        BY <1>2, <1>4, <2>2 DEF Stacked, TopOf
      <3>2. Len(held'[t]) = 0
        BY <1>4, <3>1
      <3>3. ~Slot(held'[t])
        BY <3>2
      <3>4. t \notin busy'
        BY <1>6, <2>2
      <3>5. QED
        BY <3>3, <3>4 DEF Claims
    <2>3. CASE TopOf(t).kind # "slot"
      <3>1. Slot(held'[t]) <=> Slot(held[t])
        BY <1>4, <2>3 DEF TopOf
      <3>2. QED
        BY <1>6, <2>1, <2>3, <3>1 DEF Claims
    <2>4. QED
      BY <2>2, <2>3
  <1>15. QED
    BY <1>1, <1>7, <1>8, <1>9, <1>10, <1>11, <1>12, <1>13, <1>14, StepIs DEF TaskInv

\* A remount: a mount that becomes read-only has no writer.
LEMMA RemountStep ==
  ASSUME PathInv, NEW m \in Mounts, Remount(m)
  PROVE  PathInv'
  <1>1. /\ Types /\ CountInv /\ \A t \in Tasks : TaskInv(t)
        /\ UNCHANGED <<op, step, held, vfs, busy>>
    BY DEF PathInv, Remount
  <1>2. \A t \in Tasks, i \in 1..9 :
          i \in 1..Len(held[t]) /\ HoldsWrite(held[t][i], m) /\ m \notin readonly => m \notin readonly'
    <2>1. CASE m \in readonly
      BY <2>1
    <2>2. CASE m \notin readonly /\ writers[m] # 0
      BY <2>2 DEF Remount
    <2>3. CASE writers[m] = 0
      <3>1. IsFiniteSet(Writing(m)) /\ Cardinality(Writing(m)) = 0
        BY <1>1, <2>3 DEF CountInv
      <3>2. Writing(m) = {}
        BY <3>1, FS_EmptySet
      <3>3. Writing(m) = {x \in Tasks \X (1..9) : x[2] \in 1..Len(held[x[1]])
                                /\ HoldsWrite(held[x[1]][x[2]], m)}
        BY <1>1, HoldingIs DEF HoldingForm
      <3>4. ASSUME NEW t \in Tasks, NEW i \in 1..9, i \in 1..Len(held[t]), HoldsWrite(held[t][i], m)
            PROVE  FALSE
        <4>1. <<t, i>> \in Tasks \X (1..9) /\ <<t, i>>[1] = t /\ <<t, i>>[2] = i
          OBVIOUS
        <4>2. <<t, i>> \in Writing(m)
          BY <3>3, <3>4, <4>1
        <4>3. QED
          BY <3>2, <4>2
      <3>5. QED
        BY <3>4
    <2>4. QED
      BY <2>1, <2>2, <2>3
  <1>3. Types' /\ CountInv'
    BY <1>1 DEF Types, CountInv, Holding, Writing, Guards, vfs
  <1>4. ASSUME NEW t \in Tasks PROVE TaskInv(t)'
    <2>1. Placed(t) /\ Stacked(t) /\ Locks(t) /\ Kept(t) /\ Claims(t)
      BY <1>1 DEF TaskInv
    <2>2. Placed(t)' /\ Stacked(t)' /\ Locks(t)' /\ Claims(t)'
      BY <1>1, <2>1 DEF Placed, Stacked, Locks, Claims, AtStep, vfs
    <2>3. Kept(t)'
      <3>1. ASSUME NEW i \in 1..Len(held[t])
            PROVE  held[t][i].kind \in {"write", "creating"} =>
                     \A d \in held[t][i].dirs : MountOf[d] \notin readonly'
        <4>1. i \in 1..9
          <5> DEFINE n == Len(held[t])
          <5>1. n \in Nat /\ n <= 9
            BY <1>1, <2>1 DEF Types, Placed
          <5> HIDE DEF n
          <5>2. \A j \in 1..n : j \in 1..9
            BY <5>1
          <5>3. QED
            BY <5>2 DEF n
        <4>2. ASSUME held[t][i].kind \in {"write", "creating"}, NEW d \in held[t][i].dirs,
                     MountOf[d] \in readonly'
              PROVE  FALSE
          <5>1. MountOf[d] \notin readonly
            BY <2>1, <4>2 DEF Kept
          <5>2. MountOf[d] = m
            BY <4>2, <5>1 DEF Remount
          <5>3. HoldsWrite(held[t][i], m)
            BY <4>2, <5>2 DEF HoldsWrite, MountsOf
          <5>4. QED
            BY <1>2, <4>1, <4>2, <5>1, <5>2, <5>3
        <4>3. QED
          BY <4>2
      <3>2. QED
        BY <1>1, <2>1, <3>1 DEF Kept, vfs
    <2>4. QED
      BY <2>2, <2>3 DEF TaskInv
  <1>5. QED
    BY <1>3, <1>4 DEF PathInv

-----------------------------------------------------------------------------
(* The invariant holds.                                                    *)

\* Nothing is submitted at first, and nothing held.
LEMMA PathStarts == PathInit => PathInv
  <1> SUFFICES ASSUME PathInit PROVE PathInv
    OBVIOUS
  <1>1. Types
    BY DEF PathInit, Types
  <1>2. \A t \in Tasks : op[t] = Idle /\ step[t] = 0 /\ held[t] = <<>>
    BY DEF PathInit
  <1>3. \A t \in Tasks, i \in 1..9 : i \notin 1..Len(held[t])
    BY <1>2
  <1>4. CountInv
    <2>1. HoldingForm
      BY <1>1, HoldingIs
    <2>2. \A d : Holding(d) = {} /\ Writing(d) = {}
      BY <1>3, <2>1 DEF HoldingForm
    <2>3. IsFiniteSet({}) /\ Cardinality({}) = 0
      BY FS_EmptySet
    <2>4. QED
      BY <2>2, <2>3 DEF PathInit, CountInv
  <1>5. ASSUME NEW t \in Tasks PROVE TaskInv(t)
    <2>1. op[t] = Idle /\ step[t] = 0 /\ held[t] = <<>> /\ Len(held[t]) = 0
      BY <1>2
    <2>2. Placed(t)
      BY <2>1 DEF Placed, AtStep
    <2>3. Stacked(t) /\ Kept(t)
      BY <2>1 DEF Stacked, Kept
    <2>4. Locks(t)
      BY PathAssumption DEF PathInit, Locks
    <2>5. Claims(t)
      BY <2>1 DEF PathInit, Claims
    <2>6. QED
      BY <2>2, <2>3, <2>4, <2>5 DEF TaskInv
  <1>6. QED
    BY <1>1, <1>4, <1>5 DEF PathInv

\* Every step keeps it.
LEMMA PathSteps == PathInv /\ [PathNext]_pathVars => PathInv'
  <1> SUFFICES ASSUME PathInv, [PathNext]_pathVars PROVE PathInv'
    OBVIOUS
  <1>1. ASSUME NEW t \in Tasks, SubmitPath(t) PROVE PathInv'
    BY <1>1, SubmitStep
  <1>2. ASSUME NEW t \in Tasks, Locking(t) PROVE PathInv'
    <2>1. CASE Lookup(t)
      BY <2>1, LookupStep
    <2>2. CASE StartCreating(t)
      BY <2>2, StartCreatingStep
    <2>3. CASE StartRemoving(t)
      BY <2>3, StartRemovingStep
    <2>4. CASE RenameMutex(t) \/ LockParent(t)
      BY <2>4, RenameLocksStep
    <2>5. QED
      BY <1>2, <2>1, <2>2, <2>3, <2>4 DEF Locking
  <1>3. ASSUME NEW t \in Tasks, PathRunning(t) PROVE PathInv'
    <2>1. CASE Claim(t)
      BY <2>1, ClaimStep
    <2>2. CASE Copy(t)
      BY <2>2, CopyStep
    <2>3. CASE Snapshot(t) \/ Split(t) \/ SameMount(t)
      BY <2>3, LookStep
    <2>4. CASE GetLink(t) \/ DeclareVictim(t)
      BY <2>4, EmptyGuardStep
    <2>5. CASE WantWrite(t)
      BY <2>5, WantWriteStep
    <2>6. CASE HoldVictim(t)
      BY <2>6, HoldVictimStep
    <2>7. CASE StartRenaming(t)
      BY <2>7, StartRenamingStep
    <2>8. CASE RenamingFails(t)
      BY <2>8, RenamingFailsStep
    <2>9. CASE Call(t) \/ ReadOnly(t)
      BY <2>9, EndingStep
    <2>10. CASE Mkdir(t)
      BY <2>10, MkdirStep
    <2>11. CASE Unwind(t)
      BY <2>11, UnwindStep
    <2>12. CASE AnswerPath(t)
      BY <2>12, AnswerStep
    <2>13. QED
      BY <1>3, <2>1, <2>2, <2>3, <2>4, <2>5, <2>6, <2>7, <2>8, <2>9, <2>10, <2>11, <2>12
      DEF PathRunning
  <1>4. ASSUME NEW t \in Tasks, Fail(t) PROVE PathInv'
    BY <1>4, EndingStep
  <1>5. ASSUME NEW m \in Mounts, Remount(m) PROVE PathInv'
    BY <1>5, RemountStep
  <1>6. CASE UNCHANGED pathVars
    <2>1. /\ op' = op /\ step' = step /\ held' = held /\ readonly' = readonly /\ busy' = busy
          /\ UNCHANGED vfs
      BY <1>6 DEF pathVars, vfs
    <2>2. Types' /\ CountInv'
      <3>1. Types'
        BY <2>1 DEF PathInv, Types, vfs
      <3>2. CountInv'
        BY <2>1 DEF PathInv, CountInv, Holding, Writing, Guards, vfs
      <3>3. QED
        BY <3>1, <3>2
    <2>3. ASSUME NEW t \in Tasks PROVE TaskInv(t)'
      <3>1. Placed(t) /\ Stacked(t) /\ Locks(t) /\ Kept(t) /\ Claims(t)
        BY DEF PathInv, TaskInv
      <3>2. QED
        BY <2>1, <3>1 DEF TaskInv, Placed, Stacked, Locks, Kept, Claims, AtStep, vfs
    <2>4. QED
      BY <2>2, <2>3 DEF PathInv
  <1>7. QED
    BY <1>1, <1>2, <1>3, <1>4, <1>5, <1>6 DEF PathNext

\* Every task's guards are a stack with its section on top, its locks are those
\* of that section, and counts are those of the guards.
THEOREM PathInvariant == PathSpec => []PathInv
  <1>1. PathInit => PathInv
    BY PathStarts
  <1>2. PathInv /\ [PathNext]_pathVars => PathInv'
    BY PathSteps
  <1>3. QED
    BY <1>1, <1>2, PTL DEF PathSpec

\* What a section names is locked by its task for as long as the section lives,
\* nobody writes on a mount that was remounted read-only, and an unlinked inode
\* is put with no directory locked (koru_path.rs, the guards' drops).
THEOREM PathKeepsLocks == PathSpec => []LocksKept
  <1>1. PathInv => LocksKept
    <2> SUFFICES ASSUME PathInv PROVE LocksKept
      OBVIOUS
    <2>1. \A t \in Tasks : held[t] \in Seq(AnyGuard) /\ DOMAIN held[t] = 1..Len(held[t])
      <3>1. held \in [Tasks -> Seq(AnyGuard)]
        BY DEF PathInv, Types
      <3>2. QED
        BY <3>1
    <2>2. SectionsKept
      <3>1. ASSUME NEW t \in Tasks, NEW i \in 1..Len(held[t])
            PROVE  LET g == held[t][i] IN
                   /\ g.kind \in {"creating", "dirop", "renaming"} /\ g.live
                        => \A d \in g.dirs : dirLock[d] = t
                   /\ g.kind \in {"write", "creating"} => MountsOf(g.dirs) \cap readonly = {}
        <4>1. Kept(t)
          BY DEF PathInv, TaskInv
        <4>2. QED
          BY <4>1 DEF Kept, Sections, MountsOf
      <3>2. QED
        BY <2>1, <3>1, Zenon DEF SectionsKept
    <2>3. IputOutsideLock
      <3>1. ASSUME NEW t \in Tasks, step[t] = 0, held[t] # <<>>,
                   held[t][Len(held[t])].kind = "victim", NEW d \in Dirs
            PROVE  dirLock[d] # t
        <4>1. Stacked(t) /\ Locks(t)
          BY DEF PathInv, TaskInv
        <4>2. \A i \in 1..Len(held[t]) : held[t][i].kind \notin Sections
          BY <3>1, <4>1 DEF Stacked, Sections
        <4>3. QED
          BY <3>1, <4>1, <4>2 DEF Locks, AtStep
      <3>2. QED
        BY <3>1 DEF IputOutsideLock
    <2>4. QED
      BY <2>2, <2>3 DEF LocksKept
  <1>2. QED
    BY <1>1, PathInvariant, PTL

\* References, write counts, claims and locks are those of the guards that live,
\* on every way out of every operation (koru_ops.rs, do_open to readlink_held).
THEOREM PathBalances == PathSpec => []Balanced
  <1>1. PathInv => Balanced
    <2> SUFFICES ASSUME PathInv PROVE Balanced
      OBVIOUS
    <2>1. \A t \in Tasks : DOMAIN held[t] = 1..Len(held[t])
      <3>1. held \in [Tasks -> Seq(AnyGuard)]
        BY DEF PathInv, Types
      <3>2. QED
        BY <3>1
    <2>2. /\ \A d \in Dirs : pathRefs[d] = Cardinality(Holding(d))
          /\ \A m \in Mounts : writers[m] = Cardinality(Writing(m))
      BY DEF PathInv, CountInv
    <2>3. busy = {t \in Tasks : \E i \in DOMAIN held[t] : held[t][i].kind = "slot"}
      <3>1. busy \subseteq Tasks /\ \A t \in Tasks : Claims(t)
        BY DEF PathInv, Types, TaskInv
      <3>2. QED
        BY <2>1, <3>1 DEF Claims
    <2>4. ASSUME NEW d \in Dirs, NEW t \in Tasks, dirLock[d] = t, ~AtStep(t, "renaming")
          PROVE  \E i \in DOMAIN held[t] : d \in held[t][i].dirs /\ held[t][i].live
      <3>1. Locks(t)
        BY DEF PathInv, TaskInv
      <3>2. QED
        BY <2>1, <2>4, <3>1 DEF Locks
    <2>5. QED
      BY <2>2, <2>3, <2>4, Zenon DEF Balanced
  <1>2. QED
    BY <1>1, PathInvariant, PTL

=============================================================================
