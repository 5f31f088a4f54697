--------------------------- MODULE KoruRingProofs ---------------------------
(***************************************************************************)
(* Proofs about KoruRing, for any number of tasks, slots and SQEs and any  *)
(* size of the completion queue.                                           *)
(*                                                                         *)
(* The argument has three layers.  CtlInv is the inductive invariant of    *)
(* the control: who holds submit_lock, that a task inside the submit loop  *)
(* has in its hand the one SQE that is being submitted, that SQEs are      *)
(* consumed within the bound, and that what a reaper copied is still the   *)
(* head of the queue.  On it rest the two counting arguments, that the     *)
(* ring's counters `reserved' and `inflight' count what they are meant to, *)
(* which need the sets they count to gain and lose one element at a time.  *)
(* The refinement of RingContract follows from both.                       *)
(***************************************************************************)
EXTENDS KoruRing, Integers, FiniteSetTheorems, FunctionTheorems, SequenceTheorems, TLAPS

\* TypeOK, but for the two counters being natural numbers, which is a
\* consequence of the counting.
TypeCore ==
  /\ cq \in Seq(Cqe)
  /\ reserved \in Int
  /\ inflight \in Int
  /\ slotBusy \subseteq Slots
  /\ pending \subseteq SqeIds
  /\ submitLock \in Tasks \cup {NoTask}
  /\ sqe \in Seq(Shapes) /\ Len(sqe) <= MaxSqe
  /\ phase \in [SqeIds -> Phases]
  /\ pc \in [Tasks -> Pcs]
  /\ args \in [Tasks -> Calls \cup {NoCall}]
  /\ consumed \in [Tasks -> Nat]
  /\ completed \in [Tasks -> Nat]
  /\ cur \in [Tasks -> 0..MaxSqe]
  /\ res \in [Tasks -> Results]
  /\ prey \in [Tasks -> 0..MaxSqe]
  /\ reaped \in Seq(Cqe)

\* submit_lock is held by a task from the start of ENTER to the wait, and again
\* while it reaps.
Unlocked == {"user", "wait", "asleep", "relock"}

LockInv == \A t \in Tasks : submitLock = t <=> pc[t] \notin Unlocked

\* Where a task has in its hand the SQE it is submitting.
Holding == {"dispatch", "path", "count", "register", "enqueue", "arm", "unregister",
            "uncount", "unwind", "post", "retire", "notify"}

HandInv(t) ==
  /\ pc[t] \in Holding => cur[t] \in 1..Len(sqe) /\ phase[cur[t]] = "submitting"
  /\ pc[t] \in {"claim", "copy"} => cur[t] \in SqeIds
  /\ pc[t] = "retire" => prey[t] \in 1..Len(sqe) /\ phase[prey[t]] = "retired"
  /\ pc[t] \in {"unregister", "uncount", "unwind", "post", "copy"} => res[t] # "none"

CurInv == \A t \in Tasks : HandInv(t)

FreeInv == \A q \in SqeIds : phase[q] = "free" <=> q > Len(sqe)

\* Where a task may still consume SQEs; it never consumes more than it asked
\* for.
Batch == Holding \cup {"submit", "read", "claim"}

BatchInv ==
  \A t \in Tasks :
    /\ pc[t] \in Batch => Len(sqe) + args[t].submit - consumed[t] <= MaxSqe
    /\ pc[t] = "read" => consumed[t] < args[t].submit

CtlInv == TypeCore /\ LockInv /\ CurInv /\ FreeInv /\ BatchInv /\ PopsWhatItCopied

USE DEF Goto, AnswerWith, Woken, Complete, Return, state, call, hand, SqeIds

LEMMA CtlInit == Init => CtlInv
  BY MaxSqeAssumption, TasksAssumption
  DEF Init, CtlInv, TypeCore, LockInv, CurInv, HandInv, FreeInv, BatchInv, PopsWhatItCopied,
      Results, Phases, Pcs, Unlocked, Holding, Batch

-----------------------------------------------------------------------------
(* Every step keeps the types.                                             *)

LEMMA TypeSubmit ==
  ASSUME CtlInv, NEW t \in Tasks, Submit(t)
  PROVE  TypeCore'
  <1> USE MaxSqeAssumption DEF CtlInv, TypeCore
  <1>1. CASE Reserve(t) \/ SubmitDone(t) \/ DispatchDefer(t) \/ CountInflight(t)
             \/ SubmitUnregister(t) \/ Uncount(t) \/ Unwind(t)
    <2>1. pc' \in [Tasks -> Pcs]
      BY ZenonT(40), <1>1 DEF Reserve, SubmitDone, DispatchDefer, CountInflight, SubmitUnregister,
         Uncount,
         Unwind, Pcs
    <2>2. CASE Reserve(t)
      BY SMTT(30), <2>1, <2>2 DEF Reserve
    <2>3. CASE SubmitDone(t)
      BY <2>1, <2>3 DEF SubmitDone
    <2>4. CASE DispatchDefer(t)
      BY <2>1, <2>4 DEF DispatchDefer
    <2>5. CASE CountInflight(t)
      BY SMTT(30), <2>1, <2>5 DEF CountInflight
    <2>6. CASE SubmitUnregister(t)
      BY <2>1, <2>6 DEF SubmitUnregister
    <2>7. CASE Uncount(t)
      BY SMTT(30), <2>1, <2>7 DEF Uncount
    <2>8. CASE Unwind(t)
      BY <2>1, <2>8 DEF Unwind
    <2>9. QED
      BY <1>1, <2>2, <2>3, <2>4, <2>5, <2>6, <2>7, <2>8
  <1>2. CASE ReadSqe(t)
    <2>1. args[t].submit \in Nat
      BY CallsAssumption DEF NoCall
    <2>2. Len(sqe) + 1 \in 1..MaxSqe
      BY <1>2, <2>1 DEF ReadSqe, BatchInv, Batch
    <2>3. sqe' \in Seq(Shapes) /\ Len(sqe') <= MaxSqe
      BY <1>2, <2>2 DEF ReadSqe
    <2>4. phase' \in [SqeIds -> Phases]
      BY <1>2, <2>2 DEF ReadSqe, Phases
    <2>5. cur' \in [Tasks -> 0..MaxSqe] /\ consumed' \in [Tasks -> Nat]
      BY SMTT(30), <1>2, <2>2 DEF ReadSqe
    <2>6. pc' \in [Tasks -> Pcs]
      BY <1>2 DEF ReadSqe, Pcs
    <2>7. QED
      BY <1>2, <2>3, <2>4, <2>5, <2>6 DEF ReadSqe
  <1>3. CASE PostInline(t)
    BY SMTT(30), <1>3 DEF PostInline, Pcs, Phases, Results, Cqe, CurInv, HandInv, Holding
  <1>4. CASE DispatchInline(t) \/ PathDone(t) \/ AllocFails(t) \/ RegisterFails(t)
             \/ EnqueueFails(t) \/ CancelMisses(t) \/ CancelTooLate(t)
    BY <1>4 DEF DispatchInline, PathDone, AllocFails, RegisterFails, EnqueueFails, CancelMisses,
       CancelTooLate, Pcs, Results
  <1>5. CASE DispatchSlot(t)
    <2>1. cur[t] \in 1..Len(sqe)
      BY <1>5 DEF DispatchSlot, CurInv, HandInv, Holding
    <2>2. sqe[cur[t]].slot \in Slots
      BY <2>1, ShapesAssumption
    <2>3. res' \in [Tasks -> Results]
      BY <1>5 DEF DispatchSlot, Results
    <2>4. pc' \in [Tasks -> Pcs]
      BY <1>5 DEF DispatchSlot, Pcs
    <2>5. QED
      BY <1>5, <2>2, <2>3, <2>4 DEF DispatchSlot
  <1>6. CASE Register(t)
    <2>1. cur[t] \in SqeIds
      BY <1>6 DEF Register, CurInv, HandInv, Holding
    <2>2. pc' \in [Tasks -> Pcs]
      BY <1>6 DEF Register, Pcs
    <2>3. QED
      BY <1>6, <2>1, <2>2 DEF Register
  <1>7. CASE Enqueue(t) \/ PollClaim(t) \/ PollClaimLost(t)
    <2>1. CASE Enqueue(t)
      <3>1. pc' \in [Tasks -> Pcs] /\ phase' \in [SqeIds -> Phases]
        BY <2>1 DEF Enqueue, Pcs, Phases
      <3>2. cur' \in [Tasks -> 0..MaxSqe]
        BY <2>1 DEF Enqueue
      <3>3. QED
        BY <2>1, <3>1, <3>2 DEF Enqueue
    <2>2. CASE PollClaim(t)
      BY <2>2 DEF PollClaim, Pcs, Phases, Results
    <2>3. CASE PollClaimLost(t)
      BY SMTT(30), <2>3 DEF PollClaimLost, Pcs
    <2>4. QED
      BY <1>7, <2>1, <2>2, <2>3
  <1>8. CASE Arm(t)
    <2>1. cur' \in [Tasks -> 0..MaxSqe]
      <3>1. cur' = cur \/ cur' = [cur EXCEPT ![t] = 0]
        BY <1>8 DEF Arm
      <3>2. QED
        BY SMTT(30), <3>1
    <2>2. phase' \in [SqeIds -> Phases]
      BY <1>8 DEF Arm, Phases
    <2>3. pc' \in [Tasks -> Pcs]
      <3>1. pc' = [pc EXCEPT ![t] = "claim"] \/ pc' = [pc EXCEPT ![t] = "submit"]
        BY <1>8 DEF Arm
      <3>2. QED
        BY <3>1 DEF Pcs
    <2>4. QED
      BY <1>8, <2>1, <2>2, <2>3 DEF Arm
  <1>9. CASE CancelWins(t)
    <2>1. PICK q \in pending : /\ phase' = [phase EXCEPT ![q] = "retired"]
                               /\ pending' = pending \ {q}
                               /\ prey' = [prey EXCEPT ![t] = q]
      BY <1>9 DEF CancelWins, Matching
    <2>2. prey' \in [Tasks -> 0..MaxSqe]
      BY <2>1
    <2>3. phase' \in [SqeIds -> Phases]
      BY <2>1 DEF Phases
    <2>4. pc' \in [Tasks -> Pcs]
      BY <1>9 DEF CancelWins, Pcs
    <2>5. QED
      BY <1>9, <2>1, <2>2, <2>3, <2>4 DEF CancelWins
  <1>10. CASE CancelComplete(t)
    BY SMTT(30), <1>10 DEF CancelComplete, Pcs, Phases, Results, Cqe, CurInv, HandInv, Holding
  <1>11. CASE CancelNotify(t)
    BY <1>11 DEF CancelNotify, Pcs, Results
  <1>12. QED
    BY <1>1, <1>2, <1>3, <1>4, <1>5, <1>6, <1>7, <1>8, <1>9, <1>10, <1>11 DEF Submit

LEMMA TypeOther ==
  ASSUME CtlInv, NEW t \in Tasks,
         Enter(t) \/ ReadFault(t) \/ Wait(t) \/ Timeout(t) \/ Signal(t) \/ Relock(t)
         \/ Reap(t) \/ CopyFault(t)
  PROVE  TypeCore'
  <1> USE MaxSqeAssumption DEF CtlInv, TypeCore
  <1>1. CASE Enter(t)
    BY <1>1 DEF Enter, Pcs
  <1>2. CASE ReadFault(t)
    <2>1. args' \in [Tasks -> Calls \cup {NoCall}]
      BY <1>2 DEF ReadFault
    <2>2. pc' \in [Tasks -> Pcs]
      BY <1>2 DEF ReadFault, Pcs
    <2>3. QED
      BY <1>2, <2>1, <2>2 DEF ReadFault
  <1>3. CASE Wait(t) \/ Timeout(t) \/ Signal(t) \/ Relock(t)
    BY <1>3 DEF Wait, WaitOver, Sleep, Timeout, Signal, Relock, Pcs
  <1>4. CASE Peek(t)
    <2>1. Head(cq) \in Cqe
      BY <1>4 DEF Peek
    <2>2. cur' \in [Tasks -> 0..MaxSqe] /\ res' \in [Tasks -> Results]
      BY SMTT(30), <1>4, <2>1 DEF Peek, Cqe
    <2>3. pc' \in [Tasks -> Pcs]
      BY <1>4 DEF Peek, Pcs
    <2>4. QED
      BY <1>4, <2>2, <2>3 DEF Peek
  <1>5. CASE Pop(t)
    <2>1. cq # <<>> /\ cur[t] \in SqeIds /\ res[t] \in Results \ {"none"}
      BY <1>5 DEF Pop, CurInv, HandInv, PopsWhatItCopied
    <2>2. cq' \in Seq(Cqe)
      BY <1>5, <2>1 DEF Pop
    <2>3. reaped' \in Seq(Cqe)
      BY <1>5, <2>1 DEF Pop, Cqe
    <2>4. cur' \in [Tasks -> 0..MaxSqe] /\ completed' \in [Tasks -> Nat]
      BY SMTT(30), <1>5 DEF Pop
    <2>5. res' \in [Tasks -> Results]
      BY <1>5 DEF Pop, Results
    <2>6. pc' \in [Tasks -> Pcs]
      BY <1>5 DEF Pop, Pcs
    <2>7. QED
      BY <1>5, <2>2, <2>3, <2>4, <2>5, <2>6 DEF Pop
  <1>6. CASE ReapDone(t) \/ CopyFault(t)
    <2>1. Return(t) /\ pc' \in [Tasks -> Pcs]
      BY <1>6 DEF ReapDone, CopyFault, Pcs
    <2>2. res' \in [Tasks -> Results]
      BY <2>1 DEF Results
    <2>3. args' \in [Tasks -> Calls \cup {NoCall}]
      BY <2>1
    <2>4. QED
      BY <2>1, <2>2, <2>3
  <1>7. QED
    BY <1>1, <1>2, <1>3, <1>4, <1>5, <1>6 DEF Reap

LEMMA TypeWorker ==
  ASSUME CtlInv, NEW q \in SqeIds, Wake(q) \/ Worker(q)
  PROVE  TypeCore'
  <1> USE MaxSqeAssumption DEF CtlInv, TypeCore
  <1>1. CASE Wake(q) \/ WorkerStart(q) \/ WorkerUnregister(q)
    BY <1>1 DEF Wake, WorkerStart, WorkerUnregister, Phases
  <1>2. CASE WorkerComplete(q)
    BY SMTT(30), <1>2 DEF WorkerComplete, Phases, Results, Cqe
  <1>3. CASE WorkerNotify(q)
    BY <1>3 DEF WorkerNotify, Phases, Pcs
  <1>4. QED
    BY <1>1, <1>2, <1>3 DEF Worker

-----------------------------------------------------------------------------
(* Every step keeps the rest of the control.                               *)

\* A task submitting SQEs holds the lock, and moves no other task but to wake it.
LEMMA SubmitMoves ==
  ASSUME CtlInv, NEW t \in Tasks, Submit(t)
  PROVE  /\ pc[t] \in Batch
         /\ \A u \in Tasks \ {t} : pc'[u] = pc[u] \/ (pc[u] = "asleep" /\ pc'[u] = "wait")
  <1> USE DEF CtlInv, TypeCore, Batch, Holding
  <1>1. CASE Reserve(t) \/ SubmitDone(t) \/ ReadSqe(t) \/ PostInline(t) \/ DispatchInline(t)
             \/ DispatchDefer(t) \/ PathDone(t)
    BY <1>1 DEF Reserve, SubmitDone, ReadSqe, PostInline, DispatchInline, DispatchDefer, PathDone
  <1>2. CASE CountInflight(t) \/ AllocFails(t) \/ Register(t) \/ RegisterFails(t) \/ Enqueue(t)
             \/ EnqueueFails(t) \/ SubmitUnregister(t) \/ Uncount(t) \/ Unwind(t)
    BY <1>2 DEF CountInflight, AllocFails, Register, RegisterFails, Enqueue, EnqueueFails,
       SubmitUnregister, Uncount, Unwind
  <1>3. CASE DispatchSlot(t) \/ Arm(t)
    BY <1>3 DEF DispatchSlot, Arm
  <1>4. CASE PollClaim(t) \/ PollClaimLost(t) \/ CancelMisses(t) \/ CancelTooLate(t)
    BY <1>4 DEF PollClaim, PollClaimLost, CancelMisses, CancelTooLate
  <1>5. CASE CancelWins(t) \/ CancelComplete(t) \/ CancelNotify(t)
    BY <1>5 DEF CancelWins, CancelComplete, CancelNotify
  <1>6. QED
    BY <1>1, <1>2, <1>3, <1>4, <1>5 DEF Submit

\* Only the end of the submit loop gives the lock up.
LEMMA SubmitKeepsLock ==
  ASSUME CtlInv, NEW t \in Tasks, Submit(t), ~SubmitDone(t)
  PROVE  submitLock' = submitLock /\ pc'[t] \in Batch
  <1> USE DEF CtlInv, TypeCore, Batch, Holding
  <1>1. CASE Reserve(t) \/ ReadSqe(t) \/ PostInline(t) \/ DispatchInline(t)
             \/ DispatchDefer(t) \/ PathDone(t)
    BY <1>1 DEF Reserve, ReadSqe, PostInline, DispatchInline, DispatchDefer, PathDone
  <1>2. CASE CountInflight(t) \/ AllocFails(t) \/ Register(t) \/ RegisterFails(t) \/ Enqueue(t)
             \/ EnqueueFails(t) \/ SubmitUnregister(t) \/ Uncount(t) \/ Unwind(t)
    BY <1>2 DEF CountInflight, AllocFails, Register, RegisterFails, Enqueue, EnqueueFails,
       SubmitUnregister, Uncount, Unwind
  <1>3. CASE DispatchSlot(t) \/ Arm(t)
    BY <1>3 DEF DispatchSlot, Arm
  <1>4. CASE PollClaim(t) \/ PollClaimLost(t) \/ CancelMisses(t) \/ CancelTooLate(t)
    BY <1>4 DEF PollClaim, PollClaimLost, CancelMisses, CancelTooLate
  <1>5. CASE CancelWins(t) \/ CancelComplete(t) \/ CancelNotify(t)
    BY <1>5 DEF CancelWins, CancelComplete, CancelNotify
  <1>6. QED
    BY <1>1, <1>2, <1>3, <1>4, <1>5 DEF Submit

\* While one task holds submit_lock, every other is outside.
LEMMA OthersUnlocked ==
  ASSUME CtlInv, NEW t \in Tasks, pc[t] \notin Unlocked
  PROVE  \A u \in Tasks \ {t} : pc[u] \in Unlocked
  BY DEF CtlInv, LockInv

LEMMA BatchLocked == Batch \cap Unlocked = {} /\ "reap" \notin Unlocked /\ "copy" \notin Unlocked
  BY DEF Batch, Holding, Unlocked

LEMMA LockStep ==
  ASSUME CtlInv, Next
  PROVE  LockInv'
  <1> USE TasksAssumption DEF CtlInv, TypeCore, LockInv, Unlocked
  <1>1. ASSUME NEW t \in Tasks, Submit(t)
        PROVE  LockInv'
    <2>1. \A u \in Tasks \ {t} : pc'[u] \in Unlocked /\ submitLock # u
      BY <1>1, SubmitMoves, OthersUnlocked, BatchLocked
    <2>2. pc[t] \notin Unlocked /\ submitLock = t
      BY <1>1, SubmitMoves, BatchLocked
    <2>3. CASE SubmitDone(t)
      BY <2>1, <2>3 DEF SubmitDone
    <2>4. CASE ~SubmitDone(t)
      <3>1. submitLock' = t /\ pc'[t] \notin Unlocked
        BY <1>1, <2>2, <2>4, SubmitKeepsLock, BatchLocked
      <3>2. QED
        BY <2>1, <3>1
    <2>5. QED
      BY <2>3, <2>4
  <1>2. ASSUME NEW t \in Tasks, Enter(t) \/ ReadFault(t)
        PROVE  LockInv'
    BY SMTT(30), <1>2 DEF Enter, ReadFault
  <1>3. ASSUME NEW t \in Tasks,
               Wait(t) \/ Timeout(t) \/ Signal(t) \/ Relock(t) \/ Reap(t) \/ CopyFault(t)
        PROVE  LockInv'
    <2>1. CASE Wait(t) \/ Timeout(t) \/ Signal(t)
      BY SMTT(30), <2>1 DEF Wait, WaitOver, Sleep, Timeout, Signal
    <2>2. CASE Relock(t)
      BY <2>2 DEF Relock
    <2>3. CASE Peek(t)
      BY <2>3 DEF Peek
    <2>4. CASE Pop(t)
      BY <2>4 DEF Pop
    <2>5. CASE ReapDone(t)
      BY <2>5 DEF ReapDone
    <2>6. CASE CopyFault(t)
      BY <2>6 DEF CopyFault
    <2>7. QED
      BY <1>3, <2>1, <2>2, <2>3, <2>4, <2>5, <2>6 DEF Reap
  <1>4. ASSUME NEW q \in SqeIds, Wake(q) \/ Worker(q)
        PROVE  LockInv'
    BY <1>4 DEF Wake, Worker, WorkerStart, WorkerComplete, WorkerNotify, WorkerUnregister
  <1>5. QED
    BY <1>1, <1>2, <1>3, <1>4 DEF Next

LEMMA FreeStep ==
  ASSUME CtlInv, Next
  PROVE  FreeInv'
  <1> USE MaxSqeAssumption DEF CtlInv, TypeCore, FreeInv
  <1>1. ASSUME NEW t \in Tasks, ReadSqe(t)
        PROVE  FreeInv'
    BY <1>1 DEF ReadSqe
  <1>2. ASSUME NEW t \in Tasks,
               PostInline(t) \/ Enqueue(t) \/ Arm(t) \/ PollClaim(t) \/ CancelComplete(t)
        PROVE  FreeInv'
    <2>1. CASE PostInline(t)
      BY <2>1 DEF PostInline, CurInv, HandInv, Holding
    <2>2. CASE Enqueue(t)
      BY <2>2 DEF Enqueue, CurInv, HandInv, Holding
    <2>3. CASE Arm(t)
      BY <2>3 DEF Arm, CurInv, HandInv, Holding
    <2>4. CASE PollClaim(t)
      BY <2>4 DEF PollClaim
    <2>5. CASE CancelComplete(t)
      BY <2>5 DEF CancelComplete, CurInv, HandInv
    <2>6. QED
      BY <1>2, <2>1, <2>2, <2>3, <2>4, <2>5
  <1>3. ASSUME NEW t \in Tasks, CancelWins(t)
        PROVE  FreeInv'
    <2>1. PICK q \in pending : CanRetire(q) /\ phase' = [phase EXCEPT ![q] = "retired"]
      BY <1>3 DEF CancelWins, Matching
    <2>2. phase[q] # "free"
      BY <2>1 DEF CanRetire
    <2>3. QED
      BY <1>3, <2>1, <2>2 DEF CancelWins
  <1>4. ASSUME NEW q \in SqeIds, Wake(q) \/ Worker(q)
        PROVE  FreeInv'
    BY <1>4 DEF Wake, Worker, WorkerStart, WorkerComplete, WorkerNotify, WorkerUnregister
  <1>5. ASSUME NEW t \in Tasks,
               \/ Enter(t) \/ ReadFault(t) \/ Wait(t) \/ Timeout(t) \/ Signal(t) \/ Relock(t)
               \/ Reap(t) \/ CopyFault(t) \/ Reserve(t) \/ SubmitDone(t) \/ DispatchInline(t)
               \/ DispatchDefer(t) \/ DispatchSlot(t) \/ PathDone(t) \/ CountInflight(t)
               \/ AllocFails(t) \/ Register(t) \/ RegisterFails(t) \/ EnqueueFails(t)
               \/ SubmitUnregister(t) \/ Uncount(t) \/ Unwind(t) \/ PollClaimLost(t)
               \/ CancelMisses(t) \/ CancelTooLate(t) \/ CancelNotify(t)
        PROVE  FreeInv'
    <2>1. UNCHANGED <<sqe, phase>>
      BY <1>5 DEF Enter, ReadFault, Wait, WaitOver, Sleep, Timeout, Signal, Relock, Reap, Peek,
         Pop, ReapDone, CopyFault, Reserve, SubmitDone, DispatchInline, DispatchDefer,
         DispatchSlot, PathDone, CountInflight, AllocFails, Register, RegisterFails,
         EnqueueFails, SubmitUnregister, Uncount, Unwind, PollClaimLost, CancelMisses,
         CancelTooLate, CancelNotify
    <2>2. QED
      BY <2>1
  <1>6. QED
    BY <1>1, <1>2, <1>3, <1>4, <1>5 DEF Next, Submit

LEMMA BatchStep ==
  ASSUME CtlInv, Next
  PROVE  BatchInv'
  <1> USE MaxSqeAssumption, TasksAssumption
      DEF CtlInv, TypeCore, LockInv, Unlocked, BatchInv, Batch, Holding
  <1>0. \A t \in Tasks : args[t].submit \in Nat
    BY CallsAssumption DEF NoCall
  <1>1. ASSUME NEW t \in Tasks, ReadSqe(t)
        PROVE  BatchInv'
    <2>1. /\ Len(sqe') = Len(sqe) + 1
          /\ consumed' = [consumed EXCEPT ![t] = @ + 1]
          /\ pc' = [pc EXCEPT ![t] = "dispatch"]
          /\ args' = args
          /\ pc[t] = "read"
      BY <1>1 DEF ReadSqe
    <2>2. \A u \in Tasks \ {t} : pc'[u] \notin Batch
      BY <2>1
    <2>3. Len(sqe') + args'[t].submit - consumed'[t] <= MaxSqe
      BY SMTT(30), <2>1, <1>0
    <2>4. QED
      BY <2>1, <2>2, <2>3
  <1>2. ASSUME NEW t \in Tasks, Submit(t), ~ReadSqe(t)
        PROVE  BatchInv'
    <2>1. UNCHANGED <<sqe, args, consumed>>
      BY <1>2 DEF Submit, Reserve, SubmitDone, PostInline, DispatchInline, DispatchDefer,
         DispatchSlot, PathDone, CountInflight, AllocFails, Register, RegisterFails, Enqueue,
         EnqueueFails, SubmitUnregister, Uncount, Unwind, Arm, PollClaim, PollClaimLost,
         CancelMisses, CancelTooLate, CancelWins, CancelComplete, CancelNotify
    <2>2. pc[t] \in Batch
      BY <1>2, SubmitMoves
    <2>3. \A u \in Tasks \ {t} : pc'[u] \in Unlocked
      BY ZenonT(40), <1>2, <2>2, SubmitMoves, OthersUnlocked, BatchLocked DEF Unlocked
    <2>4. pc'[t] = "read" => consumed[t] < args[t].submit
      BY <1>2 DEF Submit, Reserve, SubmitDone, PostInline, DispatchInline, DispatchDefer,
       DispatchSlot, PathDone, CountInflight, AllocFails, Register, RegisterFails, Enqueue,
       EnqueueFails, SubmitUnregister, Uncount, Unwind, Arm, PollClaim, PollClaimLost,
       CancelMisses, CancelTooLate, CancelWins, CancelComplete, CancelNotify
    <2>5. QED
      BY ZenonT(40), <1>0, <2>1, <2>2, <2>3, <2>4
  <1>3. ASSUME NEW t \in Tasks, Enter(t)
        PROVE  BatchInv'
    BY <1>3, CallsAssumption DEF Enter, NoCall
  <1>4. ASSUME NEW t \in Tasks,
               ReadFault(t) \/ Wait(t) \/ Timeout(t) \/ Signal(t) \/ Relock(t)
               \/ Reap(t) \/ CopyFault(t)
        PROVE  BatchInv'
    <2>1. sqe' = sqe
      BY <1>4 DEF ReadFault, Wait, WaitOver, Sleep, Timeout, Signal, Relock, Reap, Peek,
         Pop, ReapDone, CopyFault
    <2>2. \A u \in Tasks \ {t} : args'[u] = args[u] /\ consumed'[u] = consumed[u]
      BY <1>4 DEF ReadFault, Wait, WaitOver, Sleep, Timeout, Signal, Relock, Reap, Peek,
         Pop, ReapDone, CopyFault
    <2>3. \A u \in Tasks \ {t} : pc'[u] = pc[u]
      BY <1>4 DEF ReadFault, Wait, WaitOver, Sleep, Timeout, Signal, Relock, Reap, Peek,
         Pop, ReapDone, CopyFault
    <2>4. pc'[t] \notin Batch
      BY SMTT(30), <1>4 DEF ReadFault, Wait, WaitOver, Sleep, Timeout, Signal, Relock, Reap, Peek,
         Pop, ReapDone, CopyFault
    <2>5. QED
      BY <2>1, <2>2, <2>3, <2>4
  <1>5. ASSUME NEW q \in SqeIds, Wake(q) \/ Worker(q)
        PROVE  BatchInv'
    <2>1. UNCHANGED <<sqe, args, consumed>>
      BY <1>5 DEF Wake, Worker, WorkerStart, WorkerComplete, WorkerNotify, WorkerUnregister
    <2>2. \A u \in Tasks : pc'[u] = pc[u] \/ pc'[u] = "wait"
      BY <1>5 DEF Wake, Worker, WorkerStart, WorkerComplete, WorkerNotify, WorkerUnregister
    <2>3. QED
      BY <2>1, <2>2
  <1>6. QED
    BY <1>1, <1>2, <1>3, <1>4, <1>5 DEF Next

LEMMA HandStep ==
  ASSUME CtlInv, NEW t \in Tasks, Submit(t)
  PROVE  HandInv(t)'
  <1> USE MaxSqeAssumption DEF CtlInv, TypeCore, CurInv, HandInv, Holding
  <1>1. CASE ReadSqe(t)
    <2>1. args[t].submit \in Nat
      BY CallsAssumption DEF NoCall
    <2>2. Len(sqe) + 1 \in 1..MaxSqe /\ Len(sqe') = Len(sqe) + 1
      BY <1>1, <2>1 DEF ReadSqe, BatchInv, Batch
    <2>3. cur'[t] = Len(sqe) + 1 /\ phase'[Len(sqe) + 1] = "submitting" /\ pc'[t] = "dispatch"
      BY <1>1, <2>2 DEF ReadSqe
    <2>4. QED
      BY <2>2, <2>3
  <1>2. CASE Reserve(t) \/ SubmitDone(t) \/ PostInline(t) \/ Enqueue(t) \/ PollClaimLost(t)
    BY <1>2 DEF Reserve, SubmitDone, PostInline, Enqueue, PollClaimLost
  <1>3. CASE DispatchInline(t) \/ PathDone(t) \/ AllocFails(t) \/ RegisterFails(t)
             \/ EnqueueFails(t)
    BY <1>3 DEF DispatchInline, PathDone, AllocFails, RegisterFails, EnqueueFails
  <1>4. CASE DispatchDefer(t) \/ CountInflight(t) \/ Register(t)
    BY <1>4 DEF DispatchDefer, CountInflight, Register
  <1>5. CASE DispatchSlot(t)
    <2>1. UNCHANGED <<sqe, phase, cur>> /\ pc[t] = "dispatch"
      BY <1>5 DEF DispatchSlot
    <2>2. CASE sqe[cur[t]].slot \in slotBusy
      BY <1>5, <2>1, <2>2 DEF DispatchSlot
    <2>3. CASE sqe[cur[t]].slot \notin slotBusy
      <3>1. pc'[t] \in {"count", "path"}
        BY <1>5, <2>3 DEF DispatchSlot
      <3>2. QED
        BY <2>1, <3>1
    <2>4. QED
      BY <2>2, <2>3
  <1>6. CASE SubmitUnregister(t) \/ Uncount(t) \/ Unwind(t)
    BY <1>6 DEF SubmitUnregister, Uncount, Unwind
  <1>7. CASE Arm(t)
    <2>1. (pc'[t] = "claim" /\ cur' = cur) \/ pc'[t] = "submit"
      BY <1>7 DEF Arm
    <2>2. pc[t] = "arm"
      BY <1>7 DEF Arm
    <2>3. QED
      BY SMTT(30), <2>1, <2>2
  <1>8. CASE PollClaim(t)
    <2>1. cur[t] \in SqeIds /\ phase[cur[t]] # "free"
      BY <1>8 DEF PollClaim
    <2>2. cur[t] \in 1..Len(sqe)
      BY <2>1 DEF FreeInv
    <2>3. QED
      BY <1>8, <2>2 DEF PollClaim
  <1>9. CASE CancelMisses(t) \/ CancelTooLate(t)
    BY <1>9 DEF CancelMisses, CancelTooLate
  <1>10. CASE CancelWins(t)
    <2>1. PICK q \in pending : /\ CanRetire(q)
                               /\ phase' = [phase EXCEPT ![q] = "retired"]
                               /\ prey' = [prey EXCEPT ![t] = q]
      BY <1>10 DEF CancelWins, Matching
    <2>2. phase[q] # "free"
      BY <2>1 DEF CanRetire
    <2>3. q \in 1..Len(sqe)
      BY <2>1, <2>2 DEF FreeInv
    <2>4. pc'[t] = "retire" /\ UNCHANGED sqe
      BY <1>10 DEF CancelWins
    <2>5. phase[cur[t]] = "submitting" /\ cur[t] \in 1..Len(sqe) /\ UNCHANGED cur
      BY <1>10 DEF CancelWins
    <2>6. q # cur[t]
      BY <2>1, <2>5 DEF CanRetire
    <2>7. QED
      BY <2>1, <2>3, <2>4, <2>5, <2>6
  <1>11. CASE CancelComplete(t)
    <2>1. cur[t] # prey[t]
      BY <1>11 DEF CancelComplete
    <2>2. /\ pc'[t] = "notify"
          /\ UNCHANGED <<sqe, cur>>
          /\ phase' = [phase EXCEPT ![prey[t]] = "done"]
          /\ pc[t] = "retire"
      BY <1>11 DEF CancelComplete
    <2>3. QED
      BY <2>1, <2>2
  <1>12. CASE CancelNotify(t)
    BY <1>12 DEF CancelNotify
  <1>13. QED
    BY <1>1, <1>2, <1>3, <1>4, <1>5, <1>6, <1>7, <1>8, <1>9, <1>10, <1>11, <1>12 DEF Submit

LEMMA CurStep ==
  ASSUME CtlInv, Next
  PROVE  CurInv'
  <1> USE DEF CtlInv, CurInv, HandInv, Holding
  <1>1. ASSUME NEW t \in Tasks, Submit(t)
        PROVE  CurInv'
    <2>1. \A u \in Tasks \ {t} : pc'[u] \in Unlocked
      BY <1>1, SubmitMoves, OthersUnlocked, BatchLocked DEF Unlocked
    <2>2. HandInv(t)'
      BY <1>1, HandStep
    <2>3. QED
      BY <2>1, <2>2 DEF Unlocked
  <1>2. ASSUME NEW t \in Tasks,
               Enter(t) \/ ReadFault(t) \/ Wait(t) \/ Timeout(t) \/ Signal(t) \/ Relock(t)
        PROVE  CurInv'
    <2>1. UNCHANGED <<sqe, phase, cur, res, prey>>
      BY <1>2 DEF Enter, ReadFault, Wait, WaitOver, Sleep, Timeout, Signal, Relock
    <2>2. /\ \A u \in Tasks \ {t} : pc'[u] = pc[u]
          /\ pc'[t] \in Unlocked \cup {"submit", "reap"}
      BY <1>2 DEF Enter, ReadFault, Wait, WaitOver, Sleep, Timeout, Signal, Relock, Unlocked,
         TypeCore
    <2>3. QED
      BY <2>1, <2>2 DEF Unlocked
  <1>3. ASSUME NEW t \in Tasks, Reap(t) \/ CopyFault(t)
        PROVE  CurInv'
    <2>1. UNCHANGED <<sqe, phase, prey>>
      BY <1>3 DEF Reap, Peek, Pop, ReapDone, CopyFault
    <2>2. \A u \in Tasks \ {t} : pc'[u] = pc[u] /\ cur'[u] = cur[u] /\ res'[u] = res[u]
      <3>1. CASE Peek(t)
        BY <3>1 DEF Peek, TypeCore
      <3>2. CASE Pop(t)
        BY <3>2 DEF Pop, TypeCore
      <3>3. CASE ReapDone(t) \/ CopyFault(t)
        BY <3>3 DEF ReapDone, CopyFault, TypeCore
      <3>4. QED
        BY <1>3, <3>1, <3>2, <3>3 DEF Reap
    <2>3. CASE Peek(t)
      <3>1. Head(cq) \in Cqe
        BY <2>3 DEF Peek, TypeCore
      <3>2. cur'[t] \in SqeIds /\ res'[t] # "none" /\ pc'[t] = "copy"
        BY <2>3, <3>1 DEF Peek, TypeCore, Cqe
      <3>3. QED
        BY <2>1, <2>2, <3>2
    <2>4. CASE ~Peek(t)
      <3>1. pc'[t] \in {"reap", "user"}
        BY <1>3, <2>4 DEF Reap, Pop, ReapDone, CopyFault, TypeCore
      <3>2. QED
        BY <2>1, <2>2, <3>1
    <2>5. QED
      BY <2>3, <2>4
  <1>4. ASSUME NEW q \in SqeIds, Wake(q) \/ Worker(q)
        PROVE  CurInv'
    <2>1. /\ UNCHANGED <<sqe, cur, res, prey>>
          /\ \A p \in SqeIds : phase[p] \in {"submitting", "retired"} => phase'[p] = phase[p]
      BY <1>4 DEF Wake, Worker, WorkerStart, WorkerComplete, WorkerNotify, WorkerUnregister,
         TypeCore
    <2>2. \A t \in Tasks : pc'[t] = pc[t] \/ pc'[t] = "wait"
      BY <1>4 DEF Wake, Worker, WorkerStart, WorkerComplete, WorkerNotify, WorkerUnregister,
         TypeCore
    <2>3. 1..Len(sqe) \subseteq SqeIds
      BY MaxSqeAssumption DEF TypeCore
    <2>4. QED
      BY <2>1, <2>2, <2>3
  <1>5. QED
    BY <1>1, <1>2, <1>3, <1>4 DEF Next

LEMMA HeadOfAppend ==
  ASSUME NEW S, NEW s \in Seq(S), s # <<>>, NEW e \in S
  PROVE  Append(s, e) # <<>> /\ Head(Append(s, e)) = Head(s)
  <1>1. Len(s) \in Nat /\ Len(s) > 0
    OBVIOUS
  <1>2. Append(s, e) \in Seq(S) /\ Len(Append(s, e)) = Len(s) + 1 /\ Append(s, e)[1] = s[1]
    BY <1>1
  <1>3. QED
    BY <1>1, <1>2

LEMMA CopyStep ==
  ASSUME CtlInv, Next
  PROVE  PopsWhatItCopied'
  <1> USE DEF CtlInv, PopsWhatItCopied, TypeCore
  <1>1. ASSUME NEW t \in Tasks, Peek(t)
        PROVE  PopsWhatItCopied'
    <2>1. \A u \in Tasks \ {t} : pc'[u] \in Unlocked
      BY <1>1, OthersUnlocked, BatchLocked DEF Peek
    <2>2. Head(cq) \in Cqe
      BY <1>1 DEF Peek
    <2>3. Head(cq) = [sqe |-> Head(cq).sqe, res |-> Head(cq).res]
      BY <2>2 DEF Cqe
    <2>4. cur'[t] = Head(cq).sqe /\ res'[t] = Head(cq).res /\ cq' = cq /\ cq # <<>>
      BY <1>1 DEF Peek
    <2>5. QED
      BY <2>1, <2>3, <2>4 DEF Unlocked
  <1>2. ASSUME NEW t \in Tasks, Submit(t)
        PROVE  PopsWhatItCopied'
    <2>1. \A u \in Tasks \ {t} : pc'[u] \in Unlocked
      BY <1>2, SubmitMoves, OthersUnlocked, BatchLocked DEF Unlocked
    <2>2. pc'[t] \in Batch \cup {"wait"}
      BY <1>2, SubmitKeepsLock DEF SubmitDone
    <2>3. QED
      BY <2>1, <2>2 DEF Unlocked, Batch, Holding
  <1>3. ASSUME NEW t \in Tasks, Pop(t)
        PROVE  PopsWhatItCopied'
    <2>1. \A u \in Tasks \ {t} : pc[u] \in Unlocked
      BY <1>3, OthersUnlocked, BatchLocked DEF Pop
    <2>2. QED
      BY <1>3, <2>1 DEF Pop, Unlocked
  <1>4. ASSUME NEW t \in Tasks,
               Enter(t) \/ ReadFault(t) \/ Wait(t) \/ Timeout(t) \/ Signal(t) \/ Relock(t)
        PROVE  PopsWhatItCopied'
    <2>1. UNCHANGED <<cq, cur, res>> /\ \A u \in Tasks : pc'[u] = "copy" => pc[u] = "copy"
      BY <1>4 DEF Enter, ReadFault, Wait, WaitOver, Sleep, Timeout, Signal, Relock
    <2>2. QED
      BY <2>1
  <1>5. ASSUME NEW t \in Tasks, ReapDone(t) \/ CopyFault(t)
        PROVE  PopsWhatItCopied'
    <2>1. cq' = cq /\ pc'[t] = "user"
      BY <1>5 DEF ReapDone, CopyFault
    <2>2. \A u \in Tasks \ {t} : pc'[u] = pc[u] /\ cur'[u] = cur[u] /\ res'[u] = res[u]
      BY <1>5 DEF ReapDone, CopyFault
    <2>3. QED
      BY <2>1, <2>2
  <1>6. ASSUME NEW q \in SqeIds, Wake(q) \/ Worker(q)
        PROVE  PopsWhatItCopied'
    <2>1. UNCHANGED <<cur, res>> /\ \A u \in Tasks : pc'[u] = "copy" => pc[u] = "copy"
      BY <1>6 DEF Wake, Worker, WorkerStart, WorkerComplete, WorkerNotify, WorkerUnregister
    <2>2. cq' = cq \/ \E c \in Cqe : cq' = Append(cq, c)
      <3>1. CASE WorkerComplete(q)
        <4>1. [sqe |-> q, res |-> "ok"] \in Cqe
          BY DEF Cqe, Results
        <4>2. QED
          BY <3>1, <4>1 DEF WorkerComplete
      <3>2. CASE ~WorkerComplete(q)
        BY <1>6, <3>2 DEF Wake, Worker, WorkerStart, WorkerNotify, WorkerUnregister
      <3>3. QED
        BY <3>1, <3>2
    <2>3. cq # <<>> => cq' # <<>> /\ Head(cq') = Head(cq)
      BY <2>2, HeadOfAppend
    <2>4. QED
      BY <2>1, <2>3
  <1>7. QED
    BY <1>1, <1>2, <1>3, <1>4, <1>5, <1>6 DEF Next, Reap

-----------------------------------------------------------------------------
(* The control invariant.                                                  *)

\* Whoever holds submit_lock is inside ENTER, alone; the SQE it is dispatching
\* is its own, and what a reaper has copied stays the head of the queue until
\* it pops it, however workers and other tasks interleave (`submit', `reap').
THEOREM ControlInvariant == Spec => []CtlInv
  <1>1. Init => CtlInv
    BY CtlInit
  <1>2. CtlInv /\ [Next]_vars => CtlInv'
    <2> SUFFICES ASSUME CtlInv, [Next]_vars
                 PROVE  CtlInv'
      OBVIOUS
    <2>1. CASE Next
      <3>1. TypeCore'
        BY <2>1, TypeSubmit, TypeOther, TypeWorker DEF Next
      <3>2. QED
        BY <2>1, <3>1, LockStep, CurStep, FreeStep, BatchStep, CopyStep DEF CtlInv
    <2>2. CASE UNCHANGED vars
      BY <2>2 DEF vars, CtlInv, TypeCore, LockInv, CurInv, HandInv, FreeInv, BatchInv,
         PopsWhatItCopied
    <2>3. QED
      BY <2>1, <2>2
  <1>3. QED
    BY <1>1, <1>2, PTL DEF Spec

THEOREM PopsWhatItCopiedHolds == Spec => []PopsWhatItCopied
  <1>1. CtlInv => PopsWhatItCopied
    BY DEF CtlInv
  <1>2. QED
    BY <1>1, ControlInvariant, PTL
-----------------------------------------------------------------------------
(* Admission control.                                                      *)

LEMMA OwedReadingFinite == IsFiniteSet(Owed) /\ IsFiniteSet(Reading)
  <1>1. IsFiniteSet(SqeIds)
    BY MaxSqeAssumption, FS_Interval
  <1>2. Owed \subseteq SqeIds /\ Reading \subseteq Tasks
    BY DEF Owed, Reading
  <1>3. QED
    BY <1>1, <1>2, TasksAssumption, FS_Subset

LEMMA AdmissionInit == Init => AdmissionControl
  <1>1. Init => Owed = {} /\ Reading = {}
    BY DEF Init, Owed, Reading, Unanswered
  <1>2. Cardinality({}) = 0
    BY FS_EmptySet
  <1>3. Init => Len(cq) + reserved <= CqEntries
    BY CqEntriesAssumption DEF Init
  <1>4. Init => reserved = 0
    BY DEF Init
  <1>5. QED
    BY <1>1, <1>2, <1>3, <1>4 DEF AdmissionControl

\* What a step does to the ring's accounts, beside claiming a place, reading an
\* SQE into it and handing a completion out: it posts one completion into the
\* place reserved for it, or it leaves them alone.
Posts(c) ==
  /\ c.sqe \in Owed /\ Owed' = Owed \ {c.sqe}
  /\ cq' = Append(cq, c)
  /\ reserved' = reserved - 1
  /\ Reading' = Reading
  /\ UNCHANGED <<sqe, reaped>>

Quiet ==
  /\ Owed' = Owed
  /\ Reading' = Reading
  /\ UNCHANGED <<cq, reserved, sqe, reaped>>

LEMMA LedgerSubmit ==
  ASSUME CtlInv, NEW t \in Tasks, Submit(t), ~Reserve(t), ~ReadSqe(t)
  PROVE  (\E c \in Cqe : Posts(c)) \/ Quiet
  <1> USE DEF CtlInv, TypeCore
  <1>1. CASE PostInline(t)
    <2>1. cur[t] \in SqeIds /\ phase[cur[t]] = "submitting" /\ res[t] # "none"
      BY <1>1, MaxSqeAssumption DEF PostInline, CurInv, HandInv, Holding
    <2>2. Owed' = Owed \ {cur[t]} /\ cur[t] \in Owed
      BY <1>1, <2>1 DEF PostInline, Owed, Unanswered
    <2>3. Reading' = Reading
      BY <1>1 DEF PostInline, Reading
    <2>4. [sqe |-> cur[t], res |-> res[t]] \in Cqe
      BY <2>1 DEF Cqe
    <2>5. Posts([sqe |-> cur[t], res |-> res[t]])
      BY <1>1, <2>2, <2>3 DEF PostInline, Posts
    <2>6. QED
      BY <2>4, <2>5
  <1>2. CASE CancelComplete(t)
    <2>1. prey[t] \in SqeIds /\ phase[prey[t]] = "retired"
      BY <1>2, MaxSqeAssumption DEF CancelComplete, CurInv, HandInv
    <2>2. Owed' = Owed \ {prey[t]} /\ prey[t] \in Owed
      BY <1>2, <2>1 DEF CancelComplete, Owed, Unanswered
    <2>3. Reading' = Reading
      BY <1>2 DEF CancelComplete, Reading
    <2>4. [sqe |-> prey[t], res |-> "ECANCELED"] \in Cqe
      BY <2>1 DEF Cqe, Results
    <2>5. Posts([sqe |-> prey[t], res |-> "ECANCELED"])
      BY <1>2, <2>2, <2>3 DEF CancelComplete, Posts
    <2>6. QED
      BY <2>4, <2>5
  <1>3. CASE \/ SubmitDone(t) \/ DispatchInline(t) \/ DispatchDefer(t) \/ PathDone(t)
             \/ CountInflight(t) \/ AllocFails(t) \/ Register(t) \/ RegisterFails(t)
             \/ EnqueueFails(t) \/ SubmitUnregister(t) \/ Uncount(t) \/ Unwind(t)
             \/ PollClaimLost(t) \/ CancelMisses(t) \/ CancelTooLate(t) \/ CancelNotify(t)
             \/ DispatchSlot(t)
    <2>1. UNCHANGED <<cq, reserved, phase, sqe, reaped>>
      BY <1>3 DEF SubmitDone, DispatchInline, DispatchDefer, PathDone, CountInflight, AllocFails,
         Register, RegisterFails, EnqueueFails, SubmitUnregister, Uncount, Unwind, PollClaimLost,
         CancelMisses, CancelTooLate, CancelNotify, DispatchSlot
    <2>2. \A u \in Tasks : pc'[u] = "read" <=> pc[u] = "read"
      BY <1>3 DEF SubmitDone, DispatchInline, DispatchDefer, PathDone, CountInflight, AllocFails,
         Register, RegisterFails, EnqueueFails, SubmitUnregister, Uncount, Unwind, PollClaimLost,
         CancelMisses, CancelTooLate, CancelNotify, DispatchSlot
    <2>3. Owed' = Owed /\ Reading' = Reading
      BY <2>1, <2>2 DEF Owed, Reading
    <2>4. QED
      BY <2>1, <2>3 DEF Quiet
  <1>4. CASE Enqueue(t) \/ Arm(t) \/ PollClaim(t)
    <2>1. Owed' = Owed
      <3>1. CASE Enqueue(t)
        BY <3>1 DEF Enqueue, Owed, Unanswered, CurInv, HandInv, Holding
      <3>2. CASE Arm(t)
        BY <3>2 DEF Arm, Owed, Unanswered, CurInv, HandInv, Holding
      <3>3. CASE PollClaim(t)
        BY <3>3 DEF PollClaim, Owed, Unanswered
      <3>4. QED
        BY <1>4, <3>1, <3>2, <3>3
    <2>2. Reading' = Reading
      BY <1>4 DEF Enqueue, Arm, PollClaim, Reading
    <2>3. QED
      BY <1>4, <2>1, <2>2 DEF Enqueue, Arm, PollClaim, Quiet
  <1>5. CASE CancelWins(t)
    <2>1. PICK q \in pending : CanRetire(q) /\ phase' = [phase EXCEPT ![q] = "retired"]
      BY <1>5 DEF CancelWins, Matching
    <2>2. phase[q] \in {"armed", "queued"}
      BY <2>1 DEF CanRetire
    <2>3. Owed' = Owed
      BY <2>1, <2>2 DEF Owed, Unanswered
    <2>4. Reading' = Reading
      BY <1>5 DEF CancelWins, Reading
    <2>5. QED
      BY <1>5, <2>3, <2>4 DEF CancelWins, Quiet
  <1>6. QED
    BY <1>1, <1>2, <1>3, <1>4, <1>5 DEF Submit

LEMMA Ledger ==
  ASSUME CtlInv, Next
  PROVE  \/ \E t \in Tasks : Reserve(t) \/ ReadSqe(t) \/ ReadFault(t) \/ Pop(t)
         \/ \E c \in Cqe : Posts(c)
         \/ Quiet
  <1> USE DEF CtlInv, TypeCore
  <1>1. ASSUME NEW t \in Tasks,
               Enter(t) \/ Wait(t) \/ Timeout(t) \/ Signal(t) \/ Relock(t) \/ Peek(t)
               \/ ReapDone(t) \/ CopyFault(t)
        PROVE  Quiet
    <2>1. UNCHANGED <<cq, reserved, phase, sqe, reaped>>
      BY <1>1 DEF Enter, Wait, WaitOver, Sleep, Timeout, Signal, Relock, Peek, ReapDone,
         CopyFault
    <2>2. \A u \in Tasks : pc'[u] = "read" <=> pc[u] = "read"
      BY <1>1 DEF Enter, Wait, WaitOver, Sleep, Timeout, Signal, Relock, Peek, ReapDone,
         CopyFault
    <2>3. QED
      BY <2>1, <2>2 DEF Owed, Reading, Quiet
  <1>2. ASSUME NEW q \in SqeIds, WorkerComplete(q)
        PROVE  Posts([sqe |-> q, res |-> "ok"]) /\ [sqe |-> q, res |-> "ok"] \in Cqe
    <2>1. Owed' = Owed \ {q} /\ q \in Owed
      BY <1>2 DEF WorkerComplete, Owed, Unanswered
    <2>2. Reading' = Reading
      BY <1>2 DEF WorkerComplete, Reading
    <2>3. QED
      BY <1>2, <2>1, <2>2 DEF WorkerComplete, Posts, Cqe, Results
  <1>3. ASSUME NEW q \in SqeIds,
               Wake(q) \/ WorkerStart(q) \/ WorkerNotify(q) \/ WorkerUnregister(q)
        PROVE  Quiet
    <2>1. Owed' = Owed
      BY <1>3 DEF Wake, WorkerStart, WorkerNotify, WorkerUnregister, Owed, Unanswered
    <2>2. Reading' = Reading
      BY <1>3 DEF Wake, WorkerStart, WorkerNotify, WorkerUnregister, Reading
    <2>3. QED
      BY <1>3, <2>1, <2>2 DEF Wake, WorkerStart, WorkerNotify, WorkerUnregister, Quiet
  <1>4. ASSUME NEW t \in Tasks, Submit(t)
        PROVE  Reserve(t) \/ ReadSqe(t) \/ (\E c \in Cqe : Posts(c)) \/ Quiet
    BY <1>4, LedgerSubmit
  <1>5. QED
    BY <1>1, <1>2, <1>3, <1>4 DEF Next, Reap, Worker

\* An SQE is read by a task that holds a reservation for it, within the bound.
LEMMA ReadsNext ==
  ASSUME CtlInv, NEW t \in Tasks, ReadSqe(t)
  PROVE  /\ Len(sqe) + 1 \in SqeIds /\ Len(sqe') = Len(sqe) + 1
         /\ Owed' = Owed \cup {Len(sqe) + 1} /\ Len(sqe) + 1 \notin Owed
         /\ Reading' = Reading \ {t} /\ t \in Reading
  <1> USE DEF CtlInv, TypeCore
  <1>1. args[t].submit \in Nat
    BY CallsAssumption DEF NoCall
  <1>2. Len(sqe) + 1 \in SqeIds /\ Len(sqe') = Len(sqe) + 1
    BY <1>1, MaxSqeAssumption DEF ReadSqe, BatchInv, Batch
  <1>3. phase[Len(sqe) + 1] = "free"
    BY <1>2 DEF FreeInv
  <1>4. Owed' = Owed \cup {Len(sqe) + 1} /\ Len(sqe) + 1 \notin Owed
    BY <1>2, <1>3 DEF ReadSqe, Owed, Unanswered
  <1>5. Reading' = Reading \ {t} /\ t \in Reading
    BY DEF ReadSqe, Reading
  <1>6. QED
    BY <1>2, <1>4, <1>5

LEMMA AdmissionStep ==
  ASSUME CtlInv, AdmissionControl, Next
  PROVE  AdmissionControl'
  <1> USE DEF CtlInv, TypeCore
  <1>0. Cardinality(Owed) \in Nat /\ Cardinality(Reading) \in Nat /\ Len(cq) \in Nat
    BY FS_CardinalityType, OwedReadingFinite
  <1>1. ASSUME NEW t \in Tasks, Reserve(t)
        PROVE  AdmissionControl'
    <2>1. Owed' = Owed
      BY <1>1 DEF Reserve, Owed
    <2>2. Reading' = Reading \cup {t} /\ t \notin Reading
      BY <1>1 DEF Reserve, Reading
    <2>3. Cardinality(Reading') = Cardinality(Reading) + 1
      BY <2>2, FS_AddElement, OwedReadingFinite
    <2>4. reserved' = Cardinality(Owed') + Cardinality(Reading')
      BY <1>0, <1>1, <2>1, <2>3 DEF Reserve, AdmissionControl
    <2>5. Len(cq') + reserved' <= CqEntries
      BY <1>0, <1>1, CqEntriesAssumption DEF Reserve, HasRoom
    <2>6. QED
      BY <2>4, <2>5 DEF AdmissionControl
  <1>2. ASSUME NEW t \in Tasks, ReadSqe(t)
        PROVE  AdmissionControl'
    <2>1. /\ Owed' = Owed \cup {Len(sqe) + 1} /\ Len(sqe) + 1 \notin Owed
          /\ Reading' = Reading \ {t} /\ t \in Reading
      BY <1>2, ReadsNext
    <2>2. Cardinality(Reading') = Cardinality(Reading) - 1
      BY <2>1, FS_RemoveElement, OwedReadingFinite
    <2>3. Cardinality(Owed') = Cardinality(Owed) + 1
      BY <2>1, FS_AddElement, OwedReadingFinite
    <2>4. QED
      BY <1>0, <1>2, <2>2, <2>3 DEF ReadSqe, AdmissionControl
  <1>3. ASSUME NEW t \in Tasks, ReadFault(t)
        PROVE  AdmissionControl'
    <2>1. Reading' = Reading \ {t} /\ t \in Reading
      BY <1>3 DEF ReadFault, Reading
    <2>2. Cardinality(Reading') = Cardinality(Reading) - 1
      BY <2>1, FS_RemoveElement, OwedReadingFinite
    <2>3. Owed' = Owed
      BY <1>3 DEF ReadFault, Owed
    <2>4. reserved' = Cardinality(Owed') + Cardinality(Reading')
      BY <1>0, <1>3, <2>2, <2>3 DEF ReadFault, AdmissionControl
    <2>5. Len(cq') + reserved' <= CqEntries
      BY <1>0, <1>3, CqEntriesAssumption DEF ReadFault, AdmissionControl
    <2>6. QED
      BY <2>4, <2>5 DEF AdmissionControl
  <1>4. ASSUME NEW t \in Tasks, Pop(t)
        PROVE  AdmissionControl'
    <2>1. cq # <<>>
      BY <1>4 DEF Pop, PopsWhatItCopied
    <2>2. Len(cq') = Len(cq) - 1
      BY <1>4, <2>1 DEF Pop
    <2>3. Owed' = Owed /\ Reading' = Reading
      BY <1>4 DEF Pop, Owed, Reading
    <2>4. QED
      BY SMTT(30), <1>4, <2>2, <2>3, CqEntriesAssumption DEF Pop, AdmissionControl
  <1>5. ASSUME NEW c \in Cqe, Posts(c)
        PROVE  AdmissionControl'
    <2>1. Cardinality(Owed') = Cardinality(Owed) - 1
      <3>1. c.sqe \in Owed /\ Owed' = Owed \ {c.sqe}
        BY <1>5 DEF Posts
      <3>2. ASSUME NEW q \in Owed, Owed' = Owed \ {q}
            PROVE  Cardinality(Owed') = Cardinality(Owed) - 1
        BY <3>2, FS_RemoveElement, OwedReadingFinite
      <3>3. QED
        BY <3>1, <3>2
    <2>2. Len(cq') = Len(cq) + 1
      BY <1>5 DEF Posts
    <2>3. reserved' = Cardinality(Owed') + Cardinality(Reading')
      BY <1>0, <1>5, <2>1 DEF Posts, AdmissionControl
    <2>4. Len(cq') + reserved' <= CqEntries
      BY <1>0, <1>5, <2>2, CqEntriesAssumption DEF Posts, AdmissionControl
    <2>5. QED
      BY <2>3, <2>4 DEF AdmissionControl
  <1>6. ASSUME Quiet
        PROVE  AdmissionControl'
    BY <1>6 DEF Quiet, AdmissionControl
  <1>7. QED
    BY <1>1, <1>2, <1>3, <1>4, <1>5, <1>6, Ledger

\* There is exactly one reservation for each completion still owed, and queued
\* plus reserved never exceeds cq_entries: RingState::post always finds room.
THEOREM AdmissionControlHolds == Spec => []AdmissionControl
  <1>1. Init => CtlInv /\ AdmissionControl
    BY CtlInit, AdmissionInit
  <1>2. CtlInv /\ AdmissionControl /\ [Next]_vars => AdmissionControl'
    <2>1. CtlInv /\ AdmissionControl /\ Next => AdmissionControl'
      BY AdmissionStep
    <2>2. AdmissionControl /\ UNCHANGED vars => AdmissionControl'
      BY DEF vars, AdmissionControl, Owed, Reading
    <2>3. QED
      BY <2>1, <2>2
  <1>3. QED
    BY <1>1, <1>2, ControlInvariant, PTL DEF Spec
-----------------------------------------------------------------------------
(* inflight.                                                               *)

\* Where the operation in a task's hand is counted, and where an operation is
\* counted whoever holds it.
Counting == {"register", "enqueue", "arm", "unregister", "uncount"}
Live == {"queued", "armed", "unpolled", "running", "retired"}

\* While t is alone inside the lock, only the SQE in its hand can be counted
\* on its way in or out.
CountedBy(t) ==
  {q \in SqeIds : \/ phase[q] \in Live
                  \/ phase[q] = "submitting" /\ cur[t] = q /\ pc[t] \in Counting}

LEMMA CountedAlone ==
  ASSUME NEW t \in Tasks,
         \A u \in Tasks \ {t} : pc[u] \in Unlocked /\ pc'[u] \in Unlocked
  PROVE  Counted = CountedBy(t) /\ Counted' = CountedBy(t)'
  <1>1. Unlocked \cap Counting = {}
    BY DEF Unlocked, Counting
  <1>2. Counted = CountedBy(t)
    BY <1>1 DEF Counted, CountedBy, Live, Counting
  <1>3. Counted' = CountedBy(t)'
    BY <1>1 DEF Counted, CountedBy, Live, Counting
  <1>4. QED
    BY <1>2, <1>3

LEMMA CountedFinite == IsFiniteSet(Counted)
  <1>1. IsFiniteSet(SqeIds)
    BY MaxSqeAssumption, FS_Interval
  <1>2. Counted \subseteq SqeIds
    BY DEF Counted
  <1>3. QED
    BY <1>1, <1>2, FS_Subset

LEMMA InflightInit == Init => InflightExact
  <1>1. Init => Counted = {}
    BY DEF Init, Counted
  <1>2. Cardinality({}) = 0
    BY FS_EmptySet
  <1>3. QED
    BY <1>1, <1>2 DEF Init, InflightExact

\* The steps that count nothing, count one more, and count one less.
LEMMA InflightQuiet ==
  ASSUME InflightExact, Counted' = Counted, inflight' = inflight
  PROVE  InflightExact'
  BY DEF InflightExact

LEMMA InflightUp ==
  ASSUME InflightExact, NEW q, q \notin Counted, Counted' = Counted \cup {q},
         inflight' = inflight + 1
  PROVE  InflightExact'
  <1>1. Cardinality(Counted') = Cardinality(Counted) + 1
    BY FS_AddElement, CountedFinite
  <1>2. QED
    BY <1>1 DEF InflightExact

LEMMA InflightDown ==
  ASSUME InflightExact, NEW q \in Counted, Counted' = Counted \ {q},
         inflight' = inflight - 1
  PROVE  InflightExact'
  <1>1. Cardinality(Counted') = Cardinality(Counted) - 1
    BY FS_RemoveElement, CountedFinite
  <1>2. QED
    BY <1>1 DEF InflightExact

LEMMA InflightSubmit ==
  ASSUME CtlInv, InflightExact, NEW t \in Tasks, Submit(t)
  PROVE  InflightExact'
  <1> USE DEF CtlInv, TypeCore
  <1>1. \A u \in Tasks \ {t} : pc[u] \in Unlocked /\ pc'[u] \in Unlocked
    BY SubmitMoves, OthersUnlocked, BatchLocked DEF Unlocked
  <1>2. Counted = CountedBy(t) /\ Counted' = CountedBy(t)'
    BY <1>1, CountedAlone
  <1>3. pc[t] \in Holding => cur[t] \in SqeIds /\ phase[cur[t]] = "submitting"
    BY MaxSqeAssumption DEF CurInv, HandInv
  <1>4. CASE CountInflight(t)
    <2>1. cur[t] \in SqeIds /\ phase[cur[t]] = "submitting"
      BY <1>3, <1>4 DEF CountInflight, Holding
    <2>2. cur[t] \notin CountedBy(t) /\ CountedBy(t)' = CountedBy(t) \cup {cur[t]}
      BY <1>4, <2>1 DEF CountInflight, CountedBy, Counting, Live
    <2>3. QED
      BY <1>2, <1>4, <2>2, InflightUp DEF CountInflight
  <1>5. CASE Uncount(t)
    <2>1. cur[t] \in SqeIds /\ phase[cur[t]] = "submitting"
      BY <1>3, <1>5 DEF Uncount, Holding
    <2>2. cur[t] \in CountedBy(t) /\ CountedBy(t)' = CountedBy(t) \ {cur[t]}
      BY <1>5, <2>1 DEF Uncount, CountedBy, Counting, Live
    <2>3. QED
      BY <1>2, <1>5, <2>2, InflightDown DEF Uncount
  <1>6. CASE CancelComplete(t)
    <2>1. prey[t] \in SqeIds /\ phase[prey[t]] = "retired"
      BY <1>6, MaxSqeAssumption DEF CancelComplete, CurInv, HandInv
    <2>2. prey[t] \in CountedBy(t) /\ CountedBy(t)' = CountedBy(t) \ {prey[t]}
      BY <1>6, <2>1 DEF CancelComplete, CountedBy, Counting, Live
    <2>3. QED
      BY <1>2, <1>6, <2>2, InflightDown DEF CancelComplete
  <1>7. CASE ReadSqe(t)
    <2>1. Len(sqe) + 1 \in SqeIds
      BY <1>7, ReadsNext
    <2>2. phase[Len(sqe) + 1] = "free"
      BY <2>1 DEF FreeInv
    <2>3. CountedBy(t)' = CountedBy(t)
      BY <1>7, <2>1, <2>2 DEF ReadSqe, CountedBy, Counting, Live
    <2>4. QED
      BY <1>2, <1>7, <2>3, InflightQuiet DEF ReadSqe
  <1>8. CASE PostInline(t) \/ Enqueue(t) \/ Arm(t) \/ PollClaim(t)
    <2>1. CASE PostInline(t)
      <3>1. CountedBy(t)' = CountedBy(t)
        BY <1>3, <2>1 DEF PostInline, CountedBy, Counting, Live, Holding
      <3>2. QED
        BY <1>2, <2>1, <3>1, InflightQuiet DEF PostInline
    <2>2. CASE Enqueue(t)
      <3>1. cur[t] \in SqeIds /\ phase[cur[t]] = "submitting"
        BY <1>3, <2>2 DEF Enqueue, Holding
      <3>2. CountedBy(t)' = CountedBy(t)
        BY <2>2, <3>1 DEF Enqueue, CountedBy, Counting, Live
      <3>3. QED
        BY <1>2, <2>2, <3>2, InflightQuiet DEF Enqueue
    <2>3. CASE Arm(t)
      <3>1. cur[t] \in SqeIds /\ phase[cur[t]] = "submitting" /\ pc[t] = "arm"
        BY <1>3, <2>3 DEF Arm, Holding
      <3>2. \E p \in {"armed", "unpolled"} : phase' = [phase EXCEPT ![cur[t]] = p]
        BY <2>3 DEF Arm
      <3>3. pc'[t] \in {"claim", "submit"}
        BY <2>3 DEF Arm
      <3>4. CountedBy(t)' = CountedBy(t)
        BY <3>1, <3>2, <3>3 DEF CountedBy, Counting, Live
      <3>5. QED
        BY <1>2, <2>3, <3>4, InflightQuiet DEF Arm
    <2>4. CASE PollClaim(t)
      <3>1. cur[t] \in SqeIds
        BY <2>4 DEF PollClaim, CurInv, HandInv
      <3>2. CountedBy(t)' = CountedBy(t)
        BY <2>4, <3>1 DEF PollClaim, CountedBy, Counting, Live
      <3>3. QED
        BY <1>2, <2>4, <3>2, InflightQuiet DEF PollClaim
    <2>5. QED
      BY <1>8, <2>1, <2>2, <2>3, <2>4
  <1>9. CASE CancelWins(t)
    <2>1. PICK q \in pending : CanRetire(q) /\ phase' = [phase EXCEPT ![q] = "retired"]
      BY <1>9 DEF CancelWins, Matching
    <2>2. phase[q] \in {"armed", "queued"}
      BY <2>1 DEF CanRetire
    <2>3. pc[t] = "dispatch" /\ pc'[t] = "retire"
      BY <1>9 DEF CancelWins
    <2>4. CountedBy(t)' = CountedBy(t)
      BY <2>1, <2>2, <2>3 DEF CountedBy, Counting, Live
    <2>5. QED
      BY <1>2, <1>9, <2>4, InflightQuiet DEF CancelWins
  <1>10. CASE \/ Reserve(t) \/ SubmitDone(t) \/ DispatchInline(t) \/ DispatchDefer(t)
              \/ DispatchSlot(t) \/ PathDone(t) \/ AllocFails(t) \/ Unwind(t)
              \/ PollClaimLost(t) \/ CancelMisses(t) \/ CancelTooLate(t) \/ CancelNotify(t)
    <2>1. UNCHANGED <<phase, inflight>>
      BY <1>10 DEF Reserve, SubmitDone, DispatchInline, DispatchDefer, DispatchSlot, PathDone,
         AllocFails, Unwind, PollClaimLost, CancelMisses, CancelTooLate, CancelNotify
    <2>2. pc[t] \notin Counting /\ pc'[t] \notin Counting
      BY <1>10 DEF Reserve, SubmitDone, DispatchInline, DispatchDefer, DispatchSlot, PathDone,
         AllocFails, Unwind, PollClaimLost, CancelMisses, CancelTooLate, CancelNotify, Counting
    <2>3. CountedBy(t)' = CountedBy(t)
      BY <2>1, <2>2 DEF CountedBy
    <2>4. QED
      BY <1>2, <2>1, <2>3, InflightQuiet
  <1>11. CASE Register(t) \/ RegisterFails(t) \/ EnqueueFails(t) \/ SubmitUnregister(t)
    <2>1. UNCHANGED <<phase, inflight, cur>>
      BY <1>11 DEF Register, RegisterFails, EnqueueFails, SubmitUnregister
    <2>2. pc[t] \in Counting /\ pc'[t] \in Counting
      BY <1>11 DEF Register, RegisterFails, EnqueueFails, SubmitUnregister, Counting
    <2>3. CountedBy(t)' = CountedBy(t)
      BY <2>1, <2>2 DEF CountedBy
    <2>4. QED
      BY <1>2, <2>1, <2>3, InflightQuiet
  <1>12. QED
    BY <1>4, <1>5, <1>6, <1>7, <1>8, <1>9, <1>10, <1>11 DEF Submit

LEMMA InflightStep ==
  ASSUME CtlInv, InflightExact, Next
  PROVE  InflightExact'
  <1> USE DEF CtlInv, TypeCore
  <1>1. ASSUME NEW t \in Tasks,
               \/ Enter(t) \/ ReadFault(t) \/ Wait(t) \/ Timeout(t) \/ Signal(t) \/ Relock(t)
               \/ Reap(t) \/ CopyFault(t)
        PROVE  InflightExact'
    <2>1. UNCHANGED <<phase, inflight>>
      BY <1>1 DEF Enter, ReadFault, Wait, WaitOver, Sleep, Timeout, Signal, Relock, Reap, Peek,
         Pop, ReapDone, CopyFault
    <2>2. \A u \in Tasks \ {t} : pc'[u] = pc[u] /\ cur'[u] = cur[u]
      BY <1>1 DEF Enter, ReadFault, Wait, WaitOver, Sleep, Timeout, Signal, Relock, Reap, Peek,
         Pop, ReapDone, CopyFault
    <2>3. pc[t] \notin Counting /\ pc'[t] \notin Counting
      BY <1>1 DEF Enter, ReadFault, Wait, WaitOver, Sleep, Timeout, Signal, Relock, Reap, Peek,
         Pop, ReapDone, CopyFault, Counting
    <2>4. Counted' = Counted
      BY <2>1, <2>2, <2>3 DEF Counted, Counting
    <2>5. QED
      BY <2>1, <2>4, InflightQuiet
  <1>2. ASSUME NEW q \in SqeIds, WorkerComplete(q)
        PROVE  InflightExact'
    <2>1. q \in Counted /\ Counted' = Counted \ {q}
      BY <1>2 DEF WorkerComplete, Counted
    <2>2. QED
      BY <1>2, <2>1, InflightDown DEF WorkerComplete
  <1>3. ASSUME NEW q \in SqeIds, Wake(q) \/ WorkerStart(q) \/ WorkerUnregister(q)
        PROVE  InflightExact'
    <2>1. Counted' = Counted
      BY <1>3 DEF Wake, WorkerStart, WorkerUnregister, Counted
    <2>2. QED
      BY <1>3, <2>1, InflightQuiet DEF Wake, WorkerStart, WorkerUnregister
  <1>4. ASSUME NEW q \in SqeIds, WorkerNotify(q)
        PROVE  InflightExact'
    <2>1. \A t \in Tasks : pc'[t] \in Counting <=> pc[t] \in Counting
      BY <1>4 DEF WorkerNotify, Counting
    <2>2. \A p \in SqeIds : phase'[p] \in Live \cup {"submitting"} => phase'[p] = phase[p]
      BY <1>4 DEF WorkerNotify, Live
    <2>3. \A p \in SqeIds : phase[p] \in Live \cup {"submitting"} => phase'[p] = phase[p]
      BY <1>4 DEF WorkerNotify, Live
    <2>4. cur' = cur /\ inflight' = inflight
      BY <1>4 DEF WorkerNotify
    <2>5. Counted' = Counted
      BY <2>1, <2>2, <2>3, <2>4 DEF Counted, Counting, Live
    <2>6. QED
      BY <2>4, <2>5, InflightQuiet
  <1>5. QED
    BY <1>1, <1>2, <1>3, <1>4, InflightSubmit DEF Next, Worker

\* `inflight' counts exactly the operations whose completion is still to come
\* from outside the submit loop, so `quiescent' tells the truth: each of them
\* is counted once and uncounted once, on every failure path.
THEOREM InflightExactHolds == Spec => []InflightExact
  <1>1. Init => CtlInv /\ InflightExact
    BY CtlInit, InflightInit
  <1>2. CtlInv /\ InflightExact /\ [Next]_vars => InflightExact'
    <2>1. CtlInv /\ InflightExact /\ Next => InflightExact'
      BY InflightStep
    <2>2. InflightExact /\ UNCHANGED vars => InflightExact'
      BY DEF vars, InflightExact, Counted
    <2>3. QED
      BY <2>1, <2>2
  <1>3. QED
    BY <1>1, <1>2, ControlInvariant, PTL DEF Spec

\* Type correctness, and neither counter ever goes below zero: unreserve,
\* post and complete never subtract from 0.
THEOREM TypeCorrect == Spec => []TypeOK
  <1>1. CtlInv /\ AdmissionControl /\ InflightExact => TypeOK
    <2> SUFFICES ASSUME CtlInv, AdmissionControl, InflightExact
                 PROVE  TypeOK
      OBVIOUS
    <2>1. Cardinality(Owed) \in Nat /\ Cardinality(Reading) \in Nat
      BY FS_CardinalityType, OwedReadingFinite
    <2>2. Cardinality(Counted) \in Nat
      BY FS_CardinalityType, CountedFinite
    <2>3. reserved \in Nat
      BY <2>1 DEF AdmissionControl
    <2>4. inflight \in Nat
      BY <2>2 DEF InflightExact
    <2>5. QED
      BY <2>3, <2>4 DEF CtlInv, TypeCore, TypeOK
  <1>2. QED
    BY <1>1, ControlInvariant, AdmissionControlHolds, InflightExactHolds, PTL
-----------------------------------------------------------------------------
(* The ring implements RingContract.                                       *)

LEMMA SqesType ==
  ASSUME NEW s \in Seq(Cqe)
  PROVE  Sqes(s) \in Seq(SqeIds) /\ Len(Sqes(s)) = Len(s)
  <1>1. Len(s) \in Nat /\ \A i \in 1..Len(s) : s[i].sqe \in SqeIds
    <2>1. \A i \in 1..Len(s) : s[i] \in Cqe
      BY ElementOfSeq
    <2>2. \A c \in Cqe : c.sqe \in SqeIds
      BY DEF Cqe
    <2>3. QED
      BY <2>1, <2>2, LenProperties
  <1>2. Sqes(s) \in [1..Len(s) -> SqeIds]
    BY <1>1 DEF Sqes
  <1>3. Sqes(s) \in Seq(SqeIds)
    <2>1. [1..Len(s) -> SqeIds] \in {[1..n -> SqeIds] : n \in Nat}
      BY <1>1
    <2>2. Sqes(s) \in UNION {[1..n -> SqeIds] : n \in Nat}
      BY <1>2, <2>1
    <2>3. QED
      BY <2>2, SeqDef
  <1>4. DOMAIN Sqes(s) = 1..Len(Sqes(s)) /\ Len(Sqes(s)) \in Nat
    BY <1>3, LenProperties
  <1>5. 1..Len(s) = 1..Len(Sqes(s))
    BY <1>2, <1>4
  <1>6. QED
    BY <1>1, <1>3, <1>4, <1>5

LEMMA SqesAppend ==
  ASSUME NEW s \in Seq(Cqe), NEW c \in Cqe
  PROVE  Sqes(Append(s, c)) = Append(Sqes(s), c.sqe)
  <1>1. /\ Append(s, c) \in Seq(Cqe)
        /\ Len(Append(s, c)) = Len(s) + 1
        /\ \A i \in 1..Len(s) : Append(s, c)[i] = s[i]
        /\ Append(s, c)[Len(s) + 1] = c
    OBVIOUS
  <1>2. Sqes(s) \in Seq(SqeIds) /\ Len(Sqes(s)) = Len(s) /\ c.sqe \in SqeIds
    BY SqesType DEF Cqe
  <1>3. Sqes(Append(s, c)) \in Seq(SqeIds) /\ Len(Sqes(Append(s, c))) = Len(s) + 1
    BY <1>1, SqesType
  <1>4. /\ Append(Sqes(s), c.sqe) \in Seq(SqeIds)
        /\ Len(Append(Sqes(s), c.sqe)) = Len(s) + 1
        /\ \A i \in 1..Len(s) : Append(Sqes(s), c.sqe)[i] = Sqes(s)[i]
        /\ Append(Sqes(s), c.sqe)[Len(s) + 1] = c.sqe
    BY <1>2
  <1>5. ASSUME NEW i \in 1..(Len(s) + 1)
        PROVE  Sqes(Append(s, c))[i] = Append(Sqes(s), c.sqe)[i]
    <2>1. Sqes(Append(s, c))[i] = Append(s, c)[i].sqe
      BY <1>1 DEF Sqes
    <2>2. CASE i = Len(s) + 1
      BY <1>1, <1>4, <2>1, <2>2
    <2>3. CASE i \in 1..Len(s)
      <3>1. Append(s, c)[i] = s[i] /\ Append(Sqes(s), c.sqe)[i] = Sqes(s)[i]
        BY <1>1, <1>4, <2>3
      <3>2. Sqes(s)[i] = s[i].sqe
        BY <2>3 DEF Sqes
      <3>3. QED
        BY <2>1, <3>1, <3>2
    <2>4. i = Len(s) + 1 \/ i \in 1..Len(s)
      OBVIOUS
    <2>5. QED
      BY <2>2, <2>3, <2>4
  <1>6. QED
    BY <1>3, <1>4, <1>5, SeqEqual

LEMMA SqesTail ==
  ASSUME NEW s \in Seq(Cqe), s # <<>>
  PROVE  Sqes(s) # <<>> /\ Head(Sqes(s)) = Head(s).sqe /\ Sqes(Tail(s)) = Tail(Sqes(s))
  <1>1. /\ Len(s) \in Nat \ {0}
        /\ Tail(s) \in Seq(Cqe) /\ Len(Tail(s)) = Len(s) - 1
        /\ \A i \in 1..(Len(s) - 1) : Tail(s)[i] = s[i + 1]
    BY EmptySeq, HeadTailProperties
  <1>2. Sqes(s) \in Seq(SqeIds) /\ Len(Sqes(s)) = Len(s)
    BY SqesType
  <1>3. Sqes(s) # <<>> /\ Head(Sqes(s)) = Head(s).sqe
    BY <1>1, <1>2 DEF Sqes
  <1>4. Sqes(Tail(s)) \in Seq(SqeIds) /\ Len(Sqes(Tail(s))) = Len(s) - 1
    BY <1>1, SqesType
  <1>5. /\ Tail(Sqes(s)) \in Seq(SqeIds) /\ Len(Tail(Sqes(s))) = Len(s) - 1
        /\ \A i \in 1..(Len(s) - 1) : Tail(Sqes(s))[i] = Sqes(s)[i + 1]
    BY <1>2, <1>3, HeadTailProperties
  <1>6. \A i \in 1..(Len(s) - 1) : Sqes(Tail(s))[i] = Tail(Sqes(s))[i]
    BY <1>1, <1>5 DEF Sqes
  <1>7. QED
    BY <1>3, <1>4, <1>5, <1>6, SeqEqual

LEMMA ContractCardinality == \A S : Contract!Cardinality(S) = Cardinality(S)
  BY DEF Cardinality, Contract!Cardinality

LEMMA ContractInit == Init => Contract!RingInit
  <1>1. Sqes(<<>>) = <<>>
    <2>1. <<>> \in Seq(Cqe) /\ Len(<<>>) = 0
      BY EmptySeq
    <2>2. Sqes(<<>>) \in Seq(SqeIds) /\ Len(Sqes(<<>>)) = 0
      BY <2>1, SqesType
    <2>3. QED
      BY <2>2, EmptySeq
  <1>2. Init => Owed = {}
    BY DEF Init, Owed, Unanswered
  <1>3. QED
    BY <1>1, <1>2 DEF Init, Contract!RingInit

\* ReadSqe is an Accept, Pop is a Take, the three posts are Answers, and every
\* other step stutters.
LEMMA ContractStep ==
  ASSUME CtlInv, AdmissionControl, Next
  PROVE  [Contract!RingNext]_Contract!ringVars
  <1> USE DEF CtlInv, TypeCore
  <1>1. ASSUME NEW t \in Tasks, ReadSqe(t)
        PROVE  Contract!Accept
    <2>1. Len(sqe) + 1 \in SqeIds /\ Len(sqe') = Len(sqe) + 1 /\ Owed' = Owed \cup {Len(sqe) + 1}
      BY <1>1, ReadsNext
    <2>2. Cardinality(Owed) + Len(Sqes(cq)) < CqEntries
      <3>1. Cardinality(Reading) # 0
        BY <1>1, ReadsNext, FS_EmptySet, OwedReadingFinite
      <3>2. Cardinality(Owed) \in Nat /\ Cardinality(Reading) \in Nat /\ Len(cq) \in Nat
        BY FS_CardinalityType, OwedReadingFinite
      <3>3. Len(Sqes(cq)) = Len(cq)
        BY SqesType
      <3>4. QED
        BY SMTT(30), <3>1, <3>2, <3>3, CqEntriesAssumption DEF AdmissionControl
    <2>3. Len(sqe) < MaxSqe
      BY <2>1, MaxSqeAssumption
    <2>4. UNCHANGED <<Sqes(cq), Sqes(reaped)>>
      BY <1>1 DEF ReadSqe, Sqes
    <2>5. QED
      BY <2>1, <2>2, <2>3, <2>4, ContractCardinality DEF Contract!Accept, Sqes
  <1>2. ASSUME NEW c \in Cqe, Posts(c)
        PROVE  Contract!Answer(c.sqe) /\ c.sqe \in 1..MaxSqe
    <2>1. Sqes(cq') = Append(Sqes(cq), c.sqe)
      BY <1>2, SqesAppend DEF Posts
    <2>2. c.sqe \in 1..MaxSqe
      BY DEF Cqe
    <2>3. QED
      BY <1>2, <2>1, <2>2 DEF Contract!Answer, Posts, Sqes
  <1>3. ASSUME NEW t \in Tasks, Pop(t)
        PROVE  Contract!Take
    <2>1. cq # <<>> /\ Head(cq) = [sqe |-> cur[t], res |-> res[t]]
      BY <1>3 DEF Pop, PopsWhatItCopied
    <2>2. [sqe |-> cur[t], res |-> res[t]] \in Cqe
      <3>1. Head(cq) \in Cqe
        BY <2>1
      <3>2. QED
        BY <2>1, <3>1
    <2>3. Sqes(reaped') = Append(Sqes(reaped), cur[t])
      BY <1>3, <2>2, SqesAppend DEF Pop
    <2>4. /\ Sqes(cq) # <<>>
          /\ Head(Sqes(cq)) = cur[t]
          /\ Sqes(cq') = Tail(Sqes(cq))
      BY SMTT(30), <1>3, <2>1, SqesTail DEF Pop
    <2>5. UNCHANGED <<Len(sqe), Owed>>
      BY <1>3 DEF Pop, Owed
    <2>6. QED
      BY <2>3, <2>4, <2>5 DEF Contract!Take, Sqes
  <1>4. ASSUME \/ Quiet
               \/ \E t \in Tasks : Reserve(t) \/ ReadFault(t)
        PROVE  UNCHANGED Contract!ringVars
    <2>1. UNCHANGED <<cq, sqe, reaped, Owed>>
      BY <1>4 DEF Quiet, Reserve, ReadFault, Owed
    <2>2. QED
      BY <2>1 DEF Contract!ringVars, Sqes
  <1>5. QED
    BY <1>1, <1>2, <1>3, <1>4, Ledger DEF Contract!RingNext

\* Every SQE the ring consumes is answered exactly once, in a queue that never
\* overflows and hands completions out in order, under every interleaving.
THEOREM RingImplementsContract == Spec => ImplementsContract
  <1>1. CtlInv /\ AdmissionControl /\ [Next]_vars => [Contract!RingNext]_Contract!ringVars
    <2>1. UNCHANGED vars => UNCHANGED Contract!ringVars
      BY DEF vars, Contract!ringVars, Sqes, Owed
    <2>2. QED
      BY <2>1, ContractStep
  <1>2. QED
    BY <1>1, ContractInit, ControlInvariant, AdmissionControlHolds, PTL
       DEF Spec, ImplementsContract, Contract!RingSpec

\* The theorems about RingContract, read on the ring.
ContractProofs == INSTANCE RingContractProofs
  WITH Capacity <- CqEntries, MaxOps <- MaxSqe,
       accepted <- Len(sqe), owed <- Owed, queue <- Sqes(cq), taken <- Sqes(reaped)

\* C1 of doc/Notes.md, of the ring itself: an SQE it consumed is owed a CQE, or
\* exactly one CQE for it is queued or was reaped.
THEOREM EachSqeAnsweredOnce == Spec => []Contract!OneAnswerEach
  <1>1. ContractProofs!RingSpec => []ContractProofs!OneAnswerEach
    BY CqEntriesAssumption, MaxSqeAssumption, ContractProofs!OneAnswerEachHolds
  <1>2. Contract!RingInit => ContractProofs!RingInit
    BY DEF Contract!RingInit, ContractProofs!RingInit
  <1>3. [Contract!RingNext]_Contract!ringVars => [ContractProofs!RingNext]_ContractProofs!ringVars
    <2>1. ContractProofs!Cardinality(Owed) = Contract!Cardinality(Owed)
      BY DEF Contract!Cardinality, ContractProofs!Cardinality
    <2>2. QED
      BY Zenon, <2>1
         DEF Contract!RingNext, Contract!ringVars, Contract!Accept, Contract!Answer, Contract!Take,
             ContractProofs!RingNext, ContractProofs!ringVars, ContractProofs!Accept,
             ContractProofs!Answer, ContractProofs!Take
  <1>4. ContractProofs!OneAnswerEach => Contract!OneAnswerEach
    BY DEF Contract!OneAnswerEach, Contract!Answers,
           ContractProofs!OneAnswerEach, ContractProofs!Answers
  <1>5. ImplementsContract => []Contract!OneAnswerEach
    BY <1>1, <1>2, <1>3, <1>4, PTL DEF ImplementsContract, Contract!RingSpec, ContractProofs!RingSpec
  <1>6. QED
    BY <1>5, RingImplementsContract, PTL

(***************************************************************************)
(* The way of an operation through the ring: CANCEL, wake-ups, slots.      *)
(*                                                                         *)
(* CANCEL.  An operation that was queued or armed is in the registry until *)
(* it is completed, or until the CANCEL that took it is about to complete  *)
(* it (RegistryInv); that CANCEL has submit_lock, so no other one looks    *)
(* meanwhile.  The completion of the target is queued by the time the      *)
(* CANCEL has an answer (AheadInv), and the answers are a sequence that    *)
(* only grows, at its end (AnswersGrow).                                   *)
(*                                                                         *)
(* Wake-ups.  A task falls asleep with fewer completions in the queue than *)
(* it wants.  The announced ones grow only where a notify_all follows (a   *)
(* worker's or a CANCEL's completion), reaping never adds to them, and     *)
(* what the submit loop posts itself is not announced (HandRes).           *)
(*                                                                         *)
(* Slots.  An operation that owns its slot is in the hand of the one       *)
(* submitter, or of a worker, or of a CANCEL.  The kinds of the SQEs at    *)
(* hand and of those that are armed (KindInv) tell which of them gives the *)
(* slot back.                                                              *)
(***************************************************************************)
USE DEF Goto, AnswerWith, Woken, Complete, Return, state, call, hand, SqeIds

\* Operations that leave the hand of their submitter, and where it has one.
DeferredKinds == {"delay", "slot", "poll"}
DeferPlaces == {"count", "register", "enqueue", "arm", "claim", "unregister", "uncount", "unwind"}
Deferred == {"queued", "armed", "unpolled", "running", "retired", "posted", "notified"}

KindsInv ==
  /\ \A t \in Tasks :
       /\ pc[t] \in DeferPlaces => cur[t] \in 1..Len(sqe) /\ Kind(cur[t]) \in DeferredKinds
       /\ pc[t] = "path" => cur[t] \in 1..Len(sqe) /\ Kind(cur[t]) = "path"
  /\ \A q \in 1..Len(sqe) : phase[q] \in Deferred => Kind(q) \in DeferredKinds

RegistryInv ==
  /\ \A q \in SqeIds :
       /\ phase[q] \in {"queued", "armed", "unpolled", "running"} => q \in pending
       /\ phase[q] = "retired" => \E t \in Tasks : pc[t] = "retire" /\ prey[t] = q
  /\ \A t \in Tasks : pc[t] \in {"enqueue", "arm"} => cur[t] \in pending

\* No answer yet.
Undecided == {"user", "submit", "read", "dispatch", "path", "count", "register", "enqueue", "arm",
              "claim", "retire", "notify", "wait", "asleep", "relock", "reap"}

ResInv == \A t \in Tasks : pc[t] \in Undecided => res[t] = "none"

RouteInv == KindsInv /\ RegistryInv /\ ResInv

-----------------------------------------------------------------------------
(* The routes of an operation.                                             *)

LEMMA RouteSubmit ==
  ASSUME CtlInv, RouteInv, NEW t \in Tasks, Submit(t)
  PROVE  RouteInv'
  <1> USE DEF CtlInv, TypeCore
  <1>1. \A u \in Tasks \ {t} : pc[u] \in Unlocked /\ pc'[u] \in Unlocked
    BY SubmitMoves, OthersUnlocked, BatchLocked DEF Unlocked
  <1>2. pc[t] \in Holding => cur[t] \in 1..Len(sqe) /\ phase[cur[t]] = "submitting"
    BY DEF CurInv, HandInv
  <1>3. \A q \in 1..Len(sqe) : q \in SqeIds
    BY MaxSqeAssumption
  <1>4. /\ pc[t] = "claim" => cur[t] \in SqeIds
        /\ pc[t] = "retire" => prey[t] \in 1..Len(sqe) /\ phase[prey[t]] = "retired"
    BY DEF CurInv, HandInv
  <1>5. \A u \in Tasks \ {t} : res'[u] = res[u] /\ pc[u] # "retire"
        /\ (pc'[u] = pc[u] \/ (pc[u] = "asleep" /\ pc'[u] = "wait"))
    <2>1. \A u \in Tasks \ {t} : pc[u] # "retire"
      BY <1>1 DEF Unlocked
    <2>2. res' = res \/ \E r \in Results : res' = [res EXCEPT ![t] = r]
      <3>1. CASE \/ Reserve(t) \/ SubmitDone(t) \/ ReadSqe(t) \/ DispatchDefer(t)
                 \/ CountInflight(t)
                 \/ Register(t) \/ Enqueue(t) \/ SubmitUnregister(t) \/ Uncount(t) \/ Unwind(t)
                 \/ Arm(t) \/ PollClaimLost(t) \/ CancelWins(t) \/ CancelComplete(t)
        BY <3>1 DEF Reserve, SubmitDone, ReadSqe, DispatchDefer, CountInflight, Register, Enqueue,
           SubmitUnregister, Uncount, Unwind, Arm, PollClaimLost, CancelWins, CancelComplete
      <3>2. CASE \/ PostInline(t) \/ DispatchInline(t) \/ PathDone(t) \/ AllocFails(t)
                 \/ RegisterFails(t) \/ EnqueueFails(t) \/ PollClaim(t) \/ CancelMisses(t)
                 \/ CancelTooLate(t) \/ CancelNotify(t)
        BY <3>2 DEF PostInline, DispatchInline, PathDone, AllocFails, RegisterFails, EnqueueFails,
           PollClaim, CancelMisses, CancelTooLate, CancelNotify, Results
      <3>3. CASE DispatchSlot(t)
        BY <3>3 DEF DispatchSlot, Results
      <3>4. QED
        BY <3>1, <3>2, <3>3 DEF Submit
    <2>3. QED
      BY <2>1, <2>2, SubmitMoves
  <1>6. CASE Reserve(t)
    <2>1. KindsInv'
      BY <1>1, <1>2, <1>3, <1>4, <1>6
         DEF Reserve, RouteInv, KindsInv, DeferPlaces, DeferredKinds, Deferred, Kind,
             Holding, Unlocked
    <2>2. RegistryInv'
      BY <1>1, <1>2, <1>3, <1>4, <1>5, <1>6
         DEF Reserve, RouteInv, RegistryInv, Holding, Unlocked
    <2>3. ResInv'
      BY <1>1, <1>5, <1>6 DEF Reserve, RouteInv, ResInv, Undecided, Unlocked
    <2>4. QED
      BY <2>1, <2>2, <2>3 DEF RouteInv
  <1>7. CASE SubmitDone(t)
    <2>1. KindsInv'
      BY <1>1, <1>2, <1>3, <1>4, <1>7
         DEF SubmitDone, RouteInv, KindsInv, DeferPlaces, DeferredKinds, Deferred, Kind,
             Holding, Unlocked
    <2>2. RegistryInv'
      BY <1>1, <1>2, <1>3, <1>4, <1>5, <1>7
         DEF SubmitDone, RouteInv, RegistryInv, Holding, Unlocked
    <2>3. ResInv'
      BY <1>1, <1>5, <1>7 DEF SubmitDone, RouteInv, ResInv, Undecided, Unlocked
    <2>4. QED
      BY <2>1, <2>2, <2>3 DEF RouteInv
  <1>8. CASE ReadSqe(t)
    <2>1. KindsInv'
      <3>1. PICK s \in Shapes : sqe' = Append(sqe, s)
        BY <1>8 DEF ReadSqe
      <3>2. /\ Len(sqe') = Len(sqe) + 1 /\ Len(sqe) \in Nat
            /\ \A q \in 1..Len(sqe) : sqe'[q] = sqe[q]
        BY <3>1
      <3>3. Len(sqe) + 1 \in SqeIds /\ phase' = [phase EXCEPT ![Len(sqe) + 1] = "submitting"]
        BY <1>8, ReadsNext DEF ReadSqe
      <3>4. phase \in [SqeIds -> Phases]
        OBVIOUS
      <3>5. pc'[t] = "dispatch"
        BY <1>8 DEF ReadSqe
      <3> HIDE DEF CtlInv, TypeCore, SqeIds
      <3>6. phase'[Len(sqe) + 1] = "submitting" /\ \A q \in 1..Len(sqe) : phase'[q] = phase[q]
        BY <1>3, <3>2, <3>3, <3>4
      <3>7. \A n \in Nat : 1..(n + 1) = (1..n) \cup {n + 1}
        OBVIOUS
      <3>8. 1..Len(sqe') = (1..Len(sqe)) \cup {Len(sqe) + 1}
        BY <3>2, <3>7
      <3>9. \A u \in Tasks : pc'[u] \notin DeferPlaces \cup {"path"}
        BY <1>1, <3>5 DEF Unlocked, DeferPlaces
      <3>10. ASSUME NEW q \in 1..Len(sqe'), phase'[q] \in Deferred
             PROVE  sqe'[q].kind \in DeferredKinds
        <4>1. q # Len(sqe) + 1
          BY <3>6, <3>10 DEF Deferred
        <4>2. q \in 1..Len(sqe)
          BY <3>8, <4>1
        <4>3. QED
          BY <3>2, <3>6, <3>10, <4>2 DEF RouteInv, KindsInv, Kind
      <3>11. QED
        BY <3>9, <3>10 DEF KindsInv, Kind
    <2>2. RegistryInv'
      BY <1>1, <1>2, <1>3, <1>4, <1>5, <1>8
         DEF ReadSqe, RouteInv, RegistryInv, Holding, Unlocked
    <2>3. ResInv'
      BY <1>1, <1>5, <1>8 DEF ReadSqe, RouteInv, ResInv, Undecided, Unlocked
    <2>4. QED
      BY <2>1, <2>2, <2>3 DEF RouteInv
  <1>9. CASE PostInline(t)
    <2>1. KindsInv'
      BY <1>1, <1>2, <1>3, <1>4, <1>9
         DEF PostInline, RouteInv, KindsInv, DeferPlaces, DeferredKinds, Deferred, Kind,
             Holding, Unlocked
    <2>2. RegistryInv'
      BY <1>1, <1>2, <1>3, <1>4, <1>5, <1>9
         DEF PostInline, RouteInv, RegistryInv, Holding, Unlocked
    <2>3. ResInv'
      BY <1>1, <1>5, <1>9 DEF PostInline, RouteInv, ResInv, Undecided, Unlocked
    <2>4. QED
      BY <2>1, <2>2, <2>3 DEF RouteInv
  <1>10. CASE DispatchInline(t)
    <2>1. KindsInv'
      BY <1>1, <1>2, <1>3, <1>4, <1>10
         DEF DispatchInline, RouteInv, KindsInv, DeferPlaces, DeferredKinds, Deferred, Kind,
             Holding, Unlocked
    <2>2. RegistryInv'
      BY <1>1, <1>2, <1>3, <1>4, <1>5, <1>10
         DEF DispatchInline, RouteInv, RegistryInv, Holding, Unlocked
    <2>3. ResInv'
      BY <1>1, <1>5, <1>10 DEF DispatchInline, RouteInv, ResInv, Undecided, Unlocked
    <2>4. QED
      BY <2>1, <2>2, <2>3 DEF RouteInv
  <1>11. CASE DispatchDefer(t)
    <2>1. KindsInv'
      BY <1>1, <1>2, <1>3, <1>4, <1>11
         DEF DispatchDefer, RouteInv, KindsInv, DeferPlaces, DeferredKinds, Deferred, Kind,
             Holding, Unlocked
    <2>2. RegistryInv'
      BY <1>1, <1>2, <1>3, <1>4, <1>5, <1>11
         DEF DispatchDefer, RouteInv, RegistryInv, Holding, Unlocked
    <2>3. ResInv'
      BY <1>1, <1>5, <1>11 DEF DispatchDefer, RouteInv, ResInv, Undecided, Unlocked
    <2>4. QED
      BY <2>1, <2>2, <2>3 DEF RouteInv
  <1>12. CASE DispatchSlot(t)
    <2>1. KindsInv'
      BY SMTT(30), <1>1, <1>2, <1>3, <1>4, <1>12
         DEF DispatchSlot, RouteInv, KindsInv, DeferPlaces, DeferredKinds, Deferred, Kind,
             Holding, Unlocked
    <2>2. RegistryInv'
      BY SMTT(30), <1>1, <1>2, <1>3, <1>4, <1>5, <1>12
         DEF DispatchSlot, RouteInv, RegistryInv, Holding, Unlocked
    <2>3. ResInv'
      BY <1>1, <1>5, <1>12 DEF DispatchSlot, RouteInv, ResInv, Undecided, Unlocked
    <2>4. QED
      BY <2>1, <2>2, <2>3 DEF RouteInv
  <1>13. CASE PathDone(t)
    <2>1. KindsInv'
      BY <1>1, <1>2, <1>3, <1>4, <1>13
         DEF PathDone, RouteInv, KindsInv, DeferPlaces, DeferredKinds, Deferred, Kind,
             Holding, Unlocked
    <2>2. RegistryInv'
      BY <1>1, <1>2, <1>3, <1>4, <1>5, <1>13
         DEF PathDone, RouteInv, RegistryInv, Holding, Unlocked
    <2>3. ResInv'
      BY <1>1, <1>5, <1>13 DEF PathDone, RouteInv, ResInv, Undecided, Unlocked
    <2>4. QED
      BY <2>1, <2>2, <2>3 DEF RouteInv
  <1>14. CASE CountInflight(t)
    <2>1. KindsInv'
      BY <1>1, <1>2, <1>3, <1>4, <1>14
         DEF CountInflight, RouteInv, KindsInv, DeferPlaces, DeferredKinds, Deferred, Kind,
             Holding, Unlocked
    <2>2. RegistryInv'
      BY <1>1, <1>2, <1>3, <1>4, <1>5, <1>14
         DEF CountInflight, RouteInv, RegistryInv, Holding, Unlocked
    <2>3. ResInv'
      BY <1>1, <1>5, <1>14 DEF CountInflight, RouteInv, ResInv, Undecided, Unlocked
    <2>4. QED
      BY <2>1, <2>2, <2>3 DEF RouteInv
  <1>15. CASE AllocFails(t)
    <2>1. KindsInv'
      BY <1>1, <1>2, <1>3, <1>4, <1>15
         DEF AllocFails, RouteInv, KindsInv, DeferPlaces, DeferredKinds, Deferred, Kind,
             Holding, Unlocked
    <2>2. RegistryInv'
      BY <1>1, <1>2, <1>3, <1>4, <1>5, <1>15
         DEF AllocFails, RouteInv, RegistryInv, Holding, Unlocked
    <2>3. ResInv'
      BY <1>1, <1>5, <1>15 DEF AllocFails, RouteInv, ResInv, Undecided, Unlocked
    <2>4. QED
      BY <2>1, <2>2, <2>3 DEF RouteInv
  <1>16. CASE Register(t)
    <2>1. KindsInv'
      BY <1>1, <1>2, <1>3, <1>4, <1>16
         DEF Register, RouteInv, KindsInv, DeferPlaces, DeferredKinds, Deferred, Kind,
             Holding, Unlocked
    <2>2. RegistryInv'
      BY <1>1, <1>2, <1>3, <1>4, <1>5, <1>16
         DEF Register, RouteInv, RegistryInv, Holding, Unlocked
    <2>3. ResInv'
      BY <1>1, <1>5, <1>16 DEF Register, RouteInv, ResInv, Undecided, Unlocked
    <2>4. QED
      BY <2>1, <2>2, <2>3 DEF RouteInv
  <1>17. CASE RegisterFails(t)
    <2>1. KindsInv'
      BY <1>1, <1>2, <1>3, <1>4, <1>17
         DEF RegisterFails, RouteInv, KindsInv, DeferPlaces, DeferredKinds, Deferred, Kind,
             Holding, Unlocked
    <2>2. RegistryInv'
      BY <1>1, <1>2, <1>3, <1>4, <1>5, <1>17
         DEF RegisterFails, RouteInv, RegistryInv, Holding, Unlocked
    <2>3. ResInv'
      BY <1>1, <1>5, <1>17 DEF RegisterFails, RouteInv, ResInv, Undecided, Unlocked
    <2>4. QED
      BY <2>1, <2>2, <2>3 DEF RouteInv
  <1>18. CASE Enqueue(t)
    <2>1. KindsInv'
      BY <1>1, <1>2, <1>3, <1>4, <1>18
         DEF Enqueue, RouteInv, KindsInv, DeferPlaces, DeferredKinds, Deferred, Kind,
             Holding, Unlocked
    <2>2. RegistryInv'
      BY <1>1, <1>2, <1>3, <1>4, <1>5, <1>18
         DEF Enqueue, RouteInv, RegistryInv, Holding, Unlocked
    <2>3. ResInv'
      BY <1>1, <1>5, <1>18 DEF Enqueue, RouteInv, ResInv, Undecided, Unlocked
    <2>4. QED
      BY <2>1, <2>2, <2>3 DEF RouteInv
  <1>19. CASE EnqueueFails(t)
    <2>1. KindsInv'
      BY <1>1, <1>2, <1>3, <1>4, <1>19
         DEF EnqueueFails, RouteInv, KindsInv, DeferPlaces, DeferredKinds, Deferred, Kind,
             Holding, Unlocked
    <2>2. RegistryInv'
      BY <1>1, <1>2, <1>3, <1>4, <1>5, <1>19
         DEF EnqueueFails, RouteInv, RegistryInv, Holding, Unlocked
    <2>3. ResInv'
      BY <1>1, <1>5, <1>19 DEF EnqueueFails, RouteInv, ResInv, Undecided, Unlocked
    <2>4. QED
      BY <2>1, <2>2, <2>3 DEF RouteInv
  <1>20. CASE SubmitUnregister(t)
    <2>1. KindsInv'
      BY <1>1, <1>2, <1>3, <1>4, <1>20
         DEF SubmitUnregister, RouteInv, KindsInv, DeferPlaces, DeferredKinds, Deferred, Kind,
             Holding, Unlocked
    <2>2. RegistryInv'
      BY <1>1, <1>2, <1>3, <1>4, <1>5, <1>20
         DEF SubmitUnregister, RouteInv, RegistryInv, Holding, Unlocked
    <2>3. ResInv'
      BY <1>1, <1>5, <1>20 DEF SubmitUnregister, RouteInv, ResInv, Undecided, Unlocked
    <2>4. QED
      BY <2>1, <2>2, <2>3 DEF RouteInv
  <1>21. CASE Uncount(t)
    <2>1. KindsInv'
      BY <1>1, <1>2, <1>3, <1>4, <1>21
         DEF Uncount, RouteInv, KindsInv, DeferPlaces, DeferredKinds, Deferred, Kind,
             Holding, Unlocked
    <2>2. RegistryInv'
      BY <1>1, <1>2, <1>3, <1>4, <1>5, <1>21
         DEF Uncount, RouteInv, RegistryInv, Holding, Unlocked
    <2>3. ResInv'
      BY <1>1, <1>5, <1>21 DEF Uncount, RouteInv, ResInv, Undecided, Unlocked
    <2>4. QED
      BY <2>1, <2>2, <2>3 DEF RouteInv
  <1>22. CASE Unwind(t)
    <2>1. KindsInv'
      BY <1>1, <1>2, <1>3, <1>4, <1>22
         DEF Unwind, RouteInv, KindsInv, DeferPlaces, DeferredKinds, Deferred, Kind,
             Holding, Unlocked
    <2>2. RegistryInv'
      BY <1>1, <1>2, <1>3, <1>4, <1>5, <1>22
         DEF Unwind, RouteInv, RegistryInv, Holding, Unlocked
    <2>3. ResInv'
      BY <1>1, <1>5, <1>22 DEF Unwind, RouteInv, ResInv, Undecided, Unlocked
    <2>4. QED
      BY <2>1, <2>2, <2>3 DEF RouteInv
  <1>23. CASE Arm(t)
    <2>1. KindsInv'
      <3>1. cur[t] \in 1..Len(sqe) /\ Kind(cur[t]) \in DeferredKinds
        BY <1>23 DEF Arm, RouteInv, KindsInv, DeferPlaces
      <3>2. \E p \in Phases : phase' = [phase EXCEPT ![cur[t]] = p]
        BY <1>23 DEF Arm, Phases
      <3>3. sqe' = sqe /\ (pc'[t] = "submit" \/ (pc'[t] = "claim" /\ cur' = cur))
        BY <1>23 DEF Arm
      <3>4. \A u \in Tasks \ {t} : pc'[u] \notin DeferPlaces \cup {"path"}
        BY <1>1 DEF Unlocked, DeferPlaces
      <3>5. phase \in [SqeIds -> Phases]
        OBVIOUS
      <3> HIDE DEF CtlInv, TypeCore, SqeIds
      <3>6. ASSUME NEW q \in 1..Len(sqe), phase'[q] \in Deferred
            PROVE  Kind(q) \in DeferredKinds
        <4>1. q = cur[t] \/ phase'[q] = phase[q]
          BY <1>3, <3>2, <3>5
        <4>2. QED
          BY <3>1, <3>6, <4>1 DEF RouteInv, KindsInv
      <3>7. \A u \in Tasks : /\ pc'[u] # "path"
                             /\ pc'[u] \in DeferPlaces => u = t /\ cur'[u] = cur[u]
        BY <3>3, <3>4 DEF DeferPlaces
      <3>8. QED
        BY <3>1, <3>3, <3>6, <3>7 DEF KindsInv, Kind
    <2>2. RegistryInv'
      BY SMTT(30), <1>1, <1>2, <1>3, <1>4, <1>5, <1>23
         DEF Arm, RouteInv, RegistryInv, Holding, Unlocked
    <2>3. ResInv'
      BY <1>1, <1>5, <1>23 DEF Arm, RouteInv, ResInv, Undecided, Unlocked
    <2>4. QED
      BY <2>1, <2>2, <2>3 DEF RouteInv
  <1>24. CASE PollClaim(t)
    <2>1. KindsInv'
      BY <1>1, <1>2, <1>3, <1>4, <1>24
         DEF PollClaim, RouteInv, KindsInv, DeferPlaces, DeferredKinds, Deferred, Kind,
             Holding, Unlocked
    <2>2. RegistryInv'
      BY <1>1, <1>2, <1>3, <1>4, <1>5, <1>24
         DEF PollClaim, RouteInv, RegistryInv, Holding, Unlocked
    <2>3. ResInv'
      BY <1>1, <1>5, <1>24 DEF PollClaim, RouteInv, ResInv, Undecided, Unlocked
    <2>4. QED
      BY <2>1, <2>2, <2>3 DEF RouteInv
  <1>25. CASE PollClaimLost(t)
    <2>1. KindsInv'
      BY <1>1, <1>2, <1>3, <1>4, <1>25
         DEF PollClaimLost, RouteInv, KindsInv, DeferPlaces, DeferredKinds, Deferred, Kind,
             Holding, Unlocked
    <2>2. RegistryInv'
      BY <1>1, <1>2, <1>3, <1>4, <1>5, <1>25
         DEF PollClaimLost, RouteInv, RegistryInv, Holding, Unlocked
    <2>3. ResInv'
      BY <1>1, <1>5, <1>25 DEF PollClaimLost, RouteInv, ResInv, Undecided, Unlocked
    <2>4. QED
      BY <2>1, <2>2, <2>3 DEF RouteInv
  <1>26. CASE CancelMisses(t)
    <2>1. KindsInv'
      BY <1>1, <1>2, <1>3, <1>4, <1>26
         DEF CancelMisses, RouteInv, KindsInv, DeferPlaces, DeferredKinds, Deferred, Kind,
             Holding, Unlocked
    <2>2. RegistryInv'
      BY <1>1, <1>2, <1>3, <1>4, <1>5, <1>26
         DEF CancelMisses, RouteInv, RegistryInv, Holding, Unlocked
    <2>3. ResInv'
      BY <1>1, <1>5, <1>26 DEF CancelMisses, RouteInv, ResInv, Undecided, Unlocked
    <2>4. QED
      BY <2>1, <2>2, <2>3 DEF RouteInv
  <1>27. CASE CancelTooLate(t)
    <2>1. KindsInv'
      BY <1>1, <1>2, <1>3, <1>4, <1>27
         DEF CancelTooLate, RouteInv, KindsInv, DeferPlaces, DeferredKinds, Deferred, Kind,
             Holding, Unlocked
    <2>2. RegistryInv'
      BY <1>1, <1>2, <1>3, <1>4, <1>5, <1>27
         DEF CancelTooLate, RouteInv, RegistryInv, Holding, Unlocked
    <2>3. ResInv'
      BY <1>1, <1>5, <1>27 DEF CancelTooLate, RouteInv, ResInv, Undecided, Unlocked
    <2>4. QED
      BY <2>1, <2>2, <2>3 DEF RouteInv
  <1>28. CASE CancelWins(t)
    <2>1. KindsInv'
      <3>1. PICK q \in pending : CanRetire(q) /\ phase' = [phase EXCEPT ![q] = "retired"]
        BY <1>28 DEF CancelWins, Matching
      <3>2. phase[q] \in Deferred /\ sqe' = sqe /\ pc'[t] = "retire"
        BY <1>28, <3>1 DEF CancelWins, CanRetire, Deferred
      <3>3. \A u \in Tasks : pc'[u] \notin DeferPlaces \cup {"path"}
        BY <1>1, <3>2 DEF Unlocked, DeferPlaces
      <3>4. phase \in [SqeIds -> Phases]
        OBVIOUS
      <3> HIDE DEF CtlInv, TypeCore, SqeIds
      <3>5. \A p \in 1..Len(sqe) : phase'[p] \in Deferred => phase[p] \in Deferred
        BY <1>3, <3>1, <3>2, <3>4
      <3>6. QED
        BY <3>2, <3>3, <3>5 DEF RouteInv, KindsInv, Kind
    <2>2. RegistryInv'
      <3>1. PICK q \in pending : /\ phase' = [phase EXCEPT ![q] = "retired"]
                                /\ pending' = pending \ {q} /\ prey' = [prey EXCEPT ![t] = q]
        BY <1>28 DEF CancelWins, Matching
      <3>2. pc[t] = "dispatch" /\ pc'[t] = "retire" /\ prey'[t] = q /\ q \in SqeIds
        BY <1>28, <3>1 DEF CancelWins
      <3>3. \A u \in Tasks : pc'[u] \notin {"enqueue", "arm"} /\ pc[u] # "retire"
        BY <1>1, <3>2 DEF Unlocked
      <3>4. \A p \in SqeIds : phase[p] # "retired"
        BY <3>3 DEF RouteInv, RegistryInv
      <3>5. QED
        BY <3>1, <3>2, <3>3, <3>4 DEF RouteInv, RegistryInv
    <2>3. ResInv'
      BY <1>1, <1>5, <1>28 DEF CancelWins, RouteInv, ResInv, Undecided, Unlocked
    <2>4. QED
      BY <2>1, <2>2, <2>3 DEF RouteInv
  <1>29. CASE CancelComplete(t)
    <2>1. KindsInv'
      BY <1>1, <1>2, <1>3, <1>4, <1>29
         DEF CancelComplete, RouteInv, KindsInv, DeferPlaces, DeferredKinds, Deferred, Kind,
             Holding, Unlocked
    <2>2. RegistryInv'
      BY <1>1, <1>2, <1>3, <1>4, <1>5, <1>29
         DEF CancelComplete, RouteInv, RegistryInv, Holding, Unlocked
    <2>3. ResInv'
      BY <1>1, <1>5, <1>29 DEF CancelComplete, RouteInv, ResInv, Undecided, Unlocked
    <2>4. QED
      BY <2>1, <2>2, <2>3 DEF RouteInv
  <1>30. CASE CancelNotify(t)
    <2>1. KindsInv'
      BY <1>1, <1>2, <1>3, <1>4, <1>30
         DEF CancelNotify, RouteInv, KindsInv, DeferPlaces, DeferredKinds, Deferred, Kind,
             Holding, Unlocked
    <2>2. RegistryInv'
      BY <1>1, <1>2, <1>3, <1>4, <1>5, <1>30
         DEF CancelNotify, RouteInv, RegistryInv, Holding, Unlocked
    <2>3. ResInv'
      BY <1>1, <1>5, <1>30 DEF CancelNotify, RouteInv, ResInv, Undecided, Unlocked
    <2>4. QED
      BY <2>1, <2>2, <2>3 DEF RouteInv
  <1>31. QED
    BY <1>6, <1>7, <1>8, <1>9, <1>10, <1>11, <1>12, <1>13, <1>14, <1>15, <1>16, <1>17, <1>18,
       <1>19, <1>20, <1>21, <1>22, <1>23, <1>24, <1>25, <1>26, <1>27, <1>28, <1>29, <1>30
       DEF Submit

LEMMA RouteStep ==
  ASSUME CtlInv, RouteInv, Next
  PROVE  RouteInv'
  <1> USE DEF CtlInv, TypeCore
  <1>1. ASSUME NEW t \in Tasks,
               \/ Enter(t) \/ ReadFault(t) \/ Wait(t) \/ Timeout(t) \/ Signal(t) \/ Relock(t)
               \/ Reap(t) \/ CopyFault(t)
        PROVE  RouteInv'
    <2>1. UNCHANGED <<phase, sqe, pending, prey>>
      BY <1>1 DEF Enter, ReadFault, Wait, WaitOver, Sleep, Timeout, Signal, Relock, Reap, Peek,
         Pop, ReapDone, CopyFault
    <2>2. \A u \in Tasks \ {t} : pc'[u] = pc[u] /\ cur'[u] = cur[u] /\ res'[u] = res[u]
      BY <1>1 DEF Enter, ReadFault, Wait, WaitOver, Sleep, Timeout, Signal, Relock, Reap, Peek,
         Pop, ReapDone, CopyFault
    <2>3. pc[t] # "retire" /\ pc'[t] \notin DeferPlaces \cup {"path", "retire"}
      BY <1>1 DEF Enter, ReadFault, Wait, WaitOver, Sleep, Timeout, Signal, Relock, Reap, Peek,
         Pop, ReapDone, CopyFault, DeferPlaces
    <2>4. pc'[t] = "copy" \/ res'[t] = "none" \/ (pc[t] \in Undecided /\ res'[t] = res[t])
      BY <1>1 DEF Enter, ReadFault, Wait, WaitOver, Sleep, Timeout, Signal, Relock, Reap, Peek,
         Pop, ReapDone, CopyFault, Undecided
    <2> HIDE DEF CtlInv, TypeCore, SqeIds
    <2>5. KindsInv'
      BY <2>1, <2>2, <2>3 DEF RouteInv, KindsInv, Kind
    <2>6. RegistryInv'
      BY <2>1, <2>2, <2>3 DEF RouteInv, RegistryInv, DeferPlaces
    <2>7. ResInv'
      BY <2>2, <2>4 DEF RouteInv, ResInv, Undecided
    <2>8. QED
      BY <2>5, <2>6, <2>7 DEF RouteInv
  <1>2. ASSUME NEW q \in SqeIds, Wake(q) \/ Worker(q)
        PROVE  RouteInv'
    <2>1. UNCHANGED <<sqe, cur, res, prey>>
      BY <1>2 DEF Worker, Wake, WorkerStart, WorkerComplete, WorkerUnregister, WorkerNotify
    <2>2. \A t \in Tasks : pc'[t] = pc[t] \/ (pc[t] = "asleep" /\ pc'[t] = "wait")
      BY <1>2 DEF Worker, Wake, WorkerStart, WorkerComplete, WorkerUnregister, WorkerNotify
    <2>3. phase[q] \in Deferred \ {"retired"} /\ phase'[q] # "retired"
      BY <1>2 DEF Worker, Wake, WorkerStart, WorkerComplete, WorkerUnregister, WorkerNotify,
         Deferred
    <2>4. \A p \in SqeIds \ {q} : phase'[p] = phase[p]
      BY <1>2 DEF Worker, Wake, WorkerStart, WorkerComplete, WorkerUnregister, WorkerNotify
    <2>5. \/ pending' = pending /\ phase[q] \in {"armed", "queued", "running", "posted"}
             /\ (phase[q] = "posted" => phase'[q] = "notified")
          \/ pending' = pending \ {q} /\ phase'[q] = "done" /\ phase[q] = "notified"
      BY <1>2 DEF Worker, Wake, WorkerStart, WorkerComplete, WorkerUnregister, WorkerNotify
    <2>6. \A t \in Tasks : pc[t] \in {"enqueue", "arm"} => phase[cur[t]] = "submitting"
      BY DEF CurInv, HandInv, Holding
    <2>7. \A p \in 1..Len(sqe) : p \in SqeIds
      BY MaxSqeAssumption
    <2> HIDE DEF CtlInv, TypeCore, SqeIds
    <2>8. KindsInv'
      <3>1. \A t \in Tasks : pc'[t] \in DeferPlaces \cup {"path"} => pc'[t] = pc[t]
        BY <2>2 DEF DeferPlaces
      <3>2. \A p \in 1..Len(sqe) : phase'[p] \in Deferred => phase[p] \in Deferred
        BY <2>3, <2>4, <2>7
      <3>3. QED
        BY <2>1, <3>1, <3>2 DEF RouteInv, KindsInv, Kind
    <2>9. RegistryInv'
      <3>1. \A p \in SqeIds :
              phase'[p] \in {"queued", "armed", "unpolled", "running"} => p \in pending'
        BY <2>3, <2>4, <2>5 DEF RouteInv, RegistryInv
      <3>2. \A p \in SqeIds : phase'[p] = "retired" => phase[p] = "retired"
        BY <2>3, <2>4
      <3>3. \A t \in Tasks : pc'[t] \in {"retire", "enqueue", "arm"}
                            <=> pc[t] \in {"retire", "enqueue", "arm"}
        BY <2>2
      <3>4. \A t \in Tasks : pc[t] \in {"retire", "enqueue", "arm"} => pc'[t] = pc[t]
        BY <2>2
      <3>5. \A t \in Tasks : pc[t] \in {"enqueue", "arm"} => cur[t] # q \/ pending' = pending
        BY <2>5, <2>6
      <3>6. QED
        BY <2>1, <2>5, <3>1, <3>2, <3>3, <3>4, <3>5 DEF RouteInv, RegistryInv
    <2>10. ResInv'
      BY <2>1, <2>2 DEF RouteInv, ResInv, Undecided
    <2>11. QED
      BY <2>8, <2>9, <2>10 DEF RouteInv
  <1>3. QED
    BY <1>1, <1>2, RouteSubmit DEF Next

LEMMA RouteInit == Init => RouteInv
  BY MaxSqeAssumption DEF Init, RouteInv, KindsInv, RegistryInv, ResInv, DeferPlaces

\* Where each operation is, and that the registry has it as long as a CANCEL may
\* still find it, in every reachable state.
THEOREM RouteInvariant == Spec => []RouteInv
  <1>1. Init => CtlInv /\ RouteInv
    BY CtlInit, RouteInit
  <1>2. CtlInv /\ RouteInv /\ [Next]_vars => RouteInv'
    <2>1. RouteInv /\ UNCHANGED vars => RouteInv'
      BY DEF vars, RouteInv, KindsInv, RegistryInv, ResInv, Kind
    <2>2. QED
      BY <2>1, RouteStep
  <1>3. QED
    BY <1>1, <1>2, ControlInvariant, PTL DEF Spec

\* A CANCEL answers ENOENT only when nothing with that user_data is in flight:
\* not queued, armed, running, or in the hands of another CANCEL.
THEOREM NoFalseEnoentHolds == Spec => NoFalseEnoent
  <1>1. CtlInv /\ RouteInv /\ [Next]_vars =>
          [\A t \in Tasks :
             pc[t] = "dispatch" /\ res'[t] = "ENOENT" =>
               ~ \E q \in SqeIds : /\ UserData[q] = sqe[cur[t]].aim
                                   /\ phase[q] \in Unanswered \ {"submitting"}]_vars
    <2> SUFFICES ASSUME CtlInv, RouteInv, Next,
                        NEW t \in Tasks, pc[t] = "dispatch", res'[t] = "ENOENT",
                        NEW q \in SqeIds, UserData[q] = sqe[cur[t]].aim,
                        phase[q] \in Unanswered \ {"submitting"}
                 PROVE  FALSE
      BY DEF SqeIds
    <2> USE DEF CtlInv, TypeCore
    <2>1. res[t] = "none"
      BY DEF RouteInv, ResInv, Undecided
    <2>2. \A u \in Tasks \ {t} : pc[u] \in Unlocked
      BY OthersUnlocked DEF Unlocked
    <2>3. CancelMisses(t)
      <3>1. \A u \in Tasks \ {t} : ~Submit(u)
        BY <2>2, SubmitMoves, BatchLocked
      <3>2. ASSUME NEW u \in Tasks,
                   \/ Enter(u) \/ ReadFault(u) \/ Wait(u) \/ Timeout(u) \/ Signal(u) \/ Relock(u)
                   \/ Reap(u) \/ CopyFault(u)
            PROVE  FALSE
        <4>1. u # t
          BY <3>2 DEF Enter, ReadFault, Wait, WaitOver, Sleep, Timeout, Signal, Relock, Reap, Peek,
             Pop, ReapDone, CopyFault
        <4>2. res'[t] = res[t]
          BY <3>2, <4>1 DEF Enter, ReadFault, Wait, WaitOver, Sleep, Timeout, Signal, Relock, Reap,
             Peek, Pop, ReapDone, CopyFault
        <4>3. QED
          BY <2>1, <4>2
      <3>3. ASSUME NEW p \in SqeIds, Wake(p) \/ Worker(p)
            PROVE  FALSE
        BY <2>1, <3>3 DEF Worker, Wake, WorkerStart, WorkerComplete, WorkerUnregister, WorkerNotify
      <3>4. Submit(t)
        BY <3>1, <3>2, <3>3 DEF Next
      <3>5. \/ DispatchInline(t) \/ DispatchDefer(t) \/ DispatchSlot(t) \/ CancelMisses(t)
            \/ CancelTooLate(t) \/ CancelWins(t)
        BY <3>4 DEF Submit, Reserve, SubmitDone, ReadSqe, PostInline, PathDone, CountInflight,
           AllocFails, Register, RegisterFails, Enqueue, EnqueueFails, SubmitUnregister, Uncount,
           Unwind, Arm, PollClaim, PollClaimLost, CancelComplete, CancelNotify
      <3>6. ~(DispatchInline(t) \/ DispatchDefer(t) \/ DispatchSlot(t) \/ CancelTooLate(t)
              \/ CancelWins(t))
        BY <2>1 DEF DispatchInline, DispatchDefer, DispatchSlot, CancelTooLate, CancelWins
      <3>7. QED
        BY <3>5, <3>6
    <2>4. q \in pending
      <3>1. \A u \in Tasks : pc[u] # "retire"
        BY <2>2 DEF Unlocked
      <3>2. phase[q] \in {"queued", "armed", "unpolled", "running", "retired"}
        BY DEF Unanswered
      <3>3. QED
        BY <3>1, <3>2 DEF RouteInv, RegistryInv
    <2>5. QED
      BY <2>3, <2>4 DEF CancelMisses, Matching
  <1>2. QED
    BY <1>1, ControlInvariant, RouteInvariant, PTL DEF Spec, NoFalseEnoent
-----------------------------------------------------------------------------
(* The order of the answers.                                               *)

LEMMA AppendToSecond ==
  ASSUME NEW S, NEW r \in Seq(S), NEW s \in Seq(S), NEW c \in S
  PROVE  /\ r \o Append(s, c) \in Seq(S)
         /\ Len(r \o Append(s, c)) = Len(r \o s) + 1
         /\ \A i \in 1..Len(r \o s) : (r \o Append(s, c))[i] = (r \o s)[i]
         /\ (r \o Append(s, c))[Len(r \o s) + 1] = c
  <1>1. /\ Append(s, c) \in Seq(S) /\ Len(Append(s, c)) = Len(s) + 1
        /\ \A i \in 1..Len(s) : Append(s, c)[i] = s[i]
        /\ Append(s, c)[Len(s) + 1] = c
        /\ Len(r) \in Nat /\ Len(s) \in Nat
    OBVIOUS
  <1>2. /\ r \o s \in Seq(S) /\ Len(r \o s) = Len(r) + Len(s)
        /\ \A i \in 1..(Len(r) + Len(s)) :
             (r \o s)[i] = IF i <= Len(r) THEN r[i] ELSE s[i - Len(r)]
    BY ConcatProperties
  <1>3. /\ r \o Append(s, c) \in Seq(S) /\ Len(r \o Append(s, c)) = Len(r) + Len(s) + 1
        /\ \A i \in 1..(Len(r) + Len(s) + 1) :
             (r \o Append(s, c))[i] = IF i <= Len(r) THEN r[i] ELSE Append(s, c)[i - Len(r)]
    BY <1>1, ConcatProperties
  <1>4. QED
    BY <1>1, <1>2, <1>3

LEMMA HeadToFirst ==
  ASSUME NEW S, NEW r \in Seq(S), NEW s \in Seq(S), s # <<>>
  PROVE  Append(r, Head(s)) \o Tail(s) = r \o s
  <1>1. /\ Len(r) \in Nat /\ Len(s) \in Nat \ {0} /\ Head(s) = s[1] /\ Head(s) \in S
        /\ Tail(s) \in Seq(S) /\ Len(Tail(s)) = Len(s) - 1
        /\ \A i \in 1..(Len(s) - 1) : Tail(s)[i] = s[i + 1]
    BY EmptySeq, HeadTailProperties
  <1>2. /\ Append(r, Head(s)) \in Seq(S) /\ Len(Append(r, Head(s))) = Len(r) + 1
        /\ \A i \in 1..Len(r) : Append(r, Head(s))[i] = r[i]
        /\ Append(r, Head(s))[Len(r) + 1] = s[1]
    BY <1>1
  <1>3. /\ r \o s \in Seq(S) /\ Len(r \o s) = Len(r) + Len(s)
        /\ \A i \in 1..(Len(r) + Len(s)) :
             (r \o s)[i] = IF i <= Len(r) THEN r[i] ELSE s[i - Len(r)]
    BY ConcatProperties
  <1>4. /\ Append(r, Head(s)) \o Tail(s) \in Seq(S)
        /\ Len(Append(r, Head(s)) \o Tail(s)) = Len(r) + Len(s)
        /\ \A i \in 1..(Len(r) + Len(s)) :
             (Append(r, Head(s)) \o Tail(s))[i] =
               IF i <= Len(r) + 1 THEN Append(r, Head(s))[i] ELSE Tail(s)[i - (Len(r) + 1)]
    BY <1>1, <1>2, ConcatProperties
  <1>5. ASSUME NEW i \in 1..(Len(r) + Len(s))
        PROVE  (Append(r, Head(s)) \o Tail(s))[i] = (r \o s)[i]
    <2>1. CASE i <= Len(r) + 1
      BY <1>1, <1>2, <1>3, <1>4, <2>1
    <2>2. CASE i > Len(r) + 1
      <3>1. Tail(s)[i - (Len(r) + 1)] = s[i - Len(r)]
        BY <1>1, <2>2
      <3>2. QED
        BY <1>1, <1>3, <1>4, <2>2, <3>1
    <2>3. QED
      BY <1>1, <2>1, <2>2
  <1>6. QED
    BY <1>3, <1>4, <1>5, SeqEqual

\* The target with user_data c has been answered ECANCELED.
Cancelled(c) ==
  \E j \in 1..Len(Answers) : Answers[j].res = "ECANCELED" /\ UserData[Answers[j].sqe] = c

HandAhead(t) ==
  /\ pc[t] = "retire" => UserData[prey[t]] = sqe[cur[t]].aim
  /\ \/ pc[t] = "notify"
     \/ pc[t] = "post" /\ Kind(cur[t]) = "cancel" /\ res[t] = "ok"
     => Cancelled(sqe[cur[t]].aim)

AnswersKnown == \A i \in 1..Len(Answers) : Answers[i].sqe \in 1..Len(sqe)

AheadInv == AnswersKnown /\ CancelledBeforeCancel /\ \A t \in Tasks : HandAhead(t)

\* No answer, and perhaps one more SQE.
LEMMA AnswersStay ==
  ASSUME CtlInv, AheadInv, Answers' = Answers, Len(sqe') \in Nat, Len(sqe') >= Len(sqe),
         \A q \in 1..Len(sqe) : sqe'[q] = sqe[q]
  PROVE  AnswersKnown' /\ CancelledBeforeCancel' /\ \A c : Cancelled(c) => Cancelled(c)'
  <1>1. AnswersKnown'
    BY DEF AheadInv, AnswersKnown, CtlInv, TypeCore
  <1>2. Answers \in Seq(Cqe)
    BY ConcatProperties DEF CtlInv, TypeCore, Answers
  <1>3. CancelledBeforeCancel'
    <2> HIDE DEF CtlInv
    <2>1. Len(Answers) \in Nat
      BY <1>2
    <2>2. \A i \in 1..Len(Answers), j \in 1..Len(Answers) :
            sqe'[Answers[i].sqe] = sqe[Answers[i].sqe]
      BY DEF AheadInv, AnswersKnown
    <2>3. QED
      BY <2>1, <2>2 DEF AheadInv, CancelledBeforeCancel, Kind
  <1>4. \A c : Cancelled(c) => Cancelled(c)'
    BY DEF Cancelled
  <1>5. QED
    BY <1>1, <1>3, <1>4

\* One more answer: of a CANCEL that succeeded only when its target has one.
LEMMA AnswersGrow ==
  ASSUME CtlInv, AheadInv, NEW c \in Cqe, reaped' = reaped, cq' = Append(cq, c), sqe' = sqe,
         c.sqe \in 1..Len(sqe),
         Kind(c.sqe) = "cancel" /\ c.res = "ok" => Cancelled(sqe[c.sqe].aim)
  PROVE  /\ AnswersKnown' /\ CancelledBeforeCancel'
         /\ \A d : Cancelled(d) => Cancelled(d)'
         /\ c.res = "ECANCELED" => Cancelled(UserData[c.sqe])'
  <1>1. reaped \in Seq(Cqe) /\ cq \in Seq(Cqe)
    BY DEF CtlInv, TypeCore
  <1>2. /\ Answers' \in Seq(Cqe) /\ Len(Answers') = Len(Answers) + 1
        /\ \A i \in 1..Len(Answers) : Answers'[i] = Answers[i]
        /\ Answers'[Len(Answers) + 1] = c
    BY <1>1, AppendToSecond DEF Answers
  <1>3. Len(Answers) \in Nat
    BY <1>1, ConcatProperties DEF Answers
  <1>4. \A i \in 1..Len(Answers') : i \in 1..Len(Answers) \/ i = Len(Answers) + 1
    BY <1>2, <1>3
  <1>5. AnswersKnown'
    BY <1>2, <1>4 DEF AheadInv, AnswersKnown
  <1>6. \A d : Cancelled(d) => Cancelled(d)'
    BY <1>2, <1>3 DEF Cancelled
  <1>7. c.res = "ECANCELED" => Cancelled(UserData[c.sqe])'
    <2>1. Len(Answers) + 1 \in 1..Len(Answers')
      BY <1>2, <1>3
    <2>2. QED
      BY <1>2, <2>1 DEF Cancelled
  <1>8. CancelledBeforeCancel'
    <2> SUFFICES ASSUME NEW i \in 1..Len(Answers'),
                        sqe[Answers'[i].sqe].kind = "cancel", Answers'[i].res = "ok"
                 PROVE  \E j \in 1..(i - 1) :
                          /\ Answers'[j].res = "ECANCELED"
                          /\ UserData[Answers'[j].sqe] = sqe[Answers'[i].sqe].aim
      BY DEF CancelledBeforeCancel, Kind
    <2>1. CASE i \in 1..Len(Answers)
      <3>1. PICK j \in 1..(i - 1) : /\ Answers[j].res = "ECANCELED"
                                    /\ UserData[Answers[j].sqe] = sqe[Answers[i].sqe].aim
        BY <1>2, <2>1 DEF AheadInv, CancelledBeforeCancel, Kind
      <3>2. j \in 1..Len(Answers)
        BY <1>3, <2>1
      <3>3. QED
        BY <1>2, <2>1, <3>1, <3>2
    <2>2. CASE i = Len(Answers) + 1
      <3>1. PICK j \in 1..Len(Answers) : /\ Answers[j].res = "ECANCELED"
                                         /\ UserData[Answers[j].sqe] = sqe[c.sqe].aim
        BY <1>2, <2>2 DEF Cancelled, Kind
      <3>2. j \in 1..(i - 1)
        BY <1>3, <2>2
      <3>3. QED
        BY <1>2, <2>2, <3>1, <3>2
    <2>3. QED
      BY <1>4, <2>1, <2>2
  <1>9. QED
    BY <1>5, <1>6, <1>7, <1>8

LEMMA AheadSubmit ==
  ASSUME CtlInv, RouteInv, AheadInv, NEW t \in Tasks, Submit(t)
  PROVE  AheadInv'
  <1> USE DEF CtlInv, TypeCore
  <1>1. \A u \in Tasks \ {t} : pc'[u] \in Unlocked
    BY SubmitMoves, OthersUnlocked, BatchLocked DEF Unlocked
  <1>2. \A u \in Tasks \ {t} : HandAhead(u)'
    BY <1>1 DEF HandAhead, Unlocked
  <1>3. pc[t] \in Holding => cur[t] \in 1..Len(sqe)
    BY DEF CurInv, HandInv
  <1>4. Len(sqe) \in Nat
    OBVIOUS
  <1>5. CASE ReadSqe(t)
    <2>1. PICK s \in Shapes : sqe' = Append(sqe, s)
      BY <1>5 DEF ReadSqe
    <2>2. Len(sqe') = Len(sqe) + 1 /\ \A q \in 1..Len(sqe) : sqe'[q] = sqe[q]
      BY <2>1
    <2>3. Answers' = Answers
      BY <1>5 DEF ReadSqe, Answers
    <2>4. pc'[t] = "dispatch"
      BY <1>5 DEF ReadSqe
    <2>5. AnswersKnown' /\ CancelledBeforeCancel'
      <3> HIDE DEF CtlInv
      <3>1. QED
        BY <1>4, <2>2, <2>3, AnswersStay
    <2>6. QED
      BY <1>2, <2>4, <2>5 DEF AheadInv, HandAhead
  <1>6. CASE PostInline(t)
    <2>1. pc[t] = "post" /\ pc'[t] = "submit" /\ sqe' = sqe /\ reaped' = reaped
          /\ cq' = Append(cq, [sqe |-> cur[t], res |-> res[t]])
      BY <1>6 DEF PostInline
    <2>2. cur[t] \in 1..Len(sqe) /\ cur[t] \in SqeIds /\ res[t] \in Results \ {"none"}
      BY <2>1, MaxSqeAssumption DEF CurInv, HandInv, Holding
    <2>3. [sqe |-> cur[t], res |-> res[t]] \in Cqe
      BY <2>2 DEF Cqe
    <2>4. Kind(cur[t]) = "cancel" /\ res[t] = "ok" => Cancelled(sqe[cur[t]].aim)
      BY <2>1 DEF AheadInv, HandAhead
    <2>5. AnswersKnown' /\ CancelledBeforeCancel'
      <3> HIDE DEF CtlInv
      <3>1. QED
        BY <2>1, <2>2, <2>3, <2>4, AnswersGrow
    <2>6. QED
      BY <1>2, <2>1, <2>5 DEF AheadInv, HandAhead
  <1>7. CASE CancelComplete(t)
    <2>1. /\ pc[t] = "retire" /\ pc'[t] = "notify" /\ sqe' = sqe /\ reaped' = reaped
          /\ cur' = cur /\ cq' = Append(cq, [sqe |-> prey[t], res |-> "ECANCELED"])
      BY <1>7 DEF CancelComplete
    <2>2. prey[t] \in 1..Len(sqe) /\ prey[t] \in SqeIds
      BY <2>1, MaxSqeAssumption DEF CurInv, HandInv
    <2>3. [sqe |-> prey[t], res |-> "ECANCELED"] \in Cqe
      BY <2>2 DEF Cqe, Results
    <2>4. UserData[prey[t]] = sqe[cur[t]].aim
      BY <2>1 DEF AheadInv, HandAhead
    <2>5. PICK c \in Cqe : c = [sqe |-> prey[t], res |-> "ECANCELED"]
      BY <2>3
    <2>6. AnswersKnown' /\ CancelledBeforeCancel' /\ Cancelled(sqe[cur[t]].aim)'
      <3> HIDE DEF CtlInv
      <3>1. AnswersKnown' /\ CancelledBeforeCancel' /\ Cancelled(UserData[c.sqe])'
        BY <2>1, <2>2, <2>5, AnswersGrow
      <3>2. sqe'[cur'[t]].aim = UserData[c.sqe]
        BY <2>1, <2>4, <2>5
      <3>3. QED
        BY <3>1, <3>2 DEF Cancelled
    <2>7. QED
      BY <1>2, <2>1, <2>6 DEF AheadInv, HandAhead
  <1>8. CASE ~(ReadSqe(t) \/ PostInline(t) \/ CancelComplete(t))
    <2>1. sqe' = sqe /\ cq' = cq /\ reaped' = reaped
      BY <1>8 DEF Submit, Reserve, SubmitDone, DispatchInline, DispatchDefer, DispatchSlot,
         PathDone, CountInflight, AllocFails, Register, RegisterFails, Enqueue, EnqueueFails,
         SubmitUnregister, Uncount, Unwind, Arm, PollClaim, PollClaimLost, CancelMisses,
         CancelTooLate, CancelWins, CancelNotify
    <2>2. Answers' = Answers
      BY <2>1 DEF Answers
    <2>3. AnswersKnown' /\ CancelledBeforeCancel' /\ \A c : Cancelled(c) => Cancelled(c)'
      <3> HIDE DEF CtlInv
      <3>1. QED
        BY <1>4, <2>1, <2>2, AnswersStay
    <2>4. pc'[t] = "retire" => UserData[prey'[t]] = sqe[cur'[t]].aim
      <3>1. CASE CancelWins(t)
        BY <3>1 DEF CancelWins, Matching
      <3>2. CASE ~CancelWins(t)
        <4>1. pc'[t] # "retire"
          BY <1>8, <3>2 DEF Submit, Reserve, SubmitDone, DispatchInline, DispatchDefer,
             DispatchSlot, PathDone, CountInflight, AllocFails, Register, RegisterFails, Enqueue,
             EnqueueFails, SubmitUnregister, Uncount, Unwind, Arm, PollClaim, PollClaimLost,
             CancelMisses, CancelTooLate, CancelNotify
        <4>2. QED
          BY <4>1
      <3>3. QED
        BY <3>1, <3>2
    <2>5. ASSUME pc'[t] = "post", sqe[cur'[t]].kind = "cancel", res'[t] = "ok"
          PROVE  Cancelled(sqe[cur'[t]].aim)
      <3>1. CASE CancelNotify(t)
        BY <3>1 DEF CancelNotify, AheadInv, HandAhead
      <3>2. CASE ~CancelNotify(t)
        <4>1. \/ DispatchInline(t) \/ DispatchSlot(t) \/ PathDone(t) \/ Unwind(t)
              \/ CancelMisses(t) \/ CancelTooLate(t)
          BY <1>8, <2>5, <3>2 DEF Submit, Reserve, SubmitDone, DispatchDefer, CountInflight,
             AllocFails, Register, RegisterFails, Enqueue, EnqueueFails, SubmitUnregister, Uncount,
             Arm, PollClaim, PollClaimLost, CancelWins
        <4>2. CASE DispatchInline(t) \/ PathDone(t) \/ Unwind(t)
          BY <2>5, <4>2 DEF DispatchInline, PathDone, Unwind, RouteInv, KindsInv, DeferPlaces,
             DeferredKinds, Kind
        <4>3. CASE DispatchSlot(t) \/ CancelMisses(t) \/ CancelTooLate(t)
          BY <2>5, <4>3 DEF DispatchSlot, CancelMisses, CancelTooLate
        <4>4. QED
          BY <4>1, <4>2, <4>3
      <3>3. QED
        BY <3>1, <3>2
    <2>6. pc'[t] # "notify"
      BY <1>8 DEF Submit, Reserve, SubmitDone, DispatchInline, DispatchDefer, DispatchSlot,
         PathDone, CountInflight, AllocFails, Register, RegisterFails, Enqueue, EnqueueFails,
         SubmitUnregister, Uncount, Unwind, Arm, PollClaim, PollClaimLost, CancelMisses,
         CancelTooLate, CancelWins, CancelNotify
    <2>7. HandAhead(t)'
      <3>1. \A c : Cancelled(c) => Cancelled(c)'
        BY <2>3
      <3>2. ASSUME pc'[t] = "post", sqe[cur'[t]].kind = "cancel", res'[t] = "ok"
            PROVE  Cancelled(sqe[cur[t]].aim)'
        <4>1. PICK c : c = sqe[cur'[t]].aim
          OBVIOUS
        <4>2. Cancelled(c)'
          BY <2>5, <3>1, <3>2, <4>1
        <4>3. QED
          BY <2>1, <4>1, <4>2 DEF Cancelled
      <3>3. QED
        BY <2>1, <2>4, <2>6, <3>2 DEF HandAhead, Kind
    <2>8. QED
      BY <1>2, <2>3, <2>7 DEF AheadInv
  <1>9. QED
    BY <1>5, <1>6, <1>7, <1>8

LEMMA AheadStep ==
  ASSUME CtlInv, RouteInv, AheadInv, Next
  PROVE  AheadInv'
  <1> USE DEF CtlInv, TypeCore
  <1>1. ASSUME NEW t \in Tasks,
               \/ Enter(t) \/ ReadFault(t) \/ Wait(t) \/ Timeout(t) \/ Signal(t) \/ Relock(t)
               \/ Reap(t) \/ CopyFault(t)
        PROVE  AheadInv'
    <2>1. /\ sqe' = sqe /\ prey' = prey
          /\ \A u \in Tasks \ {t} : pc'[u] = pc[u] /\ cur'[u] = cur[u] /\ res'[u] = res[u]
          /\ pc'[t] \notin {"retire", "notify", "post"}
      BY <1>1 DEF Enter, ReadFault, Wait, WaitOver, Sleep, Timeout, Signal, Relock, Reap, Peek,
         Pop, ReapDone, CopyFault
    <2>2. Answers' = Answers
      <3>1. CASE Pop(t)
        <4>1. cq # <<>> /\ Head(cq) = [sqe |-> cur[t], res |-> res[t]]
          BY <3>1 DEF Pop, PopsWhatItCopied
        <4>2. cq' = Tail(cq) /\ reaped' = Append(reaped, Head(cq))
          BY <3>1, <4>1 DEF Pop
        <4>3. QED
          BY <4>1, <4>2, HeadToFirst DEF Answers
      <3>2. CASE ~Pop(t)
        BY <1>1, <3>2 DEF Enter, ReadFault, Wait, WaitOver, Sleep, Timeout, Signal, Relock, Reap,
           Peek, ReapDone, CopyFault, Answers
      <3>3. QED
        BY <3>1, <3>2
    <2>3. Len(sqe) \in Nat
      OBVIOUS
    <2> HIDE DEF CtlInv, TypeCore
    <2>4. AnswersKnown' /\ CancelledBeforeCancel'
      BY <2>1, <2>2, <2>3, AnswersStay
    <2>5. \A u \in Tasks : HandAhead(u)'
      BY <2>1, <2>2 DEF AheadInv, HandAhead, Kind, Cancelled
    <2>6. QED
      BY <2>4, <2>5 DEF AheadInv
  <1>2. ASSUME NEW q \in SqeIds, Wake(q) \/ Worker(q)
        PROVE  AheadInv'
    <2>1. UNCHANGED <<sqe, cur, res, prey, reaped>>
      BY <1>2 DEF Worker, Wake, WorkerStart, WorkerComplete, WorkerUnregister, WorkerNotify
    <2>2. \A t \in Tasks : pc'[t] = pc[t] \/ (pc[t] = "asleep" /\ pc'[t] = "wait")
      BY <1>2 DEF Worker, Wake, WorkerStart, WorkerComplete, WorkerUnregister, WorkerNotify
    <2>3. Len(sqe) \in Nat
      OBVIOUS
    <2>4. AnswersKnown' /\ CancelledBeforeCancel' /\ \A c : Cancelled(c) => Cancelled(c)'
      <3>1. CASE WorkerComplete(q)
        <4>1. cq' = Append(cq, [sqe |-> q, res |-> "ok"]) /\ phase[q] = "running"
          BY <3>1 DEF WorkerComplete
        <4>2. [sqe |-> q, res |-> "ok"] \in Cqe
          BY DEF Cqe, Results
        <4>3. q \in 1..Len(sqe)
          BY <4>1, MaxSqeAssumption DEF FreeInv
        <4>4. Kind(q) # "cancel"
          BY <4>1, <4>3 DEF RouteInv, KindsInv, Deferred, DeferredKinds
        <4> HIDE DEF CtlInv, TypeCore
        <4>5. QED
          BY <2>1, <4>1, <4>2, <4>3, <4>4, AnswersGrow
      <3>2. CASE ~WorkerComplete(q)
        <4>1. Answers' = Answers
          BY <1>2, <3>2 DEF Worker, Wake, WorkerStart, WorkerUnregister, WorkerNotify, Answers
        <4> HIDE DEF CtlInv, TypeCore
        <4>2. QED
          BY <2>1, <2>3, <4>1, AnswersStay
      <3>3. QED
        BY <3>1, <3>2
    <2> HIDE DEF CtlInv, TypeCore
    <2>5. ASSUME NEW t \in Tasks
          PROVE  HandAhead(t)'
      <3>1. pc'[t] \in {"retire", "notify", "post"} => pc'[t] = pc[t]
        BY <2>2
      <3>2. pc'[t] = "retire" => UserData[prey'[t]] = sqe'[cur'[t]].aim
        BY <2>1, <3>1 DEF AheadInv, HandAhead
      <3>3. ASSUME \/ pc'[t] = "notify"
                   \/ pc'[t] = "post" /\ sqe'[cur'[t]].kind = "cancel" /\ res'[t] = "ok"
            PROVE  Cancelled(sqe[cur[t]].aim)'
        <4>1. Cancelled(sqe[cur[t]].aim)
          BY <2>1, <3>1, <3>3 DEF AheadInv, HandAhead, Kind
        <4>2. Cancelled(sqe[cur[t]].aim) => \E j \in 1..Len(Answers') :
                Answers'[j].res = "ECANCELED" /\ UserData[Answers'[j].sqe] = sqe[cur[t]].aim
          BY <2>4 DEF Cancelled
        <4>3. QED
          BY <2>1, <4>1, <4>2 DEF Cancelled
      <3>4. QED
        BY <3>2, <3>3 DEF HandAhead, Kind
    <2>6. QED
      BY <2>4, <2>5 DEF AheadInv
  <1>3. QED
    BY <1>1, <1>2, AheadSubmit DEF Next

LEMMA AheadInit == Init => AheadInv
  BY ConcatProperties DEF Init, AheadInv, AnswersKnown, CancelledBeforeCancel, HandAhead, Answers

\* What every answer and every CANCEL under way keeps, in every reachable state.
THEOREM AheadInvariant == Spec => []AheadInv
  <1>1. CtlInv /\ RouteInv /\ AheadInv /\ [Next]_vars => AheadInv'
    <2>1. ASSUME AheadInv, UNCHANGED vars
          PROVE  AheadInv'
      <3>1. UNCHANGED <<cq, reaped, sqe, pc, cur, prey, res>>
        BY <2>1 DEF vars
      <3>2. Answers' = Answers
        BY <3>1 DEF Answers
      <3>3. AnswersKnown' /\ CancelledBeforeCancel'
        BY <2>1, <3>1, <3>2 DEF AheadInv, AnswersKnown, CancelledBeforeCancel, Kind
      <3>4. \A t \in Tasks : HandAhead(t)'
        BY <2>1, <3>1, <3>2 DEF AheadInv, HandAhead, Cancelled, Kind
      <3>5. QED
        BY <3>3, <3>4 DEF AheadInv
    <2>2. QED
      BY <2>1, AheadStep
  <1>2. QED
    BY <1>1, AheadInit, ControlInvariant, RouteInvariant, PTL DEF Spec

\* A CANCEL that reports success has its target's own completion ahead of its
\* own in the queue, however many tasks submit, cancel and reap at once.
THEOREM CancelledBeforeCancelHolds == Spec => []CancelledBeforeCancel
  <1>1. AheadInv => CancelledBeforeCancel
    BY DEF AheadInv
  <1>2. QED
    BY <1>1, AheadInvariant, PTL

-----------------------------------------------------------------------------
(* Wake-ups.                                                               *)

\* What an operation in hand can be answered, and by which kind of operation
\* a place of the submit loop is reached.
HandRes(t) ==
  /\ pc[t] \in {"arm", "claim"} => Kind(cur[t]) = "poll"
  /\ pc[t] \in {"retire", "notify"} => Kind(cur[t]) = "cancel"
  /\ pc[t] \in {"unregister", "uncount", "unwind", "post"} =>
       res[t] # "ECANCELED" /\ (res[t] = "ok" => Kind(cur[t]) \notin {"delay", "slot", "poll"})

WakeInv == NoLostWakeup /\ \A t \in Tasks : HandRes(t)

-----------------------------------------------------------------------------
(* How many completions are announced.                                     *)

LEMMA AnnouncedBounded ==
  ASSUME CtlInv
  PROVE  /\ IsFiniteSet(Announced) /\ Cardinality(Announced) \in Nat
         /\ Cardinality(Announced) <= Len(cq)
  <1>1. Len(cq) \in Nat
    BY DEF CtlInv, TypeCore
  <1>2. IsFiniteSet(1..Len(cq)) /\ Cardinality(1..Len(cq)) = Len(cq)
    <2>1. PICK n \in Nat : n = Len(cq)
      BY <1>1
    <2>2. IsFiniteSet(1..n) /\ Cardinality(1..n) = IF 1 > n THEN 0 ELSE n - 1 + 1
      BY FS_Interval
    <2>3. Cardinality(1..n) = n
      BY <2>2
    <2>4. QED
      BY <2>1, <2>2, <2>3
  <1>3. Announced \in SUBSET (1..Len(cq))
    BY DEF Announced
  <1>4. QED
    BY <1>2, <1>3, FS_Subset, FS_CardinalityType

\* What the queue holds is known, so a new SQE changes nothing about it.
LEMMA AnnouncedStays ==
  ASSUME CtlInv, AheadInv, cq' = cq, \A q \in 1..Len(sqe) : sqe'[q] = sqe[q]
  PROVE  Announced' = Announced
  <1>1. ASSUME NEW i \in 1..Len(cq)
        PROVE  cq[i].sqe \in 1..Len(sqe)
    <2>1. cq \in Seq(Cqe) /\ reaped \in Seq(Cqe)
      BY DEF CtlInv, TypeCore
    <2>2. /\ Len(reaped) \in Nat /\ Len(cq) \in Nat /\ Len(Answers) = Len(reaped) + Len(cq)
          /\ \A k \in 1..(Len(reaped) + Len(cq)) :
               Answers[k] = IF k <= Len(reaped) THEN reaped[k] ELSE cq[k - Len(reaped)]
      BY <2>1, ConcatProperties DEF Answers
    <2>3. PICK k \in 1..Len(Answers) : k = Len(reaped) + i
      BY <2>2
    <2>4. Answers[k] = cq[i]
      BY <2>2, <2>3
    <2>5. QED
      BY <2>4 DEF AheadInv, AnswersKnown
  <1>2. QED
    BY <1>1 DEF Announced, Kind

\* An inline answer is not announced.
LEMMA AnnouncedNotInline ==
  ASSUME CtlInv, NEW c \in Cqe, cq' = Append(cq, c), sqe' = sqe, c.res # "ECANCELED",
         c.res = "ok" => Kind(c.sqe) \notin {"delay", "slot", "poll"}
  PROVE  Announced' = Announced
  <1>1. /\ Len(cq) \in Nat /\ Len(cq') = Len(cq) + 1 /\ cq'[Len(cq) + 1] = c
        /\ \A i \in 1..Len(cq) : cq'[i] = cq[i]
    BY DEF CtlInv, TypeCore
  <1>2. \A i : i \in 1..Len(cq') <=> i \in 1..Len(cq) \/ i = Len(cq) + 1
    BY <1>1
  <1>3. Len(cq) + 1 \notin Announced'
    BY <1>1 DEF Announced, Kind
  <1>4. Len(cq) + 1 \notin Announced
    BY <1>1 DEF Announced
  <1>5. \A i \in 1..Len(cq) : i \in Announced' <=> i \in Announced
    BY <1>1, <1>2 DEF Announced, Kind
  <1>6. Announced \subseteq 1..Len(cq) /\ Announced' \subseteq 1..Len(cq')
    BY DEF Announced
  <1>7. QED
    BY <1>2, <1>3, <1>4, <1>5, <1>6

\* Reaping moves every completion one place to the front.
LEMMA AnnouncedReaped ==
  ASSUME CtlInv, cq # <<>>, cq' = Tail(cq), sqe' = sqe
  PROVE  Cardinality(Announced') \in Nat /\ Cardinality(Announced') <= Cardinality(Announced)
  <1>1. /\ Len(cq) \in Nat \ {0} /\ Len(cq') = Len(cq) - 1
        /\ \A i \in 1..(Len(cq) - 1) : cq'[i] = cq[i + 1]
    BY EmptySeq, HeadTailProperties DEF CtlInv, TypeCore
  <1>2. \A i \in Announced' : i \in Nat /\ i + 1 \in Announced
    BY <1>1 DEF Announced, Kind
  <1> DEFINE back == [i \in Announced' |-> i + 1]
  <1>3. back \in Injection(Announced', Announced)
    BY <1>2, Fun_IsInj
  <1> HIDE DEF back
  <1>4. QED
    BY <1>3, AnnouncedBounded, FS_Injection, FS_CardinalityType

-----------------------------------------------------------------------------
LEMMA HandResStep ==
  ASSUME CtlInv, RouteInv, \A t \in Tasks : HandRes(t), Next
  PROVE  \A t \in Tasks : HandRes(t)'
  <1> USE DEF CtlInv, TypeCore
  <1>1. ASSUME NEW t \in Tasks, Submit(t)
        PROVE  \A u \in Tasks : HandRes(u)'
    <2>1. \A u \in Tasks \ {t} : pc'[u] \in Unlocked
      BY <1>1, SubmitMoves, OthersUnlocked, BatchLocked DEF Unlocked
    <2>2. \A u \in Tasks \ {t} : HandRes(u)'
      BY <2>1 DEF HandRes, Unlocked
    <2>3. HandRes(t)'
      <3>1. CASE \/ Reserve(t) \/ SubmitDone(t) \/ ReadSqe(t) \/ PostInline(t) \/ Enqueue(t)
                 \/ PollClaimLost(t) \/ DispatchDefer(t) \/ CountInflight(t)
        BY <3>1 DEF Reserve, SubmitDone, ReadSqe, PostInline, Enqueue, PollClaimLost,
           DispatchDefer, CountInflight, HandRes
      <3>2. CASE DispatchInline(t) \/ DispatchSlot(t) \/ CancelMisses(t) \/ CancelTooLate(t)
        BY <3>2 DEF DispatchInline, DispatchSlot, CancelMisses, CancelTooLate, HandRes, Kind
      <3>3. CASE PathDone(t)
        BY <3>3 DEF PathDone, HandRes, Kind, RouteInv, KindsInv
      <3>4. CASE AllocFails(t) \/ Register(t) \/ RegisterFails(t) \/ EnqueueFails(t)
        BY <3>4 DEF AllocFails, Register, RegisterFails, EnqueueFails, HandRes, Kind
      <3>5. CASE SubmitUnregister(t) \/ Uncount(t) \/ Unwind(t) \/ Arm(t) \/ PollClaim(t)
        BY <3>5 DEF SubmitUnregister, Uncount, Unwind, Arm, PollClaim, HandRes, Kind
      <3>6. CASE CancelWins(t) \/ CancelComplete(t) \/ CancelNotify(t)
        BY <3>6 DEF CancelWins, CancelComplete, CancelNotify, HandRes, Kind
      <3>7. QED
        BY <1>1, <3>1, <3>2, <3>3, <3>4, <3>5, <3>6 DEF Submit
    <2>4. QED
      BY <2>2, <2>3
  <1>2. ASSUME NEW t \in Tasks,
               \/ Enter(t) \/ ReadFault(t) \/ Wait(t) \/ Timeout(t) \/ Signal(t) \/ Relock(t)
               \/ Reap(t) \/ CopyFault(t)
        PROVE  \A u \in Tasks : HandRes(u)'
    <2>1. /\ sqe' = sqe
          /\ \A u \in Tasks \ {t} : pc'[u] = pc[u] /\ cur'[u] = cur[u] /\ res'[u] = res[u]
          /\ pc'[t] \in {"submit", "user", "wait", "asleep", "relock", "reap", "copy"}
      BY <1>2 DEF Enter, ReadFault, Wait, WaitOver, Sleep, Timeout, Signal, Relock, Reap, Peek,
         Pop, ReapDone, CopyFault
    <2>2. QED
      BY <2>1 DEF HandRes, Kind
  <1>3. ASSUME NEW q \in SqeIds, Wake(q) \/ Worker(q)
        PROVE  \A u \in Tasks : HandRes(u)'
    <2>1. UNCHANGED <<sqe, cur, res>>
      BY <1>3 DEF Worker, Wake, WorkerStart, WorkerComplete, WorkerUnregister, WorkerNotify
    <2>2. \A u \in Tasks : pc'[u] = pc[u] \/ (pc[u] = "asleep" /\ pc'[u] = "wait")
      BY <1>3 DEF Worker, Wake, WorkerStart, WorkerComplete, WorkerUnregister, WorkerNotify
    <2>3. QED
      BY <2>1, <2>2 DEF HandRes, Kind
  <1>4. QED
    BY <1>1, <1>2, <1>3 DEF Next

\* A step that posts nothing and wakes nobody.
LEMMA WakeQuiet ==
  ASSUME CtlInv, AheadInv, NoLostWakeup, Cardinality(Announced') <= Cardinality(Announced),
         Cardinality(Announced') \in Int,
         \A t \in Tasks : pc'[t] = "asleep" =>
           args'[t] = args[t] /\ (pc[t] = "asleep" \/ Cardinality(Announced') < args[t].min),
         NotifyPending => NotifyPending'
  PROVE  NoLostWakeup'
  <1>1. Cardinality(Announced) \in Nat
    BY AnnouncedBounded
  <1>2. \A t \in Tasks : args[t].min \in Int
    BY CallsAssumption DEF CtlInv, TypeCore, NoCall
  <1>3. QED
    BY <1>1, <1>2 DEF NoLostWakeup

LEMMA WakeSubmit ==
  ASSUME CtlInv, RouteInv, AheadInv, WakeInv, NEW t \in Tasks, Submit(t)
  PROVE  NoLostWakeup'
  <1> USE DEF CtlInv, TypeCore
  <1>1. CASE CancelComplete(t)
    BY <1>1 DEF CancelComplete, NoLostWakeup, NotifyPending
  <1>2. CASE CancelNotify(t)
    <2>1. \A u \in Tasks : pc'[u] # "asleep"
      BY <1>2 DEF CancelNotify
    <2>2. QED
      BY <2>1 DEF NoLostWakeup
  <1>3. CASE ~(CancelComplete(t) \/ CancelNotify(t))
    <2>1. /\ \A u \in Tasks : pc'[u] = "asleep" => pc[u] = "asleep" /\ args'[u] = args[u]
          /\ pc[t] # "notify"
      <3>1. CASE \/ Reserve(t) \/ SubmitDone(t) \/ ReadSqe(t) \/ PostInline(t) \/ Enqueue(t)
                 \/ PollClaimLost(t) \/ DispatchDefer(t) \/ CountInflight(t)
                 \/ DispatchInline(t) \/ DispatchSlot(t) \/ CancelMisses(t) \/ CancelTooLate(t)
        BY <3>1 DEF Reserve, SubmitDone, ReadSqe, PostInline, Enqueue, PollClaimLost,
           DispatchDefer, CountInflight, DispatchInline, DispatchSlot, CancelMisses, CancelTooLate
      <3>2. CASE \/ PathDone(t) \/ AllocFails(t) \/ Register(t) \/ RegisterFails(t)
                 \/ EnqueueFails(t) \/ SubmitUnregister(t) \/ Uncount(t) \/ Unwind(t) \/ Arm(t)
                 \/ PollClaim(t) \/ CancelWins(t)
        BY <3>2 DEF PathDone, AllocFails, Register, RegisterFails, EnqueueFails, SubmitUnregister,
           Uncount, Unwind, Arm, PollClaim, CancelWins
      <3>3. QED
        BY <1>3, <3>1, <3>2 DEF Submit
    <2>2. NotifyPending => NotifyPending'
      <3>1. \A q \in SqeIds : phase[q] = "posted" => phase'[q] = "posted"
        <4>1. pc[t] \in Holding => phase[cur[t]] = "submitting"
          BY DEF CurInv, HandInv
        <4>2. CASE ReadSqe(t)
          <5>1. Len(sqe) + 1 \in SqeIds /\ phase[Len(sqe) + 1] = "free"
            BY <4>2, ReadsNext DEF FreeInv
          <5>2. QED
            BY <4>2, <5>1 DEF ReadSqe
        <4>3. CASE PostInline(t) \/ Enqueue(t) \/ Arm(t) \/ PollClaim(t)
          BY <4>1, <4>3 DEF PostInline, Enqueue, Arm, PollClaim, Holding
        <4>4. CASE CancelWins(t)
          BY <4>4 DEF CancelWins, CanRetire
        <4>5. CASE ~(\/ ReadSqe(t) \/ PostInline(t) \/ Enqueue(t) \/ Arm(t) \/ PollClaim(t)
                     \/ CancelWins(t))
          BY <1>3, <4>5 DEF Submit, Reserve, SubmitDone, DispatchInline, DispatchDefer,
             DispatchSlot, PathDone, CountInflight, AllocFails, Register, RegisterFails,
             EnqueueFails, SubmitUnregister, Uncount, Unwind, PollClaimLost, CancelMisses,
             CancelTooLate
        <4>6. QED
          BY <4>2, <4>3, <4>4, <4>5
      <3>2. \A u \in Tasks : pc[u] = "notify" => pc'[u] = "notify"
        <4>1. \A u \in Tasks \ {t} : pc[u] # "notify"
          BY SubmitMoves, OthersUnlocked, BatchLocked DEF Unlocked
        <4>2. QED
          BY <2>1, <4>1
      <3>3. QED
        BY <3>1, <3>2 DEF NotifyPending
    <2>3. Announced' = Announced
      <3>1. CASE PostInline(t)
        <4>1. PICK c : c = [sqe |-> cur[t], res |-> res[t]]
          OBVIOUS
        <4>2. /\ pc[t] = "post" /\ sqe' = sqe /\ cq' = Append(cq, c)
          BY <3>1, <4>1 DEF PostInline
        <4>3. cur[t] \in SqeIds /\ res[t] \in Results \ {"none"}
          BY <4>2, MaxSqeAssumption DEF CurInv, HandInv, Holding
        <4>4. c \in Cqe
          BY <4>1, <4>3 DEF Cqe
        <4>5. c.res # "ECANCELED" /\ (c.res = "ok" => Kind(c.sqe) \notin {"delay", "slot", "poll"})
          BY <4>1, <4>2 DEF WakeInv, HandRes
        <4> HIDE DEF CtlInv, TypeCore
        <4>6. QED
          BY <4>2, <4>4, <4>5, AnnouncedNotInline
      <3>2. CASE ReadSqe(t)
        <4>1. cq' = cq /\ \A q \in 1..Len(sqe) : sqe'[q] = sqe[q]
          BY <3>2 DEF ReadSqe
        <4> HIDE DEF CtlInv, TypeCore
        <4>2. QED
          BY <4>1, AnnouncedStays
      <3>3. CASE ~(PostInline(t) \/ ReadSqe(t))
        <4>1. cq' = cq /\ sqe' = sqe
          BY <1>3, <3>3 DEF Submit, Reserve, SubmitDone, DispatchInline, DispatchDefer,
             DispatchSlot, PathDone, CountInflight, AllocFails, Register, RegisterFails, Enqueue,
             EnqueueFails, SubmitUnregister, Uncount, Unwind, Arm, PollClaim, PollClaimLost,
             CancelMisses, CancelTooLate, CancelWins
        <4>2. QED
          BY <4>1 DEF Announced, Kind
      <3>4. QED
        BY <3>1, <3>2, <3>3
    <2> HIDE DEF CtlInv, TypeCore
    <2>4. Cardinality(Announced) \in Nat
      BY AnnouncedBounded
    <2>5. QED
      BY <2>1, <2>2, <2>3, <2>4, WakeQuiet DEF WakeInv
  <1>4. QED
    BY <1>1, <1>2, <1>3

LEMMA WakeStep ==
  ASSUME CtlInv, RouteInv, AheadInv, WakeInv, Next
  PROVE  WakeInv'
  <1>1. ASSUME NEW t \in Tasks,
               \/ Enter(t) \/ ReadFault(t) \/ Wait(t) \/ Timeout(t) \/ Signal(t) \/ Relock(t)
               \/ Reap(t) \/ CopyFault(t)
        PROVE  NoLostWakeup'
    <2> USE DEF CtlInv, TypeCore
    <2>1. sqe' = sqe /\ phase' = phase
      BY <1>1 DEF Enter, ReadFault, Wait, WaitOver, Sleep, Timeout, Signal, Relock, Reap, Peek,
         Pop, ReapDone, CopyFault
    <2>2. /\ \A u \in Tasks \ {t} : pc'[u] = pc[u] /\ args'[u] = args[u]
          /\ pc[t] # "notify"
      BY <1>1 DEF Enter, ReadFault, Wait, WaitOver, Sleep, Timeout, Signal, Relock, Reap, Peek,
         Pop, ReapDone, CopyFault
    <2>3. NotifyPending => NotifyPending'
      BY <2>1, <2>2 DEF NotifyPending
    <2>4. pc'[t] = "asleep" => cq' = cq /\ args'[t] = args[t] /\ Len(cq) < args[t].min
      <3>1. CASE Sleep(t)
        <4>1. Len(cq) \in Nat /\ args[t].min \in Int
          BY CallsAssumption DEF NoCall
        <4>2. QED
          BY <3>1, <4>1 DEF Sleep, Satisfied
      <3>2. CASE ~Sleep(t)
        BY <1>1, <3>2 DEF Enter, ReadFault, Wait, WaitOver, Timeout, Signal, Relock, Reap, Peek,
           Pop, ReapDone, CopyFault
      <3>3. QED
        BY <3>1, <3>2
    <2>5. Cardinality(Announced') <= Cardinality(Announced) /\ Cardinality(Announced') \in Int
          /\ (cq' = cq => Announced' = Announced)
      <3>1. cq' = cq \/ (cq # <<>> /\ cq' = Tail(cq))
        BY <1>1 DEF Enter, ReadFault, Wait, WaitOver, Sleep, Timeout, Signal, Relock, Reap, Peek,
           Pop, ReapDone, CopyFault, PopsWhatItCopied
      <3>2. cq' = cq => Announced' = Announced
        BY <2>1 DEF Announced, Kind
      <3> HIDE DEF CtlInv, TypeCore
      <3>3. QED
        BY <2>1, <3>1, <3>2, AnnouncedBounded, AnnouncedReaped
    <2>6. Len(cq) \in Nat /\ \A u \in Tasks : args[u].min \in Int
      BY SMTT(30), CallsAssumption DEF NoCall
    <2> HIDE DEF CtlInv, TypeCore
    <2>7. \A u \in Tasks : pc'[u] = "asleep" =>
            args'[u] = args[u] /\ (pc[u] = "asleep" \/ Cardinality(Announced') < args[u].min)
      BY <2>2, <2>4, <2>5, <2>6, AnnouncedBounded
    <2>8. QED
      BY <2>3, <2>5, <2>7, WakeQuiet DEF WakeInv
  <1>2. ASSUME NEW q \in SqeIds, Wake(q) \/ Worker(q)
        PROVE  NoLostWakeup'
    <2> USE DEF CtlInv, TypeCore
    <2>1. CASE WorkerComplete(q)
      BY <2>1 DEF WorkerComplete, NoLostWakeup, NotifyPending
    <2>2. CASE WorkerNotify(q)
      <3>1. \A u \in Tasks : pc'[u] # "asleep"
        BY <2>2 DEF WorkerNotify
      <3>2. QED
        BY <3>1 DEF NoLostWakeup
    <2>3. CASE Wake(q) \/ WorkerStart(q) \/ WorkerUnregister(q)
      <3>1. cq' = cq /\ sqe' = sqe /\ pc' = pc /\ args' = args
        BY <2>3 DEF Wake, WorkerStart, WorkerUnregister
      <3>2. \A p \in SqeIds : phase[p] = "posted" => phase'[p] = "posted"
        BY <2>3 DEF Wake, WorkerStart, WorkerUnregister
      <3>3. Announced' = Announced
        BY <3>1 DEF Announced, Kind
      <3>4. QED
        BY <3>1, <3>2, <3>3 DEF WakeInv, NoLostWakeup, NotifyPending
    <2>4. QED
      BY <1>2, <2>1, <2>2, <2>3 DEF Worker
  <1>3. NoLostWakeup'
    BY <1>1, <1>2, WakeSubmit DEF Next
  <1>4. \A t \in Tasks : HandRes(t)'
    BY HandResStep DEF WakeInv
  <1>5. QED
    BY <1>3, <1>4 DEF WakeInv

LEMMA WakeInit == Init => WakeInv
  BY DEF Init, WakeInv, NoLostWakeup, HandRes

\* No lost wake-up: a task does not sleep on as many announced completions as
\* it asked for, unless a notify_all is on its way, whoever else submits,
\* cancels, reaps and waits.
THEOREM NoLostWakeupHolds == Spec => []NoLostWakeup
  <1>1. CtlInv /\ RouteInv /\ AheadInv /\ WakeInv /\ [Next]_vars => WakeInv'
    <2>1. ASSUME WakeInv, UNCHANGED vars
          PROVE  WakeInv'
      <3>1. UNCHANGED <<cq, sqe, phase, pc, cur, res, args>>
        BY <2>1 DEF vars
      <3>2. Announced' = Announced /\ NotifyPending' = NotifyPending
        BY <3>1 DEF Announced, Kind, NotifyPending
      <3>3. NoLostWakeup'
        BY <2>1, <3>1, <3>2 DEF WakeInv, NoLostWakeup
      <3>4. \A t \in Tasks : HandRes(t)'
        BY <2>1, <3>1 DEF WakeInv, HandRes, Kind
      <3>5. QED
        BY <3>3, <3>4 DEF WakeInv
    <2>2. QED
      BY <2>1, WakeStep
  <1>2. WakeInv => NoLostWakeup
    BY DEF WakeInv
  <1>3. QED
    BY <1>1, <1>2, WakeInit, ControlInvariant, RouteInvariant, AheadInvariant, PTL DEF Spec

-----------------------------------------------------------------------------
(* Slots.                                                                  *)

KindInv ==
  /\ \A t \in Tasks :
       /\ pc[t] \in {"arm", "claim"} => cur[t] \in 1..Len(sqe) /\ Kind(cur[t]) = "poll"
       /\ pc[t] = "path" => Kind(cur[t]) = "path"
  /\ \A q \in 1..Len(sqe) : phase[q] \in {"armed", "unpolled"} => Kind(q) = "poll"

-----------------------------------------------------------------------------
(* The kinds.                                                              *)

LEMMA KindSubmit ==
  ASSUME CtlInv, KindInv, NEW t \in Tasks, Submit(t)
  PROVE  KindInv'
  <1> USE DEF CtlInv, TypeCore
  <1>1. \A u \in Tasks \ {t} : pc[u] \in Unlocked /\ pc'[u] \in Unlocked
    BY SubmitMoves, OthersUnlocked, BatchLocked DEF Unlocked
  <1>2. pc[t] \in Holding => cur[t] \in 1..Len(sqe) /\ phase[cur[t]] = "submitting"
    BY DEF CurInv, HandInv
  <1>3. \A u \in Tasks \ {t} : pc'[u] \notin {"arm", "claim", "path"}
    BY <1>1 DEF Unlocked
  <1>4. CASE ReadSqe(t)
    <2>1. PICK s \in Shapes : sqe' = Append(sqe, s)
      BY <1>4 DEF ReadSqe
    <2>2. Len(sqe') = Len(sqe) + 1 /\ Len(sqe) \in Nat /\ \A q \in 1..Len(sqe) : sqe'[q] = sqe[q]
      BY <2>1
    <2>3. phase'[Len(sqe) + 1] = "submitting" /\ \A q \in 1..Len(sqe) : phase'[q] = phase[q]
      <3>1. Len(sqe) + 1 \in SqeIds /\ phase' = [phase EXCEPT ![Len(sqe) + 1] = "submitting"]
        BY <1>4, ReadsNext DEF ReadSqe
      <3>2. phase \in [SqeIds -> Phases]
        OBVIOUS
      <3> HIDE DEF CtlInv, TypeCore
      <3>3. QED
        BY <2>2, <3>1, <3>2, MaxSqeAssumption
    <2>4. pc'[t] = "dispatch"
      BY <1>4 DEF ReadSqe
    <2> HIDE DEF CtlInv, TypeCore
    <2>5. \A q \in 1..Len(sqe') : q \in 1..Len(sqe) \/ q = Len(sqe) + 1
      <3>1. \A n \in Nat : \A q \in 1..(n + 1) : q \in 1..n \/ q = n + 1
        OBVIOUS
      <3>2. QED
        BY <2>2, <3>1
    <2>6. QED
      BY <1>3, <2>2, <2>3, <2>4, <2>5 DEF KindInv, Kind
  <1>5. CASE DispatchSlot(t) \/ Register(t) \/ PathDone(t) \/ Unwind(t)
    BY <1>2, <1>3, <1>5
       DEF DispatchSlot, Register, PathDone, Unwind, KindInv, Kind, Holding
  <1>6. CASE Arm(t)
    <2>1. cur[t] \in 1..Len(sqe) /\ Kind(cur[t]) = "poll" /\ sqe' = sqe
      BY <1>6 DEF Arm, KindInv
    <2>2. \E p \in Phases : phase' = [phase EXCEPT ![cur[t]] = p]
      BY <1>6 DEF Arm, Phases
    <2>3. pc'[t] = "submit" \/ (pc'[t] = "claim" /\ cur' = cur)
      BY <1>6 DEF Arm
    <2>4. QED
      BY SMTT(30), <1>3, <2>1, <2>2, <2>3 DEF KindInv, Kind
  <1>7. CASE PostInline(t) \/ Enqueue(t) \/ PollClaim(t) \/ CancelComplete(t)
    <2>1. sqe' = sqe /\ pc'[t] \notin {"arm", "claim", "path"}
      BY <1>7 DEF PostInline, Enqueue, PollClaim, CancelComplete
    <2>2. \E q \in SqeIds, p \in {"done", "queued", "submitting"} : phase' = [phase EXCEPT ![q] = p]
      <3>1. pc[t] = "claim" => cur[t] \in SqeIds
        BY DEF CurInv, HandInv
      <3>2. pc[t] = "retire" => prey[t] \in SqeIds
        BY MaxSqeAssumption DEF CurInv, HandInv
      <3>3. pc[t] \in Holding => cur[t] \in SqeIds
        BY <1>2, MaxSqeAssumption
      <3>4. QED
        BY <1>7, <3>1, <3>2, <3>3 DEF PostInline, Enqueue, PollClaim, CancelComplete, Holding
    <2>3. \A q \in SqeIds : phase'[q] = phase[q] \/ phase'[q] \notin {"armed", "unpolled"}
      BY <2>2
    <2>4. \A q \in 1..Len(sqe) : q \in SqeIds
      BY MaxSqeAssumption
    <2>5. \A u \in Tasks \ {t} : pc'[u] \notin {"arm", "claim", "path"}
      BY <1>3
    <2> HIDE DEF CtlInv, TypeCore, SqeIds
    <2>6. QED
      BY <2>1, <2>3, <2>4, <2>5 DEF KindInv, Kind
  <1>8. CASE CancelWins(t)
    BY <1>3, <1>8 DEF CancelWins, KindInv, Kind
  <1>9. CASE \/ Reserve(t) \/ SubmitDone(t) \/ DispatchInline(t) \/ DispatchDefer(t)
             \/ AllocFails(t) \/ PollClaimLost(t) \/ CancelMisses(t) \/ CancelTooLate(t)
             \/ CancelNotify(t) \/ CountInflight(t) \/ RegisterFails(t)
             \/ EnqueueFails(t) \/ SubmitUnregister(t) \/ Uncount(t)
    <2>1. UNCHANGED <<phase, sqe>> /\ pc'[t] \notin {"arm", "claim", "path"}
      BY <1>9 DEF Reserve, SubmitDone, DispatchInline, DispatchDefer, AllocFails, PollClaimLost,
         CancelMisses, CancelTooLate, CancelNotify, CountInflight, RegisterFails, EnqueueFails,
         SubmitUnregister, Uncount
    <2>2. QED
      BY <1>3, <2>1 DEF KindInv, Kind
  <1>10. QED
    BY <1>4, <1>5, <1>6, <1>7, <1>8, <1>9 DEF Submit

LEMMA KindStep ==
  ASSUME CtlInv, KindInv, Next
  PROVE  KindInv'
  <1> USE DEF CtlInv, TypeCore
  <1>1. ASSUME NEW t \in Tasks,
               \/ Enter(t) \/ ReadFault(t) \/ Wait(t) \/ Timeout(t) \/ Signal(t) \/ Relock(t)
               \/ Reap(t) \/ CopyFault(t)
        PROVE  KindInv'
    <2>1. UNCHANGED <<phase, sqe>>
      BY <1>1 DEF Enter, ReadFault, Wait, WaitOver, Sleep, Timeout, Signal, Relock, Reap, Peek,
         Pop, ReapDone, CopyFault
    <2>2. \A u \in Tasks \ {t} : pc'[u] = pc[u] /\ cur'[u] = cur[u]
      BY <1>1 DEF Enter, ReadFault, Wait, WaitOver, Sleep, Timeout, Signal, Relock, Reap, Peek,
         Pop, ReapDone, CopyFault
    <2>3. pc'[t] \notin {"arm", "claim", "path"}
      BY <1>1 DEF Enter, ReadFault, Wait, WaitOver, Sleep, Timeout, Signal, Relock, Reap, Peek,
         Pop, ReapDone, CopyFault
    <2>4. QED
      BY <2>1, <2>2, <2>3 DEF KindInv, Kind
  <1>2. ASSUME NEW q \in SqeIds, Wake(q) \/ Worker(q)
        PROVE  KindInv'
    <2>1. UNCHANGED <<sqe, cur>>
      BY <1>2 DEF Worker, Wake, WorkerStart, WorkerComplete, WorkerUnregister, WorkerNotify
    <2>2. \A t \in Tasks : pc'[t] = pc[t] \/ pc'[t] = "wait"
      BY <1>2 DEF Worker, Wake, WorkerStart, WorkerComplete, WorkerUnregister, WorkerNotify
    <2>3. \A p \in SqeIds : phase'[p] = phase[p] \/ phase'[p] \notin {"armed", "unpolled"}
      BY <1>2 DEF Worker, Wake, WorkerStart, WorkerComplete, WorkerUnregister, WorkerNotify
    <2>4. \A p \in 1..Len(sqe) : p \in SqeIds
      BY MaxSqeAssumption
    <2> HIDE DEF CtlInv, TypeCore, SqeIds
    <2>5. QED
      BY <2>1, <2>2, <2>3, <2>4 DEF KindInv, Kind
  <1>3. QED
    BY <1>1, <1>2, KindSubmit DEF Next

-----------------------------------------------------------------------------
(* The holders.                                                            *)

\* Where a submitter has a slot in its hand, by the kind of its SQE.
SlotPlaces == {"count", "register", "enqueue", "unregister", "uncount", "unwind"}

HasSlot(t) ==
  \/ Kind(cur[t]) = "path" /\ pc[t] = "path"
  \/ Kind(cur[t]) = "slot" /\ pc[t] \in SlotPlaces

SlotWork(q) == Kind(q) = "slot" /\ phase[q] \in {"queued", "running", "retired"}

\* The holders while t is the one task that may submit.
HoldersWith(t) == {q \in 1..Len(sqe) : SlotWork(q) \/ (cur[t] = q /\ HasSlot(t))}

LEMMA HoldersAlone ==
  ASSUME NEW t \in Tasks,
         \A u \in Tasks \ {t} : pc[u] \in Unlocked /\ pc'[u] \in Unlocked
  PROVE  SlotHolders = HoldersWith(t) /\ SlotHolders' = HoldersWith(t)'
  <1>1. Unlocked \cap (SlotPlaces \cup {"path"}) = {}
    BY DEF Unlocked, SlotPlaces
  <1>2. SlotHolders = HoldersWith(t)
    BY <1>1 DEF SlotHolders, HoldersWith, SlotWork, HasSlot, SlotPlaces
  <1>3. SlotHolders' = HoldersWith(t)'
    BY <1>1 DEF SlotHolders, HoldersWith, SlotWork, HasSlot, SlotPlaces, Kind
  <1>4. QED
    BY <1>2, <1>3

\* The steps that move no slot, take one, and give one back.
LEMMA SlotsQuiet ==
  ASSUME SlotExclusion, SlotHolders' = SlotHolders, slotBusy' = slotBusy,
         \A q \in SlotHolders : sqe'[q] = sqe[q]
  PROVE  SlotExclusion'
  BY DEF SlotExclusion

LEMMA SlotTaken ==
  ASSUME SlotExclusion, NEW q, sqe[q].slot \notin slotBusy, sqe' = sqe,
         SlotHolders' = SlotHolders \cup {q}, slotBusy' = slotBusy \cup {sqe[q].slot}
  PROVE  SlotExclusion'
  <1>1. \A r \in SlotHolders : sqe[r].slot # sqe[q].slot
    BY DEF SlotExclusion
  <1>2. slotBusy' = {sqe'[r].slot : r \in SlotHolders'}
    BY DEF SlotExclusion
  <1>3. \A p, r \in SlotHolders' : sqe'[p].slot = sqe'[r].slot => p = r
    BY <1>1 DEF SlotExclusion
  <1>4. QED
    BY <1>2, <1>3 DEF SlotExclusion

LEMMA SlotGiven ==
  ASSUME SlotExclusion, NEW q \in SlotHolders, sqe' = sqe,
         SlotHolders' = SlotHolders \ {q}, slotBusy' = slotBusy \ {sqe[q].slot}
  PROVE  SlotExclusion'
  <1>1. \A r \in SlotHolders \ {q} : sqe[r].slot # sqe[q].slot
    BY DEF SlotExclusion
  <1>2. slotBusy' = {sqe'[r].slot : r \in SlotHolders'}
    BY <1>1 DEF SlotExclusion
  <1>3. \A p, r \in SlotHolders' : sqe'[p].slot = sqe'[r].slot => p = r
    BY DEF SlotExclusion
  <1>4. QED
    BY <1>2, <1>3 DEF SlotExclusion

LEMMA SlotSubmit ==
  ASSUME CtlInv, KindInv, SlotExclusion, NEW t \in Tasks, Submit(t)
  PROVE  SlotExclusion'
  <1> USE DEF CtlInv, TypeCore
  <1>1. \A u \in Tasks \ {t} : pc[u] \in Unlocked /\ pc'[u] \in Unlocked
    BY SubmitMoves, OthersUnlocked, BatchLocked DEF Unlocked
  <1>2. SlotHolders = HoldersWith(t) /\ SlotHolders' = HoldersWith(t)'
    BY <1>1, HoldersAlone
  <1>3. pc[t] \in Holding => cur[t] \in 1..Len(sqe) /\ phase[cur[t]] = "submitting"
    BY DEF CurInv, HandInv
  <1>4. CASE DispatchSlot(t)
    <2>1. CASE sqe[cur[t]].slot \in slotBusy
      <3>1. HoldersWith(t)' = HoldersWith(t)
        BY <1>4, <2>1 DEF DispatchSlot, HoldersWith, SlotWork, HasSlot, SlotPlaces, Kind
      <3>2. QED
        BY <1>2, <1>4, <2>1, <3>1, SlotsQuiet DEF DispatchSlot
    <2>2. CASE sqe[cur[t]].slot \notin slotBusy
      <3>1. cur[t] \in 1..Len(sqe) /\ phase[cur[t]] = "submitting"
        BY <1>3, <1>4 DEF DispatchSlot, Holding
      <3>2. HoldersWith(t)' = HoldersWith(t) \cup {cur[t]}
        BY <1>4, <2>2, <3>1 DEF DispatchSlot, HoldersWith, SlotWork, HasSlot, SlotPlaces, Kind
      <3>3. QED
        BY <1>2, <1>4, <2>2, <3>2, SlotTaken DEF DispatchSlot
    <2>3. QED
      BY <2>1, <2>2
  <1>5. CASE PathDone(t)
    <2>1. cur[t] \in 1..Len(sqe) /\ phase[cur[t]] = "submitting" /\ Kind(cur[t]) = "path"
      BY <1>3, <1>5 DEF PathDone, Holding, KindInv
    <2>2. cur[t] \in HoldersWith(t) /\ HoldersWith(t)' = HoldersWith(t) \ {cur[t]}
      BY <1>5, <2>1 DEF PathDone, HoldersWith, SlotWork, HasSlot, SlotPlaces, Kind
    <2>3. QED
      BY <1>2, <1>5, <2>2, SlotGiven DEF PathDone
  <1>6. CASE Unwind(t)
    <2>1. cur[t] \in 1..Len(sqe) /\ phase[cur[t]] = "submitting"
      BY <1>3, <1>6 DEF Unwind, Holding
    <2>2. CASE Kind(cur[t]) = "slot"
      <3>1. cur[t] \in HoldersWith(t) /\ HoldersWith(t)' = HoldersWith(t) \ {cur[t]}
        BY <1>6, <2>1, <2>2 DEF Unwind, HoldersWith, SlotWork, HasSlot, SlotPlaces, Kind
      <3>2. QED
        BY <1>2, <1>6, <2>2, <3>1, SlotGiven DEF Unwind
    <2>3. CASE Kind(cur[t]) # "slot"
      <3>1. HoldersWith(t)' = HoldersWith(t)
        BY <1>6, <2>3 DEF Unwind, HoldersWith, SlotWork, HasSlot, SlotPlaces, Kind
      <3>2. QED
        BY <1>2, <1>6, <2>3, <3>1, SlotsQuiet DEF Unwind
    <2>4. QED
      BY <2>2, <2>3
  <1>7. CASE CancelComplete(t)
    <2>1. prey[t] \in 1..Len(sqe) /\ phase[prey[t]] = "retired"
      BY <1>7 DEF CancelComplete, CurInv, HandInv
    <2>2. pc[t] = "retire" /\ pc'[t] = "notify" /\ phase' = [phase EXCEPT ![prey[t]] = "done"]
          /\ sqe' = sqe /\ cur' = cur
      BY <1>7 DEF CancelComplete
    <2>3. CASE Kind(prey[t]) = "slot"
      <3>1. prey[t] \in HoldersWith(t) /\ HoldersWith(t)' = HoldersWith(t) \ {prey[t]}
        BY <2>1, <2>2, <2>3 DEF HoldersWith, SlotWork, HasSlot, SlotPlaces, Kind
      <3>2. QED
        BY <1>2, <1>7, <2>2, <2>3, <3>1, SlotGiven DEF CancelComplete
    <2>4. CASE Kind(prey[t]) # "slot"
      <3>1. HoldersWith(t)' = HoldersWith(t)
        BY <2>1, <2>2, <2>4 DEF HoldersWith, SlotWork, HasSlot, SlotPlaces, Kind
      <3>2. QED
        BY <1>2, <1>7, <2>2, <2>4, <3>1, SlotsQuiet DEF CancelComplete
    <2>5. QED
      BY <2>3, <2>4
  <1>8. CASE ReadSqe(t)
    <2>1. PICK s \in Shapes : sqe' = Append(sqe, s)
      BY <1>8 DEF ReadSqe
    <2>2. \A q \in 1..Len(sqe) : sqe'[q] = sqe[q]
      BY <2>1
    <2>3. Len(sqe') = Len(sqe) + 1 /\ Len(sqe) \in Nat
      BY <2>1
    <2>4. HoldersWith(t)' = HoldersWith(t)
      <3>1. Len(sqe) + 1 \in SqeIds /\ phase' = [phase EXCEPT ![Len(sqe) + 1] = "submitting"]
        BY <1>8, ReadsNext DEF ReadSqe
      <3>2. phase \in [SqeIds -> Phases]
        OBVIOUS
      <3>3. pc[t] = "read" /\ pc'[t] = "dispatch"
        BY <1>8 DEF ReadSqe
      <3> HIDE DEF CtlInv, TypeCore
      <3>4. phase'[Len(sqe) + 1] = "submitting" /\ \A q \in 1..Len(sqe) : phase'[q] = phase[q]
        BY <2>3, <3>1, <3>2, MaxSqeAssumption
      <3>5. \A n \in Nat : 1..(n + 1) = (1..n) \cup {n + 1}
        OBVIOUS
      <3>6. 1..Len(sqe') = (1..Len(sqe)) \cup {Len(sqe) + 1}
        BY <2>3, <3>5
      <3>7. QED
        BY <2>2, <3>3, <3>4, <3>6 DEF HoldersWith, SlotWork, HasSlot, SlotPlaces, Kind
    <2>5. \A q \in SlotHolders : sqe'[q] = sqe[q]
      BY <2>2 DEF SlotHolders
    <2>6. QED
      BY <1>2, <1>8, <2>4, <2>5, SlotsQuiet DEF ReadSqe
  <1>9. CASE PostInline(t) \/ Enqueue(t)
    <2>1. cur[t] \in 1..Len(sqe) /\ phase[cur[t]] = "submitting"
      BY <1>3, <1>9 DEF PostInline, Enqueue, Holding
    <2>2. sqe' = sqe /\ slotBusy' = slotBusy /\ cur'[t] = 0
      BY <1>9 DEF PostInline, Enqueue
    <2>3. \/ pc[t] = "post" /\ phase' = [phase EXCEPT ![cur[t]] = "done"]
          \/ pc[t] = "enqueue" /\ phase' = [phase EXCEPT ![cur[t]] = "queued"]
      BY <1>9 DEF PostInline, Enqueue
    <2>4. phase \in [SqeIds -> Phases] /\ \A q \in 1..Len(sqe) : q \in SqeIds /\ q # 0
      BY MaxSqeAssumption
    <2>5. HoldersWith(t)' = HoldersWith(t)
      <3> HIDE DEF CtlInv, TypeCore, SqeIds
      <3>1. QED
        BY <2>1, <2>2, <2>3, <2>4 DEF HoldersWith, SlotWork, HasSlot, SlotPlaces, Kind
    <2>6. QED
      BY <1>2, <2>2, <2>5, SlotsQuiet
  <1>10. CASE Arm(t) \/ PollClaim(t)
    <2>1. cur[t] \in 1..Len(sqe) /\ Kind(cur[t]) = "poll"
      BY <1>10 DEF Arm, PollClaim, KindInv
    <2>2. \E p \in Phases : phase' = [phase EXCEPT ![cur[t]] = p]
      BY <1>10 DEF Arm, PollClaim, Phases
    <2>3. pc[t] \in {"arm", "claim"} /\ pc'[t] \in {"claim", "submit", "unregister"} /\ sqe' = sqe
          /\ cur'[t] \in {cur[t], 0} /\ slotBusy' = slotBusy
      BY <1>10 DEF Arm, PollClaim
    <2>4. HoldersWith(t)' = HoldersWith(t)
      BY <2>1, <2>2, <2>3 DEF HoldersWith, SlotWork, HasSlot, SlotPlaces, Kind
    <2>5. QED
      BY <1>2, <2>3, <2>4, SlotsQuiet
  <1>11. CASE CancelWins(t)
    <2>1. PICK q \in pending : CanRetire(q) /\ phase' = [phase EXCEPT ![q] = "retired"]
      BY <1>11 DEF CancelWins, Matching
    <2>2. pc[t] = "dispatch" /\ pc'[t] = "retire" /\ sqe' = sqe /\ slotBusy' = slotBusy
      BY <1>11 DEF CancelWins
    <2>3. HoldersWith(t)' = HoldersWith(t)
      BY <2>1, <2>2 DEF HoldersWith, SlotWork, HasSlot, SlotPlaces, Kind, CanRetire
    <2>4. QED
      BY <1>2, <2>2, <2>3, SlotsQuiet
  <1>12. CASE \/ Reserve(t) \/ SubmitDone(t) \/ DispatchInline(t) \/ DispatchDefer(t)
              \/ AllocFails(t) \/ PollClaimLost(t) \/ CancelMisses(t) \/ CancelTooLate(t)
              \/ CancelNotify(t) \/ CountInflight(t) \/ Register(t) \/ RegisterFails(t)
              \/ EnqueueFails(t) \/ SubmitUnregister(t) \/ Uncount(t)
    <2>1. UNCHANGED <<phase, sqe, slotBusy>>
      BY <1>12 DEF Reserve, SubmitDone, DispatchInline, DispatchDefer, AllocFails, PollClaimLost,
         CancelMisses, CancelTooLate, CancelNotify, CountInflight, Register, RegisterFails,
         EnqueueFails, SubmitUnregister, Uncount
    <2>2. \/ pc[t] \notin SlotPlaces \cup {"path"} /\ pc'[t] \notin SlotPlaces \cup {"path"}
          \/ cur' = cur /\ pc[t] \in SlotPlaces /\ pc'[t] \in SlotPlaces
          \/ cur' = cur /\ Kind(cur[t]) # "slot" /\ pc[t] # "path" /\ pc'[t] # "path"
      BY <1>12 DEF Reserve, SubmitDone, DispatchInline, DispatchDefer, AllocFails, PollClaimLost,
         CancelMisses, CancelTooLate, CancelNotify, CountInflight, Register, RegisterFails,
         EnqueueFails, SubmitUnregister, Uncount, SlotPlaces
    <2>3. HoldersWith(t)' = HoldersWith(t)
      BY <2>1, <2>2 DEF HoldersWith, SlotWork, HasSlot, SlotPlaces, Kind
    <2>4. QED
      BY <1>2, <2>1, <2>3, SlotsQuiet
  <1>13. QED
    BY <1>4, <1>5, <1>6, <1>7, <1>8, <1>9, <1>10, <1>11, <1>12 DEF Submit

LEMMA SlotStep ==
  ASSUME CtlInv, KindInv, SlotExclusion, Next
  PROVE  SlotExclusion'
  <1> USE DEF CtlInv, TypeCore
  <1>1. ASSUME NEW t \in Tasks,
               \/ Enter(t) \/ ReadFault(t) \/ Wait(t) \/ Timeout(t) \/ Signal(t) \/ Relock(t)
               \/ Reap(t) \/ CopyFault(t)
        PROVE  SlotExclusion'
    <2>1. UNCHANGED <<phase, sqe, slotBusy>>
      BY <1>1 DEF Enter, ReadFault, Wait, WaitOver, Sleep, Timeout, Signal, Relock, Reap, Peek,
         Pop, ReapDone, CopyFault
    <2>2. \A u \in Tasks \ {t} : pc'[u] = pc[u] /\ cur'[u] = cur[u]
      BY <1>1 DEF Enter, ReadFault, Wait, WaitOver, Sleep, Timeout, Signal, Relock, Reap, Peek,
         Pop, ReapDone, CopyFault
    <2>3. pc[t] \notin SlotPlaces \cup {"path"} /\ pc'[t] \notin SlotPlaces \cup {"path"}
      BY <1>1 DEF Enter, ReadFault, Wait, WaitOver, Sleep, Timeout, Signal, Relock, Reap, Peek,
         Pop, ReapDone, CopyFault, SlotPlaces
    <2>4. SlotHolders' = SlotHolders
      BY <2>1, <2>2, <2>3 DEF SlotHolders, SlotPlaces, Kind
    <2>5. QED
      BY <2>1, <2>4, SlotsQuiet
  <1>2. ASSUME NEW q \in SqeIds, WorkerComplete(q)
        PROVE  SlotExclusion'
    <2>1. phase[q] = "running" /\ phase' = [phase EXCEPT ![q] = "posted"]
          /\ UNCHANGED <<sqe, pc, cur>>
      BY <1>2 DEF WorkerComplete
    <2>2. q \in 1..Len(sqe)
      BY <2>1, MaxSqeAssumption DEF FreeInv
    <2>3. \A t \in Tasks : pc[t] \in Holding => cur[t] # q
      BY <2>1 DEF CurInv, HandInv
    <2>4. CASE Kind(q) = "slot"
      <3>1. q \in SlotHolders /\ SlotHolders' = SlotHolders \ {q}
        BY <2>1, <2>2, <2>3, <2>4 DEF SlotHolders, Kind, Holding
      <3>2. QED
        BY <1>2, <2>1, <2>4, <3>1, SlotGiven DEF WorkerComplete
    <2>5. CASE Kind(q) # "slot"
      <3>1. SlotHolders' = SlotHolders
        BY <2>1, <2>5 DEF SlotHolders, Kind
      <3>2. QED
        BY <1>2, <2>1, <2>5, <3>1, SlotsQuiet DEF WorkerComplete
    <2>6. QED
      BY <2>4, <2>5
  <1>3. ASSUME NEW q \in SqeIds,
               Wake(q) \/ WorkerStart(q) \/ WorkerUnregister(q) \/ WorkerNotify(q)
        PROVE  SlotExclusion'
    <2>1. UNCHANGED <<sqe, cur, slotBusy>>
      BY <1>3 DEF Wake, WorkerStart, WorkerUnregister, WorkerNotify
    <2>2. \A t \in Tasks : pc'[t] = pc[t] \/ (pc[t] = "asleep" /\ pc'[t] = "wait")
      BY <1>3 DEF Wake, WorkerStart, WorkerUnregister, WorkerNotify
    <2>3. \A p \in 1..Len(sqe) :
            Kind(p) = "slot" =>
              (phase'[p] \in {"queued", "running", "retired"}
                 <=> phase[p] \in {"queued", "running", "retired"})
      <3>1. \A p \in 1..Len(sqe) : p \in SqeIds
        BY MaxSqeAssumption
      <3>2. CASE Wake(q)
        BY <3>1, <3>2 DEF Wake, KindInv
      <3>3. CASE WorkerStart(q)
        BY <3>1, <3>3 DEF WorkerStart
      <3>4. CASE WorkerUnregister(q) \/ WorkerNotify(q)
        BY <3>1, <3>4 DEF WorkerUnregister, WorkerNotify
      <3>5. QED
        BY <1>3, <3>2, <3>3, <3>4
    <2>4. SlotHolders' = SlotHolders
      <3> HIDE DEF CtlInv, TypeCore, SqeIds
      <3>1. \A t \in Tasks : \A p \in SlotPlaces \cup {"path"} : pc'[t] = p <=> pc[t] = p
        BY <2>2 DEF SlotPlaces
      <3>2. QED
        BY <2>1, <2>3, <3>1 DEF SlotHolders, SlotPlaces, Kind
    <2>5. QED
      BY <2>1, <2>4, SlotsQuiet
  <1>4. QED
    BY <1>1, <1>2, <1>3, SlotSubmit DEF Next, Worker

\* A slot is busy exactly while one operation owns it, and never two, whichever
\* of the submitter, a worker and a CANCEL gives it back.
THEOREM SlotExclusionHolds == Spec => []SlotExclusion
  <1>1. Init => CtlInv /\ KindInv /\ SlotExclusion
    <2>1. Init => SlotHolders = {}
      BY DEF Init, SlotHolders
    <2>2. Init => KindInv /\ SlotExclusion
      BY <2>1 DEF Init, KindInv, SlotExclusion
    <2>3. QED
      BY <2>2, CtlInit
  <1>2. CtlInv /\ KindInv /\ SlotExclusion /\ [Next]_vars => KindInv' /\ SlotExclusion'
    <2>1. CtlInv /\ KindInv /\ SlotExclusion /\ Next => KindInv' /\ SlotExclusion'
      BY KindStep, SlotStep
    <2>2. KindInv /\ SlotExclusion /\ UNCHANGED vars => KindInv' /\ SlotExclusion'
      BY DEF vars, KindInv, SlotExclusion, SlotHolders, Kind
    <2>3. QED
      BY <2>1, <2>2
  <1>3. QED
    BY <1>1, <1>2, ControlInvariant, PTL DEF Spec
=============================================================================
