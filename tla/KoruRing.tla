------------------------------ MODULE KoruRing ------------------------------
(***************************************************************************)
(* The kernel ring of koru: the ENTER ioctl, the deferred operations that  *)
(* kworkers complete behind it, CANCEL, and the wait for completions       *)
(* (kernel/koru.rs and the submit, run and cancel paths of                 *)
(* kernel/koru_ops.rs), between SETUP and the last close of the fd.        *)
(*                                                                         *)
(* Any number of tasks share one ring.  A step is one critical section of  *)
(* the code, or one access that happens outside every lock (reading an SQE *)
(* from user memory, copying a CQE to it, a wake-up), so every             *)
(* interleaving the locks allow is explored.  submit_lock is the variable  *)
(* submitLock; the `state' spinlock and the `pending' mutex are never held *)
(* across a step.                                                          *)
(*                                                                         *)
(* SQEs are numbered in the order they are consumed, and a CQE is          *)
(* identified by the number of the SQE it answers.  Opcodes are grouped by *)
(* what they do to the ring:                                               *)
(*   inline  answered by `dispatch' with no claim: NOP, CLOSE, ADOPT_FD,   *)
(*           and every malformed or refused SQE                            *)
(*   path    answered inline, holding its slot meanwhile: OPEN, READLINK,  *)
(*           STATX_AT and the other path operations                        *)
(*   delay   deferred, no slot: DELAY_NS                                   *)
(*   slot    deferred, holding its slot: CHECKSUM, READ, WRITE, STAT, and  *)
(*           READDIR, whose handle claim is in module KoruHandles          *)
(*   poll    armed on a file's waitqueue: POLL_ADD                         *)
(*   cancel  CANCEL of the operation whose user_data is `aim'              *)
(***************************************************************************)
EXTENDS Naturals, Sequences, FiniteSets

CONSTANTS Tasks,        \* tasks that call ENTER on the ring
          NoTask,       \* the owner of a free submit_lock
          CqEntries,    \* cq_entries
          Slots,        \* arena slots
          UserData,     \* user_data of each SQE, by number
          Shapes,       \* the SQEs users submit: [kind, slot, aim]
          Calls,        \* the ENTER arguments they use: [submit, space, min, capped]
          MaxSqe,       \* bound: SQEs ever consumed
          MayFail       \* whether an allocation or an enqueue may fail

Kinds == {"inline", "path", "delay", "slot", "poll", "cancel"}
SqeIds == 1..MaxSqe
Results == {"none", "ok", "EBUSY", "ENOMEM", "EAGAIN", "ENOENT", "EALREADY",
            "ECANCELED", "ready"}
Cqe == [sqe : SqeIds, res : Results \ {"none"}]

ASSUME TasksAssumption == NoTask \notin Tasks /\ IsFiniteSet(Tasks)
ASSUME CqEntriesAssumption == CqEntries \in Nat \ {0}
ASSUME MaxSqeAssumption == MaxSqe \in Nat
ASSUME UserDataAssumption == UserData \in [SqeIds -> Nat]
ASSUME ShapesAssumption == Shapes \subseteq [kind : Kinds, slot : Slots, aim : Nat]
ASSUME MayFailAssumption == MayFail \in BOOLEAN

\* validate: more completions than the array or the queue holds are refused,
\* and so is waiting for more than there is room to reap.
ASSUME CallsAssumption ==
  /\ Calls \subseteq [submit : Nat, space : Nat, min : Nat, capped : BOOLEAN]
  /\ \A c \in Calls : c.min <= c.space /\ c.space <= CqEntries

VARIABLES cq,           \* RingState::cq, head and len: the queued CQEs
          reserved,     \* RingState::reserved
          inflight,     \* RingState::inflight
          slotBusy,     \* RingState::slot_busy
          pending,      \* RingCtx::pending: the registered operations
          submitLock,   \* RingCtx::submit_lock: its owner
          sqe,          \* the SQEs consumed so far
          phase,        \* where each of them is
          pc,           \* where each task is in ENTER
          args,         \* its arguments
          consumed,     \* the SQEs it has consumed
          completed,    \* the CQEs it has copied out
          cur,          \* the SQE it is dispatching or, while reaping, whose CQE it copies
          res,          \* the answer to that SQE, or the result in that CQE
          prey,         \* the operation its CANCEL retires
          reaped        \* CQEs copied to users, in order

state == <<cq, reserved, inflight, slotBusy>>
call == <<args, consumed, completed>>
hand == <<cur, res, prey>>
vars == <<state, pending, submitLock, sqe, phase, pc, call, hand, reaped>>

\* free: not consumed yet.  submitting: in the hands of the task that consumed
\* it.  queued: on the workqueue, its timer or its worklist.  armed: on a
\* file's waitqueue; unpolled: its poll found no waitqueue.  retired: taken by
\* a CANCEL that still owes its completion.  posted and notified: completed by
\* a worker that has yet to notify, to unregister.
Phases == {"free", "submitting", "queued", "armed", "unpolled", "running", "retired",
           "posted", "notified", "done"}

\* Consumed, and its CQE not posted yet.
Unanswered == {"submitting", "queued", "armed", "unpolled", "running", "retired"}

\* wait, asleep, relock, reap and copy follow the code; the others are the
\* places submit and its callees stop at.
Pcs == {"user", "submit", "read", "dispatch", "path", "count", "register", "enqueue",
        "arm", "claim", "unregister", "uncount", "unwind", "post", "retire", "notify",
        "wait", "asleep", "relock", "reap", "copy"}

\* No call in progress.
NoCall == [submit |-> 0, space |-> 0, min |-> 0, capped |-> FALSE]

Init ==
  /\ cq = <<>>
  /\ reserved = 0
  /\ inflight = 0
  /\ slotBusy = {}
  /\ pending = {}
  /\ submitLock = NoTask
  /\ sqe = <<>>
  /\ phase = [q \in SqeIds |-> "free"]
  /\ pc = [t \in Tasks |-> "user"]
  /\ args = [t \in Tasks |-> NoCall]
  /\ consumed = [t \in Tasks |-> 0]
  /\ completed = [t \in Tasks |-> 0]
  /\ cur = [t \in Tasks |-> 0]
  /\ res = [t \in Tasks |-> "none"]
  /\ prey = [t \in Tasks |-> 0]
  /\ reaped = <<>>

Goto(t, label) == pc' = [pc EXCEPT ![t] = label]

Kind(q) == sqe[q].kind

\* Answer the SQE at hand with r, continuing at `label'.
AnswerWith(t, r, label) ==
  /\ res' = [res EXCEPT ![t] = r]
  /\ Goto(t, label)
  /\ UNCHANGED <<call, cur, prey>>

-----------------------------------------------------------------------------
(* Variants of the actions below with one plausible mistake each.  No      *)
(* specification uses them: they document which mistake each property      *)
(* rules out.                                                              *)

\* The failure path of the registry forgets the count.
RegisterFailsStillCounted(t) ==
  /\ MayFail
  /\ pc[t] = "register"
  /\ AnswerWith(t, "ENOMEM", "unwind")
  /\ UNCHANGED <<state, pending, submitLock, sqe, phase, reaped>>

\* An operation that never queued keeps its slot.
UnwindLeakingSlot(t) ==
  /\ pc[t] = "unwind"
  /\ Goto(t, "post")
  /\ UNCHANGED <<state, pending, submitLock, sqe, phase, call, hand, reaped>>

\* Reaping without submit_lock.
RelockNotTaken(t) ==
  /\ pc[t] = "relock"
  /\ Goto(t, "reap")
  /\ UNCHANGED <<state, pending, submitLock, sqe, phase, call, hand, reaped>>

\* `run' unregisters first instead of last.
WorkerStartUnregisters(q) ==
  /\ phase[q] = "queued"
  /\ phase' = [phase EXCEPT ![q] = "running"]
  /\ pending' = pending \ {q}
  /\ UNCHANGED <<state, submitLock, sqe, pc, call, hand, reaped>>

\* The answer at once without the token.
PollClaimWithoutToken(t) ==
  /\ pc[t] = "claim"
  /\ phase' = [phase EXCEPT ![cur[t]] = "submitting"]
  /\ AnswerWith(t, "ready", "unregister")
  /\ UNCHANGED <<state, pending, submitLock, sqe, reaped>>

\* Admission that forgets the completions still owed.
HasRoomIgnoringReserved == Len(cq) < CqEntries

\* A worker that posts its completion and tells nobody.
WorkerNotifyNobody(q) ==
  /\ phase[q] = "posted"
  /\ phase' = [phase EXCEPT ![q] = "notified"]
  /\ UNCHANGED <<state, pending, submitLock, sqe, pc, call, hand, reaped>>

\* CANCEL is answered before the completion of its target is posted.
CancelCompleteLater(t) ==
  /\ pc[t] = "retire"
  /\ phase' = [phase EXCEPT ![prey[t]] = "running"]
  /\ Goto(t, "notify")
  /\ UNCHANGED <<state, pending, submitLock, sqe, call, hand, reaped>>

\* CANCEL retires its target and never completes it.
CancelCompleteNever(t) ==
  /\ pc[t] = "retire"
  /\ Goto(t, "notify")
  /\ UNCHANGED <<state, pending, submitLock, sqe, phase, call, hand, reaped>>

\* A wait that does not give up when nothing is in flight.
SatisfiedByCountOnly(t) == Len(cq) >= args[t].min

-----------------------------------------------------------------------------
(* ENTER: the call, and the submit loop up to the dispatch of one SQE.     *)

\* Validation is a matter of Calls; the lock is taken before anything is read.
Enter(t) ==
  /\ pc[t] = "user"
  /\ submitLock = NoTask
  /\ \E c \in Calls :
       /\ Len(sqe) + c.submit <= MaxSqe
       /\ args' = [args EXCEPT ![t] = c]
  /\ submitLock' = t
  /\ Goto(t, "submit")
  /\ UNCHANGED <<state, pending, sqe, phase, consumed, completed, hand, reaped>>

HasRoom == Len(cq) + reserved < CqEntries

\* The completion's place is claimed before the SQE is read.
Reserve(t) ==
  /\ pc[t] = "submit"
  /\ consumed[t] < args[t].submit
  /\ HasRoom
  /\ reserved' = reserved + 1
  /\ Goto(t, "read")
  /\ UNCHANGED <<cq, inflight, slotBusy, pending, submitLock, sqe, phase, call, hand, reaped>>

\* All consumed, or the ring is full: a short count.  The lock is dropped
\* before the wait.
SubmitDone(t) ==
  /\ pc[t] = "submit"
  /\ consumed[t] = args[t].submit \/ ~HasRoom
  /\ submitLock' = NoTask
  /\ Goto(t, "wait")
  /\ UNCHANGED <<state, pending, sqe, phase, call, hand, reaped>>

ReadSqe(t) ==
  /\ pc[t] = "read"
  /\ \E s \in Shapes : sqe' = Append(sqe, s)
  /\ phase' = [phase EXCEPT ![Len(sqe) + 1] = "submitting"]
  /\ consumed' = [consumed EXCEPT ![t] = @ + 1]
  /\ cur' = [cur EXCEPT ![t] = Len(sqe) + 1]
  /\ Goto(t, "dispatch")
  /\ UNCHANGED <<state, pending, submitLock, args, completed, res, prey, reaped>>

\* The SQ array faults.  With nothing consumed ENTER fails with EFAULT;
\* otherwise the short count tells where it stopped.
ReadFault(t) ==
  /\ pc[t] = "read"
  /\ reserved' = reserved - 1
  /\ submitLock' = NoTask
  /\ IF consumed[t] = 0
     THEN Goto(t, "user") /\ args' = [args EXCEPT ![t] = NoCall]
     ELSE Goto(t, "wait") /\ UNCHANGED args
  /\ UNCHANGED <<cq, inflight, slotBusy, pending, sqe, phase, consumed, completed, hand,
                 reaped>>

\* Post the completion of the SQE at hand, consuming its reservation, and go
\* on with the next one.
PostInline(t) ==
  /\ pc[t] = "post"
  /\ cq' = Append(cq, [sqe |-> cur[t], res |-> res[t]])
  /\ reserved' = reserved - 1
  /\ phase' = [phase EXCEPT ![cur[t]] = "done"]
  /\ cur' = [cur EXCEPT ![t] = 0]
  /\ res' = [res EXCEPT ![t] = "none"]
  /\ Goto(t, "submit")
  /\ UNCHANGED <<inflight, slotBusy, pending, submitLock, sqe, call, prey, reaped>>

-----------------------------------------------------------------------------
(* dispatch: inline operations, and the claim of a slot.                   *)

DispatchInline(t) ==
  /\ pc[t] = "dispatch"
  /\ Kind(cur[t]) = "inline"
  /\ AnswerWith(t, "ok", "post")
  /\ UNCHANGED <<state, pending, submitLock, sqe, phase, reaped>>

DispatchDefer(t) ==
  /\ pc[t] = "dispatch"
  /\ Kind(cur[t]) \in {"delay", "poll"}
  /\ Goto(t, "count")
  /\ UNCHANGED <<state, pending, submitLock, sqe, phase, call, hand, reaped>>

\* slot_try_acquire, for an operation that needs its slot.
DispatchSlot(t) ==
  LET slot == sqe[cur[t]].slot IN
  /\ pc[t] = "dispatch"
  /\ Kind(cur[t]) \in {"slot", "path"}
  /\ IF slot \in slotBusy
     THEN AnswerWith(t, "EBUSY", "post") /\ UNCHANGED slotBusy
     ELSE /\ slotBusy' = slotBusy \cup {slot}
          /\ Goto(t, IF Kind(cur[t]) = "slot" THEN "count" ELSE "path")
          /\ UNCHANGED <<call, hand>>
  /\ UNCHANGED <<cq, reserved, inflight, pending, submitLock, sqe, phase, reaped>>

\* The path was copied out of the slot, or the answer written into it.
PathDone(t) ==
  /\ pc[t] = "path"
  /\ slotBusy' = slotBusy \ {sqe[cur[t]].slot}
  /\ AnswerWith(t, "ok", "post")
  /\ UNCHANGED <<cq, reserved, inflight, pending, submitLock, sqe, phase, reaped>>

-----------------------------------------------------------------------------
(* alloc_op and defer: count, register, enqueue, and their unwinding.      *)

\* Counted before it can be enqueued, or `run' could decrement first.
CountInflight(t) ==
  /\ pc[t] = "count"
  /\ inflight' = inflight + 1
  /\ Goto(t, "register")
  /\ UNCHANGED <<cq, reserved, slotBusy, pending, submitLock, sqe, phase, call, hand, reaped>>

AllocFails(t) ==
  /\ MayFail
  /\ pc[t] = "count"
  /\ AnswerWith(t, "ENOMEM", "unwind")
  /\ UNCHANGED <<state, pending, submitLock, sqe, phase, reaped>>

\* Registered before it can be enqueued, or `run' could unregister first.
Register(t) ==
  /\ pc[t] = "register"
  /\ pending' = pending \cup {cur[t]}
  /\ Goto(t, IF Kind(cur[t]) = "poll" THEN "arm" ELSE "enqueue")
  /\ UNCHANGED <<state, submitLock, sqe, phase, call, hand, reaped>>

RegisterFails(t) ==
  /\ MayFail
  /\ pc[t] = "register"
  /\ AnswerWith(t, "ENOMEM", "uncount")
  /\ UNCHANGED <<state, pending, submitLock, sqe, phase, reaped>>

\* None: the operation owns the reservation from here on.
Enqueue(t) ==
  /\ pc[t] = "enqueue"
  /\ phase' = [phase EXCEPT ![cur[t]] = "queued"]
  /\ cur' = [cur EXCEPT ![t] = 0]
  /\ Goto(t, "submit")
  /\ UNCHANGED <<state, pending, submitLock, sqe, call, res, prey, reaped>>

EnqueueFails(t) ==
  /\ MayFail
  /\ pc[t] = "enqueue"
  /\ AnswerWith(t, "EAGAIN", "unregister")
  /\ UNCHANGED <<state, pending, submitLock, sqe, phase, reaped>>

SubmitUnregister(t) ==
  /\ pc[t] = "unregister"
  /\ pending' = pending \ {cur[t]}
  /\ Goto(t, "uncount")
  /\ UNCHANGED <<state, submitLock, sqe, phase, call, hand, reaped>>

\* Nobody is notified.
Uncount(t) ==
  /\ pc[t] = "uncount"
  /\ inflight' = inflight - 1
  /\ Goto(t, "unwind")
  /\ UNCHANGED <<cq, reserved, slotBusy, pending, submitLock, sqe, phase, call, hand, reaped>>

\* defer_holding_slot gives back the slot of an operation that never queued.
Unwind(t) ==
  /\ pc[t] = "unwind"
  /\ slotBusy' = IF Kind(cur[t]) = "slot" THEN slotBusy \ {sqe[cur[t]].slot} ELSE slotBusy
  /\ Goto(t, "post")
  /\ UNCHANGED <<cq, reserved, inflight, pending, submitLock, sqe, phase, call, hand, reaped>>

-----------------------------------------------------------------------------
(* poll_op: arming, and the token that decides between an answer at once   *)
(* and a wake that came first.  The token is POLL_ARMED while the phase is *)
(* armed or unpolled.                                                      *)

\* The arm finds no waitqueue (a file with no poll method), one, or more; the
\* file is ready or not.  None or several, or ready: answered at once.
Arm(t) ==
  /\ pc[t] = "arm"
  /\ \E heads \in {"none", "one", "several"}, ready \in BOOLEAN :
       /\ phase' = [phase EXCEPT ![cur[t]] = IF heads = "none" THEN "unpolled" ELSE "armed"]
       /\ IF heads # "one" \/ ready
          THEN Goto(t, "claim") /\ UNCHANGED cur
          ELSE Goto(t, "submit") /\ cur' = [cur EXCEPT ![t] = 0]
  /\ UNCHANGED <<state, pending, submitLock, sqe, call, res, prey, reaped>>

\* poll_claim: the answer is ours, and so are the disarm and the unregistering.
PollClaim(t) ==
  /\ pc[t] = "claim"
  /\ phase[cur[t]] \in {"armed", "unpolled"}
  /\ phase' = [phase EXCEPT ![cur[t]] = "submitting"]
  /\ AnswerWith(t, "ready", "unregister")
  /\ UNCHANGED <<state, pending, submitLock, sqe, reaped>>

\* A wake won the token and queued the work: `run' will complete it.
PollClaimLost(t) ==
  /\ pc[t] = "claim"
  /\ phase[cur[t]] \notin {"armed", "unpolled"}
  /\ cur' = [cur EXCEPT ![t] = 0]
  /\ Goto(t, "submit")
  /\ UNCHANGED <<state, pending, submitLock, sqe, phase, call, res, prey, reaped>>

\* poll_wake: wins the token, queues the work.
Wake(q) ==
  /\ phase[q] = "armed"
  /\ phase' = [phase EXCEPT ![q] = "queued"]
  /\ UNCHANGED <<state, pending, submitLock, sqe, pc, call, hand, reaped>>

-----------------------------------------------------------------------------
(* Completions: by a kworker, or by a CANCEL.                              *)

\* system_wq starts `run'; from here CANCEL is too late.
WorkerStart(q) ==
  /\ phase[q] = "queued"
  /\ phase' = [phase EXCEPT ![q] = "running"]
  /\ UNCHANGED <<state, pending, submitLock, sqe, pc, call, hand, reaped>>

\* complete: the CQE becomes visible in the critical section that frees the
\* slot.
Complete(q, r) ==
  /\ inflight' = inflight - 1
  /\ slotBusy' = IF Kind(q) = "slot" THEN slotBusy \ {sqe[q].slot} ELSE slotBusy
  /\ cq' = Append(cq, [sqe |-> q, res |-> r])
  /\ reserved' = reserved - 1

WorkerComplete(q) ==
  /\ phase[q] = "running"
  /\ Complete(q, "ok")
  /\ phase' = [phase EXCEPT ![q] = "posted"]
  /\ UNCHANGED <<pending, submitLock, sqe, pc, call, hand, reaped>>

\* cq_wait.notify_all: every sleeper tests its condition again.
Woken == [t \in Tasks |-> IF pc[t] = "asleep" THEN "wait" ELSE pc[t]]

WorkerNotify(q) ==
  /\ phase[q] = "posted"
  /\ pc' = Woken
  /\ phase' = [phase EXCEPT ![q] = "notified"]
  /\ UNCHANGED <<state, pending, submitLock, sqe, call, hand, reaped>>

\* Last, so that a CANCEL meanwhile still finds the operation.
WorkerUnregister(q) ==
  /\ phase[q] = "notified"
  /\ pending' = pending \ {q}
  /\ phase' = [phase EXCEPT ![q] = "done"]
  /\ UNCHANGED <<state, submitLock, sqe, pc, call, hand, reaped>>

\* pending_find.  Which of several operations with one user_data is found is
\* unspecified.
Matching(c) == {q \in pending : UserData[q] = c}

CancelMisses(t) ==
  /\ pc[t] = "dispatch"
  /\ Kind(cur[t]) = "cancel"
  /\ Matching(sqe[cur[t]].aim) = {}
  /\ AnswerWith(t, "ENOENT", "post")
  /\ UNCHANGED <<state, pending, submitLock, sqe, phase, reaped>>

\* cancel_delayed_work for a queued operation, the token for an armed one.
CanRetire(q) == phase[q] = IF Kind(q) = "poll" THEN "armed" ELSE "queued"

CancelTooLate(t) ==
  /\ pc[t] = "dispatch"
  /\ Kind(cur[t]) = "cancel"
  /\ \E q \in Matching(sqe[cur[t]].aim) : ~CanRetire(q)
  /\ AnswerWith(t, "EALREADY", "post")
  /\ UNCHANGED <<state, pending, submitLock, sqe, phase, reaped>>

\* Won: unregistered before it is completed, under the registry's lock.
CancelWins(t) ==
  /\ pc[t] = "dispatch"
  /\ Kind(cur[t]) = "cancel"
  /\ \E q \in Matching(sqe[cur[t]].aim) :
       /\ CanRetire(q)
       /\ phase' = [phase EXCEPT ![q] = "retired"]
       /\ pending' = pending \ {q}
       /\ prey' = [prey EXCEPT ![t] = q]
  /\ Goto(t, "retire")
  /\ UNCHANGED <<state, submitLock, sqe, call, cur, res, reaped>>

\* The target still gets its own completion.
CancelComplete(t) ==
  /\ pc[t] = "retire"
  /\ Complete(prey[t], "ECANCELED")
  /\ phase' = [phase EXCEPT ![prey[t]] = "done"]
  /\ Goto(t, "notify")
  /\ UNCHANGED <<pending, submitLock, sqe, call, hand, reaped>>

CancelNotify(t) ==
  /\ pc[t] = "notify"
  /\ pc' = [Woken EXCEPT ![t] = "post"]
  /\ prey' = [prey EXCEPT ![t] = 0]
  /\ res' = [res EXCEPT ![t] = "ok"]
  /\ UNCHANGED <<state, pending, submitLock, sqe, phase, call, cur, reaped>>

-----------------------------------------------------------------------------
(* wait and reap.                                                          *)

\* Enough completions, or none can ever arrive.
Satisfied(t) == Len(cq) >= args[t].min \/ inflight = 0

WaitOver(t) ==
  /\ pc[t] = "wait"
  /\ args[t].min = 0 \/ Satisfied(t)
  /\ Goto(t, "relock")
  /\ UNCHANGED <<state, pending, submitLock, sqe, phase, call, hand, reaped>>

\* The task is on cq_wait before the state lock is dropped.
Sleep(t) ==
  /\ pc[t] = "wait"
  /\ args[t].min > 0 /\ ~Satisfied(t)
  /\ Goto(t, "asleep")
  /\ UNCHANGED <<state, pending, submitLock, sqe, phase, call, hand, reaped>>

\* timeout_ns = 0 means no cap.
Timeout(t) ==
  /\ pc[t] = "asleep"
  /\ args[t].capped
  /\ Goto(t, "relock")
  /\ UNCHANGED <<state, pending, submitLock, sqe, phase, call, hand, reaped>>

\* ENTER will return EINTR, after reaping like any other.
Signal(t) ==
  /\ pc[t] = "asleep"
  /\ Goto(t, "relock")
  /\ UNCHANGED <<state, pending, submitLock, sqe, phase, call, hand, reaped>>

Relock(t) ==
  /\ pc[t] = "relock"
  /\ submitLock = NoTask
  /\ submitLock' = t
  /\ Goto(t, "reap")
  /\ UNCHANGED <<state, pending, sqe, phase, call, hand, reaped>>

\* front: the head stays queued while it is copied, outside the lock.
Peek(t) ==
  /\ pc[t] = "reap"
  /\ completed[t] < args[t].space
  /\ cq # <<>>
  /\ cur' = [cur EXCEPT ![t] = Head(cq).sqe]
  /\ res' = [res EXCEPT ![t] = Head(cq).res]
  /\ Goto(t, "copy")
  /\ UNCHANGED <<state, pending, submitLock, sqe, phase, call, prey, reaped>>

\* The copy succeeded.
Pop(t) ==
  /\ pc[t] = "copy"
  /\ cq' = Tail(cq)
  /\ reaped' = Append(reaped, [sqe |-> cur[t], res |-> res[t]])
  /\ completed' = [completed EXCEPT ![t] = @ + 1]
  /\ cur' = [cur EXCEPT ![t] = 0]
  /\ res' = [res EXCEPT ![t] = "none"]
  /\ Goto(t, "reap")
  /\ UNCHANGED <<reserved, inflight, slotBusy, pending, submitLock, sqe, phase, args,
                 consumed, prey>>

Return(t) ==
  /\ submitLock' = NoTask
  /\ args' = [args EXCEPT ![t] = NoCall]
  /\ consumed' = [consumed EXCEPT ![t] = 0]
  /\ completed' = [completed EXCEPT ![t] = 0]
  /\ cur' = [cur EXCEPT ![t] = 0]
  /\ res' = [res EXCEPT ![t] = "none"]
  /\ Goto(t, "user")
  /\ UNCHANGED <<state, pending, sqe, phase, prey, reaped>>

ReapDone(t) ==
  /\ pc[t] = "reap"
  /\ completed[t] = args[t].space \/ cq = <<>>
  /\ Return(t)

\* The CQ array faults: the completion is left for the next ENTER.
CopyFault(t) ==
  /\ pc[t] = "copy"
  /\ Return(t)

-----------------------------------------------------------------------------
Submit(t) ==
  \/ Reserve(t) \/ SubmitDone(t) \/ ReadSqe(t) \/ PostInline(t)
  \/ DispatchInline(t) \/ DispatchDefer(t) \/ DispatchSlot(t) \/ PathDone(t)
  \/ CountInflight(t) \/ AllocFails(t) \/ Register(t) \/ RegisterFails(t)
  \/ Enqueue(t) \/ EnqueueFails(t) \/ SubmitUnregister(t) \/ Uncount(t) \/ Unwind(t)
  \/ Arm(t) \/ PollClaim(t) \/ PollClaimLost(t)
  \/ CancelMisses(t) \/ CancelTooLate(t) \/ CancelWins(t) \/ CancelComplete(t)
  \/ CancelNotify(t)

Wait(t) == WaitOver(t) \/ Sleep(t)

Reap(t) == Peek(t) \/ Pop(t) \/ ReapDone(t)

Worker(q) == WorkerStart(q) \/ WorkerComplete(q) \/ WorkerNotify(q) \/ WorkerUnregister(q)

Next ==
  \/ \E t \in Tasks :
       \/ Enter(t) \/ Submit(t) \/ ReadFault(t)
       \/ Wait(t) \/ Timeout(t) \/ Signal(t)
       \/ Relock(t) \/ Reap(t) \/ CopyFault(t)
  \/ \E q \in SqeIds : Wake(q) \/ Worker(q)

Spec == Init /\ [][Next]_vars

\* Tasks in the kernel and kworkers keep running, and the kernel's mutex hands
\* the lock to a task that waits long enough for it.  Nobody has to call ENTER,
\* no file has to become ready, no signal or timeout has to come.
Fairness ==
  /\ \A t \in Tasks : WF_vars(Submit(t)) /\ WF_vars(Wait(t)) /\ WF_vars(Reap(t))
                      /\ SF_vars(Relock(t))
  /\ \A q \in SqeIds : WF_vars(Worker(q))

FairSpec == Spec /\ Fairness

-----------------------------------------------------------------------------
(* Properties.                                                             *)

TypeOK ==
  /\ cq \in Seq(Cqe)
  /\ reserved \in Nat
  /\ inflight \in Nat
  /\ slotBusy \subseteq Slots
  /\ pending \subseteq SqeIds
  /\ submitLock \in Tasks \cup {NoTask}
  /\ sqe \in Seq(Shapes) /\ Len(sqe) <= MaxSqe
  /\ phase \in [SqeIds -> Phases]
  /\ pc \in [Tasks -> Pcs]
  /\ args \in [Tasks -> Calls \cup {NoCall}]
  /\ consumed \in [Tasks -> Nat]
  /\ completed \in [Tasks -> Nat]
  /\ cur \in [Tasks -> 0..MaxSqe]
  /\ res \in [Tasks -> Results]
  /\ prey \in [Tasks -> 0..MaxSqe]
  /\ reaped \in Seq(Cqe)

\* Consumed SQEs still owed a completion, and reservations made for an SQE that
\* is still being read.
Owed == {q \in SqeIds : phase[q] \in Unanswered}
Reading == {t \in Tasks : pc[t] = "read"}

\* Admission control (doc/Notes.md, "CQ overflow"): there is exactly one
\* reservation for each completion still owed, by whichever task, worker or
\* CANCEL it will be posted, and queued plus reserved never exceeds the queue,
\* so `post' always finds room.
AdmissionControl ==
  /\ reserved = Cardinality(Owed) + Cardinality(Reading)
  /\ Len(cq) + reserved <= CqEntries

\* Deferred operations, from before they are queued until they complete.
Counted ==
  {q \in SqeIds : \/ phase[q] \in {"queued", "armed", "unpolled", "running", "retired"}
                  \/ /\ phase[q] = "submitting"
                     /\ \E t \in Tasks :
                          /\ cur[t] = q
                          /\ pc[t] \in {"register", "enqueue", "arm", "unregister", "uncount"}}

\* `inflight' is zero exactly when no completion can arrive any more, which is
\* what `quiescent' makes of it: an operation that failed to queue, a poll
\* answered at once and one a CANCEL retires are each uncounted exactly once.
InflightExact == inflight = Cardinality(Counted)

\* The operations that own their slot now.
SlotHolders ==
  {q \in 1..Len(sqe) :
     \/ Kind(q) = "slot" /\ phase[q] \in {"queued", "running", "retired"}
     \/ \E t \in Tasks :
          /\ cur[t] = q
          /\ \/ Kind(q) = "path" /\ pc[t] = "path"
             \/ Kind(q) = "slot" /\ pc[t] \in {"count", "register", "enqueue", "unregister",
                                              "uncount", "unwind"}}

\* Kernel-enforced slot exclusivity (doc/Notes.md, "Security rules"): a slot is
\* busy exactly while one operation owns it, never two, and an operation whose
\* completion userspace can see owns none.
SlotExclusion ==
  /\ slotBusy = {sqe[q].slot : q \in SlotHolders}
  /\ \A q, r \in SlotHolders : sqe[q].slot = sqe[r].slot => q = r

\* `reap' peeks, copies outside the lock and pops: what it pops is what it
\* copied, though workers post and other tasks reap in between.
PopsWhatItCopied ==
  \A t \in Tasks :
    pc[t] = "copy" => cq # <<>> /\ Head(cq) = [sqe |-> cur[t], res |-> res[t]]

Answers == reaped \o cq

\* A CANCEL that reports success has retired its target first: the target's own
\* completion, ECANCELED, is ahead of it in the queue.
CancelledBeforeCancel ==
  \A i \in 1..Len(Answers) :
    Kind(Answers[i].sqe) = "cancel" /\ Answers[i].res = "ok" =>
      \E j \in 1..(i - 1) :
        /\ Answers[j].res = "ECANCELED"
        /\ UserData[Answers[j].sqe] = sqe[Answers[i].sqe].aim

\* CANCEL answers ENOENT only when nothing with that user_data is in flight: an
\* operation a worker is running, or one whose completion is about to be
\* posted, is EALREADY (the comment on the end of `run').
NoFalseEnoent ==
  [][\A t \in Tasks :
       pc[t] = "dispatch" /\ res'[t] = "ENOENT" =>
         ~ \E q \in SqeIds : /\ UserData[q] = sqe[cur[t]].aim
                             /\ phase[q] \in Unanswered \ {"submitting"}]_vars

\* A notify_all is on its way.
NotifyPending ==
  \/ \E q \in SqeIds : phase[q] = "posted"
  \/ \E t \in Tasks : pc[t] = "notify"

\* What `complete' has posted, for a worker or a CANCEL.  What `submit' posts
\* itself it tells nobody: every inline answer, a poll answered at once among
\* them.
Announced ==
  {i \in 1..Len(cq) :
     \/ cq[i].res = "ECANCELED"
     \/ cq[i].res = "ok" /\ Kind(cq[i].sqe) \in {"delay", "slot", "poll"}}

\* No lost wake-up of `complete': while a task sleeps in `wait', fewer than it
\* asked for of what workers and CANCELs posted is in the queue without a
\* notify_all on its way, whoever else submits, reaps and waits.
NoLostWakeup ==
  \A t \in Tasks :
    pc[t] = "asleep" /\ Cardinality(Announced) >= args[t].min => NotifyPending

\* "Notified by every completion, inline or deferred" (the comment on cq_wait):
\* nobody sleeps on completions that are in the queue.
EveryCompletionWakes ==
  \A t \in Tasks : pc[t] = "asleep" /\ Len(cq) >= args[t].min => NotifyPending

\* The ring keeps the contract: one completion for each SQE, in order, and a
\* queue that never overflows.
Sqes(cqes) == [i \in 1..Len(cqes) |-> cqes[i].sqe]

Contract == INSTANCE RingContract
  WITH Capacity <- CqEntries, MaxOps <- MaxSqe,
       accepted <- Len(sqe), owed <- Owed, queue <- Sqes(cq), taken <- Sqes(reaped)

ImplementsContract == Contract!RingSpec

\* Nobody will wake it: its condition holds and that was not announced, or it
\* waits for a poll whose file is not ready.
LeftAsleep(t) ==
  /\ pc[t] = "asleep" /\ Cardinality(Announced) < args[t].min
  /\ Satisfied(t) \/ \E q \in SqeIds : phase[q] = "armed"

\* The ring comes to an end of what it is asked, whatever fails: every ENTER
\* returns but one that is left asleep, and every SQE is answered but a poll
\* whose file is not ready.  No timeout and no signal comes to help.
RingMovesOn ==
  /\ \A t \in Tasks : []<>(pc[t] = "user") \/ <>[]LeftAsleep(t)
  /\ \A q \in SqeIds : []<>(phase[q] \notin Unanswered) \/ <>[](phase[q] = "armed")
=============================================================================
