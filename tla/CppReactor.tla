----------------------------- MODULE CppReactor -----------------------------
(***************************************************************************)
(* The C++ runtime's reactor (cpp/src/reactor.cpp, exec.cpp).  It has the  *)
(* slab, the operations' states and the drop rules of the Rust one, and    *)
(* this module keeps their definitions; what differs is the pump:          *)
(*                                                                         *)
(*  - one ENTER to a turn, with the whole batch;                           *)
(*  - an operation dropped while queued leaves the slab at once, and its   *)
(*    SQE is left out of the batch because its cookie names nothing;       *)
(*  - a frame is resumed by the pump that reaped its completion, so that   *)
(*    none is destroyed between the two;                                   *)
(*  - any error of ENTER puts the batch back.                              *)
(*                                                                         *)
(* CppSpec is the runtime of a process that gets no signals.  A signal     *)
(* that interrupts the wait is an error of ENTER: SignalSpec adds it.      *)
(***************************************************************************)
EXTENDS Reactor

CONSTANT CqSpace        \* the completions one ENTER may write (cq_.size()), at least 1

-----------------------------------------------------------------------------
(* A variant with one plausible mistake, as in Reactor.                    *)

\* What the kernel consumed stays queued.
WholeBatch == turn.batch

-----------------------------------------------------------------------------
\* op_awaiter's destructor, on an operation the kernel never saw.
CppDropQueued(c) ==
  /\ entries[c.index].state = "Queued"
  /\ RemoveEntry(c)
  /\ pool' = pool \cup Freed(entries[c.index].slot)
  /\ UNCHANGED <<pending, serial>>

\* A frame destroyed with an operation under way.
CppDrop(c) ==
  /\ thread = "tasks" /\ ready = {} /\ c \in futures /\ Names(c)
  /\ CppDropQueued(c) \/ DropLive(c)
  /\ futures' = futures \ {c}
  /\ UNCHANGED <<kernel, inflight, ready, hands, thread, turn>>

\* ready_batch.
CppBatch == Retained(pending, {sqe \in PendingSqes : Names(sqe.ud)})

\* Executor::turn: a frame that yielded, to wait for a slot, makes it not wait.
CppBeginTurn(wait, capped) ==
  /\ thread = "tasks" /\ ready = {}
  /\ pending # <<>> \/ inflight # 0 \/ ~wait
  /\ ~wait => pool = {} /\ futures # {}
  /\ capped => wait
  /\ pending' = <<>>
  /\ thread' = "enter"
  /\ turn' = [Idle EXCEPT !.batch = CppBatch, !.wait = wait, !.capped = capped]
  /\ UNCHANGED <<kernel, slab, inflight, program, serial>>

\* More SQEs than ENTER takes: EINVAL, and the batch goes back as it was.
CppRefused ==
  /\ thread = "enter" /\ Len(turn.batch) > SqEntries
  /\ pending' = turn.batch
  /\ thread' = "tasks" /\ turn' = Idle
  /\ UNCHANGED <<kernel, slab, inflight, program, serial>>

CppEnter ==
  /\ thread = "enter" /\ Len(turn.batch) <= SqEntries
  /\ thread' = "submit"
  /\ turn' = [turn EXCEPT !.want = IF turn.wait THEN 1 ELSE 0]
  /\ UNCHANGED <<kernel, slab, pending, inflight, program, serial>>

CppTakeOne ==
  /\ thread \in {"reap", "interrupted"} /\ Len(turn.cq) < CqSpace
  /\ Take
  /\ turn' = [turn EXCEPT !.cq = Append(@, Head(queue))]
  /\ UNCHANGED <<consumed, slab, pending, inflight, program, serial, thread>>

Reaped == queue = <<>> \/ Len(turn.cq) = CqSpace

\* What did not go out is for the next pump.
CppLeft == SubSeq(turn.batch, turn.sent + 1, Len(turn.batch))

CppCounted == inflight + turn.sent

CppEnterReturns ==
  /\ thread = "reap" /\ Reaped
  /\ entries' = MarkLive(entries)
  /\ inflight' = CppCounted
  /\ pending' = CppLeft
  /\ turn' = [turn EXCEPT !.batch = <<>>, !.sent = 0]
  /\ thread' = "dispatch"
  /\ UNCHANGED <<kernel, free, program, serial>>

\* A completion for an entry already taken out is passed over and not counted.
CppDispatch ==
  /\ thread = "dispatch" /\ turn.cq # <<>>
  /\ LET c == consumed[Head(turn.cq)].ud
     IN \/ Names(c) /\ (Wake(c) \/ Discard(c)) /\ inflight' = inflight - 1
        \/ Names(c) /\ Impossible(c) /\ UNCHANGED inflight
        \/ Stale(c) /\ UNCHANGED inflight
  /\ UNCHANGED <<kernel, pending, futures, hands, serial>>

CppEndTurn ==
  /\ thread = "dispatch" /\ turn.cq = <<>>
  /\ thread' = "tasks" /\ turn' = Idle
  /\ UNCHANGED <<kernel, slab, pending, inflight, program, serial>>

\* A signal: the kernel has consumed the SQEs, and reaps what there is.
CppInterrupted ==
  /\ thread = "wait" /\ ~WaitOver
  /\ thread' = "interrupted"
  /\ UNCHANGED <<kernel, slab, pending, inflight, program, serial, turn>>

\* The pump's error path: the whole batch goes back, and what was reaped is not
\* looked at.
CppEnterFails ==
  /\ thread = "interrupted" /\ Reaped
  /\ pending' = turn.batch
  /\ thread' = "tasks" /\ turn' = Idle
  /\ UNCHANGED <<kernel, slab, inflight, program, serial>>

CppNext ==
  \/ \E s \in Slots : Acquire(s) \/ Release(s)
  \/ \E slot \in Slots \cup {NilSlot} : Register(slot)
  \/ \E c \in Cookies : Resolve(c) \/ CppDrop(c)
  \/ \E wait, capped \in BOOLEAN : CppBeginTurn(wait, capped)
  \/ CppRefused \/ CppEnter \/ Submit \/ SubmitDone \/ WaitEnds \/ CppTakeOne
  \/ CppEnterReturns \/ CppDispatch \/ CppEndTurn
  \/ \E n \in 1..MaxOps : KernelAnswers(n)

CppSpec == Init /\ [][CppNext]_rvars

SignalSpec == Init /\ [][CppNext \/ CppInterrupted \/ CppEnterFails]_rvars

-----------------------------------------------------------------------------
\* The kernel is given an SQE once (doc/Notes.md on EINTR: `submitted' says what
\* must not be resubmitted): two with one cookie would be answered twice, and a
\* CANCEL would hit either.
SubmittedOnce ==
  \A m, n \in 1..accepted : consumed[m].ud = consumed[n].ud => m = n

\* Each SQE is given to the kernel once, whatever part of a batch an ENTER
\* takes, and each completion finds the operation it is for (the pump and its
\* dispatch).
OnceAndItsOwn == SubmittedOnce /\ EveryCompletionHasItsOp
=============================================================================
