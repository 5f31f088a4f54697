------------------------------- MODULE Reactor -------------------------------
(***************************************************************************)
(* The Rust runtime's reactor (rust/runtime/src: slab.rs, op.rs,           *)
(* reactor.rs, exec.rs) over a ring that keeps RingContract, whose         *)
(* variables are the kernel's side here.                                   *)
(*                                                                         *)
(* A future registers its operation on its first poll: an entry of the     *)
(* slab, named by a cookie of index and generation, and an SQE in          *)
(* `pending'.  One thread polls the woken tasks and then takes a turn: it  *)
(* takes the batch and calls ENTER, in chunks, until the batch is out and  *)
(* somebody is woken.  A future that is dropped leaves its entry behind    *)
(* while the kernel may still touch its slot.                              *)
(*                                                                         *)
(* The kernel answers at any moment, in any order.  It numbers the SQEs as *)
(* it consumes them; `serial' numbers them as they are registered, for the *)
(* properties only.                                                        *)
(***************************************************************************)
EXTENDS RingContract

CONSTANTS SqEntries,    \* the most SQEs one ENTER takes (sq_entries)
          Slots,        \* the arena's slots
          NilSlot,      \* what an operation without a buffer holds
          MaxSqes       \* bound: SQEs ever registered

ASSUME SqEntriesAssumption == SqEntries \in Nat \ {0}
ASSUME SlotsAssumption == IsFiniteSet(Slots) /\ NilSlot \notin Slots
ASSUME MaxSqesAssumption == MaxSqes \in Nat /\ MaxSqes <= MaxOps

VARIABLES entries,      \* the slab, one record for each index
          free,         \* its free list, the last one first to be reused
          pending,      \* SQEs for the next turn
          inflight,     \* SQEs consumed and not reaped, as the reactor counts them
          futures,      \* cookies some future still holds
          ready,        \* those whose task was woken and has not been polled since
          pool,         \* slots in the pool's free list
          hands,        \* slots the program holds
          serial,       \* SQEs registered so far
          thread,       \* where the thread is
          turn,         \* what it has in hand there
          consumed      \* the SQEs in the order the kernel consumed them

kernel == <<ringVars, consumed>>
slab == <<entries, free>>
program == <<futures, ready, pool, hands>>
rvars == <<kernel, slab, pending, inflight, program, serial, thread, turn>>

States == {"Free", "Queued", "Live", "Ready", "Abandoned", "Dead", "CancelProbe"}

\* Slab's generations start at 1: no live cookie is zero.
NoCookie == [index |-> 0, gen |-> 0]

Idle == [batch |-> <<>>, off |-> 0, sent |-> 0, want |-> 0, woke |-> 0,
         wait |-> FALSE, capped |-> FALSE, cq |-> <<>>]

Init ==
  /\ RingInit
  /\ consumed = <<>>
  /\ entries = <<>> /\ free = <<>>
  /\ pending = <<>> /\ inflight = 0
  /\ futures = {} /\ ready = {}
  /\ pool = Slots /\ hands = {}
  /\ serial = 0
  /\ thread = "tasks" /\ turn = Idle

-----------------------------------------------------------------------------
(* The slab.                                                               *)

\* The cookie the next insertion makes: the last index freed, or a new one.
NextCookie ==
  IF free # <<>>
  THEN [index |-> free[Len(free)], gen |-> entries[free[Len(free)]].gen]
  ELSE [index |-> Len(entries) + 1, gen |-> 1]

\* The SQE of the operation inserted there.
NextSqe(aim, slot) == [ud |-> NextCookie, aim |-> aim, slot |-> slot, serial |-> serial + 1]

\* The slab after an insertion into `es'.
Inserted(es, state, slot) ==
  LET c == NextCookie
      e == [gen |-> c.gen, state |-> state, slot |-> slot, serial |-> serial + 1]
  IN IF c.index <= Len(es) THEN [es EXCEPT ![c.index] = e] ELSE Append(es, e)

\* Variant, as below: an index goes back with the generation it had.
VacantSameGen(e) == [gen |-> e.gen, state |-> "Free", slot |-> NilSlot, serial |-> 0]

FreeAfterInsertion == IF free # <<>> THEN SubSeq(free, 1, Len(free) - 1) ELSE free

\* An entry taken out: the index goes back with a new generation.
Vacant(e) == [gen |-> e.gen + 1, state |-> "Free", slot |-> NilSlot, serial |-> 0]

\* A retired cookie names nothing.
Names(c) ==
  /\ c.index \in 1..Len(entries)
  /\ entries[c.index].gen = c.gen
  /\ entries[c.index].state # "Free"

RemoveEntry(c) ==
  /\ entries' = [entries EXCEPT ![c.index] = Vacant(@)]
  /\ free' = Append(free, c.index)

\* BufSlot's drop.
Freed(slot) == IF slot = NilSlot THEN {} ELSE {slot}

-----------------------------------------------------------------------------
(* Variants with one plausible mistake each, which the specification does  *)
(* not use: they document what the properties rule out.                    *)

\* The slot of a live operation goes back when its future is dropped.
DropLiveFreesSlot(c) ==
  /\ entries[c.index].state = "Live"
  /\ serial < MaxSqes
  /\ pool' = pool \cup Freed(entries[c.index].slot)
  /\ entries' = Inserted([entries EXCEPT ![c.index].state = "Abandoned", ![c.index].slot = NilSlot],
                         "CancelProbe", NilSlot)
  /\ free' = FreeAfterInsertion
  /\ pending' = Append(pending, NextSqe(c, NilSlot))
  /\ serial' = serial + 1

\* The SQEs of dropped operations stay in the batch.
BatchWithDead == pending

\* A completion nobody waits for leaves its entry where it is.
ForgetNothing(c) == UNCHANGED <<slab, pool>>

\* The loop goes round until somebody is woken, though nobody may be.
DoneWhenWoken == turn.off = Len(turn.batch) /\ (~turn.wait \/ turn.woke > 0)

-----------------------------------------------------------------------------
(* The program, between turns: it acquires and releases slots, awaits      *)
(* operations and drops futures.                                           *)

Acquire(s) ==
  /\ thread = "tasks" /\ s \in pool
  /\ pool' = pool \ {s} /\ hands' = hands \cup {s}
  /\ UNCHANGED <<kernel, slab, pending, inflight, futures, ready, serial, thread, turn>>

Release(s) ==
  /\ thread = "tasks" /\ s \in hands
  /\ pool' = pool \cup {s} /\ hands' = hands \ {s}
  /\ UNCHANGED <<kernel, slab, pending, inflight, futures, ready, serial, thread, turn>>

\* The first poll of a future: its slot moves into the entry, and its waker too,
\* to stay there until a completion takes it.
Register(slot) ==
  /\ thread = "tasks" /\ serial < MaxSqes
  /\ slot \in hands \cup {NilSlot}
  /\ entries' = Inserted(entries, "Queued", slot)
  /\ free' = FreeAfterInsertion
  /\ pending' = Append(pending, NextSqe(NoCookie, slot))
  /\ futures' = futures \cup {NextCookie}
  /\ hands' = hands \ {slot}
  /\ serial' = serial + 1
  /\ UNCHANGED <<kernel, inflight, ready, pool, thread, turn>>

\* A later poll that finds the completion: the entry goes, its slot comes back.
\* One that does not leaves everything as it is.
Resolve(c) ==
  /\ thread = "tasks" /\ c \in futures
  /\ Names(c) /\ entries[c.index].state = "Ready"
  /\ RemoveEntry(c)
  /\ hands' = hands \cup Freed(entries[c.index].slot)
  /\ futures' = futures \ {c} /\ ready' = ready \ {c}
  /\ UNCHANGED <<kernel, pending, inflight, pool, serial, thread, turn>>

\* Future::drop.  The kernel never saw a queued operation: its slot goes back,
\* the entry waits for the next turn to drop its SQE.
DropQueued(c) ==
  /\ entries[c.index].state = "Queued"
  /\ entries' = [entries EXCEPT ![c.index].state = "Dead", ![c.index].slot = NilSlot]
  /\ pool' = pool \cup Freed(entries[c.index].slot)
  /\ UNCHANGED <<free, pending, serial>>

\* The kernel may touch the slot of a live one: the entry keeps it until the
\* completion comes, which a CANCEL hurries.
DropLive(c) ==
  /\ entries[c.index].state = "Live"
  /\ serial < MaxSqes
  /\ entries' = Inserted([entries EXCEPT ![c.index].state = "Abandoned"], "CancelProbe", NilSlot)
  /\ free' = FreeAfterInsertion
  /\ pending' = Append(pending, NextSqe(c, NilSlot))
  /\ serial' = serial + 1
  /\ UNCHANGED pool

DropReady(c) ==
  /\ entries[c.index].state = "Ready"
  /\ RemoveEntry(c)
  /\ pool' = pool \cup Freed(entries[c.index].slot)
  /\ UNCHANGED <<pending, serial>>

Drop(c) ==
  /\ thread = "tasks" /\ c \in futures /\ Names(c)
  /\ DropQueued(c) \/ DropLive(c) \/ DropReady(c)
  /\ futures' = futures \ {c} /\ ready' = ready \ {c}
  /\ UNCHANGED <<kernel, inflight, hands, thread, turn>>

-----------------------------------------------------------------------------
(* A turn.                                                                 *)

\* take_batch leaves out the SQEs of operations dropped before they went out.
IsDead(sqe) == Names(sqe.ud) /\ entries[sqe.ud.index].state = "Dead"

PendingSqes == {pending[k] : k \in 1..Len(pending)}

\* What of `sqes' is in `some', in its order: SelectSeq, in a form that can be
\* reasoned about.
Retained(sqes, some) ==
  LET upTo[k \in 0..Len(sqes)] ==
        IF k = 0 THEN <<>>
        ELSE IF sqes[k] \in some THEN Append(upTo[k - 1], sqes[k]) ELSE upTo[k - 1]
  IN upTo[Len(sqes)]

TakenBatch == Retained(pending, {sqe \in PendingSqes : ~IsDead(sqe)})

TakeBatch ==
  /\ pending' = <<>>
  /\ entries' = [i \in 1..Len(entries) |->
                   IF entries[i].state = "Dead" THEN Vacant(entries[i]) ELSE entries[i]]
  /\ free' = LET dead == Retained(pending, {sqe \in PendingSqes : IsDead(sqe)})
             IN free \o [k \in 1..Len(dead) |-> dead[k].ud.index]

\* `pump', once every woken task has been polled; a task that waits for a slot
\* has woken itself, and then the turn is not to wait.  `drain', when every
\* future is gone, waits for a while only.  Neither waits for nothing: `stall'.
BeginTurn(wait, capped) ==
  /\ thread = "tasks" /\ ready = {}
  /\ pending # <<>> \/ inflight # 0
  /\ ~wait => pool = {}
  /\ capped => wait /\ futures = {}
  /\ TakeBatch
  /\ thread' = "enter"
  /\ turn' = [Idle EXCEPT !.batch = TakenBatch, !.wait = wait, !.capped = capped]
  /\ UNCHANGED <<kernel, inflight, program, serial>>

\* The chunk the next ENTER submits.
Chunk == SubSeq(turn.batch, turn.off + 1,
                IF Len(turn.batch) <= turn.off + SqEntries THEN Len(turn.batch)
                                                           ELSE turn.off + SqEntries)

\* What is in the chunk is in flight by the time the kernel looks.
Want(tail) == IF turn.wait /\ turn.woke = 0 /\ (inflight # 0 \/ tail # <<>>) THEN 1 ELSE 0

Enter ==
  /\ thread = "enter"
  /\ thread' = "submit"
  /\ turn' = [turn EXCEPT !.sent = 0, !.cq = <<>>, !.want = Want(Chunk)]
  /\ UNCHANGED <<kernel, slab, pending, inflight, program, serial>>

-----------------------------------------------------------------------------
(* ENTER, as the contract has it: SQEs are consumed while there is a place *)
(* for their completions, the wait ends when it is over, completions are   *)
(* taken one by one.                                                       *)

Submit ==
  /\ thread = "submit" /\ turn.sent < Len(Chunk)
  /\ Accept
  /\ consumed' = Append(consumed, Chunk[turn.sent + 1])
  /\ turn' = [turn EXCEPT !.sent = @ + 1]
  /\ UNCHANGED <<slab, pending, inflight, program, serial, thread>>

SubmitDone ==
  /\ thread = "submit"
  /\ turn.sent = Len(Chunk) \/ Cardinality(owed) + Len(queue) = Capacity
  /\ thread' = "wait"
  /\ UNCHANGED <<kernel, slab, pending, inflight, program, serial, turn>>

WaitOver == Len(queue) >= turn.want \/ owed = {}

GoReap ==
  /\ thread' = "reap"
  /\ UNCHANGED <<kernel, slab, pending, inflight, program, serial, turn>>

WaitEnds == thread = "wait" /\ (WaitOver \/ turn.capped) /\ GoReap

\* A signal ends the wait too: EINTR, with the writeback of any other return.
Interrupted == thread = "wait" /\ ~WaitOver /\ GoReap

TakeOne ==
  /\ thread = "reap" /\ Len(turn.cq) < Capacity
  /\ Take
  /\ turn' = [turn EXCEPT !.cq = Append(@, Head(queue))]
  /\ UNCHANGED <<consumed, slab, pending, inflight, program, serial, thread>>

\* Some completion comes about.
KernelAnswers(n) ==
  /\ Answer(n)
  /\ UNCHANGED <<consumed, slab, pending, inflight, program, serial, thread, turn>>

-----------------------------------------------------------------------------
(* Back in `turn': the consumed prefix becomes live, the completions are   *)
(* routed, and the loop decides whether to go round again.                 *)

\* on_submitted; a CANCEL's entry stays what it is.
MarkLive(es) ==
  [i \in 1..Len(es) |->
     IF es[i].state = "Queued" /\ \E k \in 1..turn.sent :
          turn.batch[turn.off + k].ud = [index |-> i, gen |-> es[i].gen]
     THEN [es[i] EXCEPT !.state = "Live"]
     ELSE es[i]]

Counted == inflight + turn.sent

\* The queue was empty, or the array is full.
EnterReturns ==
  /\ thread = "reap"
  /\ queue = <<>> \/ Len(turn.cq) = Capacity
  /\ entries' = MarkLive(entries)
  /\ inflight' = Counted
  /\ turn' = [turn EXCEPT !.off = @ + turn.sent]
  /\ thread' = "dispatch"
  /\ UNCHANGED <<kernel, free, pending, program, serial>>

\* Somebody waits for this one: its task is woken.
Wake(c) ==
  /\ entries[c.index].state = "Live"
  /\ entries' = [entries EXCEPT ![c.index].state = "Ready"]
  /\ ready' = ready \cup {c}
  /\ turn' = [turn EXCEPT !.cq = Tail(@), !.woke = @ + 1]
  /\ UNCHANGED <<free, pool, thread>>

\* Nobody does: the entry goes, and only now its slot goes back.
Forget(c) == RemoveEntry(c) /\ pool' = pool \cup Freed(entries[c.index].slot)

Discard(c) ==
  /\ entries[c.index].state \in {"Abandoned", "CancelProbe"}
  /\ Forget(c)
  /\ turn' = [turn EXCEPT !.cq = Tail(@)]
  /\ UNCHANGED <<ready, thread>>

\* A completion for an operation that cannot have one panics.
Impossible(c) ==
  /\ entries[c.index].state \in {"Queued", "Ready", "Dead"}
  /\ thread' = "panicked"
  /\ UNCHANGED <<slab, ready, pool, turn>>

\* A retired cookie's completion is passed over.
Stale(c) ==
  /\ ~Names(c)
  /\ turn' = [turn EXCEPT !.cq = Tail(@)]
  /\ UNCHANGED <<slab, ready, pool, thread>>

Dispatch ==
  /\ thread = "dispatch" /\ turn.cq # <<>>
  /\ inflight' = IF inflight = 0 THEN 0 ELSE inflight - 1
  /\ LET c == consumed[Head(turn.cq)].ud
     IN \/ Names(c) /\ (Wake(c) \/ Discard(c) \/ Impossible(c))
        \/ Stale(c)
  /\ UNCHANGED <<kernel, pending, futures, hands, serial>>

\* Everything is out, and there is nothing to wait for or no need to.
Done ==
  /\ turn.off = Len(turn.batch)
  /\ ~turn.wait \/ turn.woke > 0 \/ inflight = 0

\* The ring had no place, and nothing is in flight that could make one.
Stuck == turn.sent = 0 /\ turn.off < Len(turn.batch) /\ inflight = 0

GoRound ==
  /\ thread = "dispatch" /\ turn.cq = <<>>
  /\ ~Done /\ ~Stuck
  /\ thread' = "enter"
  /\ UNCHANGED <<kernel, slab, pending, inflight, program, serial, turn>>

\* What did not go out goes back to the head of the queue.
Requeued == SubSeq(turn.batch, turn.off + 1, Len(turn.batch)) \o pending

EndTurn ==
  /\ thread = "dispatch" /\ turn.cq = <<>>
  /\ Done \/ Stuck
  /\ pending' = Requeued
  /\ thread' = "tasks" /\ turn' = Idle
  /\ UNCHANGED <<kernel, slab, inflight, program, serial>>

-----------------------------------------------------------------------------
Cookies == {[index |-> i, gen |-> entries[i].gen] : i \in 1..Len(entries)}

\* What the thread does of itself, with its tasks' futures first.
ThreadStep ==
  \/ \E c \in Cookies : Resolve(c)
  \/ \E wait, capped \in BOOLEAN : BeginTurn(wait, capped)
  \/ Enter \/ Submit \/ SubmitDone \/ WaitEnds \/ TakeOne \/ EnterReturns
  \/ Dispatch \/ GoRound \/ EndTurn

Next ==
  \/ ThreadStep
  \/ Interrupted
  \/ \E s \in Slots : Acquire(s) \/ Release(s)
  \/ \E slot \in Slots \cup {NilSlot} : Register(slot)
  \/ \E c \in Cookies : Drop(c)
  \/ \E n \in 1..MaxOps : KernelAnswers(n)

Spec == Init /\ [][Next]_rvars

\* The executor's loop runs, and the kernel answers what it owes.
FairSpec ==
  /\ Spec
  /\ WF_rvars(ThreadStep)
  /\ \A n \in 1..MaxOps : WF_rvars(KernelAnswers(n))

-----------------------------------------------------------------------------
Sqe == [ud : [index : 1..MaxSqes, gen : 1..(MaxSqes + 1)],
        aim : {NoCookie} \cup [index : 1..MaxSqes, gen : 1..(MaxSqes + 1)],
        slot : Slots \cup {NilSlot}, serial : 1..MaxSqes]

Entry == [gen : 1..(MaxSqes + 1), state : States, slot : Slots \cup {NilSlot},
          serial : 0..MaxSqes]

TypeOK ==
  /\ RingTypeOK
  /\ consumed \in Seq(Sqe) /\ Len(consumed) = accepted
  /\ entries \in Seq(Entry) /\ Len(entries) <= MaxSqes
  /\ free \in Seq(1..Len(entries))
  /\ {i \in 1..Len(entries) : entries[i].state = "Free"} = {free[k] : k \in 1..Len(free)}
  /\ \A j, k \in 1..Len(free) : free[j] = free[k] => j = k
  /\ pending \in Seq(Sqe) /\ inflight \in 0..Capacity
  /\ ready \subseteq futures /\ futures \subseteq Cookies
  /\ pool \subseteq Slots /\ hands \subseteq Slots
  /\ serial \in 0..MaxSqes
  /\ thread \in {"tasks", "enter", "submit", "wait", "reap", "dispatch", "panicked"}
  /\ turn.off \in 0..Len(turn.batch) /\ turn.batch \in Seq(Sqe)

\* Where a slot is: in the pool, in the program's hands, or in one entry.
EntriesHolding(s) == {i \in 1..Len(entries) : entries[i].slot = s}

\* While the kernel owes a completion the operation's entry keeps its slot,
\* dropped future or not (the comment on Inner::abandon).
KernelKeepsItsSlot ==
  \A n \in owed :
    consumed[n].slot # NilSlot =>
      \E i \in EntriesHolding(consumed[n].slot) : entries[i].serial = consumed[n].serial

\* No slot is lost and none is in two places: what the pool hands out nobody
\* else has (the comment on BufSlot, exclusively owned), the kernel least of all.
SlotsConserved ==
  /\ \A s \in Slots :
       Cardinality(EntriesHolding(s)) + (IF s \in pool THEN 1 ELSE 0)
                                      + (IF s \in hands THEN 1 ELSE 0) = 1
  /\ KernelKeepsItsSlot

\* No completion comes for an operation that was not submitted, twice for one,
\* or after its entry was taken (the panic in `dispatch').
EveryCompletionHasItsOp ==
  /\ thread # "panicked"
  /\ \A n \in owed \cup {queue[k] : k \in 1..Len(queue)} :
       /\ Names(consumed[n].ud)
       /\ entries[consumed[n].ud.index].serial = consumed[n].serial

\* A CANCEL names its target by cookie.  Whatever the kernel has under that
\* cookie when it comes, early or late, is the operation whose future was
\* dropped, never one that took its index over.
CancelsOnlyTheDropped ==
  \A n \in owed, m \in owed :
    consumed[n].aim # NoCookie /\ consumed[m].ud = consumed[n].aim =>
      entries[consumed[m].ud.index].state = "Abandoned"

\* A cookie, as long as anybody has it, is of the operation it was made for.
CookiesNameTheirOps == EveryCompletionHasItsOp /\ CancelsOnlyTheDropped

\* Every operation leaves the slab: its future is resolved, or it was dropped
\* and its slot has gone back.
EveryOpEnds ==
  \A n \in 1..MaxSqes :
    (\E i \in 1..Len(entries) : entries[i].serial = n)
      ~> (\A i \in 1..Len(entries) : entries[i].serial # n)

\* A turn that has woken somebody, or may not wait, comes to its end.
TurnEnds == thread # "tasks" ~> thread = "tasks"
=============================================================================
