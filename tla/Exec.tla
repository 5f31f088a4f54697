-------------------------------- MODULE Exec --------------------------------
(* The executor of the Rust runtime (rust/runtime/src/exec.rs) under the    *)
(* futures of future.rs, race (combinator.rs) and acquire (ops.rs), driven  *)
(* by block_on, run and shutdown.  The reactor below it is module Reactor;  *)
(* here an operation is queued, live, posted by the kernel, or reaped.      *)
(*                                                                         *)
(* A poll is one step: the task goes from one await to the next.  What it  *)
(* awaits is the program's choice, and so is when it ends.                 *)
EXTENDS Integers, FiniteSets, Sequences, SequencesExt

CONSTANTS Tasks,        \* tasks a program may spawn
          Root,         \* ROOT, the future block_on was given; not one of Tasks
          Scripts,      \* which of block_on and run a program calls, in order
          Slots,        \* slots in the pool
          MaxAwaits     \* bound: what all tasks together await

VARIABLES script,       \* calls to make, the present one first
          phase,        \* of the executor's loop
          ready,        \* the ready queue
          todo,         \* what is left of the batch take_ready returned
          at,           \* what each future awaits; "unborn" and "gone" without one
          op,           \* the one or two operations a future has
          bFirst,       \* race: which side the last poll took first
          stray,        \* operations no future holds, and CANCELs
          free, holds,  \* slots in the pool, and futures with one
          awaits

vars == <<script, phase, ready, todo, at, op, bFirst, stray, free, holds, awaits>>

All == Tasks \cup {Root}
Sides == {1, 2}
NoOps == [k \in Sides |-> "none"]
Alive == {t \in All : at[t] \notin {"unborn", "gone"}}

Init ==
  /\ script \in Scripts /\ phase = "idle"
  /\ \E t \in Tasks :                           \* one is spawned before
       /\ ready = <<t>>
       /\ at = [u \in All |-> IF u = t THEN "go" ELSE "unborn"]
  /\ todo = <<>>
  /\ op = [t \in All |-> NoOps]
  /\ bFirst = [t \in All |-> FALSE]
  /\ stray = [dead |-> 0, queued |-> 0, live |-> 0, posted |-> 0]
  /\ free = Slots /\ holds = {}
  /\ awaits = 0

\* wake_by_ref and mark_ready: a queue push, unless it is queued already.
Pushed(q, t) == IF Contains(q, t) THEN q ELSE Append(q, t)
AllPushed(q, s) == FoldLeft(Pushed, q, s)

Count(states) == Cardinality({p \in All \X Sides : op[p[1]][p[2]] \in states})
Queued == Count({"queued"}) + stray.dead + stray.queued
Inflight == Count({"live", "posted"}) + stray.live + stray.posted

-----------------------------------------------------------------------------
(* A poll.  The task is at the head of the batch.                           *)

Polling(t) == phase = "poll" /\ todo # <<>> /\ Head(todo) = t
Taken == todo' = Tail(todo) /\ UNCHANGED <<script, phase>>

Landed(t) == {k \in Sides : op[t][k] = "ready"}

\* What the future awaited has come.
CanGoOn(t) ==
  \/ at[t] = "go"
  \/ at[t] \in {"op", "race"} /\ Landed(t) # {}

\* Of two that landed, the side that is polled first.
Side(t) ==
  LET first == IF at[t] = "race" /\ ~bFirst[t] THEN 2 ELSE 1
  IN IF op[t][first] = "ready" THEN first ELSE 3 - first

\* What the drop of an operation leaves behind: a queued one loses its SQE at
\* the next flush, to a live one a CANCEL is sent.
Dropped(s, o) ==
  CASE o = "queued" -> [s EXCEPT !.dead = @ + 1]
    [] o = "live" -> [s EXCEPT !.live = @ + 1, !.queued = @ + 1]
    [] o = "posted" -> [s EXCEPT !.posted = @ + 1, !.queued = @ + 1]
    [] OTHER -> s

\* The result's slot is dropped before anything else is awaited; the loser of
\* a race is, too.
Behind(t) ==
  IF Landed(t) # {} THEN Dropped(stray, op[t][3 - Side(t)]) ELSE stray
FreeThen(t) == free + IF t \in holds THEN 1 ELSE 0

\* The future of an id that is gone, or that is not ready, stays as it is.
\* acquire wakes its own task.
PollPending(t) ==
  /\ Polling(t) /\ ~CanGoOn(t)
  /\ at[t] = "slot" => free = 0
  /\ ready' = IF at[t] = "slot" THEN Pushed(ready, t) ELSE ready
  /\ bFirst' = IF at[t] = "race" THEN [bFirst EXCEPT ![t] = ~@] ELSE bFirst
  /\ Taken /\ UNCHANGED <<at, op, stray, free, holds, awaits>>

\* acquire has got one, and the operation goes into the batch with it.
PollSlot(t) ==
  /\ Polling(t) /\ at[t] = "slot" /\ free > 0
  /\ free' = free - 1 /\ holds' = holds \cup {t}
  /\ at' = [at EXCEPT ![t] = "op"]
  /\ op' = [op EXCEPT ![t] = [NoOps EXCEPT ![1] = "queued"]]
  /\ Taken /\ UNCHANGED <<ready, bFirst, stray, awaits>>

\* To the next await, with a task spawned on the way or not.  Operations are
\* registered by the poll that first awaits them.
PollOn(t) ==
  /\ Polling(t) /\ CanGoOn(t) /\ awaits < MaxAwaits
  /\ awaits' = awaits + 1
  /\ stray' = Behind(t)
  /\ \E await \in {"op", "slot", "race", "friend", "go"}, new \in {{}} \cup {{u} : u \in Tasks} :
       /\ \A u \in new : at[u] = "unborn"
       /\ LET got == await = "slot" /\ FreeThen(t) > 0 IN
          /\ at' = [u \in All |-> IF u = t THEN IF got THEN "op" ELSE await
                                  ELSE IF u \in new THEN "go" ELSE at[u]]
          /\ free' = FreeThen(t) - IF got THEN 1 ELSE 0
          /\ holds' = (holds \ {t}) \cup IF got THEN {t} ELSE {}
          /\ op' = [op EXCEPT ![t] =
               [k \in Sides |-> IF await = "race" \/ (k = 1 /\ (await = "op" \/ got))
                                THEN "queued" ELSE "none"]]
          /\ bFirst' = [bFirst EXCEPT ![t] = FALSE]
          /\ ready' = AllPushed(ready, SetToSeq(new) \o
                                IF await = "go" \/ (await = "slot" /\ ~got) THEN <<t>> ELSE <<>>)
  /\ Taken

\* The future is done, and those that wait for it are woken.  The root's end
\* is that of block_on, which leaves what is left of its batch.
PollDone(t) ==
  /\ Polling(t) /\ CanGoOn(t)
  /\ LET friends == {u \in All : at[u] = "friend"} IN
     /\ at' = [u \in All |-> IF u = t THEN "gone" ELSE IF u \in friends THEN "go" ELSE at[u]]
     /\ ready' = AllPushed(ready, SetToSeq(friends))
  /\ stray' = Behind(t)
  /\ op' = [op EXCEPT ![t] = NoOps]
  /\ free' = FreeThen(t) /\ holds' = holds \ {t}
  /\ IF t = Root THEN todo' = <<>> /\ phase' = "idle" /\ script' = Tail(script)
     ELSE Taken
  /\ UNCHANGED <<bFirst, awaits>>

\* A wake that came after the task's end names nothing.
PollGone(t) ==
  /\ Polling(t) /\ t \notin Alive
  /\ Taken /\ UNCHANGED <<ready, at, op, bFirst, stray, free, holds, awaits>>

Poll(t) ==
  \/ t \in Alive /\ (PollPending(t) \/ PollSlot(t) \/ PollOn(t) \/ PollDone(t))
  \/ PollGone(t)

-----------------------------------------------------------------------------
(* The loop of block_on and run.                                            *)

Loop == UNCHANGED <<op, bFirst, stray, free, holds, awaits>>

BlockOn ==
  /\ phase = "idle" /\ script # <<>> /\ Head(script) = "block_on"
  /\ at' = [at EXCEPT ![Root] = "go"]
  /\ ready' = Pushed(ready, Root)
  /\ phase' = "round" /\ UNCHANGED <<script, todo>> /\ Loop

Run ==
  /\ phase = "idle" /\ script # <<>> /\ Head(script) = "run"
  /\ phase' = "round" /\ UNCHANGED <<script, ready, todo, at>> /\ Loop

\* take_ready, before any poll: what is woken from now on is the next batch's.
TakeReady ==
  /\ phase = "round"
  /\ todo' = IF Head(script) = "run" THEN SelectSeq(ready, LAMBDA t : t # Root) ELSE ready
  /\ ready' = <<>>
  /\ phase' = "poll" /\ UNCHANGED <<script, at>> /\ Loop

\* Variant: everything that is ready is polled before the ring is looked at.
EndRoundAllPolled ==
  /\ phase = "poll" /\ todo = <<>>
  /\ IF Head(script) = "run" /\ \A t \in Tasks : t \notin Alive
     THEN phase' = "idle" /\ script' = Tail(script)
     ELSE phase' = (IF ready = <<>> THEN "pump" ELSE "round") /\ UNCHANGED script
  /\ UNCHANGED <<ready, todo, at>> /\ Loop

EndRound ==
  /\ phase = "poll" /\ todo = <<>>
  /\ IF Head(script) = "run" /\ \A t \in Tasks : t \notin Alive
     THEN phase' = "idle" /\ script' = Tail(script)
     ELSE phase' = "pump" /\ UNCHANGED script
  /\ UNCHANGED <<ready, todo, at>> /\ Loop

\* pump: the stall check, and the flush of turn.
Stalled == ready = <<>> /\ Queued = 0 /\ Inflight = 0

Flushed ==
  /\ op' = [t \in All |-> [k \in Sides |-> IF op[t][k] = "queued" THEN "live" ELSE op[t][k]]]
  /\ stray' = [stray EXCEPT !.dead = 0, !.queued = 0, !.live = @ + stray.queued]

Pump ==
  /\ phase = "pump"
  /\ IF Stalled THEN phase' = "panicked" /\ UNCHANGED <<op, stray>>
     ELSE phase' = "turn" /\ Flushed
  /\ UNCHANGED <<script, ready, todo, at, bFirst, free, holds, awaits>>

\* The kernel completes an operation.
Post(t, k) ==
  /\ op[t][k] = "live"
  /\ op' = [op EXCEPT ![t][k] = "posted"]
  /\ UNCHANGED <<script, phase, ready, todo, at, bFirst, stray, free, holds, awaits>>

PostStray ==
  /\ stray.live > 0
  /\ stray' = [stray EXCEPT !.live = @ - 1, !.posted = @ + 1]
  /\ UNCHANGED <<script, phase, ready, todo, at, op, bFirst, free, holds, awaits>>

\* ENTER returns, and dispatch wakes the tasks of what it reaped.  With
\* nothing runnable it waits, and goes round until somebody is.
Posted == Count({"posted"}) + stray.posted

Reaped ==
  /\ op' = [t \in All |-> [k \in Sides |-> IF op[t][k] = "posted" THEN "ready" ELSE op[t][k]]]
  /\ stray' = [stray EXCEPT !.posted = 0]

EndTurn ==
  /\ phase = "turn"
  /\ ready = <<>> => Posted > 0 \/ Inflight = 0
  /\ Reaped
  /\ LET woken == {t \in All : \E k \in Sides : op[t][k] = "posted"} IN
     /\ \E order \in SetToSeqs(woken) : ready' = AllPushed(ready, order)
     /\ phase' = IF ready' = <<>> /\ Inflight > Posted THEN "turn" ELSE "round"
  /\ UNCHANGED <<script, todo, at, bFirst, free, holds, awaits>>

-----------------------------------------------------------------------------
(* shutdown: the tasks are dropped, and then the ring is drained.           *)

DropTasks ==
  /\ phase = "idle" /\ script = <<>>
  /\ at' = [t \in All |-> "gone"]
  /\ stray' = [dead |-> stray.dead + Count({"queued"}), live |-> stray.live + Count({"live"}),
               posted |-> stray.posted + Count({"posted"}),
               queued |-> stray.queued + Count({"live", "posted"})]
  /\ op' = [t \in All |-> NoOps]
  /\ free' = free + Cardinality(holds) /\ holds' = {}
  /\ ready' = <<>> /\ phase' = "draining"
  /\ UNCHANGED <<script, todo, bFirst, awaits>>

Drain ==
  /\ phase = "draining"
  /\ IF Queued > 0 THEN Flushed /\ UNCHANGED phase
     ELSE IF Inflight = 0 THEN phase' = "off" /\ UNCHANGED <<op, stray>>
     ELSE Posted > 0 /\ Reaped /\ UNCHANGED phase
  /\ UNCHANGED <<script, ready, todo, at, bFirst, free, holds, awaits>>

Executor ==
  \/ \E t \in All : Poll(t)
  \/ BlockOn \/ Run \/ TakeReady \/ EndRound \/ Pump \/ EndTurn \/ DropTasks \/ Drain

Kernel == (\E t \in All, k \in Sides : Post(t, k)) \/ PostStray

Next == Executor \/ Kernel

Spec == Init /\ [][Next]_vars
FairSpec == Spec /\ WF_vars(Executor) /\ WF_vars(Kernel)
-----------------------------------------------------------------------------
(* Properties.                                                              *)

\* "every task is pending with nothing queued and nothing in flight": the
\* executor gives up only when every task waits for another one.
StallIsReal ==
  phase = "panicked" => \A t \in Alive : at[t] = "friend"

\* The program ends: a task that yields, or waits for a slot, keeps neither the
\* others nor the ring from their turn, and shutdown waits for operations nobody
\* waits for any more, until nothing is in flight.  If it is given up instead,
\* that is because every task waits for another one.
Ended ==
  \/ phase = "panicked" /\ StallIsReal
  \/ phase = "off" /\ Alive = {} /\ Inflight = 0 /\ free = Slots

Ends == <>Ended
=============================================================================
