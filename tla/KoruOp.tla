------------------------------- MODULE KoruOp -------------------------------
(***************************************************************************)
(* The life of deferred operations (OpWork, kernel/koru_ops.rs): who holds *)
(* a reference to one, who owns its teardown, and what `release', the last *)
(* close of the ring's fd, does to those still in flight.  Module KoruRing *)
(* has what they do to the queue, and takes their memory for granted.      *)
(*                                                                         *)
(* An OpWork is an Arc: `refs' is its count, and the operation is freed    *)
(* when it falls to 0.  enqueue_delayed, or the arm of a poll, leaks one   *)
(* reference, the credit, that `run' reclaims; whoever keeps `run' from    *)
(* being called reclaims it instead.  An armed poll can be finished by the *)
(* wake callback, by the ENTER that arms it, by a CANCEL and by `release': *)
(* a one-shot token, won by cmpxchg, says which.                           *)
(*                                                                         *)
(* The submitter is the task that holds submit_lock.  The VFS calls        *)
(* `release' when no ioctl is in progress.  A wake callback holds its      *)
(* waitqueue's lock, which the disarm takes, from the claim of the token   *)
(* to the queueing of the work.                                            *)
(***************************************************************************)
EXTENDS Naturals, FiniteSets

CONSTANTS Ops,          \* the operations ever submitted
          Polls,        \* those that are POLL_ADD; the others go to the workqueue
          NoOp,         \* what an idle submitter has in hand
          MayFail       \* whether an allocation or an enqueue may fail

ASSUME OpsAssumption == IsFiniteSet(Ops) /\ Polls \subseteq Ops /\ NoOp \notin Ops
ASSUME SwitchAssumption == MayFail \in BOOLEAN

VARIABLES refs,         \* strong references to each OpWork
          life,         \* unborn, live, freed
          registry,     \* RingCtx::pending
          work,         \* each operation's work item
          token,        \* PollState::token
          waitq,        \* operations whose entry is on a file's waitqueue
          waking,       \* those whose wake callback has won the token and not queued yet
          at,           \* where the submitter is
          hand,         \* the operation it has in hand
          fd,           \* where the ring's fd is in its life
          visit,        \* the registered operations cancel_all has yet to visit
          drained,      \* those it has taken out of the registry
          ringRefs,     \* strong references to the RingCtx
          modRefs,      \* references to the module
          answers       \* completions posted for each operation

submitter == <<at, hand>>
poll == <<token, waitq, waking>>
close == <<fd, visit, drained>>
memory == <<refs, life, ringRefs, modRefs>>
vars == <<memory, registry, work, poll, submitter, close, answers>>

\* idle, on the workqueue or its timer, and the places `run' stops at.
WorkStates == {"idle", "queued", "disarm", "complete", "unregister", "drop", "over"}
Running == {"disarm", "complete", "unregister", "drop"}

Init ==
  /\ refs = [q \in Ops |-> 0]
  /\ life = [q \in Ops |-> "unborn"]
  /\ registry = {}
  /\ work = [q \in Ops |-> "idle"]
  /\ token = [q \in Ops |-> "armed"]
  /\ waitq = {} /\ waking = {}
  /\ at = "idle" /\ hand = NoOp
  /\ fd = "open" /\ visit = {} /\ drained = {}
  /\ ringRefs = 1
  /\ modRefs = 1
  /\ answers = [q \in Ops |-> 0]

Goto(label) == at' = label /\ UNCHANGED hand

Answer(q) == answers' = [answers EXCEPT ![q] = @ + 1]

\* One reference fewer.  The last one frees the operation: PinnedDrop puts the
\* module, and its Arc of the ring is dropped.
Drop(q) ==
  /\ refs' = [refs EXCEPT ![q] = @ - 1]
  /\ IF refs[q] = 1
     THEN /\ life' = [life EXCEPT ![q] = "freed"]
          /\ modRefs' = modRefs - 1
          /\ ringRefs' = ringRefs - 1
     ELSE UNCHANGED <<life, modRefs, ringRefs>>

\* The list's reference goes with the entry, if it is still there.
Unregister(q) ==
  /\ registry' = registry \ {q}
  /\ IF q \in registry THEN Drop(q) ELSE UNCHANGED memory

-----------------------------------------------------------------------------
(* Variants with one plausible mistake each, which no specification uses:  *)
(* they document what the properties rule out.                             *)

\* The submitter answers a ready poll whoever has the token.
ClaimRegardless ==
  /\ at = "claim"
  /\ token' = [token EXCEPT ![hand] = "taken"]
  /\ Goto("disarm")
  /\ UNCHANGED <<memory, registry, work, waitq, waking, close, answers>>

\* `run' completes a fired poll and leaves its entry on the waitqueue.
RunDisarmForgotten(q) ==
  /\ work[q] = "disarm" /\ q \notin waking
  /\ work' = [work EXCEPT ![q] = "complete"]
  /\ UNCHANGED <<memory, registry, poll, submitter, close, answers>>

\* CANCEL does not reclaim the credit of what it dequeues.
CancelKeepsCredit(q) ==
  /\ fd = "open" /\ at = "idle"
  /\ q \in registry
  /\ IF q \in Polls THEN token[q] = "armed" ELSE work[q] = "queued"
  /\ token' = [token EXCEPT ![q] = "taken"]
  /\ waitq' = waitq \ {q}
  /\ work' = [work EXCEPT ![q] = "over"]
  /\ registry' = registry \ {q}
  /\ at' = "complete" /\ hand' = q
  /\ UNCHANGED <<memory, waking, close, answers>>

\* release drops the ring without emptying the registry: the cycle keeps both.
SwapForgotten ==
  /\ fd = "swap"
  /\ fd' = "drain"
  /\ UNCHANGED <<memory, registry, work, poll, submitter, visit, drained, answers>>

-----------------------------------------------------------------------------
(* alloc_op and defer.                                                     *)

\* module_get_live, before the allocation.
Begin(q) ==
  /\ fd = "open" /\ at = "idle"
  /\ life[q] = "unborn" /\ answers[q] = 0
  /\ modRefs' = modRefs + 1
  /\ at' = "alloc" /\ hand' = q
  /\ UNCHANGED <<refs, life, ringRefs, registry, work, poll, close, answers>>

Alloc ==
  /\ at = "alloc"
  /\ refs' = [refs EXCEPT ![hand] = 1]
  /\ life' = [life EXCEPT ![hand] = "live"]
  /\ ringRefs' = ringRefs + 1
  /\ Goto("register")
  /\ UNCHANGED <<modRefs, registry, work, poll, close, answers>>

AllocFails ==
  /\ MayFail
  /\ at = "alloc"
  /\ modRefs' = modRefs - 1
  /\ at' = "idle" /\ hand' = NoOp
  /\ Answer(hand)
  /\ UNCHANGED <<refs, life, ringRefs, registry, work, poll, close>>

Register ==
  /\ at = "register"
  /\ registry' = registry \cup {hand}
  /\ refs' = [refs EXCEPT ![hand] = @ + 1]
  /\ Goto(IF hand \in Polls THEN "credit" ELSE "enqueue")
  /\ UNCHANGED <<life, ringRefs, modRefs, work, poll, close, answers>>

RegisterFails ==
  /\ MayFail
  /\ at = "register"
  /\ Goto("refuse")
  /\ UNCHANGED <<memory, registry, work, poll, close, answers>>

\* The submitter's reference is leaked: it is the credit now.
Enqueue ==
  /\ at = "enqueue"
  /\ work' = [work EXCEPT ![hand] = "queued"]
  /\ at' = "idle" /\ hand' = NoOp
  /\ UNCHANGED <<memory, registry, poll, close, answers>>

EnqueueFails ==
  /\ MayFail
  /\ at = "enqueue"
  /\ Unregister(hand)
  /\ Goto("refuse")
  /\ UNCHANGED <<work, poll, close, answers>>

\* The error is the completion; the submitter's reference goes.
Refuse ==
  /\ at = "refuse"
  /\ Drop(hand)
  /\ Answer(hand)
  /\ at' = "idle" /\ hand' = NoOp
  /\ UNCHANGED <<registry, work, poll, close>>

-----------------------------------------------------------------------------
(* poll_op.                                                                *)

\* Leaked before the arm: the callback can fire the instant the entry is queued.
Credit ==
  /\ at = "credit"
  /\ refs' = [refs EXCEPT ![hand] = @ + 1]
  /\ Goto("arm")
  /\ UNCHANGED <<life, ringRefs, modRefs, registry, work, poll, close, answers>>

\* The entry goes on the first waitqueue the file names, if it names any.  A
\* file that is ready, names none or names several is answered at once.
Arm ==
  /\ at = "arm"
  /\ \E heads \in {"none", "one", "several"}, ready \in BOOLEAN :
       /\ waitq' = IF heads = "none" THEN waitq ELSE waitq \cup {hand}
       /\ Goto(IF heads # "one" \/ ready THEN "claim" ELSE "armed")
  /\ UNCHANGED <<memory, registry, work, token, waking, close, answers>>

ClaimWon ==
  /\ at = "claim"
  /\ token[hand] = "armed"
  /\ token' = [token EXCEPT ![hand] = "taken"]
  /\ Goto("disarm")
  /\ UNCHANGED <<memory, registry, work, waitq, waking, close, answers>>

ClaimLost ==
  /\ at = "claim"
  /\ token[hand] = "taken"
  /\ Goto("armed")
  /\ UNCHANGED <<memory, registry, work, poll, close, answers>>

\* poll_disarm, under the waitqueue's lock.
SubmitDisarm ==
  /\ at = "disarm"
  /\ hand \notin waking
  /\ waitq' = waitq \ {hand}
  /\ Goto("reclaim")
  /\ UNCHANGED <<memory, registry, work, token, waking, close, answers>>

\* `run' will never be called.
Reclaim ==
  /\ at = "reclaim"
  /\ Drop(hand)
  /\ Goto("unregister")
  /\ UNCHANGED <<registry, work, poll, close, answers>>

SubmitUnregister ==
  /\ at = "unregister"
  /\ Unregister(hand)
  /\ Goto("refuse")
  /\ UNCHANGED <<work, poll, close, answers>>

\* Somebody else finishes the poll; the submitter's reference goes.
LeaveArmed ==
  /\ at = "armed"
  /\ Drop(hand)
  /\ at' = "idle" /\ hand' = NoOp
  /\ UNCHANGED <<registry, work, poll, close, answers>>

-----------------------------------------------------------------------------
(* poll_wake and run.                                                      *)

\* The file's event, for a poll whose token is still to be won.
Wake(q) ==
  /\ q \in waitq
  /\ token[q] = "armed"
  /\ token' = [token EXCEPT ![q] = "taken"]
  /\ waking' = waking \cup {q}
  /\ UNCHANGED <<memory, registry, work, waitq, submitter, close, answers>>

WakeQueues(q) ==
  /\ q \in waking
  /\ waking' = waking \ {q}
  /\ work' = [work EXCEPT ![q] = "queued"]
  /\ UNCHANGED <<memory, registry, token, waitq, submitter, close, answers>>

\* The credit is the worker's reference now.
RunStart(q) ==
  /\ work[q] = "queued"
  /\ work' = [work EXCEPT ![q] = IF q \in Polls THEN "disarm" ELSE "complete"]
  /\ UNCHANGED <<memory, registry, poll, submitter, close, answers>>

RunDisarm(q) ==
  /\ work[q] = "disarm" /\ q \notin waking
  /\ waitq' = waitq \ {q}
  /\ work' = [work EXCEPT ![q] = "complete"]
  /\ UNCHANGED <<memory, registry, token, waking, submitter, close, answers>>

RunComplete(q) ==
  /\ work[q] = "complete"
  /\ Answer(q)
  /\ work' = [work EXCEPT ![q] = "unregister"]
  /\ UNCHANGED <<memory, registry, poll, submitter, close>>

\* Not while cancel_all holds the registry's lock.
RunUnregister(q) ==
  /\ work[q] = "unregister"
  /\ fd # "cancel"
  /\ Unregister(q)
  /\ work' = [work EXCEPT ![q] = "drop"]
  /\ UNCHANGED <<poll, submitter, close, answers>>

RunDrop(q) ==
  /\ work[q] = "drop"
  /\ Drop(q)
  /\ work' = [work EXCEPT ![q] = "over"]
  /\ UNCHANGED <<registry, poll, submitter, close, answers>>

-----------------------------------------------------------------------------
(* cancel_op, and release with cancel_all.                                 *)

\* The locked part of a CANCEL that wins.  It holds a reference of its own, has
\* dropped the registry's and reclaimed the credit.  (One that is too late
\* changes nothing.)
CancelWon(q) ==
  /\ fd = "open" /\ at = "idle"
  /\ q \in registry
  /\ IF q \in Polls THEN token[q] = "armed" ELSE work[q] = "queued"
  /\ token' = [token EXCEPT ![q] = "taken"]
  /\ waitq' = waitq \ {q}
  /\ work' = [work EXCEPT ![q] = "over"]
  /\ registry' = registry \ {q}
  /\ refs' = [refs EXCEPT ![q] = @ - 1]
  /\ at' = "complete" /\ hand' = q
  /\ UNCHANGED <<life, ringRefs, modRefs, waking, close, answers>>

CancelComplete ==
  /\ at = "complete"
  /\ Answer(hand)
  /\ Goto("armed")
  /\ UNCHANGED <<memory, registry, work, poll, close>>

\* The last close: the handle table goes first, then cancel_all.
Close ==
  /\ fd = "open" /\ at = "idle"
  /\ fd' = "cancel"
  /\ visit' = registry
  /\ UNCHANGED <<memory, registry, work, poll, submitter, drained, answers>>

\* The turn of one registered operation: an armed poll is disarmed, anything
\* that is queued is dequeued, and `run' will not reclaim the credit of either.
CancelOne(q) ==
  LET armed == q \in Polls /\ token[q] = "armed" IN
  /\ fd = "cancel"
  /\ q \in visit
  /\ visit' = visit \ {q}
  /\ token' = IF armed THEN [token EXCEPT ![q] = "taken"] ELSE token
  /\ waitq' = IF armed THEN waitq \ {q} ELSE waitq
  /\ IF armed \/ work[q] = "queued"
     THEN Drop(q) /\ work' = [work EXCEPT ![q] = "over"]
     ELSE UNCHANGED <<memory, work>>
  /\ UNCHANGED <<registry, waking, submitter, fd, drained, answers>>

CancelledAll ==
  /\ fd = "cancel" /\ visit = {}
  /\ fd' = "swap"
  /\ UNCHANGED <<memory, registry, work, poll, submitter, visit, drained, answers>>

Swap ==
  /\ fd = "swap"
  /\ drained' = registry
  /\ registry' = {}
  /\ fd' = "drain"
  /\ UNCHANGED <<memory, work, poll, submitter, visit, answers>>

DropDrained(q) ==
  /\ fd = "drain"
  /\ q \in drained
  /\ drained' = drained \ {q}
  /\ Drop(q)
  /\ UNCHANGED <<registry, work, poll, submitter, fd, visit, answers>>

\* The fd's Arc of the ring, then the reference `open' took.
Released ==
  /\ fd = "drain" /\ drained = {}
  /\ fd' = "closed"
  /\ ringRefs' = ringRefs - 1
  /\ modRefs' = modRefs - 1
  /\ UNCHANGED <<refs, life, registry, work, poll, submitter, visit, drained, answers>>

-----------------------------------------------------------------------------
Submit ==
  \/ Alloc \/ AllocFails \/ Register \/ RegisterFails \/ Enqueue \/ EnqueueFails \/ Refuse
  \/ Credit \/ Arm \/ ClaimWon \/ ClaimLost \/ SubmitDisarm \/ Reclaim \/ SubmitUnregister
  \/ LeaveArmed \/ CancelComplete

Run(q) == RunStart(q) \/ RunDisarm(q) \/ RunComplete(q) \/ RunUnregister(q) \/ RunDrop(q)

Release == (\E q \in Ops : CancelOne(q) \/ DropDrained(q)) \/ CancelledAll \/ Swap \/ Released

Next ==
  \/ Submit \/ Close \/ Release
  \/ \E q \in Ops : Begin(q) \/ CancelWon(q) \/ Wake(q) \/ WakeQueues(q) \/ Run(q)

Spec == Init /\ [][Next]_vars

\* Tasks in the kernel, callbacks and kworkers run on.  Nobody has to submit,
\* to cancel or to close, and no file has to become ready.
FairSpec ==
  /\ Spec
  /\ WF_vars(Submit) /\ WF_vars(Release)
  /\ \A q \in Ops : WF_vars(WakeQueues(q)) /\ WF_vars(Run(q))

-----------------------------------------------------------------------------
(* Properties.                                                             *)

TypeOK ==
  /\ refs \in [Ops -> Nat]
  /\ life \in [Ops -> {"unborn", "live", "freed"}]
  /\ registry \subseteq Ops
  /\ work \in [Ops -> WorkStates]
  /\ token \in [Ops -> {"armed", "taken"}]
  /\ waitq \subseteq Ops /\ waking \subseteq Ops
  /\ at \in {"idle", "alloc", "register", "enqueue", "refuse", "credit", "arm", "claim",
             "disarm", "reclaim", "unregister", "armed", "complete"}
  /\ hand \in Ops \cup {NoOp}
  /\ fd \in {"open", "cancel", "swap", "drain", "closed"}
  /\ visit \subseteq Ops /\ drained \subseteq Ops
  /\ ringRefs \in Nat /\ modRefs \in Nat
  /\ answers \in [Ops -> Nat]

\* The reference that `run', or whoever keeps it from being called, reclaims.
CreditOut(q) ==
  \/ work[q] = "queued" \/ q \in waking
  \/ hand = q /\ at \in {"disarm", "reclaim"}
  \/ /\ q \in Polls /\ life[q] = "live" /\ token[q] = "armed"
     /\ ~(hand = q /\ at \in {"register", "credit", "refuse"})

\* Who holds a reference to q now.
Holders(q) ==
  {h \in {"submitter", "registry", "credit", "worker", "release"} :
     \/ h = "submitter" /\ hand = q /\ at # "alloc"
     \/ h = "registry" /\ q \in registry
     \/ h = "credit" /\ CreditOut(q)
     \/ h = "worker" /\ work[q] \in Running
     \/ h = "release" /\ q \in drained}

\* The refcount rule (doc/Notes.md, "the whole risk"): an operation's count is
\* the number of parties that hold it, so it is freed when the last lets go and
\* not before, whoever wins the races between them.  Each operation that lives
\* pins the ring, as the open fd does, and each of these, and the one that is
\* being allocated, the module: no failure path leaves rmmod wedged.
RefsExact ==
  /\ \A q \in Ops : refs[q] = Cardinality(Holders(q)) /\ (refs[q] > 0 <=> life[q] = "live")
  /\ ringRefs = Cardinality({q \in Ops : life[q] = "live"}) + (IF fd = "closed" THEN 0 ELSE 1)
  /\ modRefs = ringRefs + (IF at = "alloc" THEN 1 ELSE 0)

\* C1 at the races for the token and for the work item: no operation is
\* completed twice, and none is freed unanswered while the ring is open.
AnsweredOnce ==
  \A q \in Ops : /\ answers[q] <= 1
                 /\ life[q] = "freed" /\ fd = "open" => answers[q] = 1

\* poll_wake finds the operation from the waitqueue entry: an operation whose
\* entry is on a waitqueue is alive (the comment in cancel_all: disarm before
\* the registry goes).
WaitEntryAlive == \A q \in waitq : life[q] = "live"

\* It is so until the last close: no worker, wake callback, CANCEL or failed arm
\* frees an operation without taking its entry off the waitqueue first.
WaitEntryAliveWhileOpen == fd = "open" => WaitEntryAlive

\* The comment on release and doc/Notes.md: once the fd is closed, nothing but
\* what a worker is running keeps the module; then nothing does.  A close that
\* has begun ends, and the fd is closed for good.
ClosedUnpins == []<>(fd = "open" \/ modRefs = 0)
=============================================================================
