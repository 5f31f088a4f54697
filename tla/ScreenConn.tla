----------------------------- MODULE ScreenConn -----------------------------
(* A program's connection to the screen daemon (rust/runtime/src/screen.rs):*)
(* its tasks make requests, one write is in flight at a time, and a pump    *)
(* files the replies by their seq.  A task makes its calls in rounds; of    *)
(* the calls of one round the first to end wins, and race drops the others. *)
(* The executor and the write are Exec's and Reactor's, here as little as   *)
(* the connection needs: a queue of woken tasks, and a write that lands in  *)
(* pieces, each of them an operation.                                       *)
EXTENDS Integers, Sequences, FiniteSets, SequencesExt

CONSTANTS Tasks,
          Calls,         \* <<task, number>>
          Parked,        \* calls that wait for a key: they may go unanswered
          Programs,      \* what the tasks may do: each of them a sequence of
                         \* sequences of calls
          Pieces         \* WRITEs that a frame takes

ASSUME PiecesAssumption == Pieces \in Nat \ {0}

VARIABLES rounds,        \* what is left of each task's program
          stage,         \* where each call is
          token,         \* Conn::writing
          senders, wakers, replies, dead,   \* Conn's other fields
          ready,         \* tasks that are woken
          turn,          \* calls of the first of them still to be polled
          op, piece,     \* each call's WRITE, and the piece it is of
          wire,          \* pieces of frames, as the daemon gets them
          toRead,        \* replies in the socket
          answered, up   \* calls the daemon has answered; it is there

conn == <<token, senders, wakers, replies, dead>>
exec == <<rounds, ready, turn>>
socket == <<op, piece, wire, toRead, answered, up>>
vars == <<stage, conn, exec, socket>>

Owner(k) == k[1]

Init ==
  /\ rounds \in Programs
  /\ stage = [k \in Calls |-> "new"]
  /\ token = FALSE /\ senders = <<>> /\ wakers = {} /\ replies = {} /\ dead = FALSE
  /\ ready = SetToSeq(Tasks) /\ turn = <<>>
  /\ op = [k \in Calls |-> "none"] /\ piece = [k \in Calls |-> 1]
  /\ wire = <<>> /\ toRead = {} /\ answered = {} /\ up = TRUE

\* Tasks that are woken: once in the queue, whoever wakes them.
Woken(q, ts) == q \o SetToSeq({t \in ts : t \notin ToSet(q)})

-----------------------------------------------------------------------------
(* The executor.                                                            *)

Start(t) ==
  /\ turn = <<>> /\ ready # <<>> /\ t = Head(ready)
  /\ ready' = Tail(ready)
  /\ turn' = IF rounds[t] = <<>> THEN <<>> ELSE Head(rounds[t])
  /\ UNCHANGED <<rounds, stage, conn, socket>>

Polled(k) == turn # <<>> /\ k = Head(turn)

\* Poll::Pending.
Pending == turn' = Tail(turn) /\ UNCHANGED rounds

\* A call ends: its round is over, and the next begins.
Ends(k, how) ==
  LET t == Owner(k) IN
  /\ stage' = [x \in Calls |->
                IF x = k THEN how
                ELSE IF x \in ToSet(Head(rounds[t])) THEN "dropped" ELSE stage[x]]
  /\ rounds' = [rounds EXCEPT ![t] = Tail(@)]
  /\ turn' = IF Len(rounds[t]) = 1 THEN <<>> ELSE rounds[t][2]

\* A call goes on in the same poll.
GoesOn(k, to) == stage' = [stage EXCEPT ![k] = to] /\ UNCHANGED <<rounds, turn>>

-----------------------------------------------------------------------------
(* send, and request_raw around it.                                         *)

Refused(k) ==
  /\ Polled(k) /\ stage[k] = "new" /\ dead
  /\ Ends(k, "failed") /\ UNCHANGED <<conn, ready, socket>>

\* The token's poll_fn; the variant takes it, whoever has it.
TakesAnyhow(k) ==
  /\ Polled(k) /\ stage[k] \in {"new", "queued"}
  /\ token' = TRUE
  /\ GoesOn(k, "writing")
  /\ UNCHANGED <<senders, wakers, replies, dead, ready, socket>>

Takes(k) ==
  /\ Polled(k) /\ (stage[k] = "queued" \/ (stage[k] = "new" /\ ~dead))
  /\ dead \/ ~token
  /\ token' = TRUE
  /\ GoesOn(k, "writing")
  /\ UNCHANGED <<senders, wakers, replies, dead, ready, socket>>

Queues(k) ==
  /\ Polled(k) /\ (stage[k] = "queued" \/ (stage[k] = "new" /\ ~dead))
  /\ ~dead /\ token
  /\ senders' = Append(senders, Owner(k))
  /\ stage' = [stage EXCEPT ![k] = "queued"]
  /\ Pending /\ UNCHANGED <<token, wakers, replies, dead, ready, socket>>

\* The next WRITE of the frame.
Writes(k) ==
  /\ Polled(k) /\ stage[k] = "writing" /\ op[k] = "none" /\ ~dead
  /\ op' = [op EXCEPT ![k] = "flight"]
  /\ Pending /\ UNCHANGED <<stage, conn, ready, piece, wire, toRead, answered, up>>

StillWriting(k) ==
  /\ Polled(k) /\ stage[k] = "writing" /\ op[k] = "flight"
  /\ Pending /\ UNCHANGED <<stage, conn, ready, socket>>

NextPiece(k) ==
  /\ Polled(k) /\ stage[k] = "writing" /\ op[k] = "landed" /\ piece[k] < Pieces
  /\ piece' = [piece EXCEPT ![k] = @ + 1] /\ op' = [op EXCEPT ![k] = "flight"]
  /\ Pending /\ UNCHANGED <<stage, conn, ready, wire, toRead, answered, up>>

\* The one that finishes wakes the next.
Release ==
  /\ token' = FALSE
  /\ senders' = IF senders = <<>> THEN <<>> ELSE Tail(senders)

\* Variant: nobody is woken.
NoSender == {}

NextSender == IF senders = <<>> THEN {} ELSE {Head(senders)}

Sent(k) ==
  /\ Polled(k) /\ stage[k] = "writing" /\ op[k] = "landed" /\ piece[k] = Pieces
  /\ Release /\ ready' = Woken(ready, NextSender)
  /\ GoesOn(k, "sent")
  /\ UNCHANGED <<wakers, replies, dead, socket>>

\* kill, by a sender after its Release, or by the pump.
Kill(q) ==
  /\ dead' = TRUE /\ wakers' = {} /\ senders' = <<>>
  /\ ready' = Woken(q, {Owner(k) : k \in wakers} \cup ToSet(senders))
  /\ UNCHANGED replies

SendFails(k) ==
  /\ Polled(k) /\ stage[k] = "writing"
  /\ \/ op[k] = "refused"
     \/ op[k] = "none" /\ dead
  /\ token' = FALSE /\ Kill(Woken(ready, NextSender))
  /\ Ends(k, "failed") /\ UNCHANGED socket

Answered(k) ==
  /\ Polled(k) /\ stage[k] = "sent" /\ k \in replies
  /\ replies' = replies \ {k}
  /\ Ends(k, "done")
  /\ UNCHANGED <<token, senders, wakers, dead, ready, socket>>

Unanswered(k) ==
  /\ Polled(k) /\ stage[k] = "sent" /\ k \notin replies /\ dead
  /\ Ends(k, "failed") /\ UNCHANGED <<conn, ready, socket>>

Waits(k) ==
  /\ Polled(k) /\ stage[k] = "sent" /\ k \notin replies /\ ~dead
  /\ wakers' = wakers \cup {k}
  /\ Pending /\ UNCHANGED <<stage, token, senders, replies, dead, ready, socket>>

Poll(k) ==
  \/ Refused(k) \/ Takes(k) \/ Queues(k) \/ Writes(k) \/ StillWriting(k) \/ NextPiece(k)
  \/ Sent(k) \/ SendFails(k) \/ Answered(k) \/ Unanswered(k) \/ Waits(k)

\* pump, when its read has returned: replies, or that the daemon has gone.
Pump ==
  /\ ~dead /\ turn = <<>>
  /\ \/ /\ toRead # {}
        /\ toRead' = {} /\ replies' = replies \cup toRead /\ wakers' = wakers \ toRead
        /\ ready' = Woken(ready, {Owner(k) : k \in wakers \cap toRead})
        /\ UNCHANGED <<token, senders, dead>>
     \/ toRead = {} /\ ~up /\ Kill(ready) /\ UNCHANGED <<token, toRead>>
  /\ UNCHANGED <<rounds, stage, turn, op, piece, wire, answered, up>>

-----------------------------------------------------------------------------
(* The kernel, and the daemon.                                              *)

\* A WRITE is done, also one whose call was dropped: its task is not woken.
OpEnds(k, how) ==
  /\ op' = [op EXCEPT ![k] = how]
  /\ ready' = IF stage[k] = "writing" THEN Woken(ready, {Owner(k)}) ELSE ready
  /\ UNCHANGED <<rounds, stage, conn, turn, piece, toRead, answered, up>>

Lands(k) ==
  /\ op[k] = "flight" /\ up
  /\ wire' = Append(wire, <<k, piece[k]>>) /\ OpEnds(k, "landed")

Refuses(k) == op[k] = "flight" /\ ~up /\ OpEnds(k, "refused") /\ UNCHANGED wire

Reply(k) ==
  /\ up /\ k \notin answered /\ <<k, Pieces>> \in ToSet(wire)
  /\ answered' = answered \cup {k} /\ toRead' = toRead \cup {k}
  /\ UNCHANGED <<stage, conn, exec, op, piece, wire, up>>

HangUp == up /\ up' = FALSE /\ UNCHANGED <<stage, conn, exec, op, piece, wire, toRead, answered>>

-----------------------------------------------------------------------------
Program == (\E t \in Tasks : Start(t)) \/ (\E k \in Calls : Poll(k))
Kernel(k) == Lands(k) \/ Refuses(k)

Next == Program \/ Pump \/ HangUp \/ \E k \in Calls : Kernel(k) \/ Reply(k)

\* The executor polls what is woken, the pump among it; the kernel completes
\* what it was given; and the daemon answers what does not wait for a key.
Fairness ==
  /\ WF_vars(Program) /\ SF_vars(Pump)
  /\ \A k \in Calls : WF_vars(Kernel(k))
  /\ \A k \in Calls \ Parked : WF_vars(Reply(k))

Spec == Init /\ [][Next]_vars /\ Fairness
-----------------------------------------------------------------------------
(* Properties.                                                              *)

\* "Exactly one write is in flight on the socket": frames are whole on the wire,
\* and none begins before the last has ended, whatever race drops.
WholeFrames ==
  /\ Cardinality({k \in Calls : op[k] = "flight"}) <= 1
  /\ \A i \in 1..Len(wire) :
       LET before == IF i = 1 THEN <<{}, Pieces>> ELSE wire[i - 1] IN
       IF wire[i][2] = 1 THEN before[2] = Pieces
       ELSE before = <<wire[i][1], wire[i][2] - 1>>

\* A task that only waits for a key: its frame has gone out whole, and the daemon
\* is there.
WaitsForKey(t) ==
  /\ up /\ rounds[t] # <<>>
  /\ \E k \in ToSet(Head(rounds[t])) \cap Parked : stage[k] = "sent" /\ k \notin answered

Dropped == \E k \in Calls : stage[k] = "dropped"

\* "A sender that finds one in flight parks; the one that finishes wakes the
\* next": as long as no call is dropped, each ends, answered or refused, unless
\* it waits for a key; and that too when the daemon goes.
Settled == Dropped \/ \A t \in Tasks : rounds[t] = <<>> \/ WaitsForKey(t)

RequestsEnd == <>[]Settled
=============================================================================
