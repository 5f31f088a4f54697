-------------------------------- MODULE Std ---------------------------------
(* The standard streams of the Rust library (rust/runtime/src/file.rs from  *)
(* `The standard streams' on, and what rt.rs has to do with them).          *)
(*                                                                         *)
(* A stream is a slot with one File in it.  A call takes the File out, has  *)
(* it across its awaits, and puts it back; naming a stream fills its slot   *)
(* when it is empty.  Bytes are numbered as the calls that write them.      *)
EXTENDS Integers, Sequences, FiniteSets, SequencesExt

CONSTANTS Tasks, Root, Hook,   \* Root is one of Tasks, its end the program's; Hook is at_exit's
          Cap,                 \* bytes a File's block holds
          MaxCalls             \* bound: calls made

\* The hook is no task, and a block has a size.
ASSUME StdAssumption == Hook \notin Tasks /\ Cap \in Nat

VARIABLES slot,     \* STD: the stream's File, or None
          named,    \* streams of which the program has a Std
          armed,    \* HOOKED
          usable,   \* whether the handle behind the stream can be used
          call,     \* the call each task, or the hook, is in
          phase,    \* 0 running, then the stream the hook is to visit, then Over
          out,      \* what came out of each stream
          given,    \* bytes a File of the stream took in
          lost,     \* bytes that went with a dropped call or a failed unbuffered one
          due,      \* bytes given when the program returned
          calls

stdVars == <<slot, named, armed, usable, call, phase, out, given, lost, due, calls>>

Streams == 0..2
Outputs == {1, 2}
Over == 4

None == [how |-> "none", held |-> <<>>, err |-> FALSE, there |-> FALSE]
Fresh(i) == [None EXCEPT !.how = <<"full", "auto", "none">>[i + 1], !.there = TRUE]
NoCall == [op |-> "none", on |-> 0, pc |-> "none", byte |-> 0, file |-> None]

InHand(i) == {t \in DOMAIN call : call[t].file.there /\ call[t].on = i}

\* A file, a descriptor that is non-blocking, or one that /proc lets us open
\* again so; else the kernel refuses every use of the handle.
Usable(fd) == fd.regular \/ fd.nonblock \/ fd.reopens

Descriptors == [regular : BOOLEAN, nonblock : BOOLEAN, reopens : BOOLEAN]

\* install: nothing named, and the descriptors 0 to 2 adopted.
StdInit ==
  /\ slot = [i \in Streams |-> None]
  /\ named = {} /\ armed = FALSE
  /\ usable \in {[i \in Streams |-> i # 1 \/ Usable(fd)] : fd \in Descriptors}
  /\ call = [t \in Tasks \cup {Hook} |-> NoCall]
  /\ phase = 0
  /\ out = [i \in Outputs |-> <<>>]
  /\ given = [i \in Outputs |-> {}] /\ lost = {} /\ due = {}
  /\ calls = 0

\* Tasks run while block_on drives the program or the hook.
Live == phase = 0 \/ call[Hook] # NoCall

Running(t) == (t = Root => phase = 0) /\ call[t] = NoCall
Counted == calls < MaxCalls /\ calls' = calls + 1

-----------------------------------------------------------------------------
(* A stream is named.                                                       *)

\* Variant: the hook is left to another call.
ArmLater(i) == UNCHANGED armed

Arm(i) == armed' = (armed \/ i # 0)

\* File::stdin, stdout and stderr: Std::build.
Name(t, i) ==
  /\ Running(t)
  /\ i \notin named \/ ~slot[i].there
  /\ slot' = IF slot[i].there THEN slot ELSE [slot EXCEPT ![i] = Fresh(i)]
  /\ named' = named \cup {i}
  /\ Arm(i)
  /\ UNCHANGED <<usable, call, phase, out, given, lost, due, calls>>

-----------------------------------------------------------------------------
(* A call.  Where the slot is empty its answer is Again, and nothing else.  *)

Take(i) == slot' = [slot EXCEPT ![i] = None]

Give(i, f) == slot' = [slot EXCEPT ![i] = f]

Reading == [NoCall EXCEPT !.op = "get", !.pc = "read"]

\* Puts f back, which ends t's call, or what a read of stdin does first.
End(t, f) ==
  /\ Give(call[t].on, f)
  /\ call' = [call EXCEPT ![t] = IF @.op = "get" THEN Reading ELSE NoCall]

\* The error sticks.  What was not buffered is not kept.
Failed(f) == [f EXCEPT !.err = TRUE, !.held = IF f.how = "none" THEN <<>> ELSE @]

Holds(f, b) == [f EXCEPT !.held = Append(@, b)]
Accept(i, b) == given' = [given EXCEPT ![i] = @ \cup {b}]

\* The calls that do not await find the slot full, or do nothing.
SetBuffering(t, i) ==
  /\ Running(t) /\ i \in named /\ slot[i].there
  /\ \E how \in {"none", "line", "full"} : Give(i, [slot[i] EXCEPT !.how = how])
  /\ UNCHANGED <<named, armed, usable, call, phase, out, given, lost, due, calls>>

\* The fast half of put and write: the call does not await, and the File is
\* back before another task runs.
WriteFast(t, i) ==
  /\ Running(t) /\ i \in named /\ slot[i].there /\ Counted
  /\ ~slot[i].err /\ slot[i].how = "full" /\ Len(slot[i].held) < Cap
  /\ Give(i, Holds(slot[i], calls'))
  /\ Accept(i, calls')
  /\ UNCHANGED <<named, armed, usable, call, phase, out, lost, due>>

\* The slow half begins: Auto asks what is behind the handle, and a full block
\* is written out.
WriteSlow(t, i) ==
  /\ Running(t) /\ i \in named /\ slot[i].there /\ Counted
  /\ ~slot[i].err /\ (slot[i].how = "full" => Len(slot[i].held) >= Cap)
  /\ Take(i)
  /\ call' = [call EXCEPT ![t] = [op |-> "write", on |-> i, byte |-> calls', file |-> slot[i],
                                  pc |-> IF slot[i].how = "auto" THEN "probe" ELSE "body"]]
  /\ UNCHANGED <<named, armed, usable, phase, out, given, lost, due>>

Probe(t) ==
  /\ call[t].pc = "probe"
  /\ \E how \in {"line", "full"} :
       call' = [call EXCEPT ![t].pc = "body", ![t].file.how = how]
  /\ UNCHANGED <<slot, named, armed, usable, phase, out, given, lost, due, calls>>

\* The byte goes in where there is room; unless the File is fully buffered it
\* goes on out.
Body(t) ==
  LET c == call[t]
      f == Holds(c.file, c.byte)
  IN /\ c.pc = "body"
     /\ IF c.file.how # "none" /\ Len(c.file.held) >= Cap
        THEN /\ call' = [call EXCEPT ![t].pc = "drain"]
             /\ UNCHANGED <<slot, given>>
        ELSE /\ Accept(c.on, c.byte)
             /\ IF c.file.how = "full" THEN End(t, f)
                ELSE /\ call' = [call EXCEPT ![t].pc = "drain", ![t].byte = 0, ![t].file = f]
                     /\ UNCHANGED slot
     /\ UNCHANGED <<named, armed, usable, phase, out, lost, due, calls>>

Flush(t, i) ==
  /\ Running(t) /\ i \in named /\ slot[i].held # <<>> /\ Counted
  /\ Take(i)
  /\ call' = [call EXCEPT ![t] = [op |-> "flush", on |-> i, byte |-> 0, file |-> slot[i], pc |-> "drain"]]
  /\ UNCHANGED <<named, armed, usable, phase, out, given, lost, due>>

\* A read of stdin that finds nothing buffered flushes stdout, which it names.
GetTied(t) ==
  /\ Running(t) /\ 0 \in named /\ slot[0].there /\ Counted
  /\ named' = named \cup {1} /\ Arm(1)
  /\ LET f == IF slot[1].there THEN slot[1] ELSE Fresh(1)
         quiet == f.held = <<>>
     IN /\ slot' = [slot EXCEPT ![0] = None, ![1] = IF quiet THEN f ELSE None]
        /\ call' = [call EXCEPT ![t] = IF quiet THEN Reading
             ELSE [op |-> "get", on |-> 1, byte |-> 0, file |-> f, pc |-> "drain"]]
  /\ UNCHANGED <<usable, phase, out, given, lost, due>>

Read(t) ==
  /\ call[t].pc = "read"
  /\ Give(0, Fresh(0)) /\ call' = [call EXCEPT ![t] = NoCall]
  /\ UNCHANGED <<named, armed, usable, phase, out, given, lost, due, calls>>

\* One WRITE: all of what is held, a part of it, or an error, which sticks.
Drain(t) ==
  LET c == call[t] IN
  /\ c.pc = "drain" /\ c.file.held # <<>>
  /\ \/ /\ usable[c.on]
        /\ \E n \in 1..Len(c.file.held) :
             /\ out' = [out EXCEPT ![c.on] = @ \o SubSeq(c.file.held, 1, n)]
             /\ call' = [call EXCEPT ![t].file.held = SubSeq(@, n + 1, Len(@))]
        /\ UNCHANGED <<slot, lost>>
     \/ /\ End(t, Failed(c.file))
        /\ lost' = IF c.file.how = "none" THEN lost \cup ToSet(c.file.held) ELSE lost
        /\ UNCHANGED out
  /\ UNCHANGED <<named, armed, usable, phase, given, due, calls>>

Drained(t) ==
  LET c == call[t] IN
  /\ c.pc = "drain" /\ c.file.held = <<>>
  /\ IF c.byte # 0 THEN call' = [call EXCEPT ![t].pc = "body"] /\ UNCHANGED slot
     ELSE End(t, c.file)
  /\ UNCHANGED <<named, armed, usable, phase, out, given, lost, due, calls>>

\* The future of a call is dropped where it awaits, and its File with it.
DropCalls(ts) ==
  /\ call' = [t \in DOMAIN call |-> IF t \in ts THEN NoCall ELSE call[t]]
  /\ lost' = lost \cup UNION {ToSet(call[t].file.held) : t \in ts}

Drop(t) ==
  /\ call[t] # NoCall /\ t # Hook
  /\ DropCalls({t})
  /\ UNCHANGED <<slot, named, armed, usable, phase, out, given, due, calls>>

-----------------------------------------------------------------------------
(* The end: entry returns from block_on, and shutdown runs the hook.        *)

RootReturns ==
  /\ phase = 0 /\ call[Root] = NoCall
  /\ phase' = IF armed THEN 1 ELSE Over
  /\ due' = given[1] \cup given[2]
  /\ IF armed THEN UNCHANGED <<call, lost>> ELSE DropCalls(DOMAIN call)
  /\ UNCHANGED <<slot, named, armed, usable, out, given, calls>>

\* Std(i).flush() for each output; that the File is in use, or a failure, is
\* no reason to wait.  Then the tasks are dropped.
HookFlush ==
  /\ phase \in 1..2 /\ call[Hook] = NoCall
  /\ \E i \in phase..2 :
       /\ slot[i].held # <<>> /\ \A j \in phase..(i - 1) : slot[j].held = <<>>
       /\ Take(i) /\ phase' = i + 1
       /\ call' = [call EXCEPT ![Hook] = [op |-> "flush", on |-> i, byte |-> 0,
                                          file |-> slot[i], pc |-> "drain"]]
  /\ UNCHANGED <<named, armed, usable, out, given, lost, due, calls>>

HookDone ==
  /\ phase \in 1..3 /\ call[Hook] = NoCall
  /\ \A i \in phase..2 : slot[i].held = <<>>
  /\ phase' = Over
  /\ DropCalls(DOMAIN call)
  /\ UNCHANGED <<slot, named, armed, usable, out, given, due, calls>>

Step(t) ==
  \/ \E i \in Streams : Name(t, i)
  \/ \E i \in Outputs : SetBuffering(t, i) \/ WriteFast(t, i) \/ WriteSlow(t, i) \/ Flush(t, i)
  \/ Probe(t) \/ Body(t) \/ GetTied(t) \/ Read(t) \/ Drop(t)

StdNext ==
  \/ Live /\ \E t \in Tasks : Step(t) \/ Drain(t) \/ Drained(t)
  \/ Drain(Hook) \/ Drained(Hook)
  \/ RootReturns \/ HookFlush \/ HookDone

StdSpec == StdInit /\ [][StdNext]_stdVars

\* The programs that name a stream, and read stdin, only while nobody has the
\* stream's File, or stdout's, in hand.
NobodyElse ==
  \A i \in Streams : slot'[i].there =>
    \A t \in InHand(i) : ~(call'[t].file.there /\ call'[t].on = i)

CarefulNext == StdNext /\ NobodyElse

CarefulSpec == StdInit /\ [][CarefulNext]_stdVars

-----------------------------------------------------------------------------
(* Properties.                                                              *)

FilesOf(i) == {call[t].file : t \in InHand(i)} \cup {slot[i]}

\* Tasks that share a stream do not corrupt it: a byte that was taken in is
\* out or in a File of the stream, until its call is dropped; bytes come out
\* once and in the order they went in; and what was in when the program
\* returned is out when it has ended, unless its call was dropped, the stream
\* failed, or it was in another task's hands.
NothingLost ==
  \A i \in Outputs :
    /\ given[i] \ lost \subseteq ToSet(out[i]) \cup UNION {ToSet(f.held) : f \in FilesOf(i)}
    /\ \A m, n \in DOMAIN out[i] : m < n => out[i][m] < out[i][n]
    /\ phase = Over /\ ~slot[i].err => (due \cap given[i]) \ lost \subseteq ToSet(out[i])

=============================================================================
