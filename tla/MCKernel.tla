------------------------------- MODULE MCKernel -------------------------------
(* What the kernel does beside its queues, in one run: an instance of       *)
(* KoruOp, operations that are deferred or wait for a poll; one of          *)
(* KoruPath, operations on paths; one of KoruWait, the timeout of ENTER;    *)
(* and one of KoruArena, SETUP, mmap and the bytes.  A behaviour is one of  *)
(* the four, and the variables of the others stay as they are.              *)
EXTENDS KoruOp, KoruPath, KoruWait, KoruArena

VARIABLE part

(* KoruPath: two directories on one mount and one on another.               *)

\* Fields that a kind does not read are fixed.  What only looks is done in the
\* first directory, and only a rename tries to reach the other mount.
MCSubmissions ==
  {x \in [kind : {"attr", "statx", "readlink", "mkdir", "symlink", "remove", "rename"},
           dir : Dirs, to : Dirs, plain : BOOLEAN] :
     /\ x.dir # 3
     /\ x.kind \in {"attr", "statx", "readlink", "symlink"} => x.dir = 1
     /\ x.kind # "rename" => x.to = x.dir
     /\ ~x.plain => x.kind = "remove" /\ x.dir = 1}

MCMountOf == [n \in Dirs |-> IF n = 3 THEN "m2" ELSE "m1"]

(* KoruWait and KoruArena.                                                  *)

MCTimeouts == 0..MaxTime

R(size, count) == [sq_entries |-> 1, cq_entries |-> 0, slot_size |-> size, slot_count |-> count]
O(kind, slot, off, length, file) ==
  [kind |-> kind, slot |-> slot, off |-> off, len |-> length, file |-> file]

Regular == [regular |-> TRUE, nonblock |-> FALSE, reads |-> TRUE, writes |-> TRUE, seeks |-> TRUE]
Socket == [Regular EXCEPT !.regular = FALSE, !.nonblock = TRUE, !.seeks = FALSE]
Terminal == [Socket EXCEPT !.nonblock = FALSE]

MCRequests == {R(4, 2), R(2, 1), R(3, 2), R(4, 0)}

\* A read and a write that cross a page, the read past the end of the file; an
\* offset that a socket would ignore, and a write that may block for good; a
\* gather across a page, and one of a range that wraps round; an answer that is
\* cut short, and one that is not aligned; a READDIR that its buffer cuts short,
\* one that goes on from there, and one that its buffer cannot even begin.
MCSqes ==
  {O("read", 1, 0, 4, Regular), O("read", 1, 1, 3, Socket),
   O("write", 0, 0, 3, Socket), O("write", 0, 0, 3, Terminal),
   O("gather", 0, 1, 1, Regular), O("gather", 1, 1, 3, Regular), O("gather", 0, 6, 2, Regular),
   O("answer", 1, 2, 1, Regular), O("answer", 0, 1, 2, Regular),
   O("readdir", 1, 0, 3, Regular), O("readdir", 1, 3, 4, Regular), O("readdir", 0, 0, 1, Regular)}

MCDirectory == <<[reclen |-> 2, named |-> TRUE], [reclen |-> 1, named |-> FALSE],
                 [reclen |-> 1, named |-> TRUE], [reclen |-> 2, named |-> TRUE]>>

(* One of them moves.                                                       *)

MCInit ==
  /\ part \in {"op", "path", "wait", "arena"}
  /\ Init /\ PathInit /\ WaitInit /\ ArenaInit
  /\ part # "wait" => timeout = 0 /\ min = 1 /\ inflight = 0

OpStep(A) == part = "op" /\ A /\ UNCHANGED <<part, pathVars, waitVars, arenaVars>>
PathStep(A) == part = "path" /\ A /\ UNCHANGED <<part, vars, waitVars, arenaVars>>
WaitStep(A) == part = "wait" /\ A /\ UNCHANGED <<part, vars, pathVars, arenaVars>>
ArenaStep(A) == part = "arena" /\ A /\ UNCHANGED <<part, vars, pathVars, waitVars>>

all == <<part, vars, pathVars, waitVars, arenaVars>>

\* Of a behaviour one part moves, so that a step of either of two parts is a step
\* of the one that does, and one condition says of both that they are fair.
MCSpec ==
  /\ MCInit /\ [][OpStep(Next) \/ PathStep(PathNext) \/ WaitStep(WaitNext) \/ ArenaStep(ArenaNext)]_all
  /\ WF_all(OpStep(Submit)) /\ WF_all(OpStep(Release))
  /\ \A q \in Ops : WF_all(OpStep(WakeQueues(q))) /\ WF_all(OpStep(Run(q)))
  /\ \A t \in Tasks : WF_all(PathStep(PathRunning(t)))
  /\ \A t \in Tasks : SF_all(PathStep(Locking(t)) \/ ArenaStep(Syscall(t)))
  /\ \A w \in Workers : SF_all(ArenaStep(Worker(w)))
=============================================================================
