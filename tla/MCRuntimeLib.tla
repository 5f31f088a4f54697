---------------------------- MODULE MCRuntimeLib ----------------------------
(* Instances of ScreenConn, of Exec and of File in one run: a behaviour is  *)
(* one of one of them, and the variables of the others stay as they are.    *)
EXTENDS ScreenConn, File

CONSTANTS painter, waiter, other,
          Spawned, Root, Scripts, Slots, MaxAwaits

VARIABLES part,
          script, phase, awake, todo, at, holding, bFirst, stray, free, holds, awaits

E == INSTANCE Exec WITH Tasks <- Spawned, ready <- awake, op <- holding

execVars == <<script, phase, awake, todo, at, holding, bFirst, stray, free, holds, awaits>>

\* A task makes two calls, one after the other or as the sides of a race, and
\* the first of them waits for a key; two other tasks make one each.
MCCalls == {<<painter, 1>>, <<painter, 2>>, <<waiter, 1>>, <<other, 1>>}
MCParked == {<<painter, 1>>}
MCCalling(first) ==
  [t \in {painter, waiter, other} |-> IF t = painter THEN first ELSE <<<<<<t, 1>>>>>>]
MCPrograms == {MCCalling(<<<<<<painter, 1>>>>, <<<<painter, 2>>>>>>),
               MCCalling(<<<<<<painter, 1>>, <<painter, 2>>>>>>)}

\* A program calls block_on once, or run, or run and then block_on.
MCScripts == {<<"block_on">>, <<"run">>, <<"run", "block_on">>}

MCContents == {<<"a", "h", "t", "n">>, <<"h", "a", "h">>}
MCBytes == {<<"a">>, <<"n">>, <<"h", "t">>, <<"a", "n", "a">>}
MCSeeks == {[whence |-> "set", off |-> 1], [whence |-> "cur", off |-> -1],
            [whence |-> "cur", off |-> -4], [whence |-> "end", off |-> -1], [whence |-> "end", off |-> 1]}

\* What the part that is not run starts with is fixed.
MCInit ==
  /\ part \in {"exec", "file", "conn"}
  /\ Init /\ E!Init /\ FileInit
  /\ part # "exec" => script = <<"run">> /\ awake = <<CHOOSE t \in Spawned : TRUE>>
  /\ part # "file" => ~seekable /\ how = "none" /\ content = <<"h", "a", "h">>
  /\ part # "conn" => Len(rounds[painter]) = 1

ConnStep(A) == part = "conn" /\ A /\ UNCHANGED <<part, execVars, fileVars>>
ExecStep(A) == part = "exec" /\ A /\ UNCHANGED <<part, vars, fileVars>>
FileStep(A) == part = "file" /\ A /\ UNCHANGED <<part, vars, execVars>>

all == <<part, vars, execVars, fileVars>>

MCSpec ==
  /\ MCInit /\ [][ConnStep(Next) \/ ExecStep(E!Next) \/ FileStep(FileNext)]_all
  /\ WF_all(ExecStep(E!Executor)) /\ WF_all(ExecStep(E!Kernel)) /\ WF_all(FileStep(Step))
  /\ WF_all(ConnStep(Program)) /\ SF_all(ConnStep(Pump))
  /\ \A k \in Calls : WF_all(ConnStep(Kernel(k)))
  /\ \A k \in Calls \ Parked : WF_all(ConnStep(Reply(k)))

\* Ends, CallsReturn and RequestsEnd, each in the behaviours that are its module's:
\* Exec's program ends for good, File's calls return, ScreenConn's requests end.
ProgramsEnd ==
  []<>(\/ part = "exec" /\ E!Ended
       \/ part = "file" /\ call.op = "none"
       \/ part = "conn" /\ Settled)
=============================================================================
