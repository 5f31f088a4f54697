------------------------------ MODULE MCBeside ------------------------------
(* Parts that stand beside the ring, in one run: KoruHandles, the handle    *)
(* table; Std, the Rust library's standard streams; ScreenServer, the       *)
(* screen daemon; ScreenSpawn, how it is started.  A behaviour is one of    *)
(* one of them, and the variables of the others stay as they are.           *)
EXTENDS KoruHandles, ScreenServer, ScreenSpawn, Std

CONSTANTS painter, reader

VARIABLE part

\* One program has a byte channel beside its frames.
MCConns == {<<painter, "frames">>, <<painter, "bytes">>, <<reader, "frames">>}

\* What a part that is not run starts with is fixed; and of the daemons it does
\* not matter which left its socket behind.
MCInit ==
  /\ part \in {"handles", "std", "server", "spawn"}
  /\ Init /\ StdInit /\ ServerInit /\ SpawnInit
  /\ part # "std" => usable = [i \in Streams |-> TRUE]
  /\ path \in {{}, {CHOOSE d \in Daemons : TRUE}} /\ (part # "spawn" => path = {})

HandlesStep ==
  part = "handles" /\ Next /\ UNCHANGED <<part, stdVars, serverVars, spawnVars>>
StdStep ==
  part = "std" /\ CarefulNext /\ UNCHANGED <<part, vars, serverVars, spawnVars>>
ServerStep ==
  part = "server" /\ ServerNext /\ UNCHANGED <<part, vars, stdVars, spawnVars>>
SpawnStep ==
  part = "spawn" /\ SpawnNext /\ UNCHANGED <<part, vars, stdVars, serverVars>>

MCSpec ==
  MCInit /\ [][HandlesStep \/ StdStep \/ ServerStep \/ SpawnStep]_
              <<part, vars, stdVars, serverVars, spawnVars>>
=============================================================================
