----------------------------- MODULE ScreenSpawn -----------------------------
(* Who starts the screen daemon: connect_or_spawn of any number of programs *)
(* (screen.rs; cpp/src/screen.cpp is its twin), the flock on the file       *)
(* beside the socket, and the daemons that come up, end and are killed      *)
(* (ks_daemon.cpp).  A try to connect is one step, at its last attempt.  No *)
(* wait is timed: each may run out at any moment.                           *)
EXTENDS Naturals, FiniteSets

CONSTANTS Clients,
          Daemons  \* bound: the daemons there may ever be

ASSUME ProcessesAssumption ==
  IsFiniteSet(Clients) /\ IsFiniteSet(Daemons) /\ Clients \cap Daemons = {}

VARIABLES pc,      \* where each client is
          lock,    \* who holds the flock, as a set of one or none
          mine,    \* the daemon each client has started, so too
          path,    \* the daemon whose socket the path names, alive or not, so too
          daemon,  \* "none", "starting", "listening", "closed" or "dead"
          mishaps  \* only counted: the times that a step has passed over another
                   \* process, and nothing in the code looks at it

spawnVars == <<pc, lock, mine, path, daemon, mishaps>>

Inside == {"again", "unlink", "spawn", "wait"}

\* A socket that a daemon left behind may be there from the start.
SpawnInit ==
  /\ pc = [c \in Clients |-> "first"]
  /\ lock = {}
  /\ mine = [c \in Clients |-> {}]
  /\ path \in {{}} \cup {{d} : d \in Daemons}
  /\ daemon = [d \in Daemons |-> IF d \in path THEN "dead" ELSE "none"]
  /\ mishaps = 0

Answers == \E d \in path : daemon[d] = "listening"

CountIf(P) == mishaps' = IF P THEN mishaps + 1 ELSE mishaps

-----------------------------------------------------------------------------
(* A client.  The lock goes with the function's return.                     *)

Return(c, how) ==
  /\ pc' = [pc EXCEPT ![c] = how]
  /\ lock' = lock \ {c}

\* try_connect finds somebody, in any of the three places.
Connects(c) ==
  /\ pc[c] \in {"first", "again", "wait"} /\ Answers
  /\ Return(c, "connected") /\ UNCHANGED <<mine, path, daemon, mishaps>>

\* The first try fails: nobody there, or one who refuses forty times.
NobodyThere(c) ==
  /\ pc[c] = "first" /\ pc' = [pc EXCEPT ![c] = "lock"]
  /\ UNCHANGED <<lock, mine, path, daemon, mishaps>>

Lock(c) ==
  /\ pc[c] = "lock" /\ lock = {} /\ lock' = {c}
  /\ pc' = [pc EXCEPT ![c] = "again"] /\ UNCHANGED <<mine, path, daemon, mishaps>>

\* Two thousand tries at another's lock, and the loop is left without it.
GoesOnWithout(c) ==
  /\ pc[c] = "lock" /\ lock # {} /\ pc' = [pc EXCEPT ![c] = "again"]
  /\ CountIf(TRUE) /\ UNCHANGED <<lock, mine, path, daemon>>

\* The second try; the variant leaves it out.
Unasked(c) ==
  /\ pc[c] = "again"
  /\ pc' = [pc EXCEPT ![c] = "unlink"]
  /\ UNCHANGED <<lock, mine, path, daemon, mishaps>>

\* It fails, and the one that refused it may be alive.
StillNobody(c) ==
  /\ pc[c] = "again" /\ pc' = [pc EXCEPT ![c] = "unlink"]
  /\ CountIf(Answers) /\ UNCHANGED <<lock, mine, path, daemon>>

\* remove_file, whatever is there by then.
Unlink(c) ==
  /\ pc[c] = "unlink" /\ path' = {} /\ CountIf(Answers /\ c \notin lock)
  /\ pc' = [pc EXCEPT ![c] = "spawn"] /\ UNCHANGED <<lock, mine, daemon>>

SpawnDaemon(c) ==
  /\ pc[c] = "spawn" /\ pc' = [pc EXCEPT ![c] = "wait"]
  /\ \E d \in Daemons :
       /\ daemon[d] = "none" /\ daemon' = [daemon EXCEPT ![d] = "starting"]
       /\ mine' = [mine EXCEPT ![c] = {d}]
  /\ UNCHANGED <<lock, path, mishaps>>

Coming(c) == {d \in mine[c] : daemon[d] = "starting"}

\* There is no lock file, the flock or the fork fails, or the wait for the daemon
\* runs out, however far that has come; or the client is killed.
GivesUp(c) ==
  /\ pc[c] \in {"lock"} \cup Inside /\ Return(c, "failed")
  /\ CountIf(Coming(c) # {}) /\ UNCHANGED <<mine, path, daemon>>

Client(c) ==
  \/ Connects(c) \/ NobodyThere(c) \/ Lock(c) \/ GoesOnWithout(c)
  \/ StillNobody(c) \/ Unlink(c) \/ SpawnDaemon(c) \/ GivesUp(c)

-----------------------------------------------------------------------------
(* A daemon.                                                                *)

\* listen_on: bound and listening under another name first, which is renamed.
Listen(d) ==
  /\ daemon[d] = "starting" /\ daemon' = [daemon EXCEPT ![d] = "listening"]
  /\ path' = {d} /\ UNCHANGED <<pc, lock, mine, mishaps>>

\* There is no window for it, or it is killed.
Dies(d) ==
  /\ daemon[d] \in {"starting", "listening", "closed"}
  /\ daemon' = [daemon EXCEPT ![d] = "dead"]
  /\ UNCHANGED <<pc, lock, mine, path, mishaps>>

\* Its window is closed, or KORU_SCREEN_ONCE has had its client.
Closes(d) ==
  /\ daemon[d] = "listening" /\ daemon' = [daemon EXCEPT ![d] = "closed"]
  /\ UNCHANGED <<pc, lock, mine, path, mishaps>>

\* The path, whosever it is by then.
Ends(d) ==
  /\ daemon[d] = "closed" /\ daemon' = [daemon EXCEPT ![d] = "dead"]
  /\ path' = {} /\ CountIf(Answers) /\ UNCHANGED <<pc, lock, mine>>

SpawnNext ==
  \/ \E c \in Clients : Client(c)
  \/ \E d \in Daemons : Listen(d) \/ Dies(d) \/ Closes(d) \/ Ends(d)

SpawnSpec == SpawnInit /\ [][SpawnNext]_spawnVars

-----------------------------------------------------------------------------
(* Properties.                                                              *)

Up(d) == daemon[d] \in {"starting", "listening"}

\* However many programs start at once, there is one window: one daemon at most
\* is coming up or listening, and the one that listens is found under the path.
\* It is so until somebody goes on without the lock, gives up a daemon that is
\* still coming up, is refused under the lock by one that lives, or takes its
\* name from it; and each time that happens costs one more window at the most.
OneDaemon ==
  /\ Cardinality({d \in Daemons : Up(d)}) <= 1 + mishaps
  /\ mishaps = 0 => \A d \in Daemons : daemon[d] = "listening" => path = {d}

\* What else holds of the processes that count against mishaps: daemons that are
\* up with neither the path nor a holder of the lock who waits for them, clients
\* on their way without the lock, and the holder that is about to start a daemon,
\* or has, while one answers.
Awaited(d) == \E c \in lock : pc[c] = "wait" /\ mine[c] = {d}
StrayDaemon(d) ==
  \/ daemon[d] = "listening" /\ path # {d}
  \/ daemon[d] = "starting" /\ ~Awaited(d)
StrayClient(c) ==
  \/ c \notin lock /\ pc[c] \in {"again", "unlink", "spawn"}
  \/ c \in lock /\ Answers /\ (pc[c] \in {"unlink", "spawn"} \/ Coming(c) # {})
Strays == {d \in Daemons : StrayDaemon(d)} \cup {c \in Clients : StrayClient(c)}
FewStrays == Cardinality(Strays) <= mishaps
=============================================================================
