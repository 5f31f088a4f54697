---------------------------- MODULE BesideProofs ----------------------------
(* Proofs about parts that stand beside the ring: ScreenSpawn's daemons;    *)
(* of ScreenServer that each frame has one reply, that claims and what is   *)
(* held for them are given back, and that prints come in their program's    *)
(* order; and of Std that tasks which take turns with a stream lose nothing. *)
EXTENDS ScreenServer, ScreenSpawn, Std, FiniteSetTheorems, SequenceTheorems, TLAPS

-----------------------------------------------------------------------------
(* Who starts the daemon.  A daemon too many has come of a process astray,  *)
(* FewStrays, and each of these of a mishap: every step leaves the strays,  *)
(* puts one in another's place, or counts the one it adds.                  *)

SpawnTypes ==
  /\ pc \in [Clients -> {"first", "lock", "connected", "failed"} \cup Inside]
  /\ lock \subseteq Clients
  /\ mine \in [Clients -> SUBSET Daemons]
  /\ path \subseteq Daemons
  /\ daemon \in [Daemons -> {"none", "starting", "listening", "closed", "dead"}]
  /\ mishaps \in Nat

LockInv ==
  /\ \A c \in lock : pc[c] \in Inside
  /\ \A c, e \in lock : c = e

MineInv ==
  /\ \A c \in Clients : mine[c] # {} => pc[c] \in {"wait", "connected", "failed"}
  /\ \A c \in Clients : \A d, e \in mine[c] : d = e
  /\ \A c \in Clients : \A d \in mine[c] : daemon[d] # "none"
  /\ \A d, e \in path : d = e

SpawnInv == SpawnTypes /\ LockInv /\ MineInv /\ FewStrays

\* Strays who go, one who comes and is counted, one who comes for another.
LEMMA FewRemain ==
  ASSUME NEW S, NEW U, IsFiniteSet(S), NEW n \in Nat, NEW m \in Nat, Cardinality(S) <= n,
         \/ U \subseteq S /\ n <= m
         \/ \E x : U \subseteq S \cup {x} /\ m = n + 1
         \/ \E x \in S : \E y : U \subseteq (S \ {x}) \cup {y} /\ n <= m
  PROVE  Cardinality(U) <= m
  <1>0. Cardinality(S) \in Nat
    BY FS_CardinalityType
  <1>1. CASE U \subseteq S /\ n <= m
    <2>1. Cardinality(U) <= Cardinality(S) /\ Cardinality(U) \in Nat
      BY <1>1, FS_Subset, FS_CardinalityType
    <2> QED
      BY <1>0, <1>1, <2>1
  <1>2. CASE \E x : U \subseteq S \cup {x} /\ m = n + 1
    <2>1. PICK x : U \subseteq S \cup {x} /\ m = n + 1
      BY <1>2
    <2>2. /\ IsFiniteSet(S \cup {x})
          /\ Cardinality(S \cup {x}) = Cardinality(S) \/ Cardinality(S \cup {x}) = Cardinality(S) + 1
      BY FS_AddElement
    <2>3. Cardinality(U) <= Cardinality(S \cup {x}) /\ Cardinality(U) \in Nat
      BY <2>1, <2>2, FS_Subset, FS_CardinalityType
    <2> QED
      BY <1>0, <2>1, <2>2, <2>3
  <1>3. CASE \E x \in S : \E y : U \subseteq (S \ {x}) \cup {y} /\ n <= m
    <2>0. PICK x \in S : \E y : U \subseteq (S \ {x}) \cup {y} /\ n <= m
      BY <1>3
    <2>1. PICK y : U \subseteq (S \ {x}) \cup {y} /\ n <= m
      BY <2>0
    <2>2. IsFiniteSet(S \ {x}) /\ Cardinality(S \ {x}) = Cardinality(S) - 1
      BY FS_RemoveElement
    <2>3. /\ IsFiniteSet((S \ {x}) \cup {y})
          /\ \/ Cardinality((S \ {x}) \cup {y}) = Cardinality(S) - 1
             \/ Cardinality((S \ {x}) \cup {y}) = Cardinality(S)
      <3> DEFINE R == S \ {x}
      <3>1. IsFiniteSet(R) /\ Cardinality(R) = Cardinality(S) - 1
        BY <2>2
      <3> HIDE DEF R
      <3>2. IsFiniteSet(R \cup {y}) /\ Cardinality(R \cup {y}) \in {Cardinality(R), Cardinality(R) + 1}
        BY <3>1, FS_AddElement
      <3>3. Cardinality(R \cup {y}) \in {Cardinality(S) - 1, Cardinality(S)}
        BY <1>0, <3>1, <3>2
      <3> QED
        BY <3>2, <3>3 DEF R
    <2>4. Cardinality(U) <= Cardinality((S \ {x}) \cup {y}) /\ Cardinality(U) \in Nat
      BY <2>1, <2>3, FS_Subset, FS_CardinalityType
    <2> QED
      BY <1>0, <2>1, <2>3, <2>4
  <1> QED
    BY <1>1, <1>2, <1>3

LEMMA StraysFinite == IsFiniteSet(Strays)
  <1>1. IsFiniteSet({d \in Daemons : StrayDaemon(d)})
    BY ProcessesAssumption, FS_Subset
  <1>2. IsFiniteSet({c \in Clients : StrayClient(c)})
    BY ProcessesAssumption, FS_Subset
  <1> QED
    BY <1>1, <1>2, FS_Union DEF Strays

\* The three again, about the strays of a step.
LEMMA StraysCounted ==
  ASSUME SpawnInv, mishaps' \in Nat,
         \/ Strays' \subseteq Strays /\ mishaps <= mishaps'
         \/ \E x : Strays' \subseteq Strays \cup {x} /\ mishaps' = mishaps + 1
         \/ \E x \in Strays : \E y : Strays' \subseteq (Strays \ {x}) \cup {y} /\ mishaps <= mishaps'
  PROVE  FewStrays'
  <1>1. mishaps \in Nat /\ Cardinality(Strays) <= mishaps
    BY DEF SpawnInv, SpawnTypes, FewStrays
  <1>2. Cardinality(Strays') <= mishaps'
    BY <1>1, StraysFinite, FewRemain
  <1> QED
    BY <1>2 DEF FewStrays

LEMMA SpawnStarts == SpawnInit => SpawnInv
  <1> SUFFICES ASSUME SpawnInit PROVE SpawnInv
    OBVIOUS
  <1>1. path \subseteq Daemons
    BY DEF SpawnInit
  <1>2. SpawnTypes /\ LockInv /\ MineInv
    BY <1>1 DEF SpawnInit, SpawnTypes, LockInv, MineInv, Inside
  <1>3. Strays = {}
    BY DEF SpawnInit, Strays, StrayDaemon, StrayClient
  <1>4. Cardinality(Strays) = 0 /\ mishaps = 0
    BY <1>3, FS_EmptySet DEF SpawnInit
  <1>5. FewStrays
    BY <1>4 DEF FewStrays
  <1> QED
    BY <1>2, <1>5 DEF SpawnInv

\* A client moves, and no daemon and no name changes: of the strays only itself
\* may change, and the daemon it waited for with the lock.
LEMMA ClientMoves ==
  ASSUME SpawnInv, NEW c \in Clients,
         NEW to \in {"first", "lock", "connected", "failed"} \cup Inside,
         pc' = [pc EXCEPT ![c] = to],
         mine[c] # {} => to \in {"wait", "connected", "failed"},
         \/ to \in Inside /\ lock' \in {lock, {c}} /\ (lock' = lock \/ lock = {})
         \/ lock' = lock \ {c},
         mine' = mine, daemon' = daemon, path' = path, mishaps' \in Nat
  PROVE  /\ (SpawnTypes /\ LockInv /\ MineInv)'
         /\ \A x \in Strays' \ Strays :
              \/ x = c /\ StrayClient(c)'
              \/ c \in lock /\ pc[c] = "wait" /\ x \in Coming(c)
         /\ Strays' \subseteq Clients \cup Daemons
  <1> USE DEF SpawnInv
  <1>1. SpawnTypes'
    BY DEF SpawnTypes, Inside
  <1>2. LockInv'
    BY DEF SpawnTypes, LockInv, Inside
  <1>3. MineInv'
    BY DEF SpawnTypes, MineInv
  <1>4. Answers' <=> Answers
    BY DEF Answers
  <1>5. ASSUME NEW e \in Clients, e # c, StrayClient(e)' PROVE StrayClient(e)
    <2>1. pc'[e] = pc[e] /\ (e \in lock' <=> e \in lock) /\ Coming(e)' = Coming(e)
      BY <1>5 DEF SpawnTypes, LockInv, Coming
    <2> QED
      BY <1>4, <1>5, <2>1 DEF StrayClient
  <1>6. ASSUME NEW d \in Daemons, StrayDaemon(d)', ~StrayDaemon(d)
        PROVE  c \in lock /\ pc[c] = "wait" /\ d \in Coming(c)
    <2>1. daemon[d] = "starting" /\ Awaited(d) /\ ~Awaited(d)'
      BY <1>6 DEF StrayDaemon
    <2>2. PICK h \in lock : pc[h] = "wait" /\ mine[h] = {d}
      BY <2>1 DEF Awaited
    <2>3. h = c
      BY <2>1, <2>2 DEF Awaited, SpawnTypes
    <2> QED
      BY <2>1, <2>2, <2>3 DEF Coming
  <1>7. \A x \in Strays' \ Strays : \/ x = c /\ StrayClient(c)'
                                    \/ c \in lock /\ pc[c] = "wait" /\ x \in Coming(c)
    BY <1>5, <1>6 DEF Strays
  <1> QED
    BY <1>1, <1>2, <1>3, <1>7 DEF Strays

LEMMA ClientStep == ASSUME SpawnInv, NEW c \in Clients, Client(c) PROVE SpawnInv'
  <1> USE DEF SpawnInv
  <1>0. mishaps \in Nat
    BY DEF SpawnTypes
  <1>1. CASE Connects(c)
    <2>1. /\ (SpawnTypes /\ LockInv /\ MineInv)'
          /\ \A x \in Strays' \ Strays :
               \/ x = c /\ StrayClient(c)'
               \/ c \in lock /\ pc[c] = "wait" /\ x \in Coming(c)
      BY <1>0, <1>1, ClientMoves DEF Connects, Return
    <2>2. ~StrayClient(c)'
      BY <1>1 DEF Connects, Return, StrayClient, SpawnTypes
    <2>3. FewStrays'
      <3>1. CASE Strays' \subseteq Strays
        BY <1>0, <1>1, <3>1, StraysCounted DEF Connects
      <3>2. ASSUME NEW x \in Strays', x \notin Strays PROVE FewStrays'
        <4>1. c \in lock /\ pc[c] = "wait" /\ x \in Coming(c)
          BY <2>1, <2>2, <3>2
        <4>2. c \in Strays
          BY <1>1, <4>1 DEF Connects, StrayClient, Strays
        <4>3. \A y \in Strays' : y \in Strays \/ y = x
          BY <2>1, <2>2, <4>1 DEF MineInv, Coming
        <4>4. c \notin Strays'
          BY <2>2, ProcessesAssumption DEF Strays
        <4>5. Strays' \subseteq (Strays \ {c}) \cup {x}
          BY <4>3, <4>4
        <4> QED
          BY <1>0, <1>1, <4>2, <4>5, StraysCounted DEF Connects
      <3> QED
        BY <3>1, <3>2
    <2> QED
      BY <2>1, <2>3
  <1>2. CASE NobodyThere(c)
    <2>1. c \notin lock
      BY <1>2 DEF NobodyThere, LockInv, Inside
    <2>2. /\ (SpawnTypes /\ LockInv /\ MineInv)'
          /\ \A x \in Strays' \ Strays :
               \/ x = c /\ StrayClient(c)'
               \/ c \in lock /\ pc[c] = "wait" /\ x \in Coming(c)
      <3>1. mine[c] = {} /\ lock' = lock \ {c}
        BY <1>2, <2>1 DEF NobodyThere, MineInv
      <3> QED
        BY <1>0, <1>2, <3>1, ClientMoves DEF NobodyThere
    <2>3. ~StrayClient(c)'
      BY <1>2, <2>1 DEF NobodyThere, StrayClient, SpawnTypes
    <2>4. Strays' \subseteq Strays
      BY <2>1, <2>2, <2>3
    <2> QED
      BY <1>0, <1>2, <2>2, <2>4, StraysCounted DEF NobodyThere
  <1>3. CASE Lock(c)
    <2>1. /\ (SpawnTypes /\ LockInv /\ MineInv)'
          /\ \A x \in Strays' \ Strays :
               \/ x = c /\ StrayClient(c)'
               \/ c \in lock /\ pc[c] = "wait" /\ x \in Coming(c)
      <3>1. mine[c] = {} /\ "again" \in Inside
        BY <1>3 DEF Lock, MineInv, Inside
      <3> QED
        BY <1>0, <1>3, <3>1, ClientMoves DEF Lock
    <2>2. ~StrayClient(c)'
      BY <1>3 DEF Lock, StrayClient, SpawnTypes, MineInv, Coming
    <2>3. Strays' \subseteq Strays
      BY <1>3, <2>1, <2>2 DEF Lock
    <2> QED
      BY <1>0, <1>3, <2>1, <2>3, StraysCounted DEF Lock
  <1>4. CASE GoesOnWithout(c)
    <2>1. c \notin lock /\ mine[c] = {} /\ "again" \in Inside
      BY <1>4 DEF GoesOnWithout, LockInv, MineInv, Inside
    <2>2. mishaps' = mishaps + 1
      BY <1>4 DEF GoesOnWithout, CountIf
    <2>3. /\ (SpawnTypes /\ LockInv /\ MineInv)'
          /\ \A x \in Strays' \ Strays :
               \/ x = c /\ StrayClient(c)'
               \/ c \in lock /\ pc[c] = "wait" /\ x \in Coming(c)
      <3>1. mishaps' \in Nat
        BY <1>0, <2>2
      <3>2. /\ pc' = [pc EXCEPT ![c] = "again"] /\ lock' = lock
            /\ mine' = mine /\ daemon' = daemon /\ path' = path
        BY <1>4 DEF GoesOnWithout
      <3> QED
        BY <2>1, <3>1, <3>2, ClientMoves
    <2>4. Strays' \subseteq Strays \cup {c}
      BY <2>1, <2>3
    <2> QED
      BY <1>0, <2>2, <2>3, <2>4, StraysCounted
  <1>5. CASE StillNobody(c)
    <2>1. mine[c] = {} /\ "unlink" \in Inside
      BY <1>5 DEF StillNobody, MineInv, Inside
    <2>2. mishaps' = (IF Answers THEN mishaps + 1 ELSE mishaps)
      BY <1>5 DEF StillNobody, CountIf
    <2>3. /\ (SpawnTypes /\ LockInv /\ MineInv)'
          /\ \A x \in Strays' \ Strays :
               \/ x = c /\ StrayClient(c)'
               \/ c \in lock /\ pc[c] = "wait" /\ x \in Coming(c)
      <3>1. mishaps' \in Nat
        BY <1>0, <2>2
      <3>2. /\ pc' = [pc EXCEPT ![c] = "unlink"] /\ lock' = lock
            /\ mine' = mine /\ daemon' = daemon /\ path' = path
        BY <1>5 DEF StillNobody
      <3> QED
        BY <2>1, <3>1, <3>2, ClientMoves
    <2>4. Strays' \subseteq Strays \cup {c}
      BY <1>5, <2>3 DEF StillNobody
    <2>5. CASE Answers
      BY <1>0, <2>2, <2>3, <2>4, <2>5, StraysCounted
    <2>6. CASE ~Answers
      <3>1. StrayClient(c)' => StrayClient(c)
        BY <1>5, <2>6 DEF StillNobody, StrayClient, Answers
      <3>2. Strays' \subseteq Strays
        BY <1>5, <2>3, <3>1 DEF StillNobody, Strays
      <3> QED
        BY <1>0, <2>2, <2>3, <2>6, <3>2, StraysCounted
    <2> QED
      BY <2>5, <2>6
  <1>6. CASE GivesUp(c)
    <2>1. mishaps' = (IF Coming(c) # {} THEN mishaps + 1 ELSE mishaps)
      BY <1>6 DEF GivesUp, CountIf
    <2>2. /\ (SpawnTypes /\ LockInv /\ MineInv)'
          /\ \A x \in Strays' \ Strays :
               \/ x = c /\ StrayClient(c)'
               \/ c \in lock /\ pc[c] = "wait" /\ x \in Coming(c)
      <3>1. mishaps' \in Nat
        BY <1>0, <2>1
      <3>2. /\ pc' = [pc EXCEPT ![c] = "failed"] /\ lock' = lock \ {c}
            /\ mine' = mine /\ daemon' = daemon /\ path' = path
        BY <1>6 DEF GivesUp, Return
      <3> QED
        BY <3>1, <3>2, ClientMoves
    <2>3. ~StrayClient(c)'
      BY <1>6 DEF GivesUp, Return, StrayClient, SpawnTypes
    <2>4. CASE Coming(c) = {}
      <3>1. Strays' \subseteq Strays
        BY <2>2, <2>3, <2>4
      <3> QED
        BY <1>0, <2>1, <2>2, <2>4, <3>1, StraysCounted
    <2>5. ASSUME NEW d \in Coming(c) PROVE SpawnInv'
      <3>1. Strays' \subseteq Strays \cup {d}
        BY <2>2, <2>3, <2>5 DEF MineInv, Coming
      <3> QED
        BY <1>0, <2>1, <2>2, <2>5, <3>1, StraysCounted
    <2> QED
      BY <2>4, <2>5
  <1>7. CASE Unlink(c)
    <2>1. /\ SpawnTypes' /\ LockInv' /\ MineInv'
          /\ mishaps' = (IF Answers /\ c \notin lock THEN mishaps + 1 ELSE mishaps)
      BY <1>7 DEF Unlink, CountIf, SpawnTypes, LockInv, MineInv, Inside
    <2>2. ASSUME NEW e \in Clients, StrayClient(e)' PROVE StrayClient(e) /\ (e = c => c \notin lock)
      <3>1. ~Answers'
        BY <1>7 DEF Unlink, Answers
      <3>2. e \notin lock /\ pc'[e] \in {"again", "unlink", "spawn"}
        BY <1>7, <2>2, <3>1 DEF Unlink, StrayClient
      <3> QED
        BY <1>7, <3>2 DEF Unlink, StrayClient, SpawnTypes
    <2>3. ASSUME NEW d \in Daemons, StrayDaemon(d)', ~StrayDaemon(d)
          PROVE  daemon[d] = "listening" /\ path = {d}
      <3>1. Awaited(d)' <=> Awaited(d)
        BY <1>7 DEF Unlink, Awaited, SpawnTypes
      <3> QED
        BY <1>7, <2>3, <3>1 DEF Unlink, StrayDaemon
    <2>4. CASE ~Answers
      <3>1. Strays' \subseteq Strays
        BY <2>2, <2>3, <2>4 DEF Strays, Answers
      <3> QED
        BY <1>0, <2>1, <2>4, <3>1, StraysCounted
    <2>5. ASSUME NEW d \in path, daemon[d] = "listening" PROVE SpawnInv'
      <3>1. path = {d} /\ Answers
        BY <2>5 DEF MineInv, Answers
      <3>2. \A x \in Strays' : x \in Strays \/ x = d
        BY <2>2, <2>3, <3>1 DEF Strays
      <3>3. CASE c \in lock
        <4>1. c \in Strays
          BY <1>7, <3>1, <3>3 DEF Unlink, Strays, StrayClient
        <4>2. c \notin Strays'
          BY <2>2, <3>3, ProcessesAssumption DEF Strays
        <4>3. Strays' \subseteq (Strays \ {c}) \cup {d}
          BY <3>2, <4>2
        <4> QED
          BY <1>0, <2>1, <3>3, <4>1, <4>3, StraysCounted
      <3>4. CASE c \notin lock
        <4>1. Strays' \subseteq Strays \cup {d}
          BY <3>2
        <4> QED
          BY <1>0, <2>1, <3>1, <3>4, <4>1, StraysCounted
      <3> QED
        BY <3>3, <3>4
    <2> QED
      BY <2>4, <2>5 DEF Answers
  <1>8. CASE SpawnDaemon(c)
    <2>1. PICK d \in Daemons : /\ daemon[d] = "none"
                               /\ daemon' = [daemon EXCEPT ![d] = "starting"]
                               /\ mine' = [mine EXCEPT ![c] = {d}]
      BY <1>8 DEF SpawnDaemon
    <2>2. /\ pc[c] = "spawn" /\ pc' = [pc EXCEPT ![c] = "wait"]
          /\ lock' = lock /\ path' = path /\ mishaps' = mishaps
      BY <1>8 DEF SpawnDaemon
    <2>3. SpawnTypes' /\ LockInv'
      BY <2>1, <2>2 DEF SpawnTypes, LockInv, Inside
    <2>4. MineInv'
      BY <2>1, <2>2 DEF SpawnTypes, MineInv
    <2>5. \A e \in Daemons : daemon'[e] = IF e = d THEN "starting" ELSE daemon[e]
      BY <2>1 DEF SpawnTypes
    <2>6. Answers' <=> Answers
      BY <2>1, <2>2, <2>5 DEF Answers, SpawnTypes
    <2>7. ASSUME NEW e \in Clients, e # c, StrayClient(e)' PROVE StrayClient(e)
      <3>1. pc'[e] = pc[e] /\ mine'[e] = mine[e]
        BY <2>1, <2>2, <2>7 DEF SpawnTypes
      <3>2. Coming(e)' = Coming(e)
        BY <2>1, <2>5, <3>1 DEF Coming, MineInv, SpawnTypes
      <3> QED
        BY <2>2, <2>6, <2>7, <3>1, <3>2 DEF StrayClient
    <2>8. ASSUME NEW e \in Daemons, e # d, StrayDaemon(e)' PROVE StrayDaemon(e)
      <3>1. Awaited(e) => Awaited(e)'
        BY <2>1, <2>2 DEF Awaited, SpawnTypes
      <3> QED
        BY <2>2, <2>5, <2>8, <3>1 DEF StrayDaemon
    <2>9. CASE c \in lock
      <3>1. Awaited(d)'
        BY <2>1, <2>2, <2>9 DEF Awaited, SpawnTypes
      <3>2. ~StrayDaemon(d)'
        BY <2>5, <3>1 DEF StrayDaemon
      <3>3. StrayClient(c)' => StrayClient(c)
        BY <2>2, <2>6, <2>9 DEF StrayClient
      <3>4. Strays' \subseteq Strays
        BY <2>7, <2>8, <3>2, <3>3 DEF Strays
      <3> QED
        BY <1>0, <2>2, <2>3, <2>4, <3>4, StraysCounted
    <2>10. CASE c \notin lock
      <3>1. c \in Strays
        BY <2>2, <2>10 DEF Strays, StrayClient
      <3>2. ~StrayClient(c)'
        BY <2>2, <2>10 DEF StrayClient, SpawnTypes
      <3>3. Strays' \subseteq (Strays \ {c}) \cup {d}
        BY <2>7, <2>8, <3>2, ProcessesAssumption DEF Strays
      <3> QED
        BY <1>0, <2>2, <2>3, <2>4, <3>1, <3>3, StraysCounted
    <2> QED
      BY <2>9, <2>10
  <1> QED
    BY <1>1, <1>2, <1>3, <1>4, <1>5, <1>6, <1>7, <1>8 DEF Client

LEMMA DaemonStep ==
  ASSUME SpawnInv, NEW d \in Daemons, Listen(d) \/ Dies(d) \/ Closes(d) \/ Ends(d)
  PROVE  SpawnInv'
  <1> USE DEF SpawnInv
  <1>1. pc' = pc /\ lock' = lock /\ mine' = mine
    BY DEF Listen, Dies, Closes, Ends
  <1>2. PICK now \in {"listening", "closed", "dead"} : daemon' = [daemon EXCEPT ![d] = now]
    BY DEF Listen, Dies, Closes, Ends
  <1>3. path' \in {path, {d}, {}}
    BY DEF Listen, Dies, Closes, Ends
  <1>4. mishaps \in Nat /\ mishaps' \in Nat
    BY DEF SpawnTypes, Listen, Dies, Closes, Ends, CountIf
  <1>5. (SpawnTypes /\ LockInv /\ MineInv)'
    BY <1>1, <1>2, <1>3, <1>4 DEF SpawnTypes, LockInv, MineInv
  <1>6. \A e \in Daemons : daemon'[e] = IF e = d THEN now ELSE daemon[e]
    BY <1>2 DEF SpawnTypes
  <1>7. \A e \in Daemons : Awaited(e)' <=> Awaited(e)
    BY <1>1 DEF Awaited
  <1>8. \A c \in Clients : Coming(c)' \subseteq Coming(c) /\ d \notin Coming(c)'
    BY <1>1, <1>6 DEF Coming, SpawnTypes
  <1>9. ASSUME NEW c \in Clients, StrayClient(c)', ~StrayClient(c)
        PROVE  c \in lock /\ Answers' /\ ~Answers
    BY <1>1, <1>8, <1>9 DEF StrayClient
  <1>10. CASE Listen(d)
    <2>1. path' = {d} /\ mishaps' = mishaps /\ daemon[d] = "starting" /\ now = "listening"
      BY <1>2, <1>10 DEF Listen, SpawnTypes
    <2>2. ~StrayDaemon(d)'
      BY <2>1, <1>6 DEF StrayDaemon
    <2>3. ASSUME NEW e \in Daemons, StrayDaemon(e)', ~StrayDaemon(e)
          PROVE  daemon[e] = "listening" /\ path = {e}
      BY <1>6, <1>7, <2>2, <2>3 DEF StrayDaemon
    <2>4. CASE Awaited(d)
      <3>1. PICK h \in lock : pc[h] = "wait" /\ mine[h] = {d}
        BY <2>4 DEF Awaited
      <3>2. h \in Clients /\ Coming(h) = {d} /\ \A c \in lock : c = h
        BY <2>1, <3>1 DEF Coming, SpawnTypes, LockInv
      <3>3. ~StrayClient(h)'
        BY <1>1, <1>8, <3>1, <3>2 DEF StrayClient
      <3>4. \A c \in Clients : StrayClient(c)' => StrayClient(c)
        BY <1>9, <3>2, <3>3
      <3>5. CASE Answers
        <4>1. PICK e \in path : daemon[e] = "listening"
          BY <3>5 DEF Answers
        <4>2. h \in Strays
          BY <3>1, <3>2, <3>5 DEF Strays, StrayClient
        <4>3. Strays' \subseteq (Strays \ {h}) \cup {e}
          BY <2>3, <3>2, <3>3, <3>4, <4>1, ProcessesAssumption DEF Strays
        <4> QED
          BY <1>4, <1>5, <2>1, <4>2, <4>3, StraysCounted
      <3>6. CASE ~Answers
        <4>1. Strays' \subseteq Strays
          BY <2>3, <3>4, <3>6 DEF Strays, Answers
        <4> QED
          BY <1>4, <1>5, <2>1, <4>1, StraysCounted
      <3> QED
        BY <3>5, <3>6
    <2>5. CASE ~Awaited(d)
      <3>1. d \in Strays
        BY <2>1, <2>5 DEF Strays, StrayDaemon
      <3>2. d \notin Strays'
        BY <2>2, ProcessesAssumption DEF Strays
      <3>3. CASE Answers
        <4>1. PICK e \in path : daemon[e] = "listening"
          BY <3>3 DEF Answers
        <4>2. Strays' \subseteq (Strays \ {d}) \cup {e}
          BY <1>9, <2>3, <3>2, <3>3, <4>1 DEF Strays
        <4> QED
          BY <1>4, <1>5, <2>1, <3>1, <4>2, StraysCounted
      <3>4. CASE ~Answers /\ lock # {}
        <4>1. PICK h \in lock : \A c \in lock : c = h
          BY <3>4 DEF LockInv
        <4>2. \A e \in Daemons : StrayDaemon(e)' => StrayDaemon(e)
          BY <2>3, <3>4 DEF Answers
        <4>3. Strays' \subseteq (Strays \ {d}) \cup {h}
          BY <1>9, <3>2, <4>1, <4>2 DEF Strays
        <4> QED
          BY <1>4, <1>5, <2>1, <3>1, <4>3, StraysCounted
      <3>5. CASE ~Answers /\ lock = {}
        <4>1. Strays' \subseteq Strays
          BY <1>9, <2>3, <3>5 DEF Strays, Answers
        <4> QED
          BY <1>4, <1>5, <2>1, <4>1, StraysCounted
      <3> QED
        BY <3>3, <3>4, <3>5
    <2> QED
      BY <2>4, <2>5
  <1>11. CASE Dies(d) \/ Closes(d)
    <2>1. path' = path /\ mishaps' = mishaps /\ now \in {"closed", "dead"}
      BY <1>2, <1>11 DEF Dies, Closes, SpawnTypes
    <2>2. Answers' => Answers
      BY <1>6, <2>1 DEF Answers, SpawnTypes
    <2>3. \A e \in Daemons : StrayDaemon(e)' => StrayDaemon(e)
      BY <1>6, <1>7, <2>1 DEF StrayDaemon
    <2>4. Strays' \subseteq Strays
      BY <1>9, <2>2, <2>3 DEF Strays
    <2> QED
      BY <1>4, <1>5, <2>1, <2>4, StraysCounted
  <1>12. CASE Ends(d)
    <2>1. /\ path' = {} /\ daemon[d] = "closed" /\ now = "dead"
          /\ mishaps' = (IF Answers THEN mishaps + 1 ELSE mishaps)
      BY <1>2, <1>12 DEF Ends, CountIf, SpawnTypes
    <2>2. ~Answers'
      BY <2>1 DEF Answers
    <2>3. ASSUME NEW e \in Daemons, StrayDaemon(e)', ~StrayDaemon(e)
          PROVE  daemon[e] = "listening" /\ path = {e}
      BY <1>6, <1>7, <2>1, <2>3 DEF StrayDaemon
    <2>4. CASE ~Answers
      <3>1. Strays' \subseteq Strays
        BY <1>9, <2>2, <2>3, <2>4 DEF Strays, Answers
      <3> QED
        BY <1>4, <1>5, <2>1, <2>4, <3>1, StraysCounted
    <2>5. ASSUME NEW e \in path, daemon[e] = "listening" PROVE SpawnInv'
      <3>1. Strays' \subseteq Strays \cup {e}
        BY <1>9, <2>2, <2>3, <2>5 DEF Strays
      <3> QED
        BY <1>4, <1>5, <2>1, <2>5, <3>1, StraysCounted DEF Answers
    <2> QED
      BY <2>4, <2>5 DEF Answers
  <1> QED
    BY <1>10, <1>11, <1>12

\* The inductive invariant of who starts the daemon: one process holds the lock at
\* the most, who has started a daemon waits for it or has left, and the processes
\* astray are no more than the mishaps.
THEOREM SpawnInvariant == SpawnSpec => []SpawnInv
  <1>1. SpawnInv /\ [SpawnNext]_spawnVars => SpawnInv'
    <2> SUFFICES ASSUME SpawnInv, [SpawnNext]_spawnVars PROVE SpawnInv'
      OBVIOUS
    <2>1. CASE SpawnNext
      BY <2>1, ClientStep, DaemonStep DEF SpawnNext
    <2>2. CASE UNCHANGED spawnVars
      <3>1. Strays' = Strays
        BY <2>2 DEF spawnVars, Strays, StrayDaemon, StrayClient, Awaited, Coming, Answers
      <3> QED
        BY <2>2, <3>1 DEF spawnVars, SpawnInv, SpawnTypes, LockInv, MineInv, FewStrays
    <2> QED
      BY <2>1, <2>2
  <1> QED
    BY <1>1, SpawnStarts, PTL DEF SpawnSpec

\* The daemons that are up are strays, but for the one under the path and the one
\* the lock's holder waits for; and when both are there, the holder is a stray.
LEMMA UpAreFew == SpawnInv => OneDaemon
  <1> SUFFICES ASSUME SpawnInv PROVE OneDaemon
    OBVIOUS
  <1> USE DEF SpawnInv
  <1> DEFINE Ups == {d \in Daemons : Up(d)}
  <1>1. mishaps \in Nat /\ Cardinality(Strays) <= mishaps
    BY DEF SpawnTypes, FewStrays
  <1>2. ASSUME NEW d \in Ups, d \notin Strays
        PROVE  (daemon[d] = "listening" /\ path = {d}) \/ (daemon[d] = "starting" /\ Awaited(d))
    BY <1>2 DEF Up, Strays, StrayDaemon
  <1>3. \A d, e \in Daemons : Awaited(d) /\ Awaited(e) => d = e
    BY DEF Awaited, LockInv
  <1>4. Cardinality(Ups) <= 1 + mishaps
    <2>1. CASE \E e \in Daemons : Ups \subseteq Strays \cup {e}
      <3>1. PICK e \in Daemons : Ups \subseteq Strays \cup {e}
        BY <2>1
      <3>2. 1 + mishaps = mishaps + 1 /\ 1 + mishaps \in Nat
        BY <1>1
      <3> HIDE DEF Ups
      <3> QED
        BY <1>1, <3>1, <3>2, StraysFinite, FewRemain
    <2>2. CASE \A e \in Daemons : ~(Ups \subseteq Strays \cup {e})
      <3>1. CASE Ups \subseteq Strays
        <4>1. Cardinality(Ups) <= mishaps
          <5> HIDE DEF Ups
          <5> QED
            BY <1>1, <3>1, StraysFinite, FewRemain
        <4>2. Cardinality(Ups) \in Nat
          BY <3>1, StraysFinite, FS_Subset, FS_CardinalityType
        <4> QED
          BY <1>1, <4>1, <4>2
      <3>2. ASSUME NEW a \in Ups, a \notin Strays PROVE Cardinality(Ups) <= 1 + mishaps
        <4>1. PICK b \in Ups : b \notin Strays /\ b # a
          BY <2>2, <3>2
        <4>2. \A d \in Ups : d \in Strays \/ d = a \/ d = b
          BY <1>2, <1>3, <3>2, <4>1
        <4>3. PICK h \in lock : h \in Strays
          <5>1. PICK d \in {a, b}, e \in {a, b} : /\ daemon[d] = "starting" /\ Awaited(d)
                                                  /\ daemon[e] = "listening" /\ path = {e}
            BY <1>2, <1>3, <3>2, <4>1
          <5>2. PICK h \in lock : mine[h] = {d}
            BY <5>1 DEF Awaited
          <5>3. StrayClient(h)
            BY <5>1, <5>2 DEF StrayClient, Answers, Coming
          <5> QED
            BY <5>2, <5>3 DEF Strays, SpawnTypes
        <4>4. h \notin Daemons
          BY ProcessesAssumption DEF SpawnTypes
        <4> DEFINE Most == (Strays \ {h}) \cup {a}
        <4>5. Cardinality(Most) <= mishaps /\ IsFiniteSet(Most)
          <5>1. IsFiniteSet(Most)
            BY StraysFinite, FS_RemoveElement, FS_AddElement
          <5>2. \E y : Most \subseteq (Strays \ {h}) \cup {y} /\ mishaps <= mishaps
            BY <1>1
          <5> HIDE DEF Most
          <5> QED
            BY <1>1, <4>3, <5>1, <5>2, StraysFinite, FewRemain
        <4>6. Ups \subseteq Most \cup {b}
          BY <4>2, <4>4
        <4>7. 1 + mishaps = mishaps + 1 /\ 1 + mishaps \in Nat
          BY <1>1
        <4> HIDE DEF Ups, Most
        <4> QED
          BY <1>1, <4>5, <4>6, <4>7, FewRemain
      <3> QED
        BY <3>1, <3>2
    <2> QED
      BY <2>1, <2>2
  <1>5. ASSUME mishaps = 0 PROVE Strays = {}
    BY <1>1, <1>5, StraysFinite, FS_CardinalityType, FS_EmptySet
  <1>6. mishaps = 0 => \A d \in Daemons : daemon[d] = "listening" => path = {d}
    BY <1>5 DEF Strays, StrayDaemon
  <1> QED
    BY <1>4, <1>6 DEF OneDaemon

\* However many programs find no daemon at once, one daemon is up and the one that
\* listens is under the path (screen.rs, connect_or_spawn; ks_daemon.cpp), but for
\* one more for each time that a wait has run out too early, a live daemon has
\* refused, or its name was taken: for any programs and any number of daemons.
THEOREM SpawnOneDaemon == SpawnSpec => []OneDaemon
  BY SpawnInvariant, UpAreFew, PTL

-----------------------------------------------------------------------------
(* The server.  Its invariant has the types, what the loop has in hand, the *)
(* replies of each connection, the claims, and the prints.                  *)

ServerTypes ==
  /\ state \in [Conns -> {"backlog", "new", "framed", "bytes", "closed", "freed"}]
  /\ exited \subseteq Conns
  /\ inbox \in [Conns -> Seq(Nat)]
  /\ printed \in [Programs -> Nat]
  /\ frames \in [Conns -> Nat] /\ replies \in [Conns -> Nat]
  /\ answered \in [Conns -> SUBSET Nat] /\ parked \in [Conns -> Nat]
  /\ keys \in Conns \cup {Nobody} /\ screen \in Conns \cup {Nobody}
  /\ arrived \in [Programs -> Nat]
  /\ shown \in Seq(Programs \X Nat) /\ deferred \in Seq(Programs \X Nat)
  /\ polled \subseteq Conns /\ hup \subseteq Conns /\ gone \subseteq Conns
  /\ turn \in BOOLEAN

\* A recv in hand is of a connection that poll saw, and not more than is there.
CurInv ==
  cur # <<>> =>
    /\ turn /\ cur = <<cur[1], cur[2]>>
    /\ cur[1] \in Conns \ polled
    /\ cur[2] \in 1..Len(inbox[cur[1]])

RepliesOf(c) ==
  /\ IsFiniteSet(answered[c]) /\ replies[c] = Cardinality(answered[c])
  /\ answered[c] \cup ({parked[c]} \ {0}) = 1..frames[c]
  /\ parked[c] \notin answered[c]

RepliesInv == \A c \in Conns : RepliesOf(c)

ClaimsInv ==
  /\ {keys, screen} \subseteq Present \cup {Nobody}
  /\ saved = {screen} \ {Nobody}
  /\ deferred # <<>> => screen # Nobody

InOrder(s) == \A i, j \in DOMAIN s : i < j /\ s[i][1] = s[j][1] => s[i][2] < s[j][2]

PrintsInv == ToSet(Kept) = Prints \ erased /\ erased \subseteq Prints /\ InOrder(Kept)

ServerInv == ServerTypes /\ CurInv /\ RepliesInv /\ ClaimsInv /\ PrintsInv

-----------------------------------------------------------------------------
(* Replies.                                                                 *)

\* A frame that is counted and answered.
LEMMA AnswerOne ==
  ASSUME ServerTypes, RepliesInv, NEW c \in Conns,
         frames' = [frames EXCEPT ![c] = @ + 1], Answer(c), parked' = parked
  PROVE  RepliesInv'
  <1> DEFINE n == frames[c] + 1
  <1>1. frames[c] \in Nat /\ n \in Nat /\ frames'[c] = n
    BY DEF ServerTypes
  <1>2. answered' = [answered EXCEPT ![c] = @ \cup {n}]
        /\ replies' = [replies EXCEPT ![c] = @ + Cardinality({n})]
    BY <1>1 DEF Answer, Reply
  <1>3. Cardinality({n}) = 1
    BY FS_Singleton
  <1>4. RepliesOf(c)'
    <2>1. RepliesOf(c)
      BY DEF RepliesInv
    <2>2. n \notin answered[c] /\ n # 0 /\ parked[c] # n
      BY <2>1, <1>1 DEF RepliesOf, ServerTypes
    <2>3. answered'[c] = answered[c] \cup {n} /\ replies'[c] = replies[c] + 1
          /\ parked'[c] = parked[c]
      BY <1>2, <1>3 DEF ServerTypes
    <2>4. IsFiniteSet(answered'[c]) /\ Cardinality(answered'[c]) = Cardinality(answered[c]) + 1
      <3>1. IsFiniteSet(answered[c])
        BY <2>1 DEF RepliesOf
      <3>2. /\ IsFiniteSet(answered[c] \cup {n})
            /\ Cardinality(answered[c] \cup {n}) = Cardinality(answered[c]) + 1
        BY <2>2, <3>1, FS_AddElement
      <3> QED
        BY <2>3, <3>2
    <2>5. 1..n = (1..frames[c]) \cup {n}
      BY <1>1
    <2>6. answered'[c] \cup ({parked'[c]} \ {0}) = 1..frames'[c]
      BY <2>1, <2>3, <2>5, <1>1 DEF RepliesOf
    <2> QED
      BY <2>1, <2>2, <2>3, <2>4, <2>6 DEF RepliesOf
  <1>5. ASSUME NEW e \in Conns, e # c PROVE RepliesOf(e)'
    <2>1. answered'[e] = answered[e] /\ replies'[e] = replies[e] /\ frames'[e] = frames[e]
      BY <1>2, <1>5 DEF ServerTypes
    <2> QED
      BY <2>1 DEF RepliesInv, RepliesOf
  <1> QED
    BY <1>4, <1>5 DEF RepliesInv

\* One that is parked, where none was.
LEMMA ParkOne ==
  ASSUME ServerTypes, RepliesInv, NEW c \in Conns,
         frames' = [frames EXCEPT ![c] = @ + 1], parked[c] = 0,
         parked' = [parked EXCEPT ![c] = frames'[c]], UNCHANGED <<answered, replies>>
  PROVE  RepliesInv'
  <1>1. frames[c] \in Nat /\ frames'[c] = frames[c] + 1 /\ parked'[c] = frames[c] + 1
    BY DEF ServerTypes
  <1>2. 1..(frames[c] + 1) = (1..frames[c]) \cup {frames[c] + 1}
    BY <1>1
  <1>3. RepliesOf(c)'
    <2>1. answered[c] = 1..frames[c]
      BY DEF RepliesInv, RepliesOf
    <2>2. frames[c] + 1 \notin answered[c] /\ frames[c] + 1 # 0
      BY <1>1, <2>1
    <2>3. answered'[c] \cup ({parked'[c]} \ {0}) = 1..frames'[c]
      BY <1>1, <1>2, <2>1, <2>2
    <2> QED
      BY <1>1, <2>2, <2>3 DEF RepliesInv, RepliesOf
  <1>4. ASSUME NEW e \in Conns, e # c PROVE RepliesOf(e)'
    <2>1. frames'[e] = frames[e] /\ parked'[e] = parked[e]
      BY <1>4 DEF ServerTypes
    <2> QED
      BY <2>1 DEF RepliesInv, RepliesOf
  <1> QED
    BY <1>3, <1>4 DEF RepliesInv

\* Parked reads that are answered.
LEMMA ParkedAnswered ==
  ASSUME ServerTypes, RepliesInv, NEW s, s \subseteq Waiting, AnswerKeys(s)
  PROVE  RepliesInv'
  <1> SUFFICES ASSUME NEW c \in Conns PROVE RepliesOf(c)'
    BY DEF RepliesInv
  <1>1. RepliesOf(c) /\ frames' = frames
    BY DEF RepliesInv, AnswerKeys
  <1>2. CASE c \in s
    <2>1. /\ answered'[c] = answered[c] \cup {parked[c]} /\ replies'[c] = replies[c] + 1
          /\ parked'[c] = 0 /\ parked[c] # 0
      BY <1>2 DEF AnswerKeys, Waiting
    <2>2. IsFiniteSet(answered'[c]) /\ Cardinality(answered'[c]) = Cardinality(answered[c]) + 1
      <3> DEFINE x == parked[c]
      <3>1. IsFiniteSet(answered[c]) /\ x \notin answered[c]
        BY <1>1 DEF RepliesOf
      <3>2. /\ IsFiniteSet(answered[c] \cup {x})
            /\ Cardinality(answered[c] \cup {x}) = Cardinality(answered[c]) + 1
        BY <3>1, FS_AddElement
      <3> QED
        BY <2>1, <3>2
    <2>3. answered'[c] = 1..frames[c]
      BY <1>1, <2>1 DEF RepliesOf
    <2>4. 0 \notin answered'[c]
      BY <2>3 DEF ServerTypes
    <2> QED
      BY <1>1, <2>1, <2>2, <2>3, <2>4 DEF RepliesOf
  <1>3. CASE c \notin s
    <2>1. answered'[c] = answered[c] /\ replies'[c] = replies[c] /\ parked'[c] = parked[c]
      BY <1>3 DEF AnswerKeys, ServerTypes
    <2> QED
      BY <1>1, <2>1 DEF RepliesOf
  <1> QED
    BY <1>2, <1>3

\* A connection that goes has nothing owed, and nothing counted.
LEMMA FreedReplies ==
  ASSUME ServerTypes, RepliesInv, NEW c \in Conns, Free(c) PROVE RepliesInv'
  <1> SUFFICES ASSUME NEW e \in Conns PROVE RepliesOf(e)'
    BY DEF RepliesInv
  <1>1. CASE e = c
    <2>1. answered'[c] = {} /\ replies'[c] = 0 /\ frames'[c] = 0 /\ parked'[c] = 0
      BY DEF Free, ServerTypes
    <2>2. IsFiniteSet({}) /\ Cardinality({}) = 0 /\ 1..0 = {}
      BY FS_EmptySet
    <2> QED
      BY <1>1, <2>1, <2>2 DEF RepliesOf
  <1>2. CASE e # c
    <2>1. answered'[e] = answered[e] /\ replies'[e] = replies[e] /\ frames'[e] = frames[e]
          /\ parked'[e] = parked[e]
      BY <1>2 DEF Free, ServerTypes
    <2> QED
      BY <2>1 DEF RepliesOf, RepliesInv
  <1> QED
    BY <1>1, <1>2

-----------------------------------------------------------------------------
(* Prints.                                                                  *)

LEMMA PrintsAre ==
  ASSUME ServerTypes, NEW p \in Programs, NEW n
  PROVE  <<p, n>> \in Prints <=> n \in 1..arrived[p]
  BY DEF Prints

LEMMA PrintsAreOf ==
  ASSUME ServerTypes, NEW e \in Prints
  PROVE  e = <<e[1], e[2]>> /\ e[1] \in Programs /\ e[2] \in Nat
  BY DEF Prints, ServerTypes

\* One more print is the last of its program's.
LEMMA PrintArrives ==
  ASSUME ServerTypes, NEW p \in Programs, arrived' = [arrived EXCEPT ![p] = @ + 1]
  PROVE  /\ arrived' \in [Programs -> Nat] /\ <<p, arrived'[p]>> \notin Prints
         /\ Prints' = Prints \cup {<<p, arrived'[p]>>}
         /\ \A e \in Prints : e[1] = p => e[2] < arrived'[p]
  <1>1. arrived[p] \in Nat /\ arrived'[p] = arrived[p] + 1 /\ Programs' = Programs
    BY DEF ServerTypes, Programs
  <1>2. \A q \in Programs : q # p => arrived'[q] = arrived[q]
    BY DEF ServerTypes
  <1>3. 1..(arrived[p] + 1) = (1..arrived[p]) \cup {arrived[p] + 1}
    BY <1>1
  <1>4. ASSUME NEW e \in Prints, e[1] = p PROVE e[2] < arrived'[p]
    BY <1>1, <1>4, PrintsAre, PrintsAreOf
  <1>5. ASSUME NEW e PROVE e \in Prints' <=> e \in Prints \cup {<<p, arrived'[p]>>}
    <2>1. e \in Prints' <=> \E q \in Programs : \E n \in 1..arrived'[q] : e = <<q, n>>
      BY DEF Prints
    <2>2. e \in Prints <=> \E q \in Programs : \E n \in 1..arrived[q] : e = <<q, n>>
      BY DEF Prints
    <2> QED
      BY <1>1, <1>2, <1>3, <2>1, <2>2
  <1>6. <<p, arrived'[p]>> \notin Prints
    BY <1>1, PrintsAre
  <1>7. arrived' \in [Programs -> Nat]
    BY DEF ServerTypes
  <1> QED
    BY <1>1, <1>4, <1>5, <1>6, <1>7

LEMMA ToSetOf ==
  ASSUME NEW T, NEW s \in Seq(T)
  PROVE  /\ ToSet(s) \subseteq T
         /\ \A e : e \in ToSet(s) <=> \E i \in 1..Len(s) : e = s[i]
  BY DEF ToSet

\* At the end of a sequence in order, what is later than what there is.
LEMMA OrderedAppend ==
  ASSUME NEW s \in Seq(Programs \X Nat), NEW x \in Programs \X Nat, InOrder(s),
         \A e \in ToSet(s) : e[1] = x[1] => e[2] < x[2]
  PROVE  /\ Append(s, x) \in Seq(Programs \X Nat) /\ InOrder(Append(s, x))
         /\ ToSet(Append(s, x)) = ToSet(s) \cup {x}
  <1> DEFINE t == Append(s, x)
  <1>1. t \in Seq(Programs \X Nat) /\ Len(t) = Len(s) + 1 /\ t[Len(s) + 1] = x
        /\ \A i \in 1..Len(s) : t[i] = s[i]
    OBVIOUS
  <1>2. Len(s) \in Nat /\ DOMAIN s = 1..Len(s) /\ DOMAIN t = 1..(Len(s) + 1)
    BY <1>1
  <1>3. \A i \in 1..Len(s) : s[i] \in ToSet(s)
    BY <1>2 DEF ToSet
  <1> HIDE DEF t
  <1>4. InOrder(t)
    <2> SUFFICES ASSUME NEW i \in DOMAIN t, NEW j \in DOMAIN t, i < j, t[i][1] = t[j][1]
                 PROVE  t[i][2] < t[j][2]
      BY DEF InOrder
    <2>1. i \in 1..Len(s)
      BY <1>2
    <2>2. CASE j \in 1..Len(s)
      BY <1>1, <1>2, <2>1, <2>2 DEF InOrder
    <2>3. CASE j = Len(s) + 1
      BY <1>1, <1>3, <2>1, <2>3
    <2> QED
      BY <1>2, <2>2, <2>3
  <1>5. ToSet(t) = ToSet(s) \cup {x}
    <2>1. \A e : e \in ToSet(t) <=> \E i \in 1..(Len(s) + 1) : e = t[i]
      BY <1>2 DEF ToSet
    <2>2. \A e : e \in ToSet(s) <=> \E i \in 1..Len(s) : e = s[i]
      BY <1>2 DEF ToSet
    <2>3. \A i : i \in 1..(Len(s) + 1) <=> i \in 1..Len(s) \/ i = Len(s) + 1
      BY <1>2
    <2>4. ASSUME NEW e \in ToSet(t) PROVE e \in ToSet(s) \cup {x}
      <3>1. PICK i \in 1..(Len(s) + 1) : e = t[i]
        BY <2>1
      <3>2. CASE i \in 1..Len(s)
        BY <1>1, <2>2, <3>1, <3>2
      <3> QED
        BY <1>1, <2>3, <3>1, <3>2
    <2>5. ASSUME NEW e \in ToSet(s) PROVE e \in ToSet(t)
      <3>1. PICK i \in 1..Len(s) : e = s[i]
        BY <2>2
      <3> QED
        BY <1>1, <2>1, <2>3, <3>1
    <2>6. x \in ToSet(t)
      BY <1>1, <1>2, <2>1, <2>3
    <2> QED
      BY <2>4, <2>5, <2>6
  <1> QED
    BY <1>1, <1>4, <1>5 DEF t

\* One of a sequence in order goes.
LEMMA OrderedDrop ==
  ASSUME NEW a \in Seq(Programs \X Nat), NEW b \in Seq(Programs \X Nat), b # <<>>,
         InOrder(a \o b)
  PROVE  /\ a \o Tail(b) \in Seq(Programs \X Nat) /\ InOrder(a \o Tail(b))
         /\ Head(b) \in ToSet(a \o b)
         /\ ToSet(a \o Tail(b)) = ToSet(a \o b) \ {Head(b)}
  <1> DEFINE s == a \o b
             t == a \o Tail(b)
             k == Len(a) + 1
             At(i) == IF i < k THEN i ELSE i + 1
  <1>1. Len(a) \in Nat /\ Len(b) \in Nat \ {0} /\ Len(Tail(b)) = Len(b) - 1
        /\ Tail(b) \in Seq(Programs \X Nat)
    OBVIOUS
  <1>2. s \in Seq(Programs \X Nat) /\ t \in Seq(Programs \X Nat)
        /\ Len(s) = Len(a) + Len(b) /\ Len(t) = Len(a) + Len(b) - 1
    BY <1>1
  <1>3. s[k] = Head(b) /\ k \in 1..Len(s)
    BY <1>1, <1>2
  <1>4. ASSUME NEW i \in 1..Len(t) PROVE At(i) \in (1..Len(s)) \ {k} /\ t[i] = s[At(i)]
    <2>1. CASE i < k
      BY <1>1, <1>2, <2>1
    <2>2. CASE ~(i < k)
      <3>1. t[i] = Tail(b)[i - Len(a)] /\ i - Len(a) \in 1..Len(Tail(b))
        BY <1>1, <1>2, <2>2
      <3>2. Tail(b)[i - Len(a)] = b[i - Len(a) + 1]
        BY <3>1
      <3>3. s[i + 1] = b[i + 1 - Len(a)] /\ i + 1 - Len(a) = i - Len(a) + 1
        BY <1>1, <1>2, <2>2
      <3> QED
        BY <1>1, <1>2, <2>2, <3>1, <3>2, <3>3
    <2> QED
      BY <2>1, <2>2
  <1>5. ASSUME NEW i \in 1..Len(s), i # k PROVE \E j \in 1..Len(t) : At(j) = i
    <2>1. CASE i < k
      BY <1>1, <1>2, <2>1
    <2>2. CASE ~(i < k)
      <3>1. i - 1 \in 1..Len(t) /\ At(i - 1) = i
        BY <1>1, <1>2, <1>5, <2>2
      <3> QED
        BY <3>1
    <2> QED
      BY <2>1, <2>2
  <1>6. \A i, j \in 1..Len(t) : i < j => At(i) < At(j)
    BY <1>1, <1>2
  <1>7. k \in Nat /\ Len(s) \in Nat /\ Len(t) \in Nat /\ DOMAIN s = 1..Len(s) /\ DOMAIN t = 1..Len(t)
    BY <1>1, <1>2
  <1>8. InOrder(s)
    OBVIOUS
  <1> HIDE DEF s, t, k, At
  <1>9. InOrder(t)
    <2> SUFFICES ASSUME NEW i \in 1..Len(t), NEW j \in 1..Len(t), i < j, t[i][1] = t[j][1]
                 PROVE  t[i][2] < t[j][2]
      BY <1>7 DEF InOrder
    <2> DEFINE u == At(i)
               v == At(j)
    <2>1. u \in DOMAIN s /\ v \in DOMAIN s /\ t[i] = s[u] /\ t[j] = s[v] /\ u < v
      BY <1>4, <1>6, <1>7
    <2> QED
      BY <1>8, <2>1 DEF InOrder
  <1>10. ASSUME NEW i \in 1..Len(s), i # k PROVE s[i] # s[k]
    <2>1. /\ s[i] = s[k] => s[i][1] = s[k][1] /\ s[i][2] = s[k][2]
          /\ s[i][2] \in Nat /\ s[k][2] \in Nat
      BY <1>2, <1>3, <1>7
    <2>2. i < k \/ k < i
      BY <1>7, <1>10
    <2>3. i \in DOMAIN s /\ k \in DOMAIN s
      BY <1>3, <1>7
    <2>4. s[i][1] # s[k][1] \/ s[i][2] < s[k][2] \/ s[k][2] < s[i][2]
      BY <1>8, <2>2, <2>3 DEF InOrder
    <2> QED
      BY <2>1, <2>4
  <1>11. ToSet(t) = ToSet(s) \ {s[k]}
    <2>1. \A e : e \in ToSet(t) <=> \E i \in 1..Len(t) : e = t[i]
      BY <1>7 DEF ToSet
    <2>2. \A e : e \in ToSet(s) <=> \E i \in 1..Len(s) : e = s[i]
      BY <1>7 DEF ToSet
    <2>3. ASSUME NEW e \in ToSet(t) PROVE e \in ToSet(s) \ {s[k]}
      <3>1. PICK i \in 1..Len(t) : e = t[i]
        BY <2>1
      <3>2. At(i) \in 1..Len(s) /\ At(i) # k /\ e = s[At(i)]
        BY <1>4, <3>1
      <3> QED
        BY <1>10, <2>2, <3>2
    <2>4. ASSUME NEW e \in ToSet(s), e # s[k] PROVE e \in ToSet(t)
      <3>1. PICK i \in 1..Len(s) : e = s[i]
        BY <2>2
      <3>2. PICK j \in 1..Len(t) : At(j) = i
        BY <1>5, <2>4, <3>1
      <3> QED
        BY <1>4, <2>1, <3>1, <3>2
    <2> QED
      BY <2>3, <2>4
  <1>12. s[k] \in ToSet(s)
    BY <1>3, <1>7 DEF ToSet
  <1> QED
    BY <1>2, <1>3, <1>9, <1>11, <1>12 DEF s, t

LEMMA PrintsStay ==
  ASSUME PrintsInv, UNCHANGED <<arrived, erased>>, Kept' = Kept
  PROVE  PrintsInv'
  <1>1. Prints' = Prints
    BY DEF Prints
  <1> QED
    BY <1>1 DEF PrintsInv

LEMMA RestoredPrints ==
  ASSUME ServerTypes, NEW c \in Conns, EndClaim(c)
  PROVE  /\ UNCHANGED <<arrived, erased>> /\ Kept' = Kept
         /\ shown' \in Seq(Programs \X Nat) /\ deferred' \in Seq(Programs \X Nat)
         /\ deferred' \in {deferred, <<>>}
  <1>1. CASE UNCHANGED prints
    BY <1>1 DEF prints, Kept, ServerTypes
  <1>2. CASE shown' = shown \o deferred /\ deferred' = <<>> /\ UNCHANGED <<arrived, erased>>
    <2>1. shown \o deferred \in Seq(Programs \X Nat)
      BY DEF ServerTypes
    <2>2. (shown \o deferred) \o <<>> = shown \o deferred
      BY <2>1
    <2> QED
      BY <1>2, <2>1, <2>2 DEF Kept
  <1> QED
    BY <1>1, <1>2 DEF EndClaim, ScreenRestore, prints

\* A print that is taken in is the last of its program's; the oldest that is held
\* may go for it, and is then counted.
LEMMA PrintTaken ==
  ASSUME ServerTypes, ClaimsInv, PrintsInv, NEW c \in Conns, BytesIn(c)
  PROVE  /\ PrintsInv' /\ (deferred' # <<>> => screen # Nobody)
         /\ arrived' \in [Programs -> Nat]
         /\ shown' \in Seq(Programs \X Nat) /\ deferred' \in Seq(Programs \X Nat)
  <1> DEFINE p == c[1]
             x == <<p, arrived'[p]>>
             held == Append(deferred, x)
             s == shown \o held
  <1>1. p \in Programs
    BY DEF Programs
  <1>2. arrived' = [arrived EXCEPT ![p] = @ + 1]
    BY DEF BytesIn
  <1>3. x \notin Prints /\ Prints' = Prints \cup {x}
        /\ \A e \in Prints : e[1] = p => e[2] < arrived'[p]
    BY <1>1, <1>2, PrintArrives
  <1>4. arrived' \in [Programs -> Nat]
    BY <1>1, <1>2, PrintArrives
  <1>5. shown \in Seq(Programs \X Nat) /\ deferred \in Seq(Programs \X Nat)
        /\ Kept \in Seq(Programs \X Nat) /\ x \in Programs \X Nat
    BY <1>1, <1>4 DEF ServerTypes, Kept
  <1>6. held \in Seq(Programs \X Nat) /\ held # <<>> /\ s = Append(Kept, x)
    <2>1. shown \o Append(deferred, x) = Append(shown \o deferred, x)
      BY <1>5
    <2>2. held \in Seq(Programs \X Nat) /\ held # <<>>
      <3> DEFINE T == Programs \X Nat
      <3>1. deferred \in Seq(T) /\ x \in T
        BY <1>5
      <3> HIDE DEF x, T
      <3>2. Append(deferred, x) \in Seq(T) /\ Append(deferred, x) # <<>>
        BY <3>1, AppendProperties
      <3> QED
        BY <3>2 DEF T
    <2> QED
      BY <2>1, <2>2 DEF Kept
  <1>7. InOrder(Kept) /\ ToSet(Kept) = Prints \ erased /\ erased \subseteq Prints
    BY DEF PrintsInv
  <1> HIDE DEF held, s
  <1>8. InOrder(s) /\ ToSet(s) = (Prints \cup {x}) \ erased
    <2>1. \A e \in ToSet(Kept) : e[1] = x[1] => e[2] < x[2]
      BY <1>3, <1>7
    <2>2. InOrder(s) /\ ToSet(s) = ToSet(Kept) \cup {x}
      BY <1>5, <1>6, <1>7, <2>1, OrderedAppend
    <2> QED
      BY <1>3, <1>7, <2>2
  <1>9. CASE screen = Nobody
    <2>1. deferred = <<>> /\ deferred' = deferred /\ erased' = erased /\ shown' = Append(shown, x)
      BY <1>9 DEF BytesIn, ClaimsInv
    <2>2. Append(shown, x) \o <<>> = Append(shown, x) /\ shown \o <<>> = shown
      BY <1>5
    <2>3. Kept' = s
      BY <1>6, <2>1, <2>2 DEF Kept
    <2> QED
      BY <1>3, <1>4, <1>5, <1>7, <1>8, <2>1, <2>3 DEF PrintsInv
  <1>10. CASE screen # Nobody
    <2>1. shown' = shown
      BY <1>10 DEF BytesIn
    <2>2. CASE Len(held) > DeferMax
      <3>1. deferred' = Tail(held) /\ erased' = erased \cup {Head(held)}
        BY <1>10, <2>2 DEF BytesIn, held
      <3>2. /\ InOrder(Kept') /\ Head(held) \in ToSet(s)
            /\ ToSet(Kept') = ToSet(s) \ {Head(held)}
        BY <1>5, <1>6, <1>8, <2>1, <3>1, OrderedDrop DEF Kept, s
      <3>3. Tail(held) \in Seq(Programs \X Nat)
        BY <1>6
      <3> QED
        BY <1>3, <1>4, <1>5, <1>7, <1>8, <1>10, <2>1, <3>1, <3>2, <3>3 DEF PrintsInv
    <2>3. CASE ~(Len(held) > DeferMax)
      <3>1. deferred' = held /\ erased' = erased
        BY <1>10, <2>3 DEF BytesIn, held
      <3>2. Kept' = s
        BY <2>1, <3>1 DEF Kept, s
      <3> QED
        BY <1>3, <1>4, <1>5, <1>6, <1>7, <1>8, <1>10, <2>1, <3>1, <3>2 DEF PrintsInv
    <2> QED
      BY <2>2, <2>3
  <1> QED
    BY <1>9, <1>10

-----------------------------------------------------------------------------
(* The steps.                                                               *)

\* The part of the types that the loop and the programs change.
LoopTypes ==
  /\ exited \subseteq Conns
  /\ inbox \in [Conns -> Seq(Nat)]
  /\ printed \in [Programs -> Nat]
  /\ polled \subseteq Conns /\ hup \subseteq Conns /\ gone \subseteq Conns
  /\ turn \in BOOLEAN

ToldTypes ==
  /\ frames \in [Conns -> Nat] /\ replies \in [Conns -> Nat]
  /\ answered \in [Conns -> SUBSET Nat] /\ parked \in [Conns -> Nat]

LEMMA TakenKeeps ==
  ASSUME ServerTypes, CurInv, NEW c \in Conns, Taken(c)
  PROVE  LoopTypes' /\ CurInv'
  <1>1. c \notin polled /\ cur[2] \in 1..Len(inbox[c]) /\ turn /\ inbox[c] \in Seq(Nat)
        /\ cur[2] \in Nat /\ Len(inbox[c]) \in Nat
    <2>1. cur # <<>> /\ cur[1] = c
      BY DEF Taken
    <2>2. inbox[c] \in Seq(Nat)
      BY DEF ServerTypes
    <2>3. cur[1] \in Conns \ polled /\ cur[2] \in 1..Len(inbox[cur[1]]) /\ turn
      BY <2>1 DEF CurInv
    <2> QED
      BY <2>1, <2>2, <2>3
  <1>2. Tail(inbox[c]) \in Seq(Nat) /\ Len(Tail(inbox[c])) = Len(inbox[c]) - 1
    BY <1>1
  <1>3. inbox' \in [Conns -> Seq(Nat)] /\ inbox'[c] = Tail(inbox[c])
    BY <1>2 DEF Taken, ServerTypes
  <1>4. LoopTypes'
    BY <1>3 DEF Taken, clients, loop, ServerTypes, LoopTypes
  <1>5. polled' = polled /\ turn' = turn
    BY DEF Taken, loop
  <1>6. CASE cur[2] = 1
    BY <1>4, <1>6 DEF Taken, CurInv
  <1>7. CASE cur[2] # 1
    <2>1. cur' = <<c, cur[2] - 1>>
      BY <1>7 DEF Taken
    <2>2. cur[2] - 1 \in 1..Len(inbox'[c])
      <3> DEFINE k == cur[2]
                 m == Len(inbox[c])
      <3>1. k \in 1..m /\ k # 1 /\ m \in Nat /\ Len(inbox'[c]) = m - 1
        BY <1>1, <1>2, <1>3, <1>7
      <3> HIDE DEF k, m
      <3>2. k - 1 \in 1..(m - 1)
        BY <3>1
      <3> QED
        BY <3>1, <3>2 DEF k
    <2> QED
      BY <1>1, <1>4, <1>5, <2>1, <2>2 DEF CurInv
  <1> QED
    BY <1>6, <1>7, <1>4

LEMMA ErrorKeeps ==
  ASSUME ServerTypes, CurInv, NEW c \in Conns, ProtocolError(c)
  PROVE  LoopTypes' /\ CurInv'
  <1>1. cur[2] \in 1..Len(inbox[c]) /\ inbox[c] \in Seq(Nat)
    BY DEF ProtocolError, CurInv, ServerTypes
  <1>2. SubSeq(inbox[c], cur[2] + 1, Len(inbox[c])) \in Seq(Nat)
    BY <1>1
  <1>3. inbox' \in [Conns -> Seq(Nat)]
    BY <1>2 DEF ProtocolError, ServerTypes
  <1>4. cur' = <<>>
    BY DEF ProtocolError
  <1> QED
    BY <1>3, <1>4 DEF ProtocolError, clients, loop, ServerTypes, LoopTypes, CurInv

\* The types of what dispatch counts follow from the replies' invariant.
LEMMA AnsweredTypes ==
  ASSUME ServerTypes, NEW c \in Conns,
         frames' = [frames EXCEPT ![c] = @ + 1], Answer(c), parked' = parked
  PROVE  ToldTypes'
  <1>1. frames'[c] \in Nat /\ frames' \in [Conns -> Nat]
    BY DEF ServerTypes
  <1>2. Cardinality({frames'[c]}) = 1
    BY FS_Singleton
  <1>3. replies' = [replies EXCEPT ![c] = @ + 1]
        /\ answered' = [answered EXCEPT ![c] = @ \cup {frames'[c]}]
    BY <1>2 DEF Answer, Reply
  <1>4. answered[c] \cup {frames'[c]} \in SUBSET Nat
    BY <1>1 DEF ServerTypes
  <1>5. answered' \in [Conns -> SUBSET Nat]
    BY <1>3, <1>4 DEF ServerTypes
  <1>6. replies' \in [Conns -> Nat]
    <2>1. replies \in [Conns -> Nat] /\ replies[c] + 1 \in Nat
      BY DEF ServerTypes
    <2>2. replies' = [replies EXCEPT ![c] = replies[c] + 1]
      BY <1>3
    <2> QED
      BY <2>1, <2>2
  <1> QED
    BY <1>1, <1>5, <1>6 DEF ServerTypes, ToldTypes

\* One frame or print of a recv.
LEMMA FeedStep == ASSUME ServerInv, NEW c \in Conns, Feed(c) PROVE ServerInv'
  <1> USE DEF ServerInv
  <1>0. c # Nobody /\ ToldTypes /\ LoopTypes /\ Programs' = Programs
    BY ConnsAssumption DEF ServerTypes, ToldTypes, LoopTypes, Programs
  <1>1. CASE Hello(c) \/ ProtocolError(c) \/ Other(c)
    <2>1. LoopTypes' /\ CurInv'
      BY <1>1, TakenKeeps, ErrorKeeps DEF Hello, Other, Framed
    <2>2. frames' = [frames EXCEPT ![c] = @ + 1] /\ Answer(c) /\ parked' = parked
          /\ UNCHANGED <<claims, prints>>
      BY <1>1 DEF Hello, ProtocolError, Other, Framed, LooksAt
    <2>3. RepliesInv' /\ ToldTypes'
      BY <2>2, AnswerOne, AnsweredTypes
    <2>4. state' \in [Conns -> {"backlog", "new", "framed", "bytes", "closed", "freed"}]
      BY <1>1 DEF Hello, ProtocolError, Other, ServerTypes
    <2>5. Present' = Present
      BY <1>1 DEF Hello, ProtocolError, Other, Framed, Present, ServerTypes
    <2>6. ServerTypes'
      BY <2>1, <2>2, <2>3, <2>4 DEF ServerTypes, LoopTypes, ToldTypes, claims, prints
    <2>7. ClaimsInv'
      BY <2>2, <2>5 DEF ClaimsInv, claims, prints
    <2>8. PrintsInv'
      BY <2>2, PrintsStay DEF prints, Kept
    <2> QED
      BY <2>1, <2>3, <2>6, <2>7, <2>8
  <1>2. CASE KeyTake(c) \/ KeyGive(c) \/ ScreenTake(c) \/ ScreenGive(c)
    <2>1. state[c] = "framed" /\ state' = state /\ c \in Present /\ Present' = Present
      BY <1>2 DEF KeyTake, KeyGive, ScreenTake, ScreenGive, Framed, Present
    <2>2. LoopTypes' /\ CurInv'
      BY <1>2, TakenKeeps DEF KeyTake, KeyGive, ScreenTake, ScreenGive, Framed
    <2>3. frames' = [frames EXCEPT ![c] = @ + 1] /\ Answer(c) /\ parked' = parked
      BY <1>2 DEF KeyTake, KeyGive, ScreenTake, ScreenGive, Framed, LooksAt
    <2>4. RepliesInv' /\ ToldTypes'
      BY <2>3, AnswerOne, AnsweredTypes
    <2>5. CASE KeyTake(c) \/ KeyGive(c)
      <3>1. keys' \in {c, keys, Nobody} /\ UNCHANGED <<screen, saved, prints>>
        BY <2>5 DEF KeyTake, KeyGive
      <3>2. ServerTypes'
        BY <2>1, <2>2, <2>4, <3>1 DEF ServerTypes, LoopTypes, ToldTypes, prints
      <3>3. ClaimsInv'
        BY <2>1, <3>1 DEF ClaimsInv, prints
      <3>4. PrintsInv'
        BY <3>1, PrintsStay DEF prints, Kept
      <3> QED
        BY <2>2, <2>4, <3>2, <3>3, <3>4
    <2>6. CASE ScreenTake(c)
      <3>1. /\ UNCHANGED <<keys, prints>>
            /\ \/ screen = Nobody /\ screen' = c /\ saved' = saved \cup {c}
               \/ UNCHANGED <<screen, saved>>
        BY <2>6 DEF ScreenTake
      <3>2. ServerTypes'
        BY <2>1, <2>2, <2>4, <3>1 DEF ServerTypes, LoopTypes, ToldTypes, prints
      <3>3. ClaimsInv'
        BY <1>0, <2>1, <3>1 DEF ClaimsInv, prints
      <3>4. PrintsInv'
        BY <3>1, PrintsStay DEF prints, Kept
      <3> QED
        BY <2>2, <2>4, <3>2, <3>3, <3>4
    <2>7. CASE ScreenGive(c)
      <3>1. EndClaim(c) /\ keys' = keys
        BY <2>7 DEF ScreenGive
      <3>2. /\ UNCHANGED <<arrived, erased>> /\ Kept' = Kept
            /\ shown' \in Seq(Programs \X Nat) /\ deferred' \in Seq(Programs \X Nat)
        BY <3>1, RestoredPrints
      <3>3. ServerTypes'
        BY <2>1, <2>2, <2>4, <3>1, <3>2 DEF ServerTypes, LoopTypes, ToldTypes, EndClaim
      <3>4. ClaimsInv'
        BY <1>0, <2>1, <3>1 DEF ClaimsInv, prints, EndClaim, ScreenRestore
      <3>5. PrintsInv'
        BY <3>2, PrintsStay
      <3> QED
        BY <2>2, <2>4, <3>3, <3>4, <3>5
    <2> QED
      BY <1>2, <2>5, <2>6, <2>7
  <1>3. CASE KeyRead(c)
    <2>1. state' = state /\ frames' = [frames EXCEPT ![c] = @ + 1]
          /\ UNCHANGED <<claims, prints>>
      BY <1>3 DEF KeyRead, Framed, LooksAt
    <2>2. LoopTypes' /\ CurInv'
      BY <1>3, TakenKeeps DEF KeyRead, Framed
    <2>3. RepliesInv' /\ ToldTypes'
      <3>1. CASE Answer(c) /\ parked' = parked
        BY <2>1, <3>1, AnswerOne, AnsweredTypes
      <3>2. CASE /\ parked[c] = 0 /\ parked' = [parked EXCEPT ![c] = frames'[c]]
                 /\ UNCHANGED <<answered, replies>>
        <4>1. frames' \in [Conns -> Nat] /\ frames'[c] \in Nat
          BY <2>1 DEF ServerTypes
        <4>2. ToldTypes'
          BY <3>2, <4>1 DEF ServerTypes, ToldTypes
        <4> QED
          BY <2>1, <3>2, <4>2, ParkOne
      <3> QED
        BY <1>3, <3>1, <3>2 DEF KeyRead
    <2>4. ServerTypes'
      BY <2>1, <2>2, <2>3 DEF ServerTypes, LoopTypes, ToldTypes, claims, prints
    <2>5. ClaimsInv'
      BY <2>1 DEF ClaimsInv, claims, prints, Present
    <2>6. PrintsInv'
      BY <2>1, PrintsStay DEF prints, Kept
    <2> QED
      BY <2>2, <2>3, <2>4, <2>5, <2>6
  <1>4. CASE BytesIn(c)
    <2>1. LoopTypes' /\ CurInv'
      BY <1>4, TakenKeeps DEF BytesIn
    <2>2. UNCHANGED <<state, told, parked, claims>>
      BY <1>4 DEF BytesIn
    <2>3. /\ PrintsInv' /\ (deferred' # <<>> => screen # Nobody)
          /\ arrived' \in [Programs -> Nat]
          /\ shown' \in Seq(Programs \X Nat) /\ deferred' \in Seq(Programs \X Nat)
      BY <1>4, PrintTaken
    <2>4. ServerTypes'
      BY <2>1, <2>2, <2>3 DEF ServerTypes, LoopTypes, told, claims
    <2>5. ClaimsInv'
      BY <2>2, <2>3 DEF ClaimsInv, claims, Present
    <2>6. RepliesInv'
      BY <2>2 DEF RepliesInv, RepliesOf, told
    <2> QED
      BY <2>1, <2>3, <2>4, <2>5, <2>6
  <1> QED
    BY <1>1, <1>2, <1>3, <1>4 DEF Feed

\* A step of a program: it sends, prints, or closes a connection.
LEMMA ProgramStep ==
  ASSUME ServerInv, LoopTypes', Outside
  PROVE  ServerInv'
  <1> USE DEF ServerInv
  <1>1. cur' = cur /\ cur = <<>>
        /\ UNCHANGED <<state, claims, prints, told, parked>>
    BY DEF Outside
  <1>2. ServerTypes' /\ CurInv'
    BY <1>1 DEF ServerTypes, LoopTypes, CurInv, claims, prints, told
  <1>3. RepliesInv' /\ ClaimsInv'
    BY <1>1 DEF RepliesInv, RepliesOf, ClaimsInv, Present, claims, prints, told
  <1>4. PrintsInv'
    BY <1>1, PrintsStay DEF prints, Kept
  <1> QED
    BY <1>2, <1>3, <1>4

LEMMA SendsTypes ==
  ASSUME ServerTypes, NEW c \in Conns, NEW n \in Nat, Sends(c, n),
         printed' \in [Programs -> Nat]
  PROVE  LoopTypes'
  <1>1. Append(inbox[c], n) \in Seq(Nat)
    BY DEF ServerTypes
  <1>2. inbox' \in [Conns -> Seq(Nat)]
    BY <1>1 DEF Sends, ServerTypes
  <1> QED
    BY <1>2 DEF Sends, Outside, loop, ServerTypes, LoopTypes

LEMMA ProgramSteps ==
  ASSUME ServerInv,
         \/ \E c \in Conns : SendFrame(c) \/ Exit(c)
         \/ \E p \in Programs : Write(p)
  PROVE  ServerInv'
  <1> USE DEF ServerInv
  <1>1. ASSUME NEW c \in Conns, SendFrame(c) PROVE ServerInv'
    <2>1. printed[c[1]] \in Nat /\ printed' = printed
      BY <1>1 DEF ServerTypes, SendFrame, Programs
    <2>2. LoopTypes'
      BY <1>1, <2>1, SendsTypes DEF SendFrame, ServerTypes
    <2> QED
      BY <1>1, <2>2, ProgramStep DEF SendFrame, Sends
  <1>2. ASSUME NEW c \in Conns, Exit(c) PROVE ServerInv'
    <2>1. LoopTypes'
      BY <1>2 DEF Exit, Outside, loop, ServerTypes, LoopTypes
    <2> QED
      BY <1>2, <2>1, ProgramStep DEF Exit
  <1>3. ASSUME NEW p \in Programs, Write(p) PROVE ServerInv'
    <2>1. printed' \in [Programs -> Nat]
      <3>1. printed' = [printed EXCEPT ![p] = @ + 1] /\ printed \in [Programs -> Nat]
        BY <1>3 DEF Write, ServerTypes
      <3> QED
        BY <3>1
    <2>2. LoopTypes'
      BY <1>3, <2>1, SendsTypes DEF Write
    <2> QED
      BY <1>3, <2>2, ProgramStep DEF Write, Sends
  <1> QED
    BY <1>1, <1>2, <1>3

\* The daemon's loop.
LEMMA PollStep == ASSUME ServerInv, Poll PROVE ServerInv'
  <1> USE DEF ServerInv
  <1>1. /\ UNCHANGED <<inbox, clients, claims, prints, told, parked, cur, gone>>
        /\ turn' = TRUE /\ ~turn /\ hup' \subseteq Conns /\ polled' \subseteq Conns
    BY DEF Poll, Present
  <1>2. cur = <<>>
    BY <1>1 DEF CurInv
  <1>3. state' \in [Conns -> {"backlog", "new", "framed", "bytes", "closed", "freed"}]
        /\ Present \subseteq Present'
    BY DEF Poll, ServerTypes, Present
  <1>4. ServerTypes' /\ CurInv'
    BY <1>1, <1>2, <1>3 DEF ServerTypes, CurInv, clients, claims, prints, told
  <1>5. RepliesInv' /\ ClaimsInv'
    BY <1>1, <1>3 DEF RepliesInv, RepliesOf, ClaimsInv, claims, prints, told
  <1>6. PrintsInv'
    BY <1>1, PrintsStay DEF prints, Kept
  <1> QED
    BY <1>4, <1>5, <1>6

LEMMA RecvStep == ASSUME ServerInv, NEW c \in Conns, Recv(c) PROVE ServerInv'
  <1> USE DEF ServerInv
  <1>1. /\ UNCHANGED <<state, inbox, clients, claims, prints, told, parked, hup, turn>>
        /\ polled' = polled \ {c} /\ gone' \subseteq Conns /\ turn
    BY DEF Recv, ServerTypes
  <1>2. ServerTypes'
    BY <1>1 DEF ServerTypes, clients, claims, prints, told
  <1>3. CurInv'
    <2>1. CASE inbox[c] = <<>>
      BY <2>1 DEF Recv, CurInv
    <2>2. CASE inbox[c] # <<>>
      <3>1. Len(inbox[c]) \in Nat \ {0}
        BY <2>2 DEF ServerTypes
      <3> DEFINE n == IF Len(inbox[c]) < RecvLen THEN Len(inbox[c]) ELSE RecvLen
      <3>2. n \in 1..Len(inbox[c])
        BY <3>1, SizesAssumption
      <3>3. cur' = <<c, n>>
        BY <2>2 DEF Recv
      <3> HIDE DEF n
      <3> QED
        BY <1>1, <3>2, <3>3 DEF CurInv
    <2> QED
      BY <2>1, <2>2
  <1>4. RepliesInv' /\ ClaimsInv'
    BY <1>1 DEF RepliesInv, RepliesOf, ClaimsInv, Present, claims, prints, told
  <1>5. PrintsInv'
    BY <1>1, PrintsStay DEF prints, Kept
  <1> QED
    BY <1>2, <1>3, <1>4, <1>5

\* Its claims go with a connection, whichever it has.
LEMMA FreeStep == ASSUME ServerInv, NEW c \in Conns, Free(c) PROVE ServerInv'
  <1> USE DEF ServerInv
  <1>1. EndClaim(c) /\ cur = <<>> /\ cur' = cur /\ UNCHANGED <<clients, loop>>
        /\ state' = [state EXCEPT ![c] = "freed"]
        /\ keys' = IF keys = c THEN Nobody ELSE keys
    BY DEF Free
  <1>2. /\ UNCHANGED <<arrived, erased>> /\ Kept' = Kept
        /\ shown' \in Seq(Programs \X Nat) /\ deferred' \in Seq(Programs \X Nat)
    BY <1>1, RestoredPrints
  <1>3. ServerTypes' /\ CurInv'
    <2>1. inbox' \in [Conns -> Seq(Nat)] /\ ToldTypes'
      BY DEF Free, ServerTypes, ToldTypes
    <2>2. screen' \in {screen, Nobody}
      BY <1>1 DEF EndClaim
    <2> QED
      BY <1>1, <1>2, <2>1, <2>2 DEF ServerTypes, ToldTypes, clients, loop, CurInv
  <1>4. RepliesInv'
    BY FreedReplies
  <1>5. ClaimsInv'
    <2>1. Present' = Present \ {c} /\ c # Nobody
      BY <1>1, ConnsAssumption DEF Present, ServerTypes
    <2>2. keys' # c /\ screen' # c /\ keys' \in {keys, Nobody} /\ screen' \in {screen, Nobody}
      BY <1>1, <2>1 DEF EndClaim
    <2>3. CASE screen = c
      BY <1>1, <2>1, <2>2, <2>3 DEF ClaimsInv, EndClaim, ScreenRestore
    <2>4. CASE screen # c
      <3>1. UNCHANGED <<screen, saved, deferred>>
        BY <1>1, <2>4 DEF EndClaim, prints
      <3> QED
        BY <2>1, <2>2, <3>1 DEF ClaimsInv
    <2> QED
      BY <2>3, <2>4
  <1>6. PrintsInv'
    BY <1>2, PrintsStay
  <1> QED
    BY <1>3, <1>4, <1>5, <1>6

LEMMA EndTurnStep == ASSUME ServerInv, EndTurn PROVE ServerInv'
  <1> USE DEF ServerInv
  <1>1. /\ UNCHANGED <<state, inbox, clients, claims, prints, told, parked, polled, cur>>
        /\ cur = <<>> /\ gone' = {} /\ hup' = {} /\ turn' = FALSE
    BY DEF EndTurn
  <1>2. ServerTypes' /\ CurInv'
    BY <1>1 DEF ServerTypes, CurInv, clients, claims, prints, told
  <1>3. RepliesInv' /\ ClaimsInv'
    BY <1>1 DEF RepliesInv, RepliesOf, ClaimsInv, Present, claims, prints, told
  <1>4. PrintsInv'
    BY <1>1, PrintsStay DEF prints, Kept
  <1> QED
    BY <1>2, <1>3, <1>4

\* A key, or a resize.
LEMMA KeysStep ==
  ASSUME ServerInv, NEW s, s \subseteq Waiting, AnswerKeys(s) PROVE ServerInv'
  <1> USE DEF ServerInv
  <1>1. UNCHANGED <<state, inbox, clients, claims, prints, frames, loop, cur>>
    BY DEF AnswerKeys
  <1>2. ToldTypes'
    <2>1. frames' \in [Conns -> Nat] /\ \A c \in Conns : replies[c] \in Nat /\ parked[c] \in Nat
      BY <1>1 DEF ServerTypes
    <2>2. \A c \in Conns : answered[c] \cup (IF c \in s THEN {parked[c]} ELSE {}) \in SUBSET Nat
      BY DEF ServerTypes
    <2>3. answered' \in [Conns -> SUBSET Nat]
      BY <2>2 DEF AnswerKeys
    <2>4. replies' \in [Conns -> Nat] /\ parked' \in [Conns -> Nat]
      BY <2>1 DEF AnswerKeys
    <2> QED
      BY <2>1, <2>3, <2>4 DEF ToldTypes
  <1>3. ServerTypes' /\ CurInv'
    BY <1>1, <1>2 DEF ServerTypes, ToldTypes, CurInv, clients, claims, prints, loop
  <1>4. RepliesInv'
    BY ParkedAnswered
  <1>5. ClaimsInv'
    BY <1>1 DEF ClaimsInv, Present, claims, prints
  <1>6. PrintsInv'
    BY <1>1, PrintsStay DEF prints, Kept
  <1> QED
    BY <1>3, <1>4, <1>5, <1>6

LEMMA ServerStarts == ServerInit => ServerInv
  <1> SUFFICES ASSUME ServerInit PROVE ServerInv
    OBVIOUS
  <1>1. ServerTypes /\ CurInv /\ ClaimsInv
    <2>1. /\ state \in [Conns -> {"backlog"}] /\ inbox \in [Conns -> {<<>>}]
          /\ printed \in [Programs -> {0}] /\ arrived \in [Programs -> {0}]
          /\ frames \in [Conns -> {0}] /\ replies \in [Conns -> {0}]
          /\ parked \in [Conns -> {0}] /\ answered \in [Conns -> {{}}]
      BY DEF ServerInit
    <2>2. <<>> \in Seq(Nat) /\ <<>> \in Seq(Programs \X Nat)
      OBVIOUS
    <2>3. ServerTypes
      BY <2>1, <2>2 DEF ServerInit, ServerTypes
    <2> QED
      BY <2>3 DEF ServerInit, CurInv, ClaimsInv
  <1>2. RepliesInv
    <2>1. IsFiniteSet({}) /\ Cardinality({}) = 0 /\ 1..0 = {}
      BY FS_EmptySet
    <2> QED
      BY <2>1 DEF ServerInit, RepliesInv, RepliesOf
  <1>3. PrintsInv
    <2>1. Kept = <<>> /\ DOMAIN Kept = {}
      BY DEF ServerInit, Kept
    <2>2. Prints = {}
      BY DEF ServerInit, Prints
    <2> QED
      BY <2>1, <2>2 DEF ServerInit, PrintsInv, InOrder, ToSet
  <1> QED
    BY <1>1, <1>2, <1>3 DEF ServerInv

LEMMA ServerSteps == ServerInv /\ [ServerNext]_serverVars => ServerInv'
  <1> SUFFICES ASSUME ServerInv, [ServerNext]_serverVars PROVE ServerInv'
    OBVIOUS
  <1>1. CASE Key
    BY <1>1, KeysStep DEF Key
  <1>2. CASE Resize
    BY <1>2, KeysStep DEF Resize
  <1>3. CASE UNCHANGED serverVars
    <2>1. PrintsInv'
      BY <1>3, PrintsStay DEF serverVars, prints, Kept, ServerInv
    <2>2. RepliesInv' /\ ClaimsInv'
      BY <1>3 DEF serverVars, claims, prints, told, ServerInv, RepliesInv, RepliesOf, ClaimsInv,
                  Present
    <2>3. ServerTypes' /\ CurInv'
      BY <1>3 DEF serverVars, clients, claims, prints, told, loop, ServerInv, ServerTypes, CurInv
    <2> QED
      BY <2>1, <2>2, <2>3 DEF ServerInv
  <1> QED
    BY <1>1, <1>2, <1>3, PollStep, EndTurnStep, RecvStep, FeedStep, FreeStep, ProgramSteps
    DEF ServerNext

\* The inductive invariant of the screen server.
THEOREM ServerInvariant == ServerSpec => []ServerInv
  BY ServerStarts, ServerSteps, PTL DEF ServerSpec

\* Every frame that is counted is answered once, or is the read that is parked,
\* whatever a connection sends, claims and reads in turn and whenever it goes
\* (proto.cpp, dispatch and answer_key).
THEOREM ServerRepliesOnce == ServerSpec => []OneReplyEach
  <1>1. ServerInv => OneReplyEach
    BY DEF ServerInv, RepliesInv, RepliesOf, OneReplyEach, Present
  <1> QED
    BY <1>1, ServerInvariant, PTL

\* However a claim ends, with KEY_RELEASE, with its connection or with a protocol
\* error, the screen, what was saved of it and the prints held back for it are
\* given back (conn_eof), and prints are in order, each once.
THEOREM ServerGivesClaimsBack == ServerSpec => []ClaimsGivenBack
  <1>1. ServerInv => ClaimsGivenBack
    BY DEF ServerInv, ClaimsInv, PrintsInv, InOrder, ClaimsGivenBack
  <1> QED
    BY <1>1, ServerInvariant, PTL

-----------------------------------------------------------------------------
(* Prints in their program's order, where programs wait for their replies   *)
(* and print no more than one recv takes in between.  What a program has    *)
(* printed and the daemon has not taken in is in the socket of its byte     *)
(* channel; it has come after the last frame that has been looked at, so it *)
(* is one recv's; and with a frame after it in the other socket the program *)
(* does not print: the pass that takes the byte channels leaves nothing.    *)

\* A program's byte channel, and its frames.
Pair(b, c) == b[1] = c[1] /\ b[2] = "bytes" /\ c[2] = "frames"

SizesOk ==
  \A c \in Conns :
    /\ state[c] = "bytes" => c[2] = "bytes"
    /\ c[2] = "bytes" /\ state[c] # "bytes" => Len(inbox[c]) <= 1

ItemsOk ==
  \A c \in Conns : \A i \in 1..Len(inbox[c]) :
    /\ c[2] = "frames" => inbox[c][i] = printed[c[1]]
    /\ c[2] = "bytes" /\ state[c] # "bytes" => inbox[c][i] = 0

Waits(b) == IF state[b] = "bytes" THEN Len(inbox[b]) ELSE 0

CountOk ==
  /\ \A b \in Conns :
       b[2] = "bytes" =>
         /\ printed[b[1]] = arrived[b[1]] + Waits(b)
         /\ state[b] \notin {"bytes", "freed"} => printed[b[1]] = 0
  /\ \A p \in Programs : Channel(p) \notin Conns => printed[p] = 0 /\ arrived[p] = 0

LookedOk ==
  /\ looked \in [Programs -> Nat]
  /\ \A p \in Programs : looked[p] <= arrived[p] /\ printed[p] <= looked[p] + Burst

OnHand(c) == cur # <<>> /\ cur[1] = c

TurnOk ==
  /\ hup \subseteq exited /\ gone \subseteq hup /\ (~turn => gone = {})
  /\ \A c \in polled : inbox[c] # <<>> \/ c \in hup
  /\ \A c \in hup : c[2] = "bytes" => inbox[c] = <<>> \/ c \in polled \/ OnHand(c)
  /\ cur # <<>> /\ cur[1][2] = "bytes" => cur[2] = Len(inbox[cur[1]])

BehindOk ==
  \A b, c \in Conns :
    Pair(b, c) /\ printed[b[1]] # arrived[b[1]] =>
      /\ c \in polled /\ inbox[c] # <<>> => b \in polled \/ OnHand(b)
      /\ ~OnHand(c)

SocketsInv == SizesOk /\ ItemsOk /\ CountOk /\ LookedOk /\ TurnOk /\ BehindOk

LEMMA ConnsAre ==
  ASSUME NEW c \in Conns
  PROVE  /\ c = <<c[1], c[2]>> /\ c[2] \in {"frames", "bytes"} /\ c[1] \in Programs
         /\ \A e \in Conns : e[1] = c[1] /\ e[2] = c[2] => e = c
         /\ c[2] = "bytes" => c = Channel(c[1])
  <1>1. \A e \in Conns : e = <<e[1], e[2]>> /\ e[2] \in {"frames", "bytes"}
    BY ConnsAssumption
  <1>2. c[1] \in Programs
    BY DEF Programs
  <1>3. ASSUME NEW e \in Conns, e[1] = c[1], e[2] = c[2] PROVE e = c
    BY <1>1, <1>3
  <1> QED
    BY <1>1, <1>2, <1>3 DEF Channel

\* The types that these proofs need.
SocketTypes ==
  /\ inbox \in [Conns -> Seq(Nat)]
  /\ printed \in [Programs -> Nat] /\ arrived \in [Programs -> Nat]
  /\ \A c \in Conns : Len(inbox[c]) \in Nat

LEMMA SocketTyped == ASSUME ServerTypes PROVE SocketTypes
  <1>1. \A c \in Conns : inbox[c] \in Seq(Nat)
    BY DEF ServerTypes
  <1> QED
    BY <1>1 DEF ServerTypes, SocketTypes

LEMMA SocketsSame ==
  ASSUME SocketsInv,
         UNCHANGED <<state, inbox, exited, printed, arrived, looked, polled, hup, gone, turn, cur>>
  PROVE  SocketsInv'
  BY DEF SocketsInv, SizesOk, ItemsOk, Waits, CountOk, LookedOk, OnHand, TurnOk, BehindOk

\* One recv takes what a byte channel holds.
LEMMA ChannelHolds ==
  ASSUME Burst <= RecvLen, ServerInv, SocketsInv, NEW c \in Conns, c[2] = "bytes"
  PROVE  Len(inbox[c]) \in Nat /\ Len(inbox[c]) <= RecvLen
  <1>1. c[1] \in Programs /\ inbox[c] \in Seq(Nat) /\ Len(inbox[c]) \in Nat
    BY ConnsAre DEF ServerInv, ServerTypes
  <1>2. CASE state[c] # "bytes"
    BY <1>1, <1>2, SizesAssumption DEF SocketsInv, SizesOk
  <1>3. CASE state[c] = "bytes"
    <2> DEFINE a == arrived[c[1]]
               l == looked[c[1]]
               m == Len(inbox[c])
    <2>1. printed[c[1]] = a + m /\ a \in Nat /\ m \in Nat
      BY <1>1, <1>3 DEF SocketsInv, CountOk, Waits, ServerInv, ServerTypes
    <2>2. l \in Nat /\ l <= a /\ printed[c[1]] <= l + Burst
      BY <1>1 DEF SocketsInv, LookedOk
    <2> HIDE DEF a, l, m
    <2>3. m <= RecvLen
      BY <2>1, <2>2, SizesAssumption
    <2> QED
      BY <2>1, <2>3 DEF m
  <1> QED
    BY <1>2, <1>3

\* A frame comes after all that its program has printed.
LEMMA SendFrameSockets ==
  ASSUME ServerInv, SocketsInv, NEW c \in Conns, SendFrame(c) PROVE SocketsInv'
  <1> DEFINE s == Append(inbox[c], printed[c[1]])
  <1>1. /\ UNCHANGED <<state, exited, printed, arrived, looked, polled, hup, gone, turn, cur>>
        /\ inbox' = [inbox EXCEPT ![c] = s] /\ cur = <<>> /\ c \notin exited
        /\ c[2] = "bytes" => state[c] # "bytes" /\ inbox[c] = <<>>
        /\ state[c] # "freed"
    BY DEF SendFrame, Sends, Outside, prints, loop, told
  <1>2. SocketTypes /\ c[1] \in Programs
    BY SocketTyped, ConnsAre DEF ServerInv
  <1>3. /\ Len(inbox[c]) \in Nat /\ Len(s) = Len(inbox[c]) + 1 /\ s \in Seq(Nat)
        /\ \A i \in 1..Len(inbox[c]) : s[i] = inbox[c][i]
        /\ s[Len(inbox[c]) + 1] = printed[c[1]]
    BY <1>2 DEF SocketTypes
  <1> HIDE DEF s
  <1>4. inbox'[c] = s /\ \A e \in Conns : e # c => inbox'[e] = inbox[e]
    BY <1>1, <1>2 DEF SocketTypes
  <1>5. c[2] = "bytes" => printed[c[1]] = 0 /\ Len(s) = 1
    BY <1>1, <1>3 DEF SocketsInv, CountOk
  <1>6. SizesOk'
    BY <1>1, <1>3, <1>4, <1>5, SizesAssumption DEF SocketsInv, SizesOk
  <1>7. ItemsOk'
    <2>1. ASSUME NEW i \in 1..Len(s)
          PROVE  /\ c[2] = "frames" => s[i] = printed[c[1]]
                 /\ c[2] = "bytes" => s[i] = 0
      <3>1. CASE i = Len(inbox[c]) + 1
        BY <1>3, <1>5, <3>1
      <3>2. CASE i \in 1..Len(inbox[c])
        BY <1>1, <1>3, <3>2 DEF SocketsInv, ItemsOk
      <3> QED
        BY <1>3, <3>1, <3>2
    <2> QED
      BY <1>1, <1>4, <2>1 DEF SocketsInv, ItemsOk
  <1>8. CountOk'
    <2>1. ASSUME NEW b \in Conns, b[2] = "bytes" PROVE Waits(b)' = Waits(b)
      BY <1>1, <1>4, <2>1 DEF Waits
    <2> QED
      BY <1>1, <2>1 DEF SocketsInv, CountOk
  <1>9. s # <<>> /\ LookedOk'
    BY <1>1, <1>3 DEF SocketsInv, LookedOk
  <1>10. TurnOk'
    BY <1>1, <1>4, <1>9 DEF SocketsInv, TurnOk, OnHand
  <1>11. BehindOk'
    <2> SUFFICES ASSUME NEW b \in Conns, NEW e \in Conns, Pair(b, e),
                        printed[b[1]] # arrived[b[1]]
                 PROVE  /\ e \in polled /\ inbox'[e] # <<>> => b \in polled \/ OnHand(b)
                        /\ ~OnHand(e)
      BY <1>1 DEF BehindOk, OnHand
    <2>1. e \in polled /\ inbox'[e] # <<>> => inbox[e] # <<>>
      BY <1>1, <1>4 DEF SocketsInv, TurnOk
    <2> QED
      BY <2>1 DEF SocketsInv, BehindOk
  <1> QED
    BY <1>6, <1>7, <1>8, <1>9, <1>10, <1>11 DEF SocketsInv

\* It prints only with no frame in its socket.
LEMMA WriteSockets ==
  ASSUME Patient, ServerInv, SocketsInv, NEW p \in Programs, Write(p) PROVE SocketsInv'
  <1> DEFINE b == Channel(p)
             s == Append(inbox[b], 0)
  <1>1. /\ UNCHANGED <<state, exited, arrived, looked, polled, hup, gone, turn, cur>>
        /\ inbox' = [inbox EXCEPT ![b] = s] /\ cur = <<>> /\ b \notin exited /\ printed[p] < looked[p] + Burst
        /\ printed' = [printed EXCEPT ![p] = @ + 1]
        /\ b \in Conns /\ state[b] = "bytes" /\ inbox[<<p, "frames">>] = <<>>
    BY DEF Write, Sends, Outside, prints, loop, told
  <1>2. b[1] = p /\ b[2] = "bytes"
    BY DEF Channel
  <1> HIDE DEF b
  <1>3. SocketTypes
    BY SocketTyped DEF ServerInv
  <1>4. Len(inbox[b]) \in Nat /\ Len(s) = Len(inbox[b]) + 1 /\ s \in Seq(Nat) /\ s # <<>>
    <2>1. inbox[b] \in Seq(Nat) /\ 0 \in Nat
      BY <1>1, <1>3 DEF SocketTypes
    <2> QED
      BY <2>1
  <1> HIDE DEF s
  <1>5. inbox'[b] = s /\ \A e \in Conns : e # b => inbox'[e] = inbox[e]
    BY <1>1, <1>3 DEF SocketTypes
  <1>6. printed'[p] = printed[p] + 1 /\ \A q \in Programs : q # p => printed'[q] = printed[q]
    BY <1>1, <1>3 DEF SocketTypes
  <1>7. SizesOk'
    BY <1>1, <1>4, <1>5, SizesAssumption DEF SocketsInv, SizesOk
  <1>8. ASSUME NEW e \in Conns, e[1] = p PROVE e = b \/ (e[2] = "frames" /\ inbox[e] = <<>>)
    <2>1. e = <<p, e[2]>> /\ e[2] \in {"frames", "bytes"}
      BY <1>8, ConnsAre
    <2>2. CASE e[2] = "bytes"
      BY <1>1, <1>2, <1>8, <2>2, ConnsAre
    <2>3. CASE e[2] = "frames"
      <3>1. e = <<p, "frames">>
        BY <2>1, <2>3
      <3> QED
        BY <1>1, <2>3, <3>1
    <2> QED
      BY <2>1, <2>2, <2>3
  <1>9. ItemsOk'
    <2> SUFFICES ASSUME NEW e \in Conns, NEW i \in 1..Len(inbox'[e])
                 PROVE  /\ e[2] = "frames" => inbox'[e][i] = printed'[e[1]]
                        /\ e[2] = "bytes" /\ state[e] # "bytes" => inbox'[e][i] = 0
      BY <1>1 DEF ItemsOk
    <2>1. CASE e = b
      BY <1>1, <1>2, <2>1
    <2>2. CASE e # b /\ e[1] # p
      BY <1>5, <1>6, <2>2, ConnsAre DEF SocketsInv, ItemsOk
    <2>3. CASE e # b /\ e[1] = p
      <3>1. inbox'[e] = <<>>
        BY <1>5, <1>8, <2>3
      <3> QED
        BY <3>1
    <2> QED
      BY <2>1, <2>2, <2>3
  <1>10. CountOk'
    <2>1. ASSUME NEW e \in Conns, e[2] = "bytes"
          PROVE  /\ printed'[e[1]] = arrived[e[1]] + Waits(e)'
                 /\ state[e] \notin {"bytes", "freed"} => printed'[e[1]] = 0
      <3>1. CASE e = b
        <4>1. Waits(b)' = Len(inbox[b]) + 1 /\ Waits(b) = Len(inbox[b])
          BY <1>1, <1>4, <1>5 DEF Waits
        <4>2. printed[p] = arrived[p] + Len(inbox[b]) /\ printed[p] \in Nat /\ arrived[p] \in Nat
          BY <1>1, <1>2, <1>3, <4>1 DEF SocketsInv, CountOk, SocketTypes
        <4>3. printed'[p] = arrived[p] + Waits(b)'
          BY <1>4, <1>6, <4>1, <4>2
        <4> QED
          BY <1>1, <1>2, <3>1, <4>3
      <3>2. CASE e # b
        <4>1. e[1] # p
          BY <1>8, <2>1, <3>2
        <4>2. Waits(e)' = Waits(e) /\ printed'[e[1]] = printed[e[1]]
          BY <1>1, <1>5, <1>6, <3>2, <4>1, ConnsAre DEF Waits
        <4> QED
          BY <2>1, <4>2 DEF SocketsInv, CountOk
      <3> QED
        BY <3>1, <3>2
    <2>2. ASSUME NEW q \in Programs, Channel(q) \notin Conns
          PROVE  printed'[q] = 0 /\ arrived[q] = 0
      <3>1. q # p
        BY <1>1, <2>2 DEF b
      <3> QED
        BY <1>6, <2>2, <3>1 DEF SocketsInv, CountOk
    <2> QED
      BY <1>1, <2>1, <2>2 DEF CountOk, Programs, Channel
  <1>11. TurnOk'
    BY <1>1, <1>4, <1>5 DEF SocketsInv, TurnOk, OnHand
  <1>12. BehindOk'
    <2> SUFFICES ASSUME NEW a \in Conns, NEW e \in Conns, Pair(a, e),
                        printed'[a[1]] # arrived[a[1]]
                 PROVE  /\ e \in polled /\ inbox'[e] # <<>> => a \in polled \/ OnHand(a)
                        /\ ~OnHand(e)
      BY <1>1 DEF BehindOk, OnHand
    <2>1. e # b /\ a[1] = e[1] /\ a[1] \in Programs
      BY <1>2, ConnsAre DEF Pair
    <2>2. CASE e[1] = p
      BY <1>1, <1>5, <1>8, <2>1, <2>2 DEF OnHand
    <2>3. CASE e[1] # p
      BY <1>1, <1>5, <1>6, <2>1, <2>3 DEF SocketsInv, BehindOk
    <2> QED
      BY <2>2, <2>3
  <1>13. LookedOk'
    <2>1. /\ looked' = looked /\ arrived' = arrived /\ printed[p] < looked[p] + Burst
          /\ looked[p] \in Nat /\ printed[p] \in Nat
      BY <1>1, <1>3 DEF SocketsInv, LookedOk, SocketTypes
    <2>2. printed'[p] <= looked[p] + Burst
      BY <1>6, <2>1, SizesAssumption
    <2> QED
      BY <1>6, <2>1, <2>2 DEF SocketsInv, LookedOk
  <1> QED
    BY <1>7, <1>9, <1>10, <1>11, <1>12, <1>13 DEF SocketsInv

LEMMA ExitSockets == ASSUME SocketsInv, NEW c \in Conns, Exit(c) PROVE SocketsInv'
  <1>1. /\ UNCHANGED <<state, inbox, printed, arrived, looked, polled, hup, gone, turn, cur>>
        /\ exited' = exited \cup {c}
    BY DEF Exit, Outside, prints, loop, told
  <1> QED
    BY <1>1 DEF SocketsInv, SizesOk, ItemsOk, Waits, CountOk, LookedOk, OnHand, TurnOk, BehindOk

\* What is taken is the head, and of a byte channel the last of a recv is the last
\* there is.
LEMMA TakenSocket ==
  ASSUME ServerInv, SocketsInv, NEW c \in Conns, Taken(c)
  PROVE  /\ UNCHANGED <<exited, printed, polled, hup, gone, turn>>
         /\ OnHand(c) /\ c \notin polled /\ turn
         /\ Len(inbox[c]) \in Nat \ {0} /\ Len(inbox'[c]) = Len(inbox[c]) - 1
         /\ \A i \in 1..Len(inbox'[c]) : inbox'[c][i] = inbox[c][i + 1] /\ i + 1 \in 1..Len(inbox[c])
         /\ \A e \in Conns : e # c => inbox'[e] = inbox[e]
         /\ cur' \in {<<>>, <<c, cur[2] - 1>>}
         /\ c[2] = "bytes" => cur' = IF Len(inbox[c]) = 1 THEN <<>> ELSE <<c, Len(inbox'[c])>>
         /\ Len(inbox[c]) = 1 => inbox'[c] = <<>>
  <1>1. SocketTypes /\ cur # <<>> /\ cur[1] = c
    BY SocketTyped DEF ServerInv, Taken
  <1>2. inbox[c] \in Seq(Nat) /\ Len(inbox[c]) \in Nat
        /\ (c[2] = "bytes" => cur[2] = Len(inbox[c]))
        /\ cur[2] \in 1..Len(inbox[c]) /\ c \notin polled /\ turn
    BY <1>1 DEF SocketTypes, SocketsInv, TurnOk, ServerInv, CurInv
  <1>3. /\ inbox[c] # <<>> /\ Len(inbox[c]) \in Nat \ {0}
        /\ Tail(inbox[c]) \in Seq(Nat) /\ Len(Tail(inbox[c])) = Len(inbox[c]) - 1
        /\ \A i \in 1..Len(Tail(inbox[c])) : Tail(inbox[c])[i] = inbox[c][i + 1]
    BY <1>2
  <1>4. inbox'[c] = Tail(inbox[c]) /\ \A e \in Conns : e # c => inbox'[e] = inbox[e]
    BY <1>1 DEF Taken, SocketTypes
  <1>5. cur' = IF cur[2] = 1 THEN <<>> ELSE <<c, cur[2] - 1>>
    BY DEF Taken
  <1>6. c[2] = "bytes" => cur' = IF Len(inbox[c]) = 1 THEN <<>> ELSE <<c, Len(inbox'[c])>>
    BY <1>2, <1>3, <1>4, <1>5
  <1>7. Len(inbox[c]) = 1 => inbox'[c] = <<>>
    <2> DEFINE t == Tail(inbox[c])
    <2>1. t \in Seq(Nat) /\ Len(t) = Len(inbox[c]) - 1 /\ inbox'[c] = t
      BY <1>3, <1>4
    <2> HIDE DEF t
    <2>2. Len(t) = 0 => t = <<>>
      BY <2>1
    <2> QED
      BY <2>1, <2>2
  <1>8. UNCHANGED <<exited, printed, polled, hup, gone, turn>>
    BY DEF Taken, clients, loop
  <1>9. \A i \in 1..Len(inbox'[c]) : i + 1 \in 1..Len(inbox[c])
    BY <1>2, <1>3, <1>4
  <1> QED
    BY <1>1, <1>2, <1>3, <1>4, <1>5, <1>6, <1>7, <1>8, <1>9 DEF OnHand

\* What all steps that take something leave true.
LEMMA TakenTurn ==
  ASSUME ServerInv, SocketsInv, NEW c \in Conns, Taken(c)
  PROVE  TurnOk' /\ \A e \in Conns : OnHand(e)' => e = c
  <1>1. /\ UNCHANGED <<exited, printed, polled, hup, gone, turn>>
        /\ OnHand(c) /\ c \notin polled
        /\ \A e \in Conns : e # c => inbox'[e] = inbox[e]
        /\ cur' \in {<<>>, <<c, cur[2] - 1>>}
        /\ c[2] = "bytes" => cur' = IF Len(inbox[c]) = 1 THEN <<>> ELSE <<c, Len(inbox'[c])>>
        /\ Len(inbox[c]) = 1 => inbox'[c] = <<>>
    BY TakenSocket
  <1>2. \A e \in Conns : OnHand(e)' => e = c
    BY <1>1 DEF OnHand
  <1>3. cur' # <<>> /\ cur'[1][2] = "bytes" => cur'[2] = Len(inbox'[cur'[1]])
    <2>1. cur' # <<>> => cur'[1] = c
      BY <1>1
    <2> QED
      BY <1>1, <2>1
  <1>4. ASSUME NEW e \in hup, e[2] = "bytes" PROVE inbox'[e] = <<>> \/ e \in polled \/ OnHand(e)'
    <2>1. e \in Conns
      BY DEF ServerInv, ServerTypes
    <2>2. CASE e = c
      BY <1>1, <1>4, <2>2 DEF OnHand
    <2>3. CASE e # c
      <3>1. ~OnHand(e)
        BY <1>1, <2>3 DEF OnHand
      <3> QED
        BY <1>1, <1>4, <2>1, <2>3, <3>1 DEF SocketsInv, TurnOk
    <2> QED
      BY <2>2, <2>3
  <1>5. \A e \in polled : inbox'[e] # <<>> \/ e \in hup
    BY <1>1 DEF SocketsInv, TurnOk, ServerInv, ServerTypes
  <1>6. hup \subseteq exited /\ gone \subseteq hup /\ (~turn => gone = {})
    BY DEF SocketsInv, TurnOk
  <1> QED
    BY <1>1, <1>2, <1>3, <1>4, <1>5, <1>6 DEF TurnOk

\* A frame is looked at with nothing printed that has not arrived.
LEMMA LookedAt ==
  ASSUME ServerInv, SocketsInv, NEW c \in Conns, cur # <<>>, cur[1] = c,
         state[c] \in {"new", "framed"}
  PROVE  /\ Head(inbox[c]) = printed[c[1]] /\ printed[c[1]] = arrived[c[1]]
         /\ c[1] \in Programs /\ arrived[c[1]] \in Nat
  <1>1. arrived[c[1]] \in Nat /\ c[1] \in Programs
    BY ConnsAre DEF ServerInv, ServerTypes
  <1>2. inbox[c] \in Seq(Nat) /\ 1 \in 1..Len(inbox[c]) /\ Head(inbox[c]) = inbox[c][1]
    <2>1. inbox[c] \in Seq(Nat) /\ cur[2] \in 1..Len(inbox[c])
      BY DEF ServerInv, ServerTypes, CurInv
    <2> QED
      BY <2>1
  <1>3. CASE c[2] = "bytes"
    <2>1. inbox[c][1] = 0 /\ printed[c[1]] = 0 /\ printed[c[1]] = arrived[c[1]] + Waits(c) /\ Waits(c) = 0
      BY <1>2, <1>3 DEF SocketsInv, ItemsOk, CountOk, Waits
    <2> QED
      BY <1>1, <1>2, <2>1
  <1>4. CASE c[2] = "frames"
    <2> DEFINE b == Channel(c[1])
    <2>1. Head(inbox[c]) = printed[c[1]]
      BY <1>2, <1>4 DEF SocketsInv, ItemsOk
    <2>2. CASE b \in Conns
      <3>1. Pair(b, c) /\ b[1] = c[1]
        BY <1>4 DEF Pair, Channel
      <3>2. OnHand(c)
        BY DEF OnHand
      <3> HIDE DEF b
      <3>3. printed[c[1]] = arrived[c[1]]
        BY <2>2, <3>1, <3>2 DEF SocketsInv, BehindOk
      <3> QED
        BY <1>1, <2>1, <3>3
    <2>3. CASE b \notin Conns
      <3>1. printed[c[1]] = 0 /\ arrived[c[1]] = 0
        BY <1>1, <2>3 DEF SocketsInv, CountOk
      <3> QED
        BY <1>1, <2>1, <3>1
    <2> QED
      BY <2>2, <2>3
  <1> QED
    BY <1>1, <1>3, <1>4, ConnsAre

\* And what its program has printed by then is what looked keeps.
LEMMA LookedThen ==
  ASSUME ServerInv, SocketsInv, NEW c \in Conns, cur # <<>>, cur[1] = c,
         state[c] \in {"new", "framed"}, LooksAt(c), printed' = printed, arrived' = arrived
  PROVE  LookedOk'
  <1>1. /\ Head(inbox[c]) = printed[c[1]] /\ printed[c[1]] = arrived[c[1]]
        /\ c[1] \in Programs /\ arrived[c[1]] \in Nat
    BY LookedAt
  <1>2. looked' = [looked EXCEPT ![c[1]] = arrived[c[1]]]
    BY <1>1 DEF LooksAt
  <1> QED
    BY <1>1, <1>2, SizesAssumption DEF SocketsInv, LookedOk

\* A frame is taken by a connection that is no byte channel yet, and stays none.
LEMMA FrameSockets ==
  ASSUME ServerInv, SocketsInv, NEW c \in Conns, Taken(c), state[c] \in {"new", "framed"},
         LooksAt(c), state' = state, arrived' = arrived
  PROVE  SocketsInv'
  <1>1. /\ UNCHANGED <<exited, printed, polled, hup, gone, turn>>
        /\ OnHand(c)
        /\ Len(inbox[c]) \in Nat \ {0} /\ Len(inbox'[c]) = Len(inbox[c]) - 1
        /\ \A i \in 1..Len(inbox'[c]) : inbox'[c][i] = inbox[c][i + 1] /\ i + 1 \in 1..Len(inbox[c])
        /\ \A e \in Conns : e # c => inbox'[e] = inbox[e]
    BY TakenSocket
  <1>2. TurnOk' /\ \A e \in Conns : OnHand(e)' => e = c
    BY TakenTurn
  <1>3. SizesOk'
    BY <1>1, SizesAssumption DEF SocketsInv, SizesOk
  <1>4. ItemsOk'
    <2> SUFFICES ASSUME NEW e \in Conns, NEW i \in 1..Len(inbox'[e])
                 PROVE  /\ e[2] = "frames" => inbox'[e][i] = printed[e[1]]
                        /\ e[2] = "bytes" /\ state[e] # "bytes" => inbox'[e][i] = 0
      BY <1>1 DEF ItemsOk
    <2>1. CASE e = c
      <3>1. inbox'[c][i] = inbox[c][i + 1] /\ i + 1 \in 1..Len(inbox[c])
        BY <1>1, <2>1
      <3> QED
        BY <2>1, <3>1 DEF SocketsInv, ItemsOk
    <2>2. CASE e # c
      BY <1>1, <2>2 DEF SocketsInv, ItemsOk
    <2> QED
      BY <2>1, <2>2
  <1>5. CountOk'
    <2>1. \A b \in Conns : Waits(b)' = Waits(b)
      BY <1>1 DEF Waits
    <2> QED
      BY <1>1, <2>1 DEF SocketsInv, CountOk
  <1>6. BehindOk'
    <2> SUFFICES ASSUME NEW b \in Conns, NEW e \in Conns, Pair(b, e),
                        printed[b[1]] # arrived[b[1]]
                 PROVE  /\ e \in polled /\ inbox'[e] # <<>> => b \in polled \/ OnHand(b)'
                        /\ ~OnHand(e)'
      BY <1>1 DEF BehindOk
    <2>1. e # c
      BY <1>1 DEF SocketsInv, BehindOk
    <2>2. ~OnHand(b)
      <3>1. ASSUME b = c PROVE FALSE
        <4>1. Waits(c) = 0 /\ arrived[c[1]] \in Nat
          BY DEF Waits, ServerInv, ServerTypes, Programs
        <4> QED
          BY <3>1, <4>1 DEF SocketsInv, CountOk, Pair
      <3> QED
        BY <1>1, <3>1 DEF OnHand
    <2> QED
      BY <1>1, <1>2, <2>1, <2>2 DEF SocketsInv, BehindOk
  <1>7. LookedOk'
    BY <1>1, LookedThen DEF OnHand
  <1> QED
    BY <1>2, <1>3, <1>4, <1>5, <1>6, <1>7 DEF SocketsInv

\* The handshake leaves nothing in the socket of a byte channel.
LEMMA HelloSockets ==
  ASSUME ServerInv, SocketsInv, NEW c \in Conns, Hello(c) PROVE SocketsInv'
  <1>1. Taken(c) /\ LooksAt(c) /\ state[c] = "new" /\ arrived' = arrived
        /\ state' = [state EXCEPT ![c] = IF c[2] = "bytes" THEN "bytes" ELSE "framed"]
    BY DEF Hello, Framed, prints
  <1>2. /\ UNCHANGED <<exited, printed, polled, hup, gone, turn>>
        /\ OnHand(c)
        /\ Len(inbox[c]) \in Nat \ {0} /\ Len(inbox'[c]) = Len(inbox[c]) - 1
        /\ \A i \in 1..Len(inbox'[c]) : inbox'[c][i] = inbox[c][i + 1] /\ i + 1 \in 1..Len(inbox[c])
        /\ \A e \in Conns : e # c => inbox'[e] = inbox[e]
    BY <1>1, TakenSocket
  <1>3. TurnOk' /\ \A e \in Conns : OnHand(e)' => e = c
    BY <1>1, TakenTurn
  <1>4. state'[c] = (IF c[2] = "bytes" THEN "bytes" ELSE "framed")
        /\ \A e \in Conns : e # c => state'[e] = state[e]
    BY <1>1 DEF ServerInv, ServerTypes
  <1>5. c[2] = "bytes" => Len(inbox'[c]) = 0
    <2>1. c[2] = "bytes" => Len(inbox[c]) <= 1
      BY <1>1 DEF SocketsInv, SizesOk
    <2> DEFINE m == Len(inbox[c])
               k == Len(inbox'[c])
    <2>2. m \in Nat \ {0} /\ k = m - 1
      BY <1>2
    <2>3. c[2] = "bytes" => m <= 1
      BY <2>1
    <2> HIDE DEF m, k
    <2>4. c[2] = "bytes" => k = 0
      BY <2>2, <2>3
    <2> QED
      BY <2>4 DEF k
  <1>6. SizesOk'
    BY <1>2, <1>4, SizesAssumption DEF SocketsInv, SizesOk
  <1>7. ItemsOk'
    <2> SUFFICES ASSUME NEW e \in Conns, NEW i \in 1..Len(inbox'[e])
                 PROVE  /\ e[2] = "frames" => inbox'[e][i] = printed[e[1]]
                        /\ e[2] = "bytes" /\ state'[e] # "bytes" => inbox'[e][i] = 0
      BY <1>2 DEF ItemsOk
    <2>1. CASE e = c
      <3>1. inbox'[c][i] = inbox[c][i + 1] /\ i + 1 \in 1..Len(inbox[c])
        BY <1>2, <2>1
      <3> QED
        BY <1>4, <2>1, <3>1 DEF SocketsInv, ItemsOk
    <2>2. CASE e # c
      BY <1>2, <1>4, <2>2 DEF SocketsInv, ItemsOk
    <2> QED
      BY <2>1, <2>2
  <1>8. c[2] = "bytes" => printed[c[1]] = 0 /\ printed[c[1]] = arrived[c[1]] + Waits(c)
                          /\ Waits(c) = 0
    BY <1>1 DEF SocketsInv, CountOk, Waits
  <1>9. CountOk'
    <2>1. ASSUME NEW b \in Conns, b[2] = "bytes"
          PROVE  /\ printed[b[1]] = arrived[b[1]] + Waits(b)'
                 /\ state'[b] \notin {"bytes", "freed"} => printed[b[1]] = 0
      <3>1. CASE b = c
        <4>1. Waits(c)' = 0
          BY <1>4, <1>5, <2>1, <3>1 DEF Waits
        <4> QED
          BY <1>4, <1>8, <2>1, <3>1, <4>1
      <3>2. CASE b # c
        <4>1. Waits(b)' = Waits(b)
          BY <1>2, <1>4, <3>2 DEF Waits
        <4> QED
          BY <1>4, <2>1, <3>2, <4>1 DEF SocketsInv, CountOk
      <3> QED
        BY <3>1, <3>2
    <2> QED
      BY <1>1, <1>2, <2>1 DEF SocketsInv, CountOk
  <1>10. BehindOk'
    <2> SUFFICES ASSUME NEW b \in Conns, NEW e \in Conns, Pair(b, e),
                        printed[b[1]] # arrived[b[1]]
                 PROVE  /\ e \in polled /\ inbox'[e] # <<>> => b \in polled \/ OnHand(b)'
                        /\ ~OnHand(e)'
      BY <1>1, <1>2 DEF BehindOk
    <2>1. e # c
      BY <1>2 DEF SocketsInv, BehindOk
    <2>2. ~OnHand(b)
      <3>1. ASSUME b = c PROVE FALSE
        <4>1. arrived[c[1]] \in Nat
          BY DEF ServerInv, ServerTypes, Programs
        <4> QED
          BY <1>8, <3>1, <4>1 DEF Pair
      <3> QED
        BY <1>2, <3>1 DEF OnHand
    <2> QED
      BY <1>2, <1>3, <2>1, <2>2 DEF SocketsInv, BehindOk
  <1>11. LookedOk'
    BY <1>1, <1>2, LookedThen DEF OnHand
  <1> QED
    BY <1>3, <1>6, <1>7, <1>9, <1>10, <1>11 DEF SocketsInv

\* After a protocol error nothing of the recv is left.
LEMMA ErrorSockets ==
  ASSUME ServerInv, SocketsInv, NEW c \in Conns, ProtocolError(c) PROVE SocketsInv'
  <1> DEFINE s == SubSeq(inbox[c], cur[2] + 1, Len(inbox[c]))
  <1>1. /\ UNCHANGED <<exited, printed, arrived, polled, hup, gone, turn>>
        /\ cur # <<>> /\ cur[1] = c /\ cur' = <<>> /\ state[c] \in {"new", "framed"}
        /\ state' = [state EXCEPT ![c] = "closed"] /\ LooksAt(c)
        /\ inbox' = [inbox EXCEPT ![c] = s]
    BY DEF ProtocolError, clients, loop, prints
  <1>2. inbox[c] \in Seq(Nat) /\ cur[2] \in 1..Len(inbox[c]) /\ c \notin polled
        /\ inbox \in [Conns -> Seq(Nat)]
    BY <1>1 DEF ServerInv, ServerTypes, CurInv
  <1>3. /\ Len(inbox[c]) \in Nat /\ Len(s) \in 0..Len(inbox[c]) /\ s \in Seq(Nat)
        /\ \A i \in 1..Len(s) : s[i] = inbox[c][cur[2] + i] /\ cur[2] + i \in 1..Len(inbox[c])
    <2> DEFINE q == inbox[c] m == cur[2]
    <2>1. q \in Seq(Nat) /\ Len(q) \in Nat /\ m \in 1..Len(q)
      BY <1>2
    <2> HIDE DEF q, m
    <2>2. Len(SubSeq(q, m + 1, Len(q))) = Len(q) - m
      BY <2>1
    <2>3. SubSeq(q, m + 1, Len(q)) \in Seq(Nat)
      BY <2>1
    <2>4. ASSUME NEW i \in 1..(Len(q) - m)
          PROVE  SubSeq(q, m + 1, Len(q))[i] = q[m + i] /\ m + i \in 1..Len(q)
      BY <2>1
    <2>5. Len(q) - m \in 0..Len(q)
      BY <2>1
    <2> QED
      BY <2>1, <2>2, <2>3, <2>4, <2>5 DEF q, m
  <1>4. c[2] = "bytes" => s = <<>>
    BY <1>1, <1>2 DEF SocketsInv, TurnOk
  <1> HIDE DEF s
  <1>5. inbox'[c] = s /\ \A e \in Conns : e # c => inbox'[e] = inbox[e]
    BY <1>1, <1>2
  <1>6. state'[c] = "closed" /\ \A e \in Conns : e # c => state'[e] = state[e]
    BY <1>1 DEF ServerInv, ServerTypes
  <1>7. SizesOk'
    BY <1>2, <1>3, <1>5, <1>6, <1>1 DEF SocketsInv, SizesOk
  <1>8. ItemsOk'
    <2> SUFFICES ASSUME NEW e \in Conns, NEW i \in 1..Len(inbox'[e])
                 PROVE  /\ e[2] = "frames" => inbox'[e][i] = printed[e[1]]
                        /\ e[2] = "bytes" /\ state'[e] # "bytes" => inbox'[e][i] = 0
      BY <1>1 DEF ItemsOk
    <2>1. CASE e = c
      <3>1. inbox'[c][i] = inbox[c][cur[2] + i] /\ cur[2] + i \in 1..Len(inbox[c])
        BY <1>3, <1>5, <2>1
      <3> QED
        BY <1>1, <2>1, <3>1 DEF SocketsInv, ItemsOk
    <2>2. CASE e # c
      BY <1>5, <1>6, <2>2 DEF SocketsInv, ItemsOk
    <2> QED
      BY <2>1, <2>2
  <1>9. CountOk'
    <2>1. \A b \in Conns : Waits(b)' = Waits(b)
      BY <1>1, <1>5, <1>6 DEF Waits
    <2> QED
      BY <1>1, <1>6, <2>1 DEF SocketsInv, CountOk
  <1>10. \A e \in Conns : ~OnHand(e)' /\ (OnHand(e) => e = c)
    BY <1>1 DEF OnHand
  <1>11. TurnOk'
    BY <1>1, <1>2, <1>4, <1>5, <1>10 DEF SocketsInv, TurnOk, ServerInv, ServerTypes
  <1>12. BehindOk'
    <2> SUFFICES ASSUME NEW b \in Conns, NEW e \in Conns, Pair(b, e),
                        printed[b[1]] # arrived[b[1]], e \in polled, inbox'[e] # <<>>
                 PROVE  b \in polled
      BY <1>1, <1>10 DEF BehindOk
    <2>1. e # c /\ inbox[e] # <<>>
      BY <1>1, <1>2, <1>5
    <2>2. b # c
      <3>1. ASSUME b = c PROVE FALSE
        <4>1. Waits(c) = 0 /\ arrived[c[1]] \in Nat
          BY <1>1 DEF Waits, ServerInv, ServerTypes, Programs
        <4> QED
          BY <3>1, <4>1 DEF SocketsInv, CountOk, Pair
      <3> QED
        BY <3>1
    <2> QED
      BY <1>10, <2>1, <2>2 DEF SocketsInv, BehindOk
  <1>13. LookedOk'
    BY <1>1, LookedThen
  <1> QED
    BY <1>7, <1>8, <1>9, <1>11, <1>12, <1>13 DEF SocketsInv

\* A print that is taken in has come, and was the only thing in the way of its
\* program's frames.
LEMMA BytesSockets ==
  ASSUME ServerInv, SocketsInv, NEW c \in Conns, BytesIn(c) PROVE SocketsInv'
  <1>1. Taken(c) /\ state[c] = "bytes" /\ state' = state /\ looked' = looked
        /\ arrived' = [arrived EXCEPT ![c[1]] = @ + 1]
    BY DEF BytesIn, told
  <1>2. /\ UNCHANGED <<exited, printed, polled, hup, gone, turn>>
        /\ OnHand(c)
        /\ Len(inbox[c]) \in Nat \ {0} /\ Len(inbox'[c]) = Len(inbox[c]) - 1
        /\ \A i \in 1..Len(inbox'[c]) : inbox'[c][i] = inbox[c][i + 1] /\ i + 1 \in 1..Len(inbox[c])
        /\ \A e \in Conns : e # c => inbox'[e] = inbox[e]
        /\ c[2] = "bytes" => cur' = IF Len(inbox[c]) = 1 THEN <<>> ELSE <<c, Len(inbox'[c])>>
    BY <1>1, TakenSocket
  <1>3. TurnOk' /\ \A e \in Conns : OnHand(e)' => e = c
    BY <1>1, TakenTurn
  <1>4. c[2] = "bytes" /\ c[1] \in Programs /\ arrived[c[1]] \in Nat
    BY <1>1, ConnsAre DEF SocketsInv, SizesOk, ServerInv, ServerTypes
  <1>5. arrived'[c[1]] = arrived[c[1]] + 1
        /\ \A q \in Programs : q # c[1] => arrived'[q] = arrived[q]
    BY <1>1, <1>4 DEF ServerInv, ServerTypes
  <1>6. ASSUME NEW b \in Conns, b[2] = "bytes", b # c PROVE b[1] \in Programs /\ b[1] # c[1]
    BY <1>4, <1>6, ConnsAre
  <1>7. printed[c[1]] = arrived'[c[1]] + Len(inbox'[c])
    <2> DEFINE a == arrived[c[1]]
               m == Len(inbox[c])
    <2>1. printed[c[1]] = a + m
      BY <1>1, <1>4 DEF SocketsInv, CountOk, Waits
    <2>2. a \in Nat /\ m \in Nat /\ Len(inbox'[c]) = m - 1 /\ arrived'[c[1]] = a + 1
      BY <1>2, <1>4, <1>5
    <2> HIDE DEF a, m
    <2> QED
      BY <2>1, <2>2
  <1>8. SizesOk'
    <2>1. state'[c] = "bytes" /\ c[2] = "bytes"
      BY <1>1, <1>4
    <2> QED
      BY <1>1, <1>2, <2>1 DEF SocketsInv, SizesOk
  <1>9. ItemsOk'
    <2>1. ItemsOk /\ printed' = printed /\ state' = state
      BY <1>1, <1>2 DEF SocketsInv
    <2>2. ASSUME NEW e \in Conns, NEW i \in 1..Len(inbox'[e])
          PROVE  /\ e[2] = "frames" => inbox'[e][i] = printed'[e[1]]
                 /\ e[2] = "bytes" /\ state'[e] # "bytes" => inbox'[e][i] = 0
      <3>1. CASE e = c
        BY <1>1, <1>4, <3>1
      <3>2. CASE e # c
        <4>1. inbox'[e] = inbox[e]
          BY <1>2, <3>2
        <4> QED
          BY <2>1, <2>2, <4>1 DEF ItemsOk
      <3> QED
        BY <3>1, <3>2
    <2> QED
      BY <2>2 DEF ItemsOk
  <1>10. CountOk'
    <2>1. ASSUME NEW b \in Conns, b[2] = "bytes"
          PROVE  /\ printed[b[1]] = arrived'[b[1]] + Waits(b)'
                 /\ state[b] \notin {"bytes", "freed"} => printed[b[1]] = 0
      <3>1. CASE b = c
        BY <1>1, <1>7, <3>1 DEF Waits
      <3>2. CASE b # c
        <4>1. Waits(b)' = Waits(b) /\ arrived'[b[1]] = arrived[b[1]]
          BY <1>1, <1>2, <1>5, <1>6, <2>1, <3>2 DEF Waits
        <4> QED
          BY <2>1, <4>1 DEF SocketsInv, CountOk
      <3> QED
        BY <3>1, <3>2
    <2>2. ASSUME NEW q \in Programs, Channel(q) \notin Conns PROVE printed[q] = 0 /\ arrived'[q] = 0
      <3>1. q # c[1]
        BY <1>4, <2>2, ConnsAre
      <3> QED
        BY <1>5, <2>2, <3>1 DEF SocketsInv, CountOk
    <2> QED
      BY <1>1, <1>2, <2>1, <2>2 DEF CountOk
  <1>11. BehindOk'
    <2> SUFFICES ASSUME NEW b \in Conns, NEW e \in Conns, Pair(b, e),
                        printed[b[1]] # arrived'[b[1]]
                 PROVE  /\ e \in polled /\ inbox'[e] # <<>> => b \in polled \/ OnHand(b)'
                        /\ ~OnHand(e)'
      BY <1>2 DEF BehindOk
    <2>1. e # c /\ ~OnHand(e)'
      BY <1>3, <1>4 DEF Pair
    <2>2. CASE b = c
      <3>1. Len(inbox'[c]) # 0
        BY <1>4, <1>5, <1>7, <2>2
      <3>2. cur' = <<c, Len(inbox'[c])>>
        BY <1>2, <1>4, <3>1
      <3>3. OnHand(c)'
        BY <3>2 DEF OnHand
      <3> QED
        BY <2>1, <2>2, <3>3
    <2>3. CASE b # c
      <3>1. b[1] \in Programs /\ b[1] # c[1]
        BY <1>6, <2>3 DEF Pair
      <3>2. ~OnHand(b)
        BY <1>2, <2>3 DEF OnHand
      <3>3. arrived'[b[1]] = arrived[b[1]]
        BY <1>5, <3>1
      <3>4. printed[b[1]] # arrived[b[1]]
        BY <3>3
      <3>5. inbox'[e] = inbox[e]
        BY <1>2, <2>1
      <3> QED
        BY <2>1, <3>2, <3>4, <3>5 DEF SocketsInv, BehindOk
    <2> QED
      BY <2>2, <2>3
  <1>12. LookedOk'
    <2>1. \A q \in Programs : arrived[q] \in Nat /\ looked[q] \in Nat /\ looked[q] <= arrived[q]
      BY DEF ServerInv, ServerTypes, SocketsInv, LookedOk
    <2>2. ASSUME NEW q \in Programs PROVE looked[q] <= arrived'[q]
      <3>1. CASE q = c[1]
        BY <1>5, <2>1, <3>1
      <3>2. CASE q # c[1]
        BY <1>5, <2>1, <3>2
      <3> QED
        BY <3>1, <3>2
    <2>3. \A q \in Programs : looked[q] <= arrived'[q]
      BY <2>2
    <2> QED
      BY <1>1, <1>2, <2>3 DEF SocketsInv, LookedOk
  <1> QED
    BY <1>3, <1>8, <1>9, <1>10, <1>11, <1>12 DEF SocketsInv

LEMMA FeedSockets ==
  ASSUME ServerInv, SocketsInv, NEW c \in Conns, Feed(c) PROVE SocketsInv'
  <1>1. CASE Other(c) \/ KeyTake(c) \/ KeyGive(c) \/ KeyRead(c) \/ ScreenTake(c)
    <2>1. /\ Taken(c) /\ LooksAt(c) /\ state[c] \in {"new", "framed"}
          /\ state' = state /\ arrived' = arrived
      BY <1>1 DEF Other, KeyTake, KeyGive, KeyRead, ScreenTake, Framed, prints, claims
    <2> QED
      BY <2>1, FrameSockets
  <1>2. CASE ScreenGive(c)
    <2>1. Taken(c) /\ LooksAt(c) /\ state[c] = "framed" /\ state' = state /\ EndClaim(c)
      BY <1>2 DEF ScreenGive, Framed
    <2>2. arrived' = arrived
      BY <2>1, RestoredPrints DEF ServerInv
    <2> QED
      BY <2>1, <2>2, FrameSockets
  <1> QED
    BY <1>1, <1>2, HelloSockets, ErrorSockets, BytesSockets DEF Feed

\* Poll sees every channel with something in its socket.
LEMMA PollSockets == ASSUME ServerInv, SocketsInv, Poll PROVE SocketsInv'
  <1>1. /\ UNCHANGED <<inbox, exited, printed, arrived, looked, gone, cur>>
        /\ hup' = Present \cap exited /\ polled' = {c \in Present : inbox[c] # <<>>} \cup hup'
        /\ ~turn
    BY DEF Poll, clients, prints, told
  <1>2. cur = <<>>
    BY <1>1 DEF ServerInv, CurInv
  <1>3. \A c \in Conns : state'[c] = state[c] \/ (state[c] = "backlog" /\ state'[c] = "new")
    BY DEF Poll, ServerInv, ServerTypes
  <1>4. SizesOk' /\ ItemsOk'
    <2>1. \A c \in Conns : state'[c] = "bytes" <=> state[c] = "bytes"
      BY <1>3
    <2> QED
      BY <1>1, <2>1 DEF SocketsInv, SizesOk, ItemsOk
  <1>5. \A b \in Conns : Waits(b)' = Waits(b)
    BY <1>1, <1>3 DEF Waits
  <1>6. CountOk'
    <2>1. \A b \in Conns : state'[b] \notin {"bytes", "freed"} => state[b] \notin {"bytes", "freed"}
      BY <1>3
    <2> QED
      BY <1>1, <1>5, <2>1 DEF SocketsInv, CountOk
  <1>7. TurnOk'
    <2>1. gone' = {}
      BY <1>1 DEF SocketsInv, TurnOk
    <2> QED
      BY <1>1, <1>2, <2>1 DEF TurnOk
  <1>8. BehindOk'
    <2> SUFFICES ASSUME NEW b \in Conns, NEW e \in Conns, Pair(b, e),
                        printed[b[1]] # arrived[b[1]]
                 PROVE  b \in polled'
      BY <1>1, <1>2 DEF BehindOk, OnHand
    <2>1. Waits(b) # 0
      <3>1. arrived[b[1]] \in Nat
        BY ConnsAre DEF ServerInv, ServerTypes
      <3> QED
        BY <3>1 DEF SocketsInv, CountOk, Pair
    <2>2. state[b] = "bytes" /\ inbox[b] # <<>>
      BY <2>1 DEF Waits
    <2> QED
      BY <1>1, <2>2 DEF Present
  <1>9. LookedOk'
    BY <1>1 DEF SocketsInv, LookedOk
  <1> QED
    BY <1>4, <1>6, <1>7, <1>8, <1>9 DEF SocketsInv

\* A recv of a byte channel takes all there is; and a frame is looked at only with the channel of
\* its program empty.
LEMMA RecvSockets ==
  ASSUME Burst <= RecvLen, ServerInv, SocketsInv, NEW c \in Conns, Recv(c)
  PROVE  SocketsInv'
  <1>1. /\ UNCHANGED <<state, inbox, exited, printed, arrived, looked, hup, turn>>
        /\ cur = <<>> /\ c \in polled /\ polled' = polled \ {c} /\ turn
        /\ c \in Bytes \/ Bytes = {}
    BY DEF Recv, clients, prints, told
  <1>2. c[2] = "bytes" => Len(inbox[c]) \in Nat /\ Len(inbox[c]) <= RecvLen
    BY ChannelHolds
  <1>3. /\ \/ inbox[c] = <<>> /\ gone' = gone \cup {c} /\ cur' = <<>>
           \/ inbox[c] # <<>> /\ gone' = gone /\ cur' = <<c, cur'[2]>>
        /\ inbox[c] # <<>> /\ c[2] = "bytes" => cur'[2] = Len(inbox[c])
    <2>1. c[2] = "bytes" => Len(inbox[c]) < RecvLen \/ Len(inbox[c]) = RecvLen
      BY <1>2, SizesAssumption
    <2> QED
      BY <1>1, <2>1 DEF Recv
  <1>4. \A e \in Conns : ~OnHand(e)
    BY <1>1 DEF OnHand
  <1>5. \A e \in Conns : OnHand(e)' <=> e = c /\ inbox[c] # <<>>
    BY <1>3 DEF OnHand
  <1>6. SizesOk' /\ ItemsOk' /\ CountOk' /\ LookedOk'
    BY <1>1 DEF SocketsInv, SizesOk, ItemsOk, CountOk, LookedOk, Waits
  <1>7. TurnOk'
    <2>1. gone' \subseteq hup
      BY <1>1, <1>3 DEF SocketsInv, TurnOk
    <2>2. cur' # <<>> /\ cur'[1][2] = "bytes" => cur'[2] = Len(inbox[cur'[1]])
      <3>1. cur' # <<>> => cur'[1] = c /\ inbox[c] # <<>>
        BY <1>3
      <3> QED
        BY <1>3, <3>1
    <2>3. ASSUME NEW e \in hup, e[2] = "bytes" PROVE inbox[e] = <<>> \/ e \in polled' \/ OnHand(e)'
      <3>1. e \in Conns
        BY DEF ServerInv, ServerTypes
      <3> QED
        BY <1>1, <1>4, <1>5, <2>3, <3>1 DEF SocketsInv, TurnOk
    <2> QED
      BY <1>1, <2>1, <2>2, <2>3 DEF SocketsInv, TurnOk
  <1>8. BehindOk'
    <2> SUFFICES ASSUME NEW b \in Conns, NEW e \in Conns, Pair(b, e),
                        printed[b[1]] # arrived[b[1]]
                 PROVE  /\ e \in polled' /\ inbox[e] # <<>> => b \in polled' \/ OnHand(b)'
                        /\ ~OnHand(e)'
      BY <1>1 DEF BehindOk
    <2>1. e \in polled /\ inbox[e] # <<>> => b \in polled
      BY <1>4 DEF SocketsInv, BehindOk
    <2>2. state[b] = "bytes" /\ inbox[b] # <<>>
      <3>1. arrived[b[1]] \in Nat
        BY ConnsAre DEF ServerInv, ServerTypes
      <3> QED
        BY <3>1 DEF SocketsInv, CountOk, Pair, Waits
    <2>3. CASE e = c
      <3>1. ASSUME inbox[c] # <<>> PROVE FALSE
        <4>1. b \in Bytes
          BY <1>1, <2>1, <2>2, <2>3, <3>1 DEF Bytes
        <4>2. state[c] = "bytes"
          BY <1>1, <4>1 DEF Bytes
        <4> QED
          BY <2>3, <4>2 DEF SocketsInv, SizesOk, Pair
      <3> QED
        BY <1>1, <1>5, <2>3, <3>1
    <2>4. CASE e # c
      BY <1>1, <1>5, <2>1, <2>2, <2>4
    <2> QED
      BY <2>3, <2>4
  <1> QED
    BY <1>6, <1>7, <1>8 DEF SocketsInv

\* A byte channel is let go with nothing in its socket.
LEMMA FreeSockets ==
  ASSUME ServerInv, SocketsInv, NEW c \in Conns, Free(c) PROVE SocketsInv'
  <1>1. /\ UNCHANGED <<exited, printed, looked, polled, hup, gone, turn, cur>>
        /\ cur = <<>> /\ polled = {} /\ c \in ToFree
        /\ state' = [state EXCEPT ![c] = "freed"] /\ inbox' = [inbox EXCEPT ![c] = <<>>]
    BY DEF Free, clients, loop
  <1>2. arrived' = arrived
    BY RestoredPrints DEF Free, ServerInv
  <1>3. /\ state'[c] = "freed" /\ inbox'[c] = <<>>
        /\ \A e \in Conns : e # c => state'[e] = state[e] /\ inbox'[e] = inbox[e]
    BY <1>1 DEF ServerInv, ServerTypes
  <1>4. Waits(c) = 0
    <2>1. CASE state[c] # "bytes"
      BY <2>1 DEF Waits
    <2>2. CASE state[c] = "bytes"
      <3>1. c \in hup
        BY <1>1, <2>2 DEF ToFree, SocketsInv, TurnOk
      <3>2. inbox[c] = <<>>
        BY <1>1, <2>2, <3>1 DEF SocketsInv, SizesOk, TurnOk, OnHand
      <3> QED
        BY <3>2 DEF Waits
    <2> QED
      BY <2>1, <2>2
  <1>5. SizesOk' /\ ItemsOk'
    <2>1. Len(inbox'[c]) = 0 /\ 1..0 = {}
      BY <1>3
    <2>2. SizesOk'
      BY <1>3, <2>1 DEF SocketsInv, SizesOk
    <2>3. ASSUME NEW e \in Conns, NEW i \in 1..Len(inbox'[e]) PROVE e # c
      BY <2>1
    <2>4. printed' = printed
      BY <1>1
    <2>5. ItemsOk'
      BY <1>3, <2>3, <2>4 DEF SocketsInv, ItemsOk
    <2> QED
      BY <2>2, <2>5
  <1>6. CountOk'
    <2>1. Waits(c)' = 0 /\ \A b \in Conns : b # c => Waits(b)' = Waits(b)
      BY <1>3 DEF Waits
    <2>2. \A b \in Conns : Waits(b)' = Waits(b)
      BY <1>4, <2>1
    <2>3. \A b \in Conns : state'[b] \notin {"bytes", "freed"} => state'[b] = state[b]
      BY <1>3
    <2> QED
      BY <1>1, <1>2, <2>2, <2>3 DEF SocketsInv, CountOk
  <1>7. TurnOk'
    BY <1>1, <1>3 DEF SocketsInv, TurnOk, OnHand, ServerInv, ServerTypes
  <1>8. BehindOk'
    BY <1>1 DEF BehindOk, OnHand
  <1>9. LookedOk'
    BY <1>1, <1>2 DEF SocketsInv, LookedOk
  <1> QED
    BY <1>5, <1>6, <1>7, <1>8, <1>9 DEF SocketsInv

LEMMA EndTurnSockets == ASSUME SocketsInv, EndTurn PROVE SocketsInv'
  <1>1. /\ UNCHANGED <<state, inbox, exited, printed, arrived, looked, polled, cur>>
        /\ gone' = {} /\ hup' = {} /\ polled = {}
    BY DEF EndTurn, clients, prints, told
  <1> QED
    BY <1>1 DEF SocketsInv, SizesOk, ItemsOk, Waits, CountOk, LookedOk, OnHand, TurnOk, BehindOk

LEMMA SocketsStart == ServerInit => SocketsInv
  <1> SUFFICES ASSUME ServerInit PROVE SocketsInv
    OBVIOUS
  <1>1. /\ \A c \in Conns : state[c] = "backlog" /\ inbox[c] = <<>> /\ Len(inbox[c]) = 0
        /\ \A p \in Programs : printed[p] = 0 /\ arrived[p] = 0
        /\ cur = <<>> /\ polled = {} /\ hup = {} /\ gone = {}
    BY DEF ServerInit
  <1>2. SizesOk /\ ItemsOk
    <2>1. 1..0 = {}
      OBVIOUS
    <2> QED
      BY <1>1, <2>1, SizesAssumption DEF SizesOk, ItemsOk
  <1>3. CountOk
    BY <1>1, ConnsAre DEF CountOk, Waits
  <1>4. TurnOk /\ BehindOk
    BY <1>1 DEF TurnOk, BehindOk, OnHand
  <1>5. LookedOk
    BY SizesAssumption DEF ServerInit, LookedOk
  <1> QED
    BY <1>2, <1>3, <1>4, <1>5 DEF SocketsInv

LEMMA SocketsSteps ==
  ASSUME Patient, Burst <= RecvLen, ServerInv, SocketsInv, [ServerNext]_serverVars
  PROVE  SocketsInv'
  <1>1. CASE Key \/ Resize
    <2>1. UNCHANGED <<state, inbox, exited, printed, arrived, looked, polled, hup, gone, turn, cur>>
      BY <1>1 DEF Key, Resize, AnswerKeys, clients, prints, loop, told
    <2> QED
      BY <2>1, SocketsSame
  <1>2. CASE UNCHANGED serverVars
    <2>1. UNCHANGED <<state, inbox, exited, printed, arrived, looked, polled, hup, gone, turn, cur>>
      BY <1>2 DEF serverVars, clients, prints, loop, told
    <2> QED
      BY <2>1, SocketsSame
  <1> QED
    BY <1>1, <1>2, PollSockets, EndTurnSockets, RecvSockets, FeedSockets, FreeSockets,
       SendFrameSockets, WriteSockets, ExitSockets
    DEF ServerNext

\* What a frame says its program had printed has been taken in.
LEMMA FramesLookBack ==
  ASSUME ServerInv, SocketsInv, [ServerNext]_serverVars, NEW c \in Conns, frames'[c] > frames[c]
  PROVE  arrived[c[1]] >= Head(inbox[c])
  <1>1. frames[c] \in Nat /\ arrived[c[1]] \in Nat /\ c[1] \in Programs
    BY ConnsAre DEF ServerInv, ServerTypes
  <1>2. PICK e \in Conns : Feed(e) \/ Free(e)
    <2>1. frames' # frames
      BY <1>1
    <2> QED
      BY <2>1 DEF ServerNext, serverVars, told, Poll, EndTurn, Key, Resize, AnswerKeys, Recv,
                  SendFrame, Exit, Write, Sends, Outside
  <1>3. ~Free(e)
    <2>1. ASSUME Free(e) PROVE frames'[c] = frames[c] \/ frames'[c] = 0
      BY <2>1 DEF Free, ServerInv, ServerTypes
    <2> QED
      BY <1>1, <2>1
  <1>4. /\ cur # <<>> /\ cur[1] = e /\ state[e] \in {"new", "framed"}
        /\ frames' = [frames EXCEPT ![e] = @ + 1]
    <2>1. ~BytesIn(e)
      BY <1>1 DEF BytesIn, told
    <2> QED
      BY <1>2, <1>3, <2>1 DEF Feed, Hello, ProtocolError, Other, KeyTake, KeyGive, KeyRead,
                              ScreenTake, ScreenGive, Framed, LooksAt, Taken
  <1>5. e = c
    BY <1>1, <1>4 DEF ServerInv, ServerTypes
  <1>6. Head(inbox[c]) = arrived[c[1]]
    BY <1>4, <1>5, LookedAt
  <1> QED
    BY <1>1, <1>6

\* Nobody prints on a channel that is let go.
LEMMA FreedPrintsNot ==
  ASSUME [ServerNext]_serverVars, NEW c \in Conns, c[2] = "bytes", state'[c] = "freed"
  PROVE  printed'[c[1]] = printed[c[1]]
  <1>1. CASE printed' = printed
    BY <1>1
  <1>2. ASSUME NEW p \in Programs, Write(p) PROVE printed'[c[1]] = printed[c[1]]
    <2>1. printed' = [printed EXCEPT ![p] = @ + 1] /\ state' = state /\ state[Channel(p)] = "bytes"
      BY <1>2 DEF Write, Sends, Outside
    <2>2. c[1] # p
      BY <2>1, ConnsAre
    <2> QED
      BY <2>1, <2>2
  <1>3. printed' = printed \/ \E p \in Programs : Write(p)
    BY DEF ServerNext, serverVars, clients, Poll, EndTurn, Key, Resize, AnswerKeys, Recv, Free,
           SendFrame, Exit, Feed, Hello, ProtocolError, Other, KeyTake, KeyGive, KeyRead,
           ScreenTake, ScreenGive, BytesIn, Framed, Taken
  <1> QED
    BY <1>1, <1>2, <1>3

\* Where programs wait for their replies and print no more between two of them than
\* a recv takes, the two passes (ks_daemon.cpp) take what a program has printed
\* before the frame it sent afterwards, and before its channel is let go: however
\* much a socket may hold, and whatever else is in it.
THEOREM ServerPrintsInOrder ==
  ASSUME Patient, Burst <= RecvLen
  PROVE  ServerSpec => PrintsInOrder
  <1>1. ServerInit => SocketsInv
    BY SocketsStart
  <1>2. ServerInv /\ SocketsInv /\ [ServerNext]_serverVars => SocketsInv'
    BY SocketsSteps
  <1>3. ServerInv /\ SocketsInv /\ [ServerNext]_serverVars =>
          [\A c \in Conns : frames'[c] > frames[c] => arrived[c[1]] >= Head(inbox[c])]_serverVars
    BY FramesLookBack
  <1>4. ServerInv' /\ SocketsInv' /\ [ServerNext]_serverVars =>
          [\A c \in Conns :
             c[2] = "bytes" /\ state'[c] = "freed" => arrived'[c[1]] = printed[c[1]]]_serverVars
    <2> SUFFICES ASSUME SocketsInv', ServerInv', [ServerNext]_serverVars,
                        NEW c \in Conns, c[2] = "bytes", state'[c] = "freed"
                 PROVE  arrived'[c[1]] = printed[c[1]]
      OBVIOUS
    <2>1. arrived'[c[1]] \in Nat
      BY ConnsAre DEF ServerInv, ServerTypes, Programs
    <2>2. printed'[c[1]] = arrived'[c[1]] + Waits(c)' /\ Waits(c)' = 0
      BY DEF SocketsInv, CountOk, Waits
    <2>3. printed'[c[1]] = printed[c[1]]
      BY FreedPrintsNot
    <2> QED
      BY <2>1, <2>2, <2>3
  <1>5. ServerSpec => [](ServerInv /\ SocketsInv)
    BY <1>1, <1>2, ServerInvariant, PTL DEF ServerSpec
  <1> QED
    BY <1>3, <1>4, <1>5, PTL DEF ServerSpec, PrintsInOrder, PrintsFirst, PrintsArrive

-----------------------------------------------------------------------------
(* The standard streams.  At most one File of a stream is anywhere, in its  *)
(* slot or in a call's hands.  So what came out, with what that File holds  *)
(* after it, is everything the stream took in but what was lost, in order,  *)
(* and the byte a call is about is later than all of it.                    *)

FileTypes == [how : {"none", "line", "full", "auto"}, held : Seq(Nat), err : BOOLEAN,
              there : BOOLEAN]

Everyone == Tasks \cup {Hook}

CallTypes == [op : {"none", "write", "flush", "get"}, on : Streams, byte : Nat,
              pc : {"none", "probe", "body", "drain", "read"}, file : FileTypes]

StdTypes ==
  /\ slot \in [Streams -> FileTypes]
  /\ named \subseteq Streams /\ armed \in BOOLEAN
  /\ call \in [Everyone -> CallTypes]
  /\ phase \in 0..4
  /\ out \in [Outputs -> Seq(Nat)]
  /\ given \in [Outputs -> SUBSET Nat]
  /\ calls \in Nat

\* What a call has in hand at each of its steps.
CallOk(c) ==
  /\ c.file.there <=> c.pc \in {"probe", "body", "drain"}
  /\ c.file.there => c.on \in Outputs
  /\ c.pc \in {"probe", "body"} => c.byte # 0
  /\ c.byte # 0 => (c.pc = "probe" <=> c.file.how = "auto")
  /\ ~c.file.there => c.byte = 0
  /\ c.pc = "body" /\ c.file.how = "full" /\ Len(c.file.held) < Cap => c.file.held = <<>>

\* Nothing is in a slot without a File, nor in a File that does not know yet what is
\* behind its handle.
FileOk(f) == ~f.there \/ f.how = "auto" => f.held = <<>>

FilesOk ==
  /\ \A i \in Streams : FileOk(slot[i])
  /\ \A t \in Everyone : CallOk(call[t]) /\ FileOk(call[t].file)

\* The calls with stream i's File in hand, that File's bytes, and that there is one
\* File: s is the slots and c the calls.
Has(c, i) == c.file.there /\ c.on = i
Hands(c, i) == {t \in DOMAIN c : Has(c[t], i)}

HeldOf(s, c, i) ==
  IF s[i].there THEN s[i].held
  ELSE IF Hands(c, i) # {} THEN c[CHOOSE t \in Hands(c, i) : TRUE].file.held
  ELSE <<>>

Single(s, c, i) ==
  /\ s[i].there => Hands(c, i) = {}
  /\ \A t, u \in Hands(c, i) : t = u

\* Bytes in the order of the calls.
Rising(s) == \A m, n \in DOMAIN s : m < n => s[m] < s[n]

\* A stream of which o came out and h is held, with g taken in and l lost, by the
\* time of n calls.
StreamOk(o, h, g, l, n) ==
  /\ o \in Seq(Nat) /\ h \in Seq(Nat)
  /\ Rising(o \o h)
  /\ g \subseteq 1..n /\ ToSet(o \o h) \subseteq g
  /\ g \ l \subseteq ToSet(o \o h)

BytesOk ==
  \A i \in Outputs :
    /\ Single(slot, call, i)
    /\ StreamOk(out[i], HeldOf(slot, call, i), given[i], lost, calls)

\* The byte a call is about is its own, and later than what its stream took in.
Later(b, s) == \A a \in ToSet(s) : a < b

ByteOk(t) ==
  call[t].byte # 0 =>
    /\ call[t].byte <= calls
    /\ \A i \in Outputs : call[t].byte \notin given[i]
    /\ Later(call[t].byte, out[call[t].on] \o HeldOf(slot, call, call[t].on))

OwnBytes ==
  /\ \A t \in Everyone : ByteOk(t)
  /\ \A t, u \in Everyone : call[t].byte = call[u].byte /\ call[t].byte # 0 => t = u

\* Nothing that was due is in f, but what a failure left.
Passed(f, d) == f.err \/ ToSet(f.held) \cap d = {}

\* The hook is armed before anything is in hand, and what it has passed has nothing
\* that was due.
HookOk ==
  /\ ~armed => /\ named \cap Outputs = {} /\ \A i \in Outputs : given[i] = {}
               /\ \A t \in Everyone : ~call[t].file.there
  /\ phase # 0 => due \subseteq given[1] \cup given[2]
  /\ \A i \in Outputs : phase \in 1..3 /\ i < phase => Passed(slot[i], due)

\* The program has ended.
EndOk ==
  phase = Over =>
    /\ \A t \in Everyone : call[t] = NoCall
    /\ \A i \in Outputs : slot[i].err \/ (due \cap given[i]) \ lost \subseteq ToSet(out[i])

StdInv == StdTypes /\ FilesOk /\ BytesOk /\ OwnBytes /\ HookOk /\ EndOk

-----------------------------------------------------------------------------
(* Sequences of bytes.                                                      *)

LEMMA NoneIs ==
  /\ None \in FileTypes /\ None.held = <<>> /\ None.there = FALSE /\ None.err = FALSE
  /\ \A i \in Streams :
       /\ Fresh(i) \in FileTypes /\ Fresh(i).held = <<>> /\ Fresh(i).there = TRUE
       /\ Fresh(i).err = FALSE
  /\ NoCall.file = None /\ NoCall.byte = 0 /\ NoCall.pc = "none" /\ NoCall.on = 0
  /\ NoCall.op = "none"
  /\ Reading.file = None /\ Reading.byte = 0 /\ Reading.pc = "read" /\ Reading.on = 0
  /\ Reading.op = "get"
  <1>1. <<>> \in Seq(Nat)
    OBVIOUS
  <1>2. None \in FileTypes /\ None.held = <<>> /\ None.there = FALSE /\ None.err = FALSE
    BY <1>1 DEF None, FileTypes
  <1>3. ASSUME NEW i \in Streams
        PROVE  /\ Fresh(i) \in FileTypes /\ Fresh(i).held = <<>> /\ Fresh(i).there = TRUE
               /\ Fresh(i).err = FALSE
    <2>1. i = 0 \/ i = 1 \/ i = 2
      BY DEF Streams
    <2>2. <<"full", "auto", "none">>[i + 1] \in {"none", "line", "full", "auto"}
      BY <2>1
    <2> QED
      BY <1>1, <2>2 DEF Fresh, None, FileTypes
  <1>4. /\ NoCall.file = None /\ NoCall.byte = 0 /\ NoCall.pc = "none" /\ NoCall.on = 0
        /\ NoCall.op = "none"
    BY DEF NoCall
  <1>5. /\ Reading.file = None /\ Reading.byte = 0 /\ Reading.pc = "read" /\ Reading.on = 0
        /\ Reading.op = "get"
    BY DEF Reading, NoCall
  <1> QED
    BY <1>2, <1>3, <1>4, <1>5

\* A later byte at the end.
LEMMA RisingMore ==
  ASSUME NEW s \in Seq(Nat), NEW b \in Nat, Rising(s), \A a \in ToSet(s) : a < b
  PROVE  Append(s, b) \in Seq(Nat) /\ Rising(Append(s, b))
         /\ ToSet(Append(s, b)) = ToSet(s) \cup {b}
  <1> DEFINE t == Append(s, b)
  <1>1. /\ t \in Seq(Nat) /\ Len(t) = Len(s) + 1 /\ t[Len(s) + 1] = b
        /\ \A i \in 1..Len(s) : t[i] = s[i]
    OBVIOUS
  <1>2. Len(s) \in Nat /\ DOMAIN s = 1..Len(s) /\ DOMAIN t = 1..(Len(s) + 1)
    BY <1>1
  <1>3. \A i \in 1..Len(s) : s[i] \in ToSet(s)
    BY <1>2 DEF ToSet
  <1> HIDE DEF t
  <1>4. ASSUME NEW i \in DOMAIN t, NEW j \in DOMAIN t, i < j PROVE t[i] < t[j]
    <2>1. i \in 1..Len(s)
      BY <1>2, <1>4
    <2>2. CASE j \in 1..Len(s)
      BY <1>1, <1>2, <1>4, <2>1, <2>2 DEF Rising
    <2>3. CASE j = Len(s) + 1
      BY <1>1, <1>3, <2>1, <2>3
    <2> QED
      BY <1>2, <2>2, <2>3
  <1>5. ASSUME NEW e \in ToSet(t) PROVE e \in ToSet(s) \cup {b}
    <2>1. PICK i \in 1..(Len(s) + 1) : e = t[i]
      BY <1>2 DEF ToSet
    <2>2. i \in 1..Len(s) \/ i = Len(s) + 1
      BY <1>2
    <2> QED
      BY <1>1, <1>3, <2>1, <2>2
  <1>6. ASSUME NEW e \in ToSet(s) PROVE e \in ToSet(t)
    <2>1. PICK i \in 1..Len(s) : e = s[i]
      BY <1>2 DEF ToSet
    <2>2. i \in DOMAIN t /\ e = t[i]
      BY <1>1, <1>2, <2>1
    <2> QED
      BY <2>2 DEF ToSet
  <1>7. b \in ToSet(t)
    <2>1. Len(s) + 1 \in DOMAIN t /\ b = t[Len(s) + 1]
      BY <1>1, <1>2
    <2> QED
      BY <2>1 DEF ToSet
  <1> QED
    BY <1>1, <1>4, <1>5, <1>6, <1>7 DEF t, Rising

LEMMA ToSetJoined ==
  ASSUME NEW a \in Seq(Nat), NEW b \in Seq(Nat)
  PROVE  a \o b \in Seq(Nat) /\ ToSet(a \o b) = ToSet(a) \cup ToSet(b)
  <1> DEFINE s == a \o b
  <1>1. /\ s \in Seq(Nat) /\ Len(s) = Len(a) + Len(b) /\ Len(a) \in Nat /\ Len(b) \in Nat
        /\ \A i \in 1..Len(a) : s[i] = a[i]
        /\ \A i \in 1..Len(b) : s[Len(a) + i] = b[i]
        /\ \A i \in (Len(a) + 1)..(Len(a) + Len(b)) : s[i] = b[i - Len(a)]
    OBVIOUS
  <1>2. DOMAIN s = 1..(Len(a) + Len(b)) /\ DOMAIN a = 1..Len(a) /\ DOMAIN b = 1..Len(b)
    BY <1>1
  <1> HIDE DEF s
  <1>3. ASSUME NEW e \in ToSet(s) PROVE e \in ToSet(a) \cup ToSet(b)
    <2>1. PICK i \in 1..(Len(a) + Len(b)) : e = s[i]
      BY <1>2 DEF ToSet
    <2>2. CASE i \in 1..Len(a)
      BY <1>1, <1>2, <2>1, <2>2 DEF ToSet
    <2>3. CASE i \notin 1..Len(a)
      <3>1. i - Len(a) \in DOMAIN b /\ e = b[i - Len(a)]
        BY <1>1, <1>2, <2>1, <2>3
      <3> QED
        BY <3>1 DEF ToSet
    <2> QED
      BY <2>2, <2>3
  <1>4. ASSUME NEW e \in ToSet(a) PROVE e \in ToSet(s)
    <2>1. PICK i \in DOMAIN a : e = a[i]
      BY DEF ToSet
    <2>2. i \in DOMAIN s /\ e = s[i]
      BY <1>1, <1>2, <2>1
    <2> QED
      BY <2>2 DEF ToSet
  <1>5. ASSUME NEW e \in ToSet(b) PROVE e \in ToSet(s)
    <2>1. PICK i \in DOMAIN b : e = b[i]
      BY DEF ToSet
    <2>2. Len(a) + i \in DOMAIN s /\ e = s[Len(a) + i]
      BY <1>1, <1>2, <2>1
    <2> QED
      BY <2>2 DEF ToSet
  <1> QED
    BY <1>1, <1>3, <1>4, <1>5 DEF s

LEMMA ToSetAppended ==
  ASSUME NEW h \in Seq(Nat), NEW b \in Nat
  PROVE  Append(h, b) \in Seq(Nat) /\ ToSet(Append(h, b)) = ToSet(h) \cup {b}
  <1>1. <<b>> \in Seq(Nat) /\ Append(h, b) = h \o <<b>>
    OBVIOUS
  <1>2. ToSet(<<b>>) = {b}
    BY DEF ToSet
  <1>3. ToSet(h \o <<b>>) = ToSet(h) \cup ToSet(<<b>>)
    BY <1>1, ToSetJoined
  <1> QED
    BY <1>1, <1>2, <1>3

LEMMA RisingJoined ==
  ASSUME NEW a \in Seq(Nat), NEW b \in Seq(Nat), Rising(a \o b)
  PROVE  Rising(a) /\ a \o <<>> = a
  <1>1. /\ Len(a) \in Nat /\ Len(b) \in Nat /\ Len(a \o b) = Len(a) + Len(b)
        /\ DOMAIN a = 1..Len(a) /\ a \o b \in Seq(Nat)
        /\ \A i \in 1..Len(a) : (a \o b)[i] = a[i]
    OBVIOUS
  <1>2. \A i \in DOMAIN a : i \in DOMAIN (a \o b)
    BY <1>1
  <1>3. a \o <<>> = a
    OBVIOUS
  <1> QED
    BY <1>1, <1>2, <1>3 DEF Rising

\* A part of what is held comes out: it is the same bytes in the same order.
LEMMA PartOut ==
  ASSUME NEW a \in Seq(Nat), NEW h \in Seq(Nat), NEW n \in 1..Len(h)
  PROVE  /\ SubSeq(h, 1, n) \in Seq(Nat) /\ SubSeq(h, n + 1, Len(h)) \in Seq(Nat)
         /\ a \o SubSeq(h, 1, n) \in Seq(Nat)
         /\ (a \o SubSeq(h, 1, n)) \o SubSeq(h, n + 1, Len(h)) = a \o h
         /\ ToSet(a \o SubSeq(h, 1, n)) = ToSet(a) \cup ToSet(SubSeq(h, 1, n))
         /\ ToSet(h) = ToSet(SubSeq(h, 1, n)) \cup ToSet(SubSeq(h, n + 1, Len(h)))
  <1> DEFINE u == SubSeq(h, 1, n)
             v == SubSeq(h, n + 1, Len(h))
  <1>1. /\ Len(h) \in Nat /\ n \in Nat /\ n <= Len(h) /\ 1 \in 1..(Len(h) + 1)
        /\ n \in 0..Len(h)
    OBVIOUS
  <1>2. \A i \in 1..Len(h) : h[i] \in Nat
    BY ElementOfSeq
  <1>3. u \in Seq(Nat) /\ v \in Seq(Nat)
    <2>1. n + 1 \in Int /\ Len(h) \in Int /\ n \in Int
          /\ \A i \in 1..n : h[i] \in Nat
          /\ \A j \in (n + 1)..Len(h) : h[j] \in Nat
      BY <1>1, <1>2
    <2> QED
      BY <2>1, SubSeqProperties
  <1>4. u \o v = h
    <2>1. u \o v = SubSeq(h, 1, Len(h))
      BY <1>1, ConcatAdjacentSubSeq
    <2> QED
      BY <2>1, SubSeqFull
  <1> HIDE DEF u, v
  <1>5. (a \o u) \o v = a \o (u \o v)
    <2>1. /\ a \in Seq(Nat) /\ u \in Seq(Nat) /\ v \in Seq(Nat)
      BY <1>3
    <2> QED
      BY <2>1
  <1>6. ToSet(a \o u) = ToSet(a) \cup ToSet(u) /\ a \o u \in Seq(Nat)
    BY <1>3, ToSetJoined
  <1>7. ToSet(h) = ToSet(u) \cup ToSet(v)
    BY <1>3, <1>4, ToSetJoined
  <1> QED
    BY <1>3, <1>4, <1>5, <1>6, <1>7 DEF u, v

-----------------------------------------------------------------------------
(* A stream's bytes, as they are taken in, come out, and are lost.          *)

LEMMA StreamSame ==
  ASSUME NEW o, NEW h, NEW g, NEW l, NEW n \in Nat, StreamOk(o, h, g, l, n),
         NEW k, l \subseteq k, NEW m \in Nat, n <= m
  PROVE  StreamOk(o, h, g, k, m)
  <1>1. 1..n \subseteq 1..m
    OBVIOUS
  <1> QED
    BY <1>1 DEF StreamOk

LEMMA StreamMore ==
  ASSUME NEW o, NEW h, NEW g, NEW l, NEW n \in Nat, StreamOk(o, h, g, l, n),
         NEW b \in Nat, b # 0, Later(b, o \o h), NEW m \in Nat, n <= m, b <= m
  PROVE  /\ StreamOk(o, Append(h, b), g \cup {b}, l, m)
         /\ ToSet(o \o Append(h, b)) = ToSet(o \o h) \cup {b}
  <1>1. o \in Seq(Nat) /\ h \in Seq(Nat) /\ o \o h \in Seq(Nat)
    BY DEF StreamOk
  <1>2. o \o Append(h, b) = Append(o \o h, b) /\ Append(h, b) \in Seq(Nat)
    BY <1>1
  <1>3. /\ Rising(Append(o \o h, b))
        /\ ToSet(Append(o \o h, b)) = ToSet(o \o h) \cup {b}
    <2>1. Rising(o \o h) /\ \A a \in ToSet(o \o h) : a < b
      BY DEF StreamOk, Later
    <2> QED
      BY <1>1, <2>1, RisingMore
  <1>4. g \cup {b} \subseteq 1..m
    BY DEF StreamOk
  <1> QED
    BY <1>1, <1>2, <1>3, <1>4 DEF StreamOk

LEMMA StreamOut ==
  ASSUME NEW o, NEW h, NEW g, NEW l, NEW n \in Nat, StreamOk(o, h, g, l, n),
         NEW k \in 1..Len(h)
  PROVE  /\ StreamOk(o \o SubSeq(h, 1, k), SubSeq(h, k + 1, Len(h)), g, l, n)
         /\ (o \o SubSeq(h, 1, k)) \o SubSeq(h, k + 1, Len(h)) = o \o h
  <1>1. o \in Seq(Nat) /\ h \in Seq(Nat)
    BY DEF StreamOk
  <1> QED
    BY <1>1, PartOut DEF StreamOk

LEMMA StreamGone ==
  ASSUME NEW o, NEW h, NEW g, NEW l, NEW n \in Nat, StreamOk(o, h, g, l, n),
         NEW k, l \subseteq k, ToSet(h) \subseteq k
  PROVE  /\ StreamOk(o, <<>>, g, k, n)
         /\ ToSet(o \o <<>>) \subseteq ToSet(o \o h)
  <1>1. o \in Seq(Nat) /\ h \in Seq(Nat) /\ <<>> \in Seq(Nat)
    BY DEF StreamOk
  <1>2. Rising(o) /\ o \o <<>> = o
    BY <1>1, RisingJoined DEF StreamOk
  <1>3. ToSet(o \o h) = ToSet(o) \cup ToSet(h)
    BY <1>1, ToSetJoined
  <1> QED
    BY <1>1, <1>2, <1>3 DEF StreamOk

-----------------------------------------------------------------------------
(* Where a stream's File is.                                                *)

LEMMA HeldSlot == ASSUME NEW s, NEW c, NEW i, s[i].there PROVE HeldOf(s, c, i) = s[i].held
  BY DEF HeldOf

LEMMA HeldHand ==
  ASSUME NEW s, NEW c, NEW i, Single(s, c, i), NEW t \in Hands(c, i)
  PROVE  HeldOf(s, c, i) = c[t].file.held
  <1>1. ~s[i].there /\ Hands(c, i) # {}
    BY DEF Single
  <1>2. (CHOOSE u \in Hands(c, i) : TRUE) = t
    BY DEF Single
  <1> QED
    BY <1>1, <1>2 DEF HeldOf

LEMMA HeldNone ==
  ASSUME NEW s, NEW c, NEW i, ~s[i].there, Hands(c, i) = {}
  PROVE  HeldOf(s, c, i) = <<>>
  BY DEF HeldOf

\* Another stream's File is where it was.
LEMMA HeldSame ==
  ASSUME NEW s, NEW c, NEW i, NEW r, NEW d, Single(s, c, i), DOMAIN d = DOMAIN c,
         r[i].there = s[i].there, s[i].there => r[i].held = s[i].held,
         \A u \in DOMAIN c :
           d[u] = c[u] \/ (~Has(c[u], i) /\ ~Has(d[u], i))
  PROVE  /\ Hands(d, i) = Hands(c, i)
         /\ HeldOf(r, d, i) = HeldOf(s, c, i) /\ Single(r, d, i)
  <1>1. Hands(d, i) = Hands(c, i)
    BY DEF Hands, Has
  <1>2. Single(r, d, i)
    BY <1>1 DEF Single
  <1>3. CASE s[i].there
    BY <1>1, <1>2, <1>3, HeldSlot
  <1>4. CASE ~s[i].there /\ Hands(c, i) = {}
    BY <1>1, <1>2, <1>4, HeldNone
  <1>5. CASE Hands(c, i) # {}
    <2>1. PICK t : t \in Hands(c, i)
      BY <1>5
    <2>2. d[t] = c[t] /\ t \in Hands(d, i)
      BY <1>1, <2>1 DEF Hands
    <2> QED
      BY <1>1, <1>2, <2>1, <2>2, HeldHand
  <1> QED
    BY <1>1, <1>2, <1>3, <1>4, <1>5

-----------------------------------------------------------------------------
(* A step of call t with stream i.                                          *)

\* The rest stays: s, c, o, g are the slots, the calls, what came out and what was
\* taken in, and r, d, p, e are the same after the step.
Beside(t, i, s, c, o, g, r, d, p, e) ==
  /\ \A u \in Everyone \ {t} : d[u] = c[u]
  /\ \A j \in Outputs \ {i} :
       r[j].there = s[j].there /\ (s[j].there => r[j].held = s[j].held)
       /\ p[j] = o[j] /\ e[j] = g[j]
  /\ c[t].file.there => c[t].on = i
  /\ d[t].file.there => d[t].on = i
  /\ p[i] = o[i] \/ c[t].file.there

\* What is left to say of t's call.
Mine(t, i, c, d, g, e, n, m) ==
  /\ n <= m
  /\ e[i] \subseteq g[i] \cup {c[t].byte, n + 1}
  /\ d[t].byte # 0 =>
       d[t].byte <= m /\ (d[t].byte = c[t].byte \/ d[t].byte = n + 1)
       /\ \A j \in Outputs : d[t].byte \notin e[j]

LEMMA MoveStreams ==
  ASSUME StdInv, NEW t \in Everyone, NEW i \in Outputs, StdTypes',
         Beside(t, i, slot, call, out, given, slot', call', out', given'),
         Mine(t, i, call, call', given, given', calls, calls'),
         Single(slot, call, i)', lost \subseteq lost',
         StreamOk(out[i], HeldOf(slot, call, i), given[i], lost, calls)'
  PROVE  BytesOk'
  <1>1. DOMAIN call = Everyone /\ DOMAIN call' = Everyone
    BY DEF StdInv, StdTypes
  <1>2. ASSUME NEW j \in Outputs, j # i
        PROVE  /\ Single(slot, call, j)'
               /\ StreamOk(out[j], HeldOf(slot, call, j), given[j], lost, calls)'
    <2>1. /\ Single(slot, call, j)
          /\ StreamOk(out[j], HeldOf(slot, call, j), given[j], lost, calls)
      BY DEF StdInv, BytesOk
    <2>2. \A u \in DOMAIN call :
            call'[u] = call[u] \/ (~Has(call[u], j) /\ ~Has(call'[u], j))
      BY <1>1, <1>2 DEF Beside, Has
    <2>3. /\ slot'[j].there = slot[j].there /\ (slot[j].there => slot'[j].held = slot[j].held)
          /\ out'[j] = out[j] /\ given'[j] = given[j]
      BY <1>2 DEF Beside
    <2>4. HeldOf(slot', call', j) = HeldOf(slot, call, j) /\ Single(slot', call', j)
      BY <1>1, <2>1, <2>2, <2>3, HeldSame
    <2>5. calls \in Nat /\ calls' \in Nat /\ calls <= calls'
      BY DEF StdInv, StdTypes, Mine
    <2>6. StreamOk(out[j], HeldOf(slot, call, j), given[j], lost', calls')
      BY <2>1, <2>5, StreamSame
    <2> QED
      BY <2>3, <2>4, <2>6
  <1> QED
    BY <1>2 DEF BytesOk

LEMMA MoveBytes ==
  ASSUME StdInv, NEW t \in Everyone, NEW i \in Outputs, StdTypes', CallOk(call'[t]),
         Beside(t, i, slot, call, out, given, slot', call', out', given'),
         Mine(t, i, call, call', given, given', calls, calls'),
         Single(slot, call, i)',
         call'[t].byte # 0 => Later(call'[t].byte, out'[i] \o HeldOf(slot', call', i))
  PROVE  OwnBytes'
  <1>1. /\ DOMAIN call = Everyone /\ DOMAIN call' = Everyone
        /\ calls \in Nat /\ calls' \in Nat /\ calls <= calls'
        /\ \A u \in Everyone : call[u].byte \in Nat /\ call'[u].byte \in Nat
    BY DEF StdInv, StdTypes, Mine, CallTypes
  <1>2. \A u \in Everyone \ {t} : call'[u] = call[u]
    BY DEF Beside
  <1>3. /\ \A u \in Everyone : call[u].byte # 0 => call[u].byte <= calls
        /\ \A u \in Everyone, v \in Everyone :
             call[u].byte = call[v].byte /\ call[u].byte # 0 => u = v
    BY DEF StdInv, OwnBytes, ByteOk
  <1>4. call'[t].byte # 0 =>
          /\ call'[t].byte <= calls'
          /\ call'[t].byte = call[t].byte \/ call'[t].byte = calls + 1
          /\ \A j \in Outputs : call'[t].byte \notin given'[j]
    BY DEF Mine
  <1>5. ByteOk(t)'
    <2>1. call'[t].byte # 0 => call'[t].on = i
      BY DEF CallOk, Beside
    <2> QED
      BY <1>4, <2>1 DEF ByteOk
  <1>6. ASSUME NEW u \in Everyone, u # t PROVE ByteOk(u)'
    <2> SUFFICES ASSUME call[u].byte # 0
                 PROVE  /\ call[u].byte <= calls'
                        /\ \A j \in Outputs : call[u].byte \notin given'[j]
                        /\ Later(call[u].byte,
                                 out'[call[u].on] \o HeldOf(slot', call', call[u].on))
      BY <1>2, <1>6 DEF ByteOk
    <2> DEFINE k == call[u].on
    <2>1. /\ call[u].byte <= calls
          /\ \A j \in Outputs : call[u].byte \notin given[j]
          /\ Later(call[u].byte, out[k] \o HeldOf(slot, call, k))
      BY DEF StdInv, OwnBytes, ByteOk
    <2>2. k \in Outputs /\ Has(call[u], k) /\ call'[u] = call[u]
      BY <1>2, <1>6 DEF StdInv, FilesOk, CallOk, Has
    <2>3. ASSUME NEW j \in Outputs PROVE call[u].byte \notin given'[j]
      <3>1. CASE j # i
        BY <2>1, <3>1 DEF Beside
      <3>2. CASE j = i
        <4>1. given'[i] \subseteq given[i] \cup {call[t].byte, calls + 1}
          BY DEF Mine
        <4>2. call[u].byte # call[t].byte /\ call[u].byte # calls + 1
          BY <1>1, <1>3, <1>6, <2>1
        <4> QED
          BY <2>1, <3>2, <4>1, <4>2
      <3> QED
        BY <3>1, <3>2
    <2>4. Single(slot, call, k)
      BY <2>2 DEF StdInv, BytesOk
    <2>5. u \in Hands(call, k) /\ u \in Hands(call', k)
      BY <1>1, <2>2 DEF Hands
    <2>6. HeldOf(slot, call, k) = call[u].file.held
      BY <2>4, <2>5, HeldHand
    <2>7. CASE k = i
      <3>1. HeldOf(slot', call', k) = call'[u].file.held
        BY <2>5, <2>7, HeldHand
      <3>2. ~Has(call[t], i)
        BY <1>1, <1>6, <2>4, <2>5, <2>7 DEF Single, Hands
      <3>3. out'[k] = out[k]
        BY <2>7, <3>2 DEF Beside, Has
      <3> QED
        BY <1>1, <2>1, <2>2, <2>3, <2>6, <3>1, <3>3
    <2>8. CASE k # i
      <3>1. \A v \in DOMAIN call :
              call'[v] = call[v] \/ (~Has(call[v], k) /\ ~Has(call'[v], k))
        BY <1>1, <1>2, <2>8 DEF Beside, Has
      <3>2. /\ slot'[k].there = slot[k].there /\ (slot[k].there => slot'[k].held = slot[k].held)
            /\ out'[k] = out[k]
        BY <2>2, <2>8 DEF Beside
      <3>3. HeldOf(slot', call', k) = HeldOf(slot, call, k)
        BY <1>1, <2>4, <3>1, <3>2, HeldSame
      <3> QED
        BY <1>1, <2>1, <2>2, <2>3, <3>2, <3>3
    <2> QED
      BY <2>7, <2>8
  <1>7. ASSUME NEW u \in Everyone, NEW v \in Everyone,
               call'[u].byte = call'[v].byte, call'[u].byte # 0
        PROVE  u = v
    <2>1. CASE u # t /\ v # t
      BY <1>2, <1>3, <1>7, <2>1
    <2>2. CASE u = t /\ v # t
      <3>1. call'[v].byte = call[v].byte /\ call[v].byte <= calls
        BY <1>1, <1>2, <1>3, <1>7, <2>2
      <3> QED
        BY <1>1, <1>3, <1>4, <1>7, <2>2, <3>1
    <2>3. CASE u # t /\ v = t
      <3>1. call'[u].byte = call[u].byte /\ call[u].byte <= calls
        BY <1>1, <1>2, <1>3, <1>7, <2>3
      <3> QED
        BY <1>1, <1>3, <1>4, <1>7, <2>3, <3>1
    <2> QED
      BY <2>1, <2>2, <2>3
  <1> QED
    BY <1>5, <1>6, <1>7 DEF OwnBytes

\* What a step must say of the hook.
HookStep(t, i) ==
  /\ phase # Over /\ phase' = phase /\ due' = due
  /\ armed => armed'
  /\ ~armed' => named' \cap Outputs = {} /\ given' = given /\ ~call'[t].file.there
  /\ given[i] \subseteq given'[i]
  /\ \A j \in Outputs \ {i} : slot'[j] = slot[j] \/ Passed(slot'[j], due)
  /\ phase \in 1..3 /\ i < phase => Passed(slot'[i], due)

LEMMA HookKeeps ==
  ASSUME StdInv, NEW t, NEW i \in Outputs,
         Beside(t, i, slot, call, out, given, slot', call', out', given'), HookStep(t, i)
  PROVE  HookOk' /\ EndOk'
  <1>1. HookOk'
    <2>1. \A j \in Outputs : given[j] \subseteq given'[j]
      BY DEF HookStep, Beside
    <2>2. 1 \in Outputs /\ 2 \in Outputs
      BY DEF Outputs
    <2>3. phase' # 0 => due' \subseteq given'[1] \cup given'[2]
      BY <2>1, <2>2 DEF StdInv, HookOk, HookStep
    <2>4. ~armed' => /\ named' \cap Outputs = {} /\ \A j \in Outputs : given'[j] = {}
                     /\ \A u \in Everyone : ~call'[u].file.there
      BY DEF StdInv, HookOk, HookStep, Beside
    <2>5. ASSUME NEW j \in Outputs, phase' \in 1..3, j < phase' PROVE Passed(slot'[j], due')
      <3>1. Passed(slot[j], due) /\ due' = due /\ phase' = phase
        BY <2>5 DEF StdInv, HookOk, HookStep
      <3> QED
        BY <2>5, <3>1 DEF HookStep
    <2> QED
      BY <2>3, <2>4, <2>5 DEF HookOk
  <1>2. EndOk'
    BY DEF HookStep, EndOk
  <1> QED
    BY <1>1, <1>2

LEMMA MoveKeeps ==
  ASSUME StdInv, NEW t \in Everyone, NEW i \in Outputs, StdTypes',
         CallOk(call'[t]) /\ FileOk(call'[t].file),
         \A j \in Streams : FileOk(slot'[j]),
         Beside(t, i, slot, call, out, given, slot', call', out', given'),
         Mine(t, i, call, call', given, given', calls, calls'),
         Single(slot', call', i), lost \subseteq lost',
         StreamOk(out'[i], HeldOf(slot', call', i), given'[i], lost', calls'),
         call'[t].byte # 0 => Later(call'[t].byte, out'[i] \o HeldOf(slot', call', i)),
         HookStep(t, i)
  PROVE  StdInv'
  <1>1. BytesOk'
    BY MoveStreams
  <1>2. OwnBytes'
    BY MoveBytes
  <1>3. FilesOk'
    <2>1. \A u \in Everyone \ {t} : call'[u] = call[u]
      BY DEF Beside
    <2> QED
      BY <2>1 DEF FilesOk, StdInv
  <1>4. HookOk' /\ EndOk'
    BY HookKeeps
  <1> QED
    BY <1>1, <1>2, <1>3, <1>4 DEF StdInv

-----------------------------------------------------------------------------
(* A File is taken from its slot, kept, given back, and dropped: s and c are *)
(* the slots and the calls before, r and d after.                           *)

LEMMA TakesIt ==
  ASSUME NEW s, NEW c, NEW i, NEW r, NEW d, NEW t \in DOMAIN c, Single(s, c, i),
         DOMAIN d = DOMAIN c, \A u \in DOMAIN c \ {t} : d[u] = c[u],
         s[i].there, ~r[i].there, Has(d[t], i)
  PROVE  /\ HeldOf(s, c, i) = s[i].held
         /\ Single(r, d, i) /\ HeldOf(r, d, i) = d[t].file.held
  <1>1. Hands(c, i) = {}
    BY DEF Single
  <1>2. Hands(d, i) = {t}
    BY <1>1 DEF Hands
  <1>3. Single(r, d, i) /\ t \in Hands(d, i)
    BY <1>2 DEF Single
  <1> QED
    BY <1>3, HeldSlot, HeldHand

LEMMA KeepsIt ==
  ASSUME NEW s, NEW c, NEW i, NEW r, NEW d, NEW t \in DOMAIN c, Single(s, c, i),
         DOMAIN d = DOMAIN c, \A u \in DOMAIN c \ {t} : d[u] = c[u],
         Has(c[t], i), r[i] = s[i], Has(d[t], i)
  PROVE  /\ HeldOf(s, c, i) = c[t].file.held
         /\ Single(r, d, i) /\ HeldOf(r, d, i) = d[t].file.held
  <1>1. t \in Hands(c, i)
    BY DEF Hands
  <1>2. Hands(c, i) = {t} /\ ~s[i].there
    BY <1>1 DEF Single
  <1>3. Hands(d, i) = {t}
    BY <1>2 DEF Hands
  <1>4. Single(r, d, i) /\ t \in Hands(d, i)
    BY <1>2, <1>3 DEF Single
  <1> QED
    BY <1>1, <1>4, HeldHand

LEMMA GivesIt ==
  ASSUME NEW s, NEW c, NEW i, NEW r, NEW d, NEW t \in DOMAIN c, Single(s, c, i),
         DOMAIN d = DOMAIN c, \A u \in DOMAIN c \ {t} : d[u] = c[u],
         Has(c[t], i), ~Has(d[t], i)
  PROVE  /\ HeldOf(s, c, i) = c[t].file.held /\ ~s[i].there
         /\ Single(r, d, i)
         /\ HeldOf(r, d, i) = IF r[i].there THEN r[i].held ELSE <<>>
  <1>1. t \in Hands(c, i)
    BY DEF Hands
  <1>2. Hands(c, i) = {t} /\ ~s[i].there
    BY <1>1 DEF Single
  <1>3. Hands(d, i) = {}
    BY <1>2 DEF Hands
  <1>4. Single(r, d, i)
    BY <1>3 DEF Single
  <1>5. HeldOf(r, d, i) = IF r[i].there THEN r[i].held ELSE <<>>
    BY <1>3 DEF HeldOf
  <1> QED
    BY <1>1, <1>2, <1>4, <1>5, HeldHand

\* What a call that starts, or a byte that is taken in at once, finds in its stream.
LEMMA NextByte ==
  ASSUME StdInv, NEW i \in Outputs
  PROVE  /\ Single(slot, call, i)
         /\ StreamOk(out[i], HeldOf(slot, call, i), given[i], lost, calls)
         /\ Later(calls + 1, out[i] \o HeldOf(slot, call, i))
         /\ calls \in Nat /\ \A j \in Outputs : calls + 1 \notin given[j]
         /\ \A j \in Outputs : calls + 1 \notin due \/ phase = 0
  <1>1. /\ Single(slot, call, i)
        /\ StreamOk(out[i], HeldOf(slot, call, i), given[i], lost, calls)
    BY DEF StdInv, BytesOk
  <1>2. calls \in Nat /\ \A j \in Outputs : given[j] \subseteq 1..calls
    BY DEF StdInv, BytesOk, StreamOk, StdTypes
  <1>3. Later(calls + 1, out[i] \o HeldOf(slot, call, i))
    BY <1>1, <1>2 DEF StreamOk, Later
  <1>4. phase = 0 \/ calls + 1 \notin due
    BY <1>2 DEF StdInv, HookOk, Outputs
  <1> QED
    BY <1>1, <1>2, <1>3, <1>4

\* Who is in no call has nothing in hand.
LEMMA Idle ==
  ASSUME StdInv, NEW t \in Everyone, call[t] = NoCall
  PROVE  ~call[t].file.there /\ call[t].byte = 0 /\ \A i : ~Has(call[t], i)
  BY NoneIs DEF Has

\* What is gone has passed, and what is fresh.
LEMMA PassedNone ==
  ASSUME NEW d
  PROVE  Passed(None, d) /\ \A i \in Streams : Passed(Fresh(i), d)
  <1>1. ToSet(<<>>) = {}
    BY DEF ToSet
  <1> QED
    BY <1>1, NoneIs DEF Passed

LEMMA NameStep ==
  ASSUME StdInv, NEW t \in Tasks, NEW j \in Streams, Name(t, j), NobodyElse, phase # Over
  PROVE  StdInv'
  <1> DEFINE i == IF j = 0 THEN 1 ELSE j
  <1>1. i \in Outputs /\ 1 \in Outputs /\ (j # 0 => i = j) /\ t \in Everyone
    BY DEF Outputs, Streams, Everyone
  <1> HIDE DEF i
  <1>2. /\ call' = call /\ out' = out /\ given' = given /\ lost' = lost /\ calls' = calls
        /\ phase' = phase /\ due' = due /\ call[t] = NoCall
        /\ named' = named \cup {j} /\ armed' = (armed \/ j # 0)
        /\ slot' = IF slot[j].there THEN slot ELSE [slot EXCEPT ![j] = Fresh(j)]
    BY DEF Name, Arm, Running
  <1>3. /\ slot \in [Streams -> FileTypes] /\ DOMAIN call = Everyone /\ calls \in Nat
        /\ \A k \in Streams : FileOk(slot[k])
        /\ \A u \in Everyone : CallOk(call[u]) /\ FileOk(call[u].file)
    BY DEF StdInv, StdTypes, FilesOk
  <1>4. /\ slot' \in [Streams -> FileTypes]
        /\ \A k \in Streams : k # j \/ slot[j].there => slot'[k] = slot[k]
        /\ ~slot[j].there => slot'[j] = Fresh(j)
    BY <1>2, <1>3, NoneIs
  <1>5. \A k \in Streams : FileOk(slot'[k])
    <2>1. FileOk(Fresh(j))
      BY NoneIs DEF FileOk
    <2> QED
      BY <1>3, <1>4, <2>1
  <1>6. StdTypes'
    BY <1>2, <1>4 DEF StdInv, StdTypes
  <1>7. /\ Single(slot, call, i)
        /\ StreamOk(out[i], HeldOf(slot, call, i), given[i], lost, calls)
    BY <1>1, NextByte
  <1>8. /\ Single(slot', call', i) /\ HeldOf(slot', call', i) = HeldOf(slot, call, i)
    <2>1. CASE slot'[i] = slot[i]
      <3>1. slot'[i].there = slot[i].there /\ slot'[i].held = slot[i].held /\ call' = call
        BY <1>2, <2>1
      <3> QED
        BY <1>3, <1>7, <3>1, HeldSame
    <2>2. CASE slot'[i] # slot[i]
      <3>1. i = j /\ ~slot[i].there /\ slot'[i] = Fresh(i) /\ i \in Streams
        BY <1>1, <1>4, <2>2 DEF Outputs, Streams
      <3>2. slot'[i].there /\ slot'[i].held = <<>>
        BY <3>1, NoneIs
      <3>3. Hands(call, i) = {}
        BY <1>2, <3>1, <3>2 DEF NobodyElse, InHand, Hands, Has
      <3> QED
        <4>1. HeldOf(slot, call, i) = <<>>
          BY <3>1, <3>3, HeldNone
        <4>2. HeldOf(slot', call', i) = <<>>
          BY <3>2, HeldSlot
        <4>3. call' = call
          BY <1>2
        <4> QED
          BY <3>3, <4>1, <4>2, <4>3 DEF Single
    <2> QED
      BY <2>1, <2>2
  <1>9. Beside(t, i, slot, call, out, given, slot', call', out', given')
    <2>1. \A k \in Outputs \ {i} : slot'[k] = slot[k]
      BY <1>1, <1>4 DEF Outputs, Streams
    <2> QED
      BY <1>1, <1>2, <2>1, Idle DEF Beside
  <1>10. Mine(t, i, call, call', given, given', calls, calls')
    BY <1>1, <1>2, <1>3, Idle DEF Mine
  <1>11. HookStep(t, i)
    <2>1. \A k \in Outputs : slot'[k] = slot[k] \/ Passed(slot'[k], due)
      BY <1>1, <1>4, PassedNone DEF Outputs, Streams
    <2>2. phase \in 1..3 /\ i < phase => Passed(slot[i], due)
      BY <1>1 DEF StdInv, HookOk
    <2>3. ASSUME ~armed' PROVE named' \cap Outputs = {}
      <3>1. ~armed /\ j = 0 /\ named' = named \cup {0} /\ 0 \notin Outputs
        <4>1. ~armed /\ j = 0
          BY <1>2, <2>3, Zenon
        <4> QED
          BY <1>2, <4>1 DEF Outputs
      <3>2. named \cap Outputs = {}
        BY <3>1 DEF StdInv, HookOk
      <3> QED
        BY <3>1, <3>2
    <2>4. armed => armed'
      BY <1>2
    <2>5. ~call'[t].file.there
      BY <1>1, <1>2, Idle
    <2> QED
      BY <1>1, <1>2, <2>1, <2>2, <2>3, <2>4, <2>5 DEF HookStep
  <1>12. call'[t].byte = 0
    BY <1>1, <1>2, Idle
  <1> QED
    BY <1>1, <1>2, <1>3, <1>5, <1>6, <1>7, <1>8, <1>9, <1>10, <1>11, <1>12, MoveKeeps

\* A call takes a stream's File in hand.
LEMMA TakeStep ==
  ASSUME StdInv, NEW t \in Everyone, NEW i \in Outputs, call[t] = NoCall, slot[i].there,
         NEW x \in CallTypes, x.file = slot[i], x.on = i, CallOk(x),
         call' \in [Everyone -> CallTypes], call'[t] = x,
         \A u \in Everyone \ {t} : call'[u] = call[u],
         slot' \in [Streams -> FileTypes], \A k \in Streams : FileOk(slot'[k]),
         slot'[i] = None, \A k \in Outputs \ {i} : slot'[k] = slot[k],
         out' = out, given' = given, lost' = lost,
         calls' = calls \/ calls' = calls + 1,
         x.byte = 0 \/ (x.byte = calls + 1 /\ calls' = calls + 1),
         named' \subseteq Streams, armed' \in BOOLEAN, phase' \in 0..4
  PROVE  StdTypes' /\ FilesOk' /\ BytesOk' /\ OwnBytes'
  <1>1. /\ DOMAIN call = Everyone /\ DOMAIN call' = Everyone
        /\ call \in [Everyone -> CallTypes]
        /\ slot \in [Streams -> FileTypes] /\ calls \in Nat
        /\ \A k \in Streams : FileOk(slot[k])
        /\ \A u \in Everyone : CallOk(call[u]) /\ FileOk(call[u].file)
    BY DEF StdInv, StdTypes, FilesOk
  <1>2. call'[t] = x /\ \A u \in Everyone \ {t} : call'[u] = call[u]
    OBVIOUS
  <1>3. StdTypes'
    <2>1. calls' \in Nat
      BY <1>1
    <2> QED
      BY <1>2, <2>1 DEF StdInv, StdTypes
  <1>4. FilesOk'
    <2>1. i \in Streams /\ FileOk(x.file)
      BY <1>1 DEF Outputs, Streams
    <2> QED
      BY <1>1, <1>2, <2>1 DEF FilesOk
  <1>5. /\ Single(slot, call, i)
        /\ StreamOk(out[i], HeldOf(slot, call, i), given[i], lost, calls)
        /\ Later(calls + 1, out[i] \o HeldOf(slot, call, i))
        /\ \A j \in Outputs : calls + 1 \notin given[j]
    BY NextByte
  <1>6. /\ HeldOf(slot, call, i) = slot[i].held
        /\ Single(slot', call', i) /\ HeldOf(slot', call', i) = x.file.held
    <2>1. /\ Has(call'[t], i) /\ ~slot'[i].there /\ slot[i].there /\ t \in DOMAIN call
          /\ Single(slot, call, i)
      BY <1>1, <1>2, <1>5, NoneIs DEF Has
    <2>2. DOMAIN call' = DOMAIN call /\ \A u \in DOMAIN call \ {t} : call'[u] = call[u]
      BY <1>1, <1>2
    <2>3. /\ HeldOf(slot, call, i) = slot[i].held
          /\ Single(slot', call', i) /\ HeldOf(slot', call', i) = call'[t].file.held
      BY ONLY <2>1, <2>2, TakesIt
    <2> QED
      BY <1>2, <2>3
  <1>7. StreamOk(out'[i], HeldOf(slot', call', i), given'[i], lost', calls')
    <2>1. StreamOk(out[i], HeldOf(slot, call, i), given[i], lost, calls')
      BY <1>1, <1>5, StreamSame
    <2> QED
      BY <1>6, <2>1
  <1>8. Beside(t, i, slot, call, out, given, slot', call', out', given')
    BY <1>2, Idle DEF Beside
  <1>9. Mine(t, i, call, call', given, given', calls, calls')
    <2>1. /\ calls <= calls'
          /\ x.byte # 0 => /\ x.byte <= calls' /\ x.byte = calls + 1
                           /\ \A j \in Outputs : x.byte \notin given[j]
      BY <1>1, <1>5
    <2> QED
      BY <1>2, <2>1 DEF Mine
  <1>10. call'[t].byte # 0 => Later(call'[t].byte, out'[i] \o HeldOf(slot', call', i))
    BY <1>2, <1>5, <1>6
  <1>11. lost \subseteq lost' /\ CallOk(call'[t])
    BY <1>2
  <1>12. BytesOk'
    BY <1>3, <1>6, <1>7, <1>8, <1>9, <1>11, MoveStreams
  <1>13. OwnBytes'
    BY <1>3, <1>6, <1>8, <1>9, <1>10, <1>11, MoveBytes
  <1> QED
    BY <1>3, <1>4, <1>12, <1>13

LEMMA SlowStep ==
  ASSUME StdInv, NEW t \in Tasks, NEW i \in Outputs, WriteSlow(t, i) \/ Flush(t, i),
         phase # Over
  PROVE  StdInv'
  <1>1. /\ DOMAIN call = Everyone /\ call \in [Everyone -> CallTypes]
        /\ slot \in [Streams -> FileTypes] /\ calls \in Nat
        /\ i \in Streams /\ t \in Everyone
        /\ named \subseteq Streams /\ armed \in BOOLEAN /\ phase \in 0..4
        /\ \A k \in Streams : FileOk(slot[k])
    BY DEF StdInv, StdTypes, FilesOk, Outputs, Streams, Everyone
  <1>2. /\ call[t] = NoCall /\ calls' = calls + 1 /\ slot' = [slot EXCEPT ![i] = None]
        /\ out' = out /\ given' = given /\ lost' = lost /\ named' = named /\ armed' = armed
        /\ phase' = phase /\ due' = due
    BY DEF WriteSlow, Flush, Running, Counted, Take
  <1>3. slot[i].there /\ slot[i] \in FileTypes
    <2>1. slot[i].there \/ slot[i].held # <<>>
      BY DEF WriteSlow, Flush
    <2> QED
      BY <1>1, <2>1 DEF FileOk, FileTypes
  <1>4. PICK x \in CallTypes :
          /\ call' = [call EXCEPT ![t] = x]
          /\ x.file = slot[i] /\ x.on = i /\ CallOk(x) /\ x.byte \in {0, calls + 1}
    <2>1. CASE WriteSlow(t, i)
      <3> DEFINE x == [op |-> "write", on |-> i, byte |-> calls', file |-> slot[i],
                       pc |-> IF slot[i].how = "auto" THEN "probe" ELSE "body"]
      <3>1. call' = [call EXCEPT ![t] = x]
        BY <2>1 DEF WriteSlow
      <3>2. x \in CallTypes
        BY <1>1, <1>2, <1>3 DEF CallTypes
      <3>3. slot[i].how = "full" => Len(slot[i].held) >= Cap
        BY <2>1 DEF WriteSlow
      <3>4. CallOk(x)
        <4>1. calls + 1 # 0 /\ Len(slot[i].held) \in Nat /\ Cap \in Nat
          BY <1>1, <1>3, StdAssumption DEF FileTypes
        <4>2. ~(slot[i].how = "full" /\ Len(slot[i].held) < Cap)
          BY <3>3, <4>1
        <4> QED
          BY <1>2, <1>3, <4>1, <4>2 DEF CallOk
      <3> QED
        BY <1>2, <3>1, <3>2, <3>4
    <2>2. CASE Flush(t, i)
      <3> DEFINE x == [op |-> "flush", on |-> i, byte |-> 0, file |-> slot[i], pc |-> "drain"]
      <3>1. call' = [call EXCEPT ![t] = x]
        BY <2>2 DEF Flush
      <3>2. x \in CallTypes /\ CallOk(x)
        BY <1>1, <1>3 DEF CallTypes, CallOk
      <3> QED
        BY <3>1, <3>2
    <2> QED
      BY <2>1, <2>2
  <1>5. /\ slot' \in [Streams -> FileTypes] /\ slot'[i] = None
        /\ \A k \in Outputs \ {i} : slot'[k] = slot[k]
        /\ \A k \in Streams : FileOk(slot'[k])
    BY <1>1, <1>2, NoneIs DEF FileOk, Outputs, Streams
  <1>6. StdTypes' /\ FilesOk' /\ BytesOk' /\ OwnBytes'
    <2>1. /\ call' \in [Everyone -> CallTypes] /\ call'[t] = x
          /\ \A u \in Everyone \ {t} : call'[u] = call[u]
      BY <1>1, <1>4
    <2>2. /\ x.byte = 0 \/ (x.byte = calls + 1 /\ calls' = calls + 1)
          /\ named' \subseteq Streams /\ armed' \in BOOLEAN /\ phase' \in 0..4
      BY <1>1, <1>2, <1>4
    <2> QED
      BY <1>1, <1>2, <1>3, <1>4, <1>5, <2>1, <2>2, TakeStep
  <1>7. HookStep(t, i)
    <2>1. i \in named
      BY DEF WriteSlow, Flush
    <2>2. armed
      BY <2>1 DEF StdInv, HookOk
    <2> QED
      BY <1>2, <1>5, <2>2, PassedNone DEF HookStep
  <1>8. Beside(t, i, slot, call, out, given, slot', call', out', given')
    BY <1>1, <1>2, <1>4, <1>5, Idle DEF Beside
  <1> QED
    BY <1>6, <1>7, <1>8, HookKeeps DEF StdInv

\* A call that does not await, or only reads from then on, leaves a File in its slot.
LEMMA SlotStep ==
  ASSUME StdInv, NEW t \in Everyone, NEW i \in Outputs, call[t] = NoCall, phase # Over,
         call' \in [Everyone -> CallTypes], \A u \in Everyone \ {t} : call'[u] = call[u],
         call'[t] \in {NoCall, Reading},
         slot' \in [Streams -> FileTypes], \A k \in Streams : FileOk(slot'[k]),
         \A k \in Outputs \ {i} : slot'[k] = slot[k],
         slot'[i].there, Hands(call, i) = {}, slot[i].held # <<>> => slot[i].there,
         out' = out, lost' = lost, phase' = phase, due' = due,
         calls' = calls \/ calls' = calls + 1,
         \/ /\ given' = given /\ slot'[i].held = slot[i].held
            /\ slot'[i].err = slot[i].err \/ slot'[i].held = <<>>
         \/ /\ armed /\ slot[i].there /\ slot'[i].err = slot[i].err /\ calls' = calls + 1
            /\ given' = [given EXCEPT ![i] = @ \cup {calls + 1}]
            /\ slot'[i].held = Append(slot[i].held, calls + 1),
         named' \subseteq Streams, armed' \in BOOLEAN, armed => armed',
         ~armed' => named' \cap Outputs = {}
  PROVE  StdInv'
  <1>1. /\ DOMAIN call = Everyone /\ DOMAIN call' = Everyone
        /\ slot \in [Streams -> FileTypes] /\ calls \in Nat
        /\ given \in [Outputs -> SUBSET Nat] /\ out \in [Outputs -> Seq(Nat)]
        /\ i \in Streams
    BY DEF StdInv, StdTypes, Outputs, Streams
  <1>2. calls' \in Nat /\ calls <= calls'
    BY <1>1
  <1>3. StdTypes'
    <2>1. given' \in [Outputs -> SUBSET Nat]
      BY <1>1
    <2>2. phase' \in 0..4 /\ out' \in [Outputs -> Seq(Nat)]
      BY <1>1 DEF StdInv, StdTypes
    <2> QED
      BY <1>1, <1>2, <2>1, <2>2 DEF StdTypes
  <1>4. ~call'[t].file.there /\ call'[t].byte = 0
    BY NoneIs
  <1>5. /\ Single(slot, call, i)
        /\ StreamOk(out[i], HeldOf(slot, call, i), given[i], lost, calls)
        /\ Later(calls + 1, out[i] \o HeldOf(slot, call, i))
        /\ \A j \in Outputs : calls + 1 \notin due \/ phase = 0
    BY NextByte
  <1>6. HeldOf(slot, call, i) = slot[i].held
    <2>1. CASE slot[i].there
      BY <2>1, HeldSlot
    <2>2. CASE ~slot[i].there
      BY <2>2, HeldNone
    <2> QED
      BY <2>1, <2>2
  <1>7. HeldOf(slot', call', i) = slot'[i].held /\ Single(slot', call', i)
    <2>1. Hands(call', i) = {}
      BY <1>1, <1>4 DEF Hands, Has
    <2> QED
      BY <2>1, HeldSlot DEF Single
  <1>8. StreamOk(out'[i], HeldOf(slot', call', i), given'[i], lost', calls')
    <2>1. CASE given' = given /\ slot'[i].held = slot[i].held
      <3>1. StreamOk(out[i], slot[i].held, given[i], lost, calls')
        BY <1>1, <1>2, <1>5, <1>6, StreamSame
      <3> QED
        BY <1>7, <2>1, <3>1
    <2>2. CASE /\ given' = [given EXCEPT ![i] = @ \cup {calls + 1}] /\ calls' = calls + 1
               /\ slot'[i].held = Append(slot[i].held, calls + 1)
      <3> DEFINE b == calls + 1
      <3>1. b \in Nat /\ b # 0 /\ calls <= b /\ b <= b /\ calls \in Nat
        BY <1>1
      <3>2. StreamOk(out[i], slot[i].held, given[i], lost, calls)
            /\ Later(b, out[i] \o slot[i].held)
        BY <1>5, <1>6
      <3>3. given'[i] = given[i] \cup {b} /\ calls' = b /\ slot'[i].held = Append(slot[i].held, b)
        BY <1>1, <2>2
      <3> HIDE DEF b
      <3>4. StreamOk(out[i], Append(slot[i].held, b), given[i] \cup {b}, lost, b)
        BY ONLY <3>1, <3>2, StreamMore
      <3> QED
        BY <1>7, <3>3, <3>4
    <2> QED
      BY <2>1, <2>2
  <1>9. Beside(t, i, slot, call, out, given, slot', call', out', given')
    <2>1. \A j \in Outputs \ {i} : given'[j] = given[j]
      BY <1>1
    <2> QED
      BY <1>4, <2>1, Idle DEF Beside
  <1>10. Mine(t, i, call, call', given, given', calls, calls')
    <2>1. given'[i] \subseteq given[i] \cup {calls + 1}
      BY <1>1
    <2> QED
      BY <1>2, <1>4, <2>1 DEF Mine
  <1>11. HookStep(t, i)
    <2>1. given[i] \subseteq given'[i] /\ (~armed' => given' = given)
      BY <1>1
    <2>2. ASSUME phase \in 1..3, i < phase PROVE Passed(slot'[i], due)
      <3>1. Passed(slot[i], due)
        BY <2>2 DEF StdInv, HookOk
      <3>2. CASE slot'[i].held = <<>>
        BY <3>2 DEF Passed, ToSet
      <3>3. CASE slot'[i].err = slot[i].err /\ slot'[i].held = slot[i].held
        BY <3>1, <3>3 DEF Passed
      <3>4. CASE slot'[i].err = slot[i].err /\ slot'[i].held = Append(slot[i].held, calls + 1)
        <4>1. calls + 1 \notin due /\ slot[i].held \in Seq(Nat) /\ calls + 1 \in Nat
          BY <1>1, <1>5, <2>2 DEF FileTypes
        <4>2. ToSet(slot'[i].held) = ToSet(slot[i].held) \cup {calls + 1}
          BY <3>4, <4>1, ToSetAppended
        <4> QED
          BY <3>1, <3>4, <4>1, <4>2 DEF Passed
      <3> QED
        BY <3>2, <3>3, <3>4
    <2> QED
      BY <1>4, <2>1, <2>2 DEF HookStep
  <1>12. CallOk(call'[t]) /\ FileOk(call'[t].file)
    BY NoneIs DEF CallOk, FileOk
  <1>13. lost \subseteq lost' /\ (call'[t].byte # 0
           => Later(call'[t].byte, out'[i] \o HeldOf(slot', call', i)))
    BY <1>4
  <1> QED
    BY <1>3, <1>7, <1>8, <1>9, <1>10, <1>11, <1>12, <1>13, MoveKeeps

LEMMA FastStep ==
  ASSUME StdInv, NEW t \in Tasks, NEW i \in Outputs, SetBuffering(t, i) \/ WriteFast(t, i),
         phase # Over
  PROVE  StdInv'
  <1>1. /\ call \in [Everyone -> CallTypes] /\ slot \in [Streams -> FileTypes] /\ calls \in Nat
        /\ i \in Streams /\ t \in Everyone
        /\ named \subseteq Streams /\ armed \in BOOLEAN
        /\ (~armed => named \cap Outputs = {}) /\ Single(slot, call, i)
        /\ \A k \in Streams : FileOk(slot[k])
    BY DEF StdInv, StdTypes, FilesOk, HookOk, BytesOk, Outputs, Streams, Everyone
  <1>2. /\ call[t] = NoCall /\ call' = call /\ slot[i].there /\ i \in named
        /\ out' = out /\ lost' = lost /\ named' = named /\ armed' = armed
        /\ phase' = phase /\ due' = due /\ (calls' = calls \/ calls' = calls + 1)
    BY DEF SetBuffering, WriteFast, Running, Counted
  <1>3. armed /\ Hands(call, i) = {} /\ call'[t] \in {NoCall, Reading}
    BY <1>1, <1>2 DEF Single
  <1>4. PICK f \in FileTypes :
          /\ slot' = [slot EXCEPT ![i] = f]
          /\ f.there /\ FileOk(f) /\ f.err = slot[i].err
          /\ \/ given' = given /\ f.held = slot[i].held
             \/ /\ calls' = calls + 1
                /\ given' = [given EXCEPT ![i] = @ \cup {calls + 1}]
                /\ f.held = Append(slot[i].held, calls + 1)
    <2>1. CASE SetBuffering(t, i)
      <3>1. PICK how \in {"none", "line", "full"} :
              slot' = [slot EXCEPT ![i] = [slot[i] EXCEPT !.how = how]] /\ given' = given
        BY <2>1 DEF SetBuffering, Give
      <3> DEFINE f == [slot[i] EXCEPT !.how = how]
      <3>2. f \in FileTypes /\ f.there /\ FileOk(f) /\ f.err = slot[i].err /\ f.held = slot[i].held
        BY <1>1, <1>2 DEF FileTypes, FileOk
      <3> QED
        BY <3>1, <3>2
    <2>2. CASE WriteFast(t, i)
      <3> DEFINE f == Holds(slot[i], calls + 1)
      <3>1. /\ slot' = [slot EXCEPT ![i] = f] /\ calls' = calls + 1 /\ slot[i].how = "full"
            /\ given' = [given EXCEPT ![i] = @ \cup {calls + 1}]
        BY <2>2 DEF WriteFast, Give, Counted, Accept
      <3>2. /\ f \in FileTypes /\ f.there /\ FileOk(f) /\ f.err = slot[i].err
            /\ f.held = Append(slot[i].held, calls + 1)
        <4>1. slot[i] \in FileTypes /\ calls + 1 \in Nat
          BY <1>1
        <4>2. Append(slot[i].held, calls + 1) \in Seq(Nat)
          BY <4>1 DEF FileTypes
        <4> QED
          BY <1>2, <3>1, <4>1, <4>2 DEF Holds, FileTypes, FileOk
      <3> QED
        BY <3>1, <3>2
    <2> QED
      BY <2>1, <2>2
  <1>5. /\ slot' \in [Streams -> FileTypes] /\ slot'[i] = f
        /\ \A k \in Outputs \ {i} : slot'[k] = slot[k]
        /\ \A k \in Streams : FileOk(slot'[k])
    BY <1>1, <1>4 DEF Outputs, Streams
  <1>6. call' \in [Everyone -> CallTypes] /\ \A u \in Everyone \ {t} : call'[u] = call[u]
    BY <1>1, <1>2
  <1>7. /\ slot'[i].there
        /\ \/ /\ given' = given /\ slot'[i].held = slot[i].held
              /\ slot'[i].err = slot[i].err \/ slot'[i].held = <<>>
           \/ /\ armed /\ slot[i].there /\ slot'[i].err = slot[i].err /\ calls' = calls + 1
              /\ given' = [given EXCEPT ![i] = @ \cup {calls + 1}]
              /\ slot'[i].held = Append(slot[i].held, calls + 1)
    BY <1>2, <1>3, <1>4, <1>5
  <1> QED
    BY <1>1, <1>2, <1>3, <1>5, <1>6, <1>7, SlotStep

\* A call that has a File goes on, and keeps it, gives it back, or is dropped.
LEMMA HandStep ==
  ASSUME StdInv, NEW t \in Everyone, NEW i, i = call[t].on, call[t].file.there, phase # Over,
         StdTypes', phase' = phase, due' = due, calls' = calls, named' = named,
         armed' = armed, lost \subseteq lost',
         \A u \in Everyone \ {t} : call'[u] = call[u],
         CallOk(call'[t]), FileOk(call'[t].file),
         \A k \in Streams \ {i} : slot'[k] = slot[k] \/ (k = 0 /\ FileOk(slot'[k])),
         \A j \in Outputs \ {i} : out'[j] = out[j] /\ given'[j] = given[j],
         given[i] \subseteq given'[i], given'[i] \subseteq given[i] \cup {call[t].byte},
         \/ /\ Has(call'[t], i) /\ slot'[i] = slot[i]
            /\ StreamOk(out'[i], call'[t].file.held, given'[i], lost', calls)
            /\ call'[t].byte # 0 => /\ call'[t].byte = call[t].byte /\ given'[i] = given[i]
                                    /\ out'[i] \o call'[t].file.held = out[i] \o call[t].file.held
         \/ /\ ~call'[t].file.there /\ slot'[i].there /\ FileOk(slot'[i])
            /\ StreamOk(out'[i], slot'[i].held, given'[i], lost', calls)
            /\ phase \in 1..3 => Passed(slot'[i], due)
         \/ /\ ~call'[t].file.there /\ slot'[i] = slot[i]
            /\ StreamOk(out'[i], <<>>, given'[i], lost', calls)
  PROVE  StdInv'
  <1>1. /\ DOMAIN call = Everyone /\ DOMAIN call' = Everyone /\ calls \in Nat
        /\ \A k \in Streams : FileOk(slot[k])
    BY DEF StdInv, StdTypes, FilesOk
  <1>2. i \in Outputs /\ i \in Streams /\ Has(call[t], i)
    <2>1. call[t].on \in Outputs
      BY DEF StdInv, FilesOk, CallOk
    <2>2. i = call[t].on /\ call[t].file.there
      OBVIOUS
    <2>3. Has(call[t], i)
      BY ONLY <2>2 DEF Has
    <2> QED
      BY ONLY <2>1, <2>2, <2>3 DEF Outputs, Streams
  <1>3. /\ Single(slot, call, i) /\ FileOk(slot[i])
        /\ \A j \in Outputs \ {i} : j \in Streams /\ j # 0
    <2>1. BytesOk
      BY DEF StdInv
    <2>2. /\ Single(slot, call, i) /\ FileOk(slot[i])
      BY ONLY <1>1, <1>2, <2>1 DEF BytesOk
    <2>3. \A j \in Outputs \ {i} : j \in Streams /\ j # 0
      BY ONLY TRUE DEF Outputs, Streams
    <2> QED
      BY <2>2, <2>3
  <1>4. t \in DOMAIN call /\ DOMAIN call' = DOMAIN call
        /\ \A u \in DOMAIN call \ {t} : call'[u] = call[u]
    BY <1>1
  <1>5. /\ Single(slot', call', i) /\ HeldOf(slot, call, i) = call[t].file.held
        /\ StreamOk(out'[i], HeldOf(slot', call', i), given'[i], lost', calls')
        /\ Has(call'[t], i) => HeldOf(slot', call', i) = call'[t].file.held
    <2>1. CASE Has(call'[t], i) /\ slot'[i] = slot[i]
      <3>1. /\ Single(slot', call', i) /\ HeldOf(slot', call', i) = call'[t].file.held
            /\ HeldOf(slot, call, i) = call[t].file.held
        BY ONLY <1>2, <1>3, <1>4, <2>1, KeepsIt
      <3>2. StreamOk(out'[i], call'[t].file.held, given'[i], lost', calls)
        BY <2>1 DEF Has
      <3> QED
        BY <3>1, <3>2
    <2>2. CASE ~call'[t].file.there
      <3>1. /\ ~Has(call'[t], i)
        BY <2>2 DEF Has
      <3>2. /\ Single(slot', call', i) /\ HeldOf(slot, call, i) = call[t].file.held
            /\ ~slot[i].there
            /\ HeldOf(slot', call', i) = IF slot'[i].there THEN slot'[i].held ELSE <<>>
        BY ONLY <1>2, <1>3, <1>4, <3>1, GivesIt
      <3>3. \/ slot'[i].there /\ StreamOk(out'[i], slot'[i].held, given'[i], lost', calls)
            \/ slot'[i] = slot[i] /\ StreamOk(out'[i], <<>>, given'[i], lost', calls)
        BY <2>2 DEF Has
      <3> QED
        BY <3>1, <3>2, <3>3
    <2> QED
      BY <2>1, <2>2
  <1>6. Beside(t, i, slot, call, out, given, slot', call', out', given')
    BY <1>1, <1>2, <1>3 DEF Beside, Has
  <1>7. call'[t].byte # 0 => call'[t].file.there /\ call'[t].byte = call[t].byte
                             /\ given'[i] = given[i]
                             /\ out'[i] \o call'[t].file.held = out[i] \o call[t].file.held
    BY DEF CallOk
  <1>8. ByteOk(t)
    BY DEF StdInv, OwnBytes
  <1>9. Mine(t, i, call, call', given, given', calls, calls')
    <2>1. calls <= calls' /\ given'[i] \subseteq given[i] \cup {call[t].byte, calls + 1}
      <3>1. /\ calls \in Nat /\ calls' = calls
            /\ given'[i] \subseteq given[i] \cup {call[t].byte}
        BY <1>1
      <3> QED
        BY ONLY <3>1
    <2>2. ASSUME call'[t].byte # 0
          PROVE  /\ call'[t].byte = call[t].byte /\ call[t].byte <= calls'
                 /\ \A j \in Outputs : call'[t].byte \notin given'[j]
      <3>1. call'[t].byte = call[t].byte /\ given'[i] = given[i]
        BY <1>7, <2>2
      <3>2. call[t].byte <= calls /\ \A j \in Outputs : call[t].byte \notin given[j]
        BY ONLY <1>8, <2>2, <3>1 DEF ByteOk
      <3> QED
        BY <3>1, <3>2
    <2> QED
      BY ONLY <2>1, <2>2 DEF Mine
  <1>10. call'[t].byte # 0 => Later(call'[t].byte, out'[i] \o HeldOf(slot', call', i))
    <2> SUFFICES ASSUME call'[t].byte # 0
                 PROVE  Later(call'[t].byte, out'[i] \o HeldOf(slot', call', i))
      OBVIOUS
    <2>1. HeldOf(slot', call', i) = call'[t].file.held
      BY <1>5, <1>7 DEF Has
    <2>2. Later(call[t].byte, out[i] \o HeldOf(slot, call, i))
      BY <1>7, <1>8 DEF ByteOk
    <2>3. out'[i] \o HeldOf(slot', call', i) = out[i] \o HeldOf(slot, call, i)
      BY <1>5, <1>7, <2>1
    <2> QED
      BY <1>7, <2>2, <2>3
  <1>11. \A k \in Streams : FileOk(slot'[k])
    BY <1>1, <1>3
  <1>12. HookStep(t, i)
    <2>1. armed
      BY DEF StdInv, HookOk
    <2>2. \A j \in Outputs \ {i} : slot'[j] = slot[j]
      BY <1>3
    <2>3. phase \in 1..3 /\ i < phase => Passed(slot'[i], due)
      BY <1>2 DEF StdInv, HookOk
    <2> QED
      BY <2>1, <2>2, <2>3 DEF HookStep
  <1> QED
    BY <1>2, <1>5, <1>6, <1>9, <1>10, <1>11, <1>12, MoveKeeps

\* The same, of each of the three.
LEMMA HandKept ==
  ASSUME StdInv, NEW t \in Everyone, NEW i, i = call[t].on, call[t].file.there, phase # Over,
         StdTypes', phase' = phase, due' = due, calls' = calls, named' = named,
         armed' = armed, lost \subseteq lost',
         \A u \in Everyone \ {t} : call'[u] = call[u],
         CallOk(call'[t]), FileOk(call'[t].file),
         \A k \in Streams \ {i} : slot'[k] = slot[k] \/ (k = 0 /\ FileOk(slot'[k])),
         \A j \in Outputs \ {i} : out'[j] = out[j] /\ given'[j] = given[j],
         given[i] \subseteq given'[i], given'[i] \subseteq given[i] \cup {call[t].byte},
         Has(call'[t], i), slot'[i] = slot[i],
         StreamOk(out'[i], call'[t].file.held, given'[i], lost', calls),
         call'[t].byte = 0
         \/ /\ call'[t].byte = call[t].byte /\ given'[i] = given[i]
            /\ out'[i] \o call'[t].file.held = out[i] \o call[t].file.held
  PROVE  StdInv'
  BY HandStep

LEMMA HandGiven ==
  ASSUME StdInv, NEW t \in Everyone, NEW i, i = call[t].on, call[t].file.there, phase # Over,
         StdTypes', phase' = phase, due' = due, calls' = calls, named' = named,
         armed' = armed, lost \subseteq lost',
         \A u \in Everyone \ {t} : call'[u] = call[u],
         CallOk(call'[t]), FileOk(call'[t].file),
         \A k \in Streams \ {i} : slot'[k] = slot[k] \/ (k = 0 /\ FileOk(slot'[k])),
         \A j \in Outputs \ {i} : out'[j] = out[j] /\ given'[j] = given[j],
         given[i] \subseteq given'[i], given'[i] \subseteq given[i] \cup {call[t].byte},
         ~call'[t].file.there, slot'[i].there, FileOk(slot'[i]),
         StreamOk(out'[i], slot'[i].held, given'[i], lost', calls),
         phase \in 1..3 => Passed(slot'[i], due)
  PROVE  StdInv'
  BY HandStep

LEMMA HandGone ==
  ASSUME StdInv, NEW t \in Everyone, NEW i, i = call[t].on, call[t].file.there, phase # Over,
         StdTypes', phase' = phase, due' = due, calls' = calls, named' = named,
         armed' = armed, lost \subseteq lost',
         \A u \in Everyone \ {t} : call'[u] = call[u],
         CallOk(call'[t]), FileOk(call'[t].file),
         \A k \in Streams \ {i} : slot'[k] = slot[k] \/ (k = 0 /\ FileOk(slot'[k])),
         \A j \in Outputs \ {i} : out'[j] = out[j] /\ given'[j] = given[j],
         given[i] \subseteq given'[i], given'[i] \subseteq given[i] \cup {call[t].byte},
         ~call'[t].file.there, slot'[i] = slot[i],
         StreamOk(out'[i], <<>>, given'[i], lost', calls)
  PROVE  StdInv'
  BY HandStep

\* What a call that has a File knows.
LEMMA InCall ==
  ASSUME StdInv, NEW t \in Everyone, call[t].pc \in {"probe", "body", "drain"}
  PROVE  /\ call[t].file.there /\ call[t].on \in Outputs /\ call[t].on \in Streams
         /\ call[t] \in CallTypes /\ call[t].file \in FileTypes /\ call[t].file.held \in Seq(Nat)
         /\ FileOk(call[t].file) /\ CallOk(call[t])
         /\ StreamOk(out[call[t].on], call[t].file.held, given[call[t].on], lost, calls)
         /\ call[t].byte \in Nat
         /\ call[t].byte # 0 =>
              /\ Later(call[t].byte, out[call[t].on] \o call[t].file.held)
              /\ call[t].byte <= calls /\ (call[t].byte \notin due \/ phase = 0)
         /\ phase # Over /\ calls \in Nat
  <1> DEFINE i == call[t].on
             f == call[t].file
  <1>1. /\ call[t] \in CallTypes /\ calls \in Nat /\ DOMAIN call = Everyone
        /\ CallOk(call[t]) /\ FileOk(f)
    BY DEF StdInv, StdTypes, FilesOk
  <1>2. f.there /\ i \in Outputs /\ i \in Streams
    BY <1>1 DEF CallOk, Outputs, Streams
  <1>3. f \in FileTypes /\ f.held \in Seq(Nat) /\ call[t].byte \in Nat
    BY <1>1 DEF CallTypes, FileTypes
  <1>4. t \in Hands(call, i)
    BY <1>1, <1>2 DEF Hands, Has
  <1>5. /\ Single(slot, call, i)
        /\ StreamOk(out[i], HeldOf(slot, call, i), given[i], lost, calls)
    BY <1>2 DEF StdInv, BytesOk
  <1>6. HeldOf(slot, call, i) = f.held
    BY <1>4, <1>5, HeldHand
  <1>7. ByteOk(t)
    BY DEF StdInv, OwnBytes
  <1>8. phase # 0 => due \subseteq given[1] \cup given[2]
    BY DEF StdInv, HookOk
  <1>9. ASSUME call[t].byte # 0
        PROVE  /\ Later(call[t].byte, out[i] \o f.held)
               /\ call[t].byte <= calls /\ (call[t].byte \notin due \/ phase = 0)
    BY <1>6, <1>7, <1>8, <1>9 DEF ByteOk, Outputs
  <1>10. phase # Over
    <2>1. call[t] # NoCall
      BY NoneIs
    <2> QED
      BY <2>1 DEF StdInv, EndOk
  <1> QED
    BY <1>1, <1>2, <1>3, <1>5, <1>6, <1>9, <1>10

\* End puts the File back.
LEMMA EndIs ==
  ASSUME StdInv, NEW t \in Everyone, call[t].on \in Streams, NEW f \in FileTypes, End(t, f)
  PROVE  /\ slot' \in [Streams -> FileTypes] /\ slot'[call[t].on] = f
         /\ \A k \in Streams \ {call[t].on} : slot'[k] = slot[k]
         /\ call' \in [Everyone -> CallTypes] /\ \A u \in Everyone \ {t} : call'[u] = call[u]
         /\ call'[t] \in {NoCall, Reading} /\ ~call'[t].file.there /\ call'[t].byte = 0
         /\ CallOk(call'[t]) /\ FileOk(call'[t].file)
  <1>1. slot \in [Streams -> FileTypes] /\ call \in [Everyone -> CallTypes]
    BY DEF StdInv, StdTypes
  <1>2. NoCall \in CallTypes /\ Reading \in CallTypes
    <2>1. 0 \in Streams /\ 0 \in Nat /\ None \in FileTypes
      BY NoneIs DEF Streams
    <2>2. NoCall \in CallTypes
      BY <2>1 DEF NoCall, CallTypes
    <2> QED
      BY <2>2 DEF Reading, CallTypes
  <1>3. /\ slot' \in [Streams -> FileTypes] /\ slot'[call[t].on] = f
        /\ \A k \in Streams \ {call[t].on} : slot'[k] = slot[k]
    BY <1>1 DEF End, Give
  <1>4. /\ call' \in [Everyone -> CallTypes] /\ \A u \in Everyone \ {t} : call'[u] = call[u]
        /\ call'[t] \in {NoCall, Reading}
    BY <1>1, <1>2 DEF End
  <1>5. /\ ~call'[t].file.there /\ call'[t].byte = 0
        /\ CallOk(call'[t]) /\ FileOk(call'[t].file)
    BY <1>4, NoneIs DEF CallOk, FileOk
  <1> QED
    BY <1>3, <1>4, <1>5

LEMMA ProbeStep == ASSUME StdInv, NEW t \in Tasks, Probe(t) PROVE StdInv'
  <1> DEFINE i == call[t].on
             f == call[t].file
  <1>1. t \in Everyone /\ call[t].pc = "probe" /\ call \in [Everyone -> CallTypes]
    BY DEF Probe, Everyone, StdInv, StdTypes
  <1>2. /\ f.there /\ i \in Outputs /\ i \in Streams
        /\ call[t] \in CallTypes /\ f \in FileTypes /\ f.held \in Seq(Nat)
        /\ FileOk(f) /\ CallOk(call[t]) /\ phase # Over
        /\ StreamOk(out[i], f.held, given[i], lost, calls)
    BY <1>1, InCall
  <1>3. PICK how \in {"line", "full"} :
          call' = [call EXCEPT ![t].pc = "body", ![t].file.how = how]
    BY DEF Probe
  <1> DEFINE x == [[call[t] EXCEPT !.pc = "body"] EXCEPT !.file = [f EXCEPT !.how = how]]
  <1>4. call'[t] = x /\ \A u \in Everyone \ {t} : call'[u] = call[u]
    BY <1>1, <1>2, <1>3 DEF CallTypes, FileTypes
  <1>5. /\ x \in CallTypes /\ x.pc = "body" /\ x.byte = call[t].byte /\ x.on = i
        /\ x.file.there /\ x.file.held = f.held /\ x.file.how = how
    BY <1>2 DEF CallTypes, FileTypes
  <1> HIDE DEF x
  <1>6. f.held = <<>> \/ f.how # "auto"
    BY <1>2 DEF FileOk
  <1>7. call' \in [Everyone -> CallTypes]
    BY <1>1, <1>3, <1>4, <1>5
  <1>8. StdTypes'
    BY <1>7 DEF Probe, StdInv, StdTypes
  <1>9. f.held = <<>>
    BY <1>1, <1>2, <1>6 DEF CallOk
  <1>10. CallOk(x) /\ FileOk(x.file)
    BY <1>1, <1>2, <1>5, <1>9 DEF CallOk, FileOk
  <1>11. /\ slot' = slot /\ out' = out /\ given' = given /\ lost' = lost /\ calls' = calls
         /\ named' = named /\ armed' = armed /\ phase' = phase /\ due' = due
    BY DEF Probe
  <1> QED
    BY <1>1, <1>2, <1>4, <1>5, <1>8, <1>10, <1>11, HandStep DEF Has

LEMMA BodyStep == ASSUME StdInv, NEW t \in Tasks, Body(t) PROVE StdInv'
  <1> DEFINE i == call[t].on
             f == call[t].file
             b == call[t].byte
             g == Holds(f, b)
  <1>1. t \in Everyone /\ call[t].pc = "body" /\ call \in [Everyone -> CallTypes]
        /\ given \in [Outputs -> SUBSET Nat] /\ slot \in [Streams -> FileTypes]
    BY DEF Body, Everyone, StdInv, StdTypes
  <1>2. /\ f.there /\ i \in Outputs /\ i \in Streams
        /\ call[t] \in CallTypes /\ f \in FileTypes /\ f.held \in Seq(Nat)
        /\ FileOk(f) /\ CallOk(call[t]) /\ phase # Over
        /\ StreamOk(out[i], f.held, given[i], lost, calls)
        /\ b \in Nat /\ calls \in Nat
        /\ b # 0 => /\ Later(b, out[i] \o f.held)
                    /\ b <= calls /\ (b \notin due \/ phase = 0)
    BY <1>1, InCall
  <1>3. b # 0
    BY <1>1, <1>2 DEF CallOk
  <1>4. /\ out' = out /\ lost' = lost /\ calls' = calls
        /\ named' = named /\ armed' = armed /\ phase' = phase /\ due' = due
    BY DEF Body
  <1>5. CASE f.how # "none" /\ Len(f.held) >= Cap
    <2> DEFINE x == [call[t] EXCEPT !.pc = "drain"]
    <2>1. call' = [call EXCEPT ![t] = x] /\ slot' = slot /\ given' = given
      BY <1>5 DEF Body
    <2>2. /\ x \in CallTypes /\ x.pc = "drain" /\ x.byte = b /\ x.on = i
          /\ x.file = f
      BY <1>2 DEF CallTypes
    <2> HIDE DEF x
    <2>3. /\ call' \in [Everyone -> CallTypes] /\ call'[t] = x
          /\ \A u \in Everyone \ {t} : call'[u] = call[u]
      BY <1>1, <2>1, <2>2
    <2>4. StdTypes'
      BY <1>4, <2>1, <2>3 DEF StdInv, StdTypes
    <2>5. CallOk(x) /\ FileOk(x.file) /\ Has(x, i)
      BY <1>1, <1>2, <2>2 DEF CallOk, Has
    <2>6. StreamOk(out'[i], x.file.held, given'[i], lost', calls)
      BY <1>2, <1>4, <2>1, <2>2
    <2> QED
      BY <1>1, <1>2, <1>4, <2>1, <2>2, <2>3, <2>4, <2>5, <2>6, HandStep
  <1>6. CASE ~(f.how # "none" /\ Len(f.held) >= Cap)
    <2>1. given' = [given EXCEPT ![i] = @ \cup {b}]
      BY <1>6 DEF Body, Accept
    <2>2. given'[i] = given[i] \cup {b} /\ given' \in [Outputs -> SUBSET Nat]
          /\ \A j \in Outputs \ {i} : given'[j] = given[j]
      BY <1>1, <1>2, <2>1
    <2>3. /\ g \in FileTypes /\ g.there /\ g.held = Append(f.held, b) /\ g.how = f.how
          /\ g.err = f.err
      <3>1. Append(f.held, b) \in Seq(Nat)
        BY <1>2
      <3> QED
        BY <1>2, <3>1 DEF Holds, FileTypes
    <2>4. StreamOk(out[i], Append(f.held, b), given[i] \cup {b}, lost, calls)
      <3>1. /\ StreamOk(out[i], f.held, given[i], lost, calls) /\ Later(b, out[i] \o f.held)
            /\ b \in Nat /\ b # 0 /\ calls \in Nat /\ calls <= calls /\ b <= calls
        BY <1>2, <1>3
      <3> QED
        BY ONLY <3>1, StreamMore
    <2>5. CASE f.how = "full"
      <3>1. End(t, g)
        BY <1>6, <2>5 DEF Body
      <3> HIDE DEF g
      <3>2. /\ slot' \in [Streams -> FileTypes] /\ slot'[i] = g
            /\ \A k \in Streams \ {i} : slot'[k] = slot[k]
            /\ call' \in [Everyone -> CallTypes] /\ \A u \in Everyone \ {t} : call'[u] = call[u]
            /\ call'[t] \in {NoCall, Reading} /\ ~call'[t].file.there /\ call'[t].byte = 0
            /\ CallOk(call'[t]) /\ FileOk(call'[t].file)
        BY <1>1, <1>2, <2>3, <3>1, EndIs
      <3>3. StdTypes'
        BY <1>4, <2>2, <3>2 DEF StdInv, StdTypes
      <3>4. f.held = <<>>
        <4>1. Len(f.held) < Cap
          <5>1. Len(f.held) \in Nat /\ Cap \in Nat /\ ~(Len(f.held) >= Cap)
            BY <1>2, <1>6, <2>5, StdAssumption
          <5> QED
            BY ONLY <5>1
        <4> QED
          BY <1>1, <1>2, <2>5, <4>1 DEF CallOk
      <3>5. phase \in 1..3 => Passed(g, due)
        <4>1. ToSet(g.held) = {b}
          BY <1>2, <2>3, <3>4, ToSetAppended DEF ToSet
        <4> QED
          BY <1>2, <1>3, <4>1 DEF Passed
      <3>6. FileOk(g)
        BY <2>3, <2>5 DEF FileOk
      <3>7. StreamOk(out'[i], slot'[i].held, given'[i], lost', calls)
        BY <1>4, <2>2, <2>3, <2>4, <3>2
      <3> QED
        <4>1. /\ StdInv /\ t \in Everyone /\ f.there /\ phase # Over /\ StdTypes'
              /\ phase' = phase /\ due' = due /\ calls' = calls /\ named' = named
              /\ armed' = armed /\ lost \subseteq lost'
              /\ \A u \in Everyone \ {t} : call'[u] = call[u]
              /\ CallOk(call'[t]) /\ FileOk(call'[t].file)
              /\ \A k \in Streams \ {i} : slot'[k] = slot[k]
              /\ \A j \in Outputs \ {i} : out'[j] = out[j] /\ given'[j] = given[j]
              /\ given[i] \subseteq given'[i] /\ given'[i] \subseteq given[i] \cup {b}
          BY <1>1, <1>2, <1>4, <2>2, <3>2, <3>3
        <4>2. /\ ~call'[t].file.there /\ slot'[i].there /\ FileOk(slot'[i])
              /\ StreamOk(out'[i], slot'[i].held, given'[i], lost', calls)
              /\ phase \in 1..3 => Passed(slot'[i], due)
          BY <2>3, <3>2, <3>5, <3>6, <3>7
        <4> QED
          BY ONLY <4>1, <4>2, HandStep
    <2>6. CASE f.how # "full"
      <3> DEFINE x == [[[call[t] EXCEPT !.pc = "drain"] EXCEPT !.byte = 0] EXCEPT !.file = g]
      <3>1. /\ call' = [call EXCEPT ![t].pc = "drain", ![t].byte = 0, ![t].file = g]
            /\ slot' = slot
        BY <1>6, <2>6 DEF Body
      <3>2. /\ x \in CallTypes /\ x.pc = "drain" /\ x.byte = 0 /\ x.on = i
            /\ x.file = g
        BY <1>2, <2>3 DEF CallTypes
      <3>3. call' = [call EXCEPT ![t] = x]
        BY <1>1, <3>1
      <3> HIDE DEF x, g
      <3>4. /\ call' \in [Everyone -> CallTypes] /\ call'[t] = x
            /\ \A u \in Everyone \ {t} : call'[u] = call[u]
        BY <1>1, <3>2, <3>3
      <3>5. StdTypes'
        BY <1>4, <2>2, <3>1, <3>4 DEF StdInv, StdTypes
      <3>6. f.how # "auto"
        BY <1>1, <1>2, <1>3 DEF CallOk
      <3>7. CallOk(x) /\ FileOk(x.file) /\ Has(x, i)
        BY <1>1, <1>2, <2>3, <3>2, <3>6 DEF CallOk, Has, FileOk
      <3>8. StreamOk(out'[i], x.file.held, given'[i], lost', calls)
        BY <1>4, <2>2, <2>3, <2>4, <3>2
      <3> QED
        <4>1. /\ StdInv /\ t \in Everyone /\ f.there /\ phase # Over /\ StdTypes'
              /\ phase' = phase /\ due' = due /\ calls' = calls /\ named' = named
              /\ armed' = armed /\ lost \subseteq lost'
              /\ \A u \in Everyone \ {t} : call'[u] = call[u]
              /\ CallOk(call'[t]) /\ FileOk(call'[t].file)
              /\ \A k \in Streams \ {i} : slot'[k] = slot[k]
              /\ \A j \in Outputs \ {i} : out'[j] = out[j] /\ given'[j] = given[j]
              /\ given[i] \subseteq given'[i] /\ given'[i] \subseteq given[i] \cup {b}
          BY <1>1, <1>2, <1>4, <2>2, <3>1, <3>4, <3>5, <3>7
        <4>2. /\ Has(call'[t], i) /\ slot'[i] = slot[i] /\ call'[t].byte = 0
              /\ StreamOk(out'[i], call'[t].file.held, given'[i], lost', calls)
          BY <3>1, <3>2, <3>4, <3>7, <3>8
        <4>3. /\ i = call[t].on
              /\ call'[t].byte # 0 => /\ call'[t].byte = b /\ given'[i] = given[i]
                                      /\ out'[i] \o call'[t].file.held = out[i] \o f.held
          BY ONLY <4>2
        <4> HIDE DEF i
        <4> QED
          BY ONLY <4>1, <4>2, <4>3, HandKept
    <2> QED
      BY <2>5, <2>6
  <1> QED
    BY <1>5, <1>6

LEMMA DrainStep == ASSUME StdInv, NEW t \in Everyone, Drain(t) PROVE StdInv'
  <1> DEFINE i == call[t].on
             f == call[t].file
             h == f.held
  <1>1. /\ call[t].pc = "drain" /\ h # <<>> /\ call \in [Everyone -> CallTypes]
        /\ given \in [Outputs -> SUBSET Nat] /\ slot \in [Streams -> FileTypes]
        /\ out \in [Outputs -> Seq(Nat)]
    BY DEF Drain, StdInv, StdTypes
  <1>2. /\ f.there /\ i \in Outputs /\ i \in Streams
        /\ call[t] \in CallTypes /\ f \in FileTypes /\ h \in Seq(Nat)
        /\ FileOk(f) /\ CallOk(call[t]) /\ phase # Over
        /\ StreamOk(out[i], h, given[i], lost, calls)
        /\ calls \in Nat /\ i = call[t].on
    BY <1>1, InCall
  <1>3. /\ given' = given /\ calls' = calls
        /\ named' = named /\ armed' = armed /\ phase' = phase /\ due' = due
    BY DEF Drain
  <1>4. /\ \A j \in Outputs \ {i} : given'[j] = given[j]
        /\ given[i] \subseteq given'[i] /\ given'[i] \subseteq given[i] \cup {call[t].byte}
    BY <1>3
  <1>5. ASSUME NEW n \in 1..Len(h), slot' = slot, lost' = lost,
               out' = [out EXCEPT ![i] = @ \o SubSeq(h, 1, n)],
               call' = [call EXCEPT ![t].file.held = SubSeq(@, n + 1, Len(@))]
        PROVE  StdInv'
    <2> DEFINE v == SubSeq(h, n + 1, Len(h))
               g == [f EXCEPT !.held = v]
               x == [call[t] EXCEPT !.file = g]
               o == out[i] \o SubSeq(h, 1, n)
    <2>1. v \in Seq(Nat) /\ o \in Seq(Nat)
      <3>1. out[i] \in Seq(Nat)
        BY <1>1, <1>2
      <3> QED
        BY <1>2, <3>1, PartOut
    <2>2. StreamOk(o, v, given[i], lost, calls) /\ o \o v = out[i] \o h
      BY <1>2, StreamOut
    <2>3. call' = [call EXCEPT ![t] = x]
      BY <1>1, <1>5
    <2>4. out'[i] = o /\ out' \in [Outputs -> Seq(Nat)]
          /\ \A j \in Outputs \ {i} : out'[j] = out[j]
      BY <1>1, <1>2, <1>5, <2>1
    <2> HIDE DEF v, o
    <2>5. g \in FileTypes /\ g.held = v /\ g.there /\ g.how = f.how
      BY <1>2, <2>1 DEF FileTypes
    <2> HIDE DEF g
    <2>6. /\ x \in CallTypes /\ x.file = g /\ x.on = i /\ x.pc = "drain"
          /\ x.byte = call[t].byte
      BY <1>1, <1>2, <2>5 DEF CallTypes
    <2> HIDE DEF x
    <2>7. call' \in [Everyone -> CallTypes] /\ call'[t] = x
          /\ \A u \in Everyone \ {t} : call'[u] = call[u]
      BY <1>1, <2>3, <2>6
    <2>8. StdTypes'
      BY <1>3, <1>5, <2>4, <2>7 DEF StdInv, StdTypes
    <2>9. CallOk(x) /\ FileOk(g) /\ Has(x, i)
      <3>1. f.how # "auto"
        BY <1>1, <1>2 DEF FileOk
      <3> QED
        BY <1>1, <1>2, <2>5, <2>6, <3>1 DEF CallOk, FileOk, Has
    <2>10. /\ \A j \in Outputs \ {i} : out'[j] = out[j] /\ given'[j] = given[j]
           /\ \A k \in Streams \ {i} : slot'[k] = slot[k]
           /\ slot'[i] = slot[i] /\ lost \subseteq lost'
           /\ CallOk(call'[t]) /\ FileOk(call'[t].file)
      BY <1>4, <1>5, <2>4, <2>6, <2>7, <2>9
    <2>11. /\ Has(call'[t], i) /\ StreamOk(out'[i], call'[t].file.held, given'[i], lost', calls)
           /\ call'[t].byte = call[t].byte /\ given'[i] = given[i]
           /\ out'[i] \o call'[t].file.held = out[i] \o call[t].file.held
      BY <1>3, <1>5, <2>2, <2>4, <2>5, <2>6, <2>7, <2>9
    <2> HIDE DEF i
    <2> QED
      BY ONLY StdInv, t \in Everyone, <1>2, <1>3, <1>4, <2>7, <2>8, <2>10, <2>11, HandKept
  <1>6. ASSUME End(t, Failed(f)), out' = out,
               lost' = IF f.how = "none" THEN lost \cup ToSet(h) ELSE lost
        PROVE  StdInv'
    <2> DEFINE g == Failed(f)
    <2>1. /\ g \in FileTypes /\ g.there /\ g.err = TRUE
          /\ g.held = IF f.how = "none" THEN <<>> ELSE h
          /\ g.how = f.how
      <3>1. <<>> \in Seq(Nat)
        OBVIOUS
      <3> QED
        BY <1>2, <3>1 DEF Failed, FileTypes
    <2>2. FileOk(g)
      BY <1>2, <2>1 DEF FileOk
    <2>3. lost \subseteq lost' /\ StreamOk(out[i], g.held, given[i], lost', calls)
      <3>1. CASE f.how = "none"
        <4>1. ToSet(h) \subseteq lost' /\ lost \subseteq lost' /\ g.held = <<>>
          BY <1>6, <2>1, <3>1
        <4> QED
          BY <1>2, <4>1, StreamGone
      <3>2. CASE f.how # "none"
        BY <1>2, <1>6, <2>1, <3>2
      <3> QED
        BY <3>1, <3>2
    <2>4. /\ slot' \in [Streams -> FileTypes] /\ slot'[i] = g
          /\ \A k \in Streams \ {i} : slot'[k] = slot[k]
          /\ call' \in [Everyone -> CallTypes] /\ \A u \in Everyone \ {t} : call'[u] = call[u]
          /\ call'[t] \in {NoCall, Reading} /\ ~call'[t].file.there /\ call'[t].byte = 0
          /\ CallOk(call'[t]) /\ FileOk(call'[t].file)
      BY <1>2, <1>6, <2>1, EndIs
    <2> HIDE DEF g
    <2>5. StdTypes'
      BY <1>3, <1>6, <2>4 DEF StdInv, StdTypes
    <2>6. /\ \A j \in Outputs \ {i} : out'[j] = out[j] /\ given'[j] = given[j]
          /\ Passed(slot'[i], due) /\ slot'[i].there /\ FileOk(slot'[i])
          /\ StreamOk(out'[i], slot'[i].held, given'[i], lost', calls)
      BY <1>3, <1>4, <1>6, <2>1, <2>2, <2>3, <2>4 DEF Passed
    <2> HIDE DEF i
    <2> QED
      BY ONLY StdInv, t \in Everyone, <1>2, <1>3, <1>4, <2>3, <2>4, <2>5, <2>6, HandGiven
  <1> QED
    BY <1>5, <1>6 DEF Drain

LEMMA DrainedStep == ASSUME StdInv, NEW t \in Everyone, Drained(t) PROVE StdInv'
  <1> DEFINE i == call[t].on
             f == call[t].file
  <1>1. /\ call[t].pc = "drain" /\ f.held = <<>> /\ call \in [Everyone -> CallTypes]
        /\ slot \in [Streams -> FileTypes]
    BY DEF Drained, StdInv, StdTypes
  <1>2. /\ f.there /\ i \in Outputs /\ i \in Streams
        /\ call[t] \in CallTypes /\ f \in FileTypes
        /\ FileOk(f) /\ CallOk(call[t]) /\ phase # Over
        /\ StreamOk(out[i], f.held, given[i], lost, calls)
        /\ calls \in Nat /\ i = call[t].on
    BY <1>1, InCall
  <1>3. /\ given' = given /\ calls' = calls /\ out' = out /\ lost' = lost
        /\ named' = named /\ armed' = armed /\ phase' = phase /\ due' = due
    BY DEF Drained
  <1>4. /\ \A j \in Outputs \ {i} : out'[j] = out[j] /\ given'[j] = given[j]
        /\ given[i] \subseteq given'[i] /\ given'[i] \subseteq given[i] \cup {call[t].byte}
        /\ lost \subseteq lost'
    BY <1>3
  <1>5. CASE call[t].byte # 0
    <2> DEFINE x == [call[t] EXCEPT !.pc = "body"]
    <2>1. call' = [call EXCEPT ![t] = x] /\ slot' = slot
      BY <1>5 DEF Drained
    <2>2. /\ x \in CallTypes /\ x.file = f /\ x.on = i /\ x.pc = "body"
          /\ x.byte = call[t].byte
      BY <1>1, <1>2 DEF CallTypes
    <2> HIDE DEF x
    <2>3. call' \in [Everyone -> CallTypes] /\ call'[t] = x
          /\ \A u \in Everyone \ {t} : call'[u] = call[u]
      BY <1>1, <2>1, <2>2
    <2>4. StdTypes'
      BY <1>3, <2>1, <2>3 DEF StdInv, StdTypes
    <2>5. CallOk(x) /\ FileOk(f) /\ Has(x, i)
      BY <1>1, <1>2, <1>5, <2>2 DEF CallOk, Has
    <2>6. /\ \A k \in Streams \ {i} : slot'[k] = slot[k]
          /\ slot'[i] = slot[i] /\ CallOk(call'[t]) /\ FileOk(call'[t].file)
      BY <2>1, <2>2, <2>3, <2>5
    <2>7. /\ Has(call'[t], i) /\ StreamOk(out'[i], call'[t].file.held, given'[i], lost', calls)
          /\ call'[t].byte = call[t].byte /\ given'[i] = given[i]
          /\ out'[i] \o call'[t].file.held = out[i] \o call[t].file.held
      BY <1>2, <1>3, <2>2, <2>3, <2>5
    <2> HIDE DEF i
    <2> QED
      BY ONLY StdInv, t \in Everyone, <1>2, <1>3, <1>4, <2>3, <2>4, <2>6, <2>7, HandKept
  <1>6. CASE call[t].byte = 0
    <2>1. End(t, f)
      BY <1>6 DEF Drained
    <2>2. /\ slot' \in [Streams -> FileTypes] /\ slot'[i] = f
          /\ \A k \in Streams \ {i} : slot'[k] = slot[k]
          /\ call' \in [Everyone -> CallTypes] /\ \A u \in Everyone \ {t} : call'[u] = call[u]
          /\ call'[t] \in {NoCall, Reading} /\ ~call'[t].file.there /\ call'[t].byte = 0
          /\ CallOk(call'[t]) /\ FileOk(call'[t].file)
      BY <1>2, <2>1, EndIs
    <2>3. StdTypes'
      BY <1>3, <2>2 DEF StdInv, StdTypes
    <2>4. ToSet(f.held) = {}
      BY <1>1 DEF ToSet
    <2>5. /\ Passed(slot'[i], due) /\ slot'[i].there /\ FileOk(slot'[i])
          /\ StreamOk(out'[i], slot'[i].held, given'[i], lost', calls)
      BY <1>2, <1>3, <2>2, <2>4 DEF Passed
    <2> HIDE DEF i
    <2> QED
      BY ONLY StdInv, t \in Everyone, <1>2, <1>3, <1>4, <2>2, <2>3, <2>5, HandGiven
  <1> QED
    BY <1>5, <1>6

LEMMA DropStep == ASSUME StdInv, NEW t \in Tasks, Drop(t), phase # Over PROVE StdInv'
  <1>1. /\ t \in Everyone /\ t \in DOMAIN call /\ call \in [Everyone -> CallTypes]
        /\ slot \in [Streams -> FileTypes] /\ calls \in Nat /\ 1 \in Outputs
        /\ \A k \in Streams : FileOk(slot[k])
        /\ CallOk(call[t]) /\ FileOk(call[t].file) /\ call[t] \in CallTypes
    BY DEF Everyone, StdInv, StdTypes, FilesOk, Outputs
  <1>2. /\ given' = given /\ calls' = calls /\ out' = out /\ slot' = slot
        /\ named' = named /\ armed' = armed /\ phase' = phase /\ due' = due
        /\ call' = [u \in DOMAIN call |-> IF u \in {t} THEN NoCall ELSE call[u]]
        /\ lost' = lost \cup UNION {ToSet(call[u].file.held) : u \in {t}}
    BY DEF Drop, DropCalls
  <1>3. NoCall \in CallTypes
    <2>1. 0 \in Streams /\ 0 \in Nat /\ None \in FileTypes
      BY NoneIs DEF Streams
    <2> QED
      BY <2>1 DEF NoCall, CallTypes
  <1>4. /\ call' \in [Everyone -> CallTypes] /\ call'[t] = NoCall
        /\ \A u \in Everyone \ {t} : call'[u] = call[u]
    BY <1>1, <1>2, <1>3
  <1>5. lost \subseteq lost' /\ ToSet(call[t].file.held) \subseteq lost'
    BY <1>2
  <1>6. /\ ~call'[t].file.there /\ call'[t].byte = 0
        /\ CallOk(call'[t]) /\ FileOk(call'[t].file)
    BY <1>4, NoneIs DEF CallOk, FileOk
  <1>7. StdTypes'
    BY <1>2, <1>4 DEF StdInv, StdTypes
  <1>8. CASE call[t].file.there
    <2> DEFINE i == call[t].on
               h == call[t].file.held
    <2>1. call[t].pc \in {"probe", "body", "drain"}
      BY <1>1, <1>8 DEF CallOk
    <2>2. i \in Outputs /\ StreamOk(out[i], h, given[i], lost, calls)
      BY <1>1, <2>1, InCall
    <2>3. StreamOk(out[i], <<>>, given[i], lost', calls)
      BY <1>1, <1>5, <2>2, StreamGone
    <2>4. /\ \A j \in Outputs \ {i} : out'[j] = out[j] /\ given'[j] = given[j]
          /\ given[i] \subseteq given'[i] /\ given'[i] \subseteq given[i] \cup {call[t].byte}
          /\ \A k \in Streams \ {i} : slot'[k] = slot[k]
          /\ slot'[i] = slot[i] /\ StreamOk(out'[i], <<>>, given'[i], lost', calls)
          /\ i = call[t].on /\ phase # Over
          /\ phase' = phase /\ due' = due /\ calls' = calls /\ named' = named /\ armed' = armed
      BY <1>2, <2>3
    <2> HIDE DEF i
    <2> QED
      BY ONLY StdInv, <1>1, <1>4, <1>5, <1>6, <1>7, <1>8, <2>4, HandGone
  <1>9. CASE ~call[t].file.there
    <2>1. call[t].byte = 0
      BY <1>1, <1>9 DEF CallOk
    <2>2. /\ Single(slot, call, 1)
          /\ StreamOk(out[1], HeldOf(slot, call, 1), given[1], lost, calls)
      BY <1>1, NextByte
    <2>3. \A u \in DOMAIN call : call'[u] = call[u] \/ (~Has(call[u], 1) /\ ~Has(call'[u], 1))
      BY <1>1, <1>4, <1>6, <1>9 DEF Has
    <2>4. DOMAIN call' = DOMAIN call
      BY <1>1, <1>4
    <2>5. HeldOf(slot, call', 1) = HeldOf(slot, call, 1) /\ Single(slot, call', 1)
      BY ONLY <2>2, <2>3, <2>4, HeldSame
    <2>6. StreamOk(out[1], HeldOf(slot, call, 1), given[1], lost', calls)
      BY <1>1, <1>5, <2>2, StreamSame
    <2>7. Beside(t, 1, slot, call, out, given, slot', call', out', given')
      BY <1>2, <1>4, <1>6, <1>9 DEF Beside
    <2>8. Mine(t, 1, call, call', given, given', calls, calls')
      <3>1. calls <= calls' /\ given'[1] \subseteq given[1] \cup {call[t].byte, calls + 1}
        BY <1>1, <1>2
      <3> QED
        BY <1>6, <3>1 DEF Mine
    <2>9. HookStep(t, 1)
      <3>1. phase \in 1..3 /\ 1 < phase => Passed(slot[1], due)
        BY <1>1 DEF StdInv, HookOk
      <3>2. ~armed => named \cap Outputs = {}
        BY DEF StdInv, HookOk
      <3> QED
        BY <1>2, <1>6, <3>1, <3>2 DEF HookStep
    <2> QED
      BY <1>1, <1>2, <1>4, <1>5, <1>6, <1>7, <2>5, <2>6, <2>7, <2>8, <2>9, MoveKeeps
  <1> QED
    BY <1>8, <1>9

LEMMA ReadStep == ASSUME StdInv, NEW t \in Tasks, Read(t), phase # Over PROVE StdInv'
  <1>1. /\ t \in Everyone /\ t \in DOMAIN call /\ call \in [Everyone -> CallTypes]
        /\ slot \in [Streams -> FileTypes] /\ calls \in Nat /\ 1 \in Outputs /\ 0 \in Streams
        /\ \A k \in Streams : FileOk(slot[k])
        /\ CallOk(call[t]) /\ FileOk(call[t].file) /\ call[t].pc = "read"
        /\ \A j \in Outputs : j # 0 /\ j \in Streams
    BY DEF Read, Everyone, StdInv, StdTypes, FilesOk, Outputs, Streams
  <1>2. /\ given' = given /\ calls' = calls /\ out' = out /\ lost' = lost
        /\ named' = named /\ armed' = armed /\ phase' = phase /\ due' = due
        /\ call' = [call EXCEPT ![t] = NoCall] /\ slot' = [slot EXCEPT ![0] = Fresh(0)]
    BY DEF Read, Give
  <1>3. NoCall \in CallTypes
    <2>1. 0 \in Streams /\ 0 \in Nat /\ None \in FileTypes
      BY NoneIs DEF Streams
    <2> QED
      BY <2>1 DEF NoCall, CallTypes
  <1>4. /\ call' \in [Everyone -> CallTypes] /\ call'[t] = NoCall /\ DOMAIN call' = DOMAIN call
        /\ \A u \in Everyone \ {t} : call'[u] = call[u]
    BY <1>1, <1>2, <1>3
  <1>5. /\ slot' \in [Streams -> FileTypes] /\ \A k \in Streams : FileOk(slot'[k])
        /\ \A j \in Outputs : slot'[j] = slot[j]
    <2>1. Fresh(0) \in FileTypes /\ FileOk(Fresh(0))
      BY <1>1, NoneIs DEF FileOk
    <2> QED
      BY <1>1, <1>2, <2>1
  <1>6. /\ ~call'[t].file.there /\ call'[t].byte = 0
        /\ CallOk(call'[t]) /\ FileOk(call'[t].file)
    BY <1>4, NoneIs DEF CallOk, FileOk
  <1>7. StdTypes'
    BY <1>2, <1>4, <1>5 DEF StdInv, StdTypes
  <1>8. ~call[t].file.there
    BY <1>1 DEF CallOk
  <1>9. /\ Single(slot, call, 1)
        /\ StreamOk(out[1], HeldOf(slot, call, 1), given[1], lost, calls)
    BY <1>1, NextByte
  <1>10. \A u \in DOMAIN call : call'[u] = call[u] \/ (~Has(call[u], 1) /\ ~Has(call'[u], 1))
    BY <1>1, <1>4, <1>6, <1>8 DEF Has
  <1>11. slot'[1] = slot[1]
    BY <1>1, <1>5
  <1>12. HeldOf(slot', call', 1) = HeldOf(slot, call, 1) /\ Single(slot', call', 1)
    BY ONLY <1>4, <1>9, <1>10, <1>11, HeldSame
  <1>13. Beside(t, 1, slot, call, out, given, slot', call', out', given')
    BY <1>2, <1>4, <1>5, <1>6, <1>8 DEF Beside
  <1>14. Mine(t, 1, call, call', given, given', calls, calls')
    <2>1. calls <= calls' /\ given'[1] \subseteq given[1] \cup {call[t].byte, calls + 1}
      BY <1>1, <1>2
    <2> QED
      BY <1>6, <2>1 DEF Mine
  <1>15. HookStep(t, 1)
    <2>1. phase \in 1..3 /\ 1 < phase => Passed(slot[1], due)
      BY <1>1 DEF StdInv, HookOk
    <2>2. ~armed => named \cap Outputs = {}
      BY DEF StdInv, HookOk
    <2> QED
      BY <1>2, <1>5, <1>6, <1>11, <2>1, <2>2 DEF HookStep
  <1> QED
    BY <1>1, <1>2, <1>5, <1>6, <1>7, <1>9, <1>12, <1>13, <1>14, <1>15, MoveKeeps

\* The program ends: every call is dropped.
LEMMA EndedStep ==
  ASSUME StdInv, phase' = Over,
         call' = [u \in DOMAIN call |-> IF u \in DOMAIN call THEN NoCall ELSE call[u]],
         lost' = lost \cup UNION {ToSet(call[u].file.held) : u \in DOMAIN call},
         slot' = slot, named' = named, armed' = armed, out' = out, given' = given, calls' = calls,
         due' \subseteq given[1] \cup given[2],
         \A i \in Outputs : given[i] = {} \/ Passed(slot[i], due')
  PROVE  StdInv'
  <1>1. /\ DOMAIN call = Everyone /\ call \in [Everyone -> CallTypes]
        /\ slot \in [Streams -> FileTypes] /\ calls \in Nat
    BY DEF StdInv, StdTypes
  <1>2. NoCall \in CallTypes
    <2>1. 0 \in Streams /\ 0 \in Nat /\ None \in FileTypes
      BY NoneIs DEF Streams
    <2> QED
      BY <2>1 DEF NoCall, CallTypes
  <1>3. call' \in [Everyone -> CallTypes] /\ \A u \in Everyone : call'[u] = NoCall
    BY <1>1, <1>2
  <1>4. StdTypes'
    <2>1. phase' \in 0..4
      BY DEF Over
    <2> QED
      BY <1>3, <2>1 DEF StdInv, StdTypes
  <1>5. FilesOk' /\ OwnBytes'
    <2>1. CallOk(NoCall) /\ FileOk(NoCall.file) /\ NoCall.byte = 0
      BY NoneIs DEF CallOk, FileOk
    <2> QED
      BY <1>3, <2>1 DEF StdInv, FilesOk, OwnBytes, ByteOk
  <1>6. ASSUME NEW i \in Outputs
        PROVE  /\ Single(slot', call', i)
               /\ StreamOk(out'[i], HeldOf(slot', call', i), given'[i], lost', calls')
    <2>1. /\ Single(slot, call, i)
          /\ StreamOk(out[i], HeldOf(slot, call, i), given[i], lost, calls)
      BY NextByte
    <2>2. Hands(call', i) = {}
      <3>1. ~NoCall.file.there /\ DOMAIN call' = Everyone
        BY <1>3, NoneIs
      <3> QED
        BY ONLY <1>3, <3>1 DEF Hands, Has
    <2>3. Single(slot', call', i)
      BY <2>2 DEF Single
    <2>4. lost \subseteq lost'
      OBVIOUS
    <2>5. CASE slot[i].there
      <3>1. HeldOf(slot', call', i) = HeldOf(slot, call, i)
        BY <2>5, HeldSlot
      <3>2. StreamOk(out[i], HeldOf(slot, call, i), given[i], lost', calls)
        BY <1>1, <2>1, <2>4, StreamSame
      <3> QED
        BY <2>3, <3>1, <3>2
    <2>6. CASE ~slot[i].there
      <3>1. HeldOf(slot', call', i) = <<>>
        BY <2>2, <2>6, HeldNone
      <3>2. ToSet(HeldOf(slot, call, i)) \subseteq lost'
        <4>1. CASE Hands(call, i) = {}
          <5>1. HeldOf(slot, call, i) = <<>>
            BY <2>6, <4>1, HeldNone
          <5> QED
            BY <5>1 DEF ToSet
        <4>2. CASE Hands(call, i) # {}
          <5>1. PICK u : u \in Hands(call, i)
            BY <4>2
          <5>2. HeldOf(slot, call, i) = call[u].file.held /\ u \in DOMAIN call
            BY <2>1, <5>1, HeldHand DEF Hands
          <5> QED
            BY <5>2
        <4> QED
          BY <4>1, <4>2
      <3>3. StreamOk(out[i], <<>>, given[i], lost', calls)
        BY <1>1, <2>1, <2>4, <3>2, StreamGone
      <3> QED
        BY <2>3, <3>1, <3>3
    <2> QED
      BY <2>5, <2>6
  <1>7. BytesOk'
    BY <1>6 DEF BytesOk
  <1>8. HookOk'
    <2>1. ~(phase' \in 1..3)
      BY DEF Over
    <2>2. ~NoCall.file.there
      BY NoneIs
    <2> QED
      BY <1>3, <2>1, <2>2 DEF StdInv, HookOk
  <1>9. EndOk'
    <2>1. ASSUME NEW i \in Outputs
          PROVE  slot'[i].err \/ (due' \cap given'[i]) \ lost' \subseteq ToSet(out'[i])
      <3>1. StreamOk(out[i], HeldOf(slot', call', i), given[i], lost', calls)
        BY <1>6
      <3>2. /\ HeldOf(slot', call', i) = IF slot[i].there THEN slot[i].held ELSE <<>>
        <4>1. Hands(call', i) = {}
          <5>1. ~NoCall.file.there /\ DOMAIN call' = Everyone
            BY <1>3, NoneIs
          <5> QED
            BY ONLY <1>3, <5>1 DEF Hands, Has
        <4>2. slot' = slot
          OBVIOUS
        <4> QED
          BY ONLY <4>1, <4>2 DEF HeldOf
      <3> DEFINE h == HeldOf(slot', call', i)
      <3>3. /\ out[i] \in Seq(Nat) /\ h \in Seq(Nat)
            /\ given[i] \ lost' \subseteq ToSet(out[i] \o h)
        BY <3>1 DEF StreamOk
      <3>4. ToSet(out[i] \o h) = ToSet(out[i]) \cup ToSet(h)
        BY <3>3, ToSetJoined
      <3>5. ToSet(<<>>) = {}
        BY DEF ToSet
      <3>6. slot[i].err \/ ToSet(h) \cap due' = {} \/ given[i] = {}
        BY <3>2, <3>5 DEF Passed
      <3> HIDE DEF h
      <3> QED
        BY <3>3, <3>4, <3>6
    <2> QED
      BY <1>3, <2>1 DEF EndOk
  <1> QED
    BY <1>4, <1>5, <1>7, <1>8, <1>9 DEF StdInv

LEMMA GetTiedStep ==
  ASSUME StdInv, NEW t \in Tasks, GetTied(t), NobodyElse, phase # Over
  PROVE  StdInv'
  <1> DEFINE f == IF slot[1].there THEN slot[1] ELSE Fresh(1)
  <1>1. /\ t \in Everyone /\ DOMAIN call = Everyone /\ call \in [Everyone -> CallTypes]
        /\ slot \in [Streams -> FileTypes] /\ calls \in Nat
        /\ 1 \in Outputs /\ 0 \in Streams /\ 1 \in Streams
        /\ named \subseteq Streams /\ armed \in BOOLEAN /\ phase \in 0..4
        /\ \A k \in Streams : FileOk(slot[k])
        /\ \A j \in Outputs : j # 0 /\ j \in Streams
    BY DEF Everyone, StdInv, StdTypes, FilesOk, Outputs, Streams
  <1>2. /\ call[t] = NoCall /\ calls' = calls + 1 /\ named' = named \cup {1}
        /\ armed' = (armed \/ 1 # 0)
        /\ given' = given /\ out' = out /\ lost' = lost /\ phase' = phase /\ due' = due
        /\ slot' = [slot EXCEPT ![0] = None, ![1] = IF f.held = <<>> THEN f ELSE None]
        /\ call' = [call EXCEPT ![t] =
             IF f.held = <<>> THEN Reading
             ELSE [op |-> "get", on |-> 1, byte |-> 0, file |-> f, pc |-> "drain"]]
    BY DEF GetTied, Running, Counted, Arm
  <1>3. armed' = TRUE
    <2>1. (1 # 0) = TRUE
      OBVIOUS
    <2>2. armed' = (armed \/ (1 # 0))
      BY <1>2, Zenon
    <2> HIDE <1>2
    <2> QED
      BY ONLY <2>1, <2>2, Zenon
  <1>4. f \in FileTypes /\ f.there /\ FileOk(f) /\ (f = slot[1] \/ f.held = <<>>)
    BY <1>1, NoneIs DEF FileOk
  <1>5. FileOk(None) /\ None \in FileTypes
    BY NoneIs DEF FileOk
  <1>6. Single(slot, call, 1)
    BY <1>1, NextByte
  <1>7. CASE f.held = <<>>
    <2>1. /\ slot' \in [Streams -> FileTypes] /\ slot'[1] = f /\ slot'[0] = None
          /\ \A k \in Streams \ {0, 1} : slot'[k] = slot[k]
      BY <1>1, <1>2, <1>4, <1>5, <1>7
    <2>2. \A k \in Streams : FileOk(slot'[k])
      BY <1>1, <1>4, <1>5, <2>1
    <2>3. \A k \in Outputs \ {1} : slot'[k] = slot[k]
      BY <1>1, <2>1
    <2>4. Reading \in CallTypes
      <3>1. 0 \in Nat /\ None \in FileTypes
        BY <1>5
      <3>2. NoCall \in CallTypes
        BY <1>1, <3>1 DEF NoCall, CallTypes
      <3> QED
        BY <3>2 DEF Reading, CallTypes
    <2>5. /\ call' \in [Everyone -> CallTypes] /\ call'[t] = Reading
          /\ \A u \in Everyone \ {t} : call'[u] = call[u]
      BY <1>1, <1>2, <1>7, <2>4
    <2>6. Hands(call, 1) = {}
      <3>1. CASE slot[1].there
        BY <1>6, <3>1 DEF Single
      <3>2. CASE ~slot[1].there
        <4> SUFFICES ASSUME NEW u \in Hands(call, 1) PROVE FALSE
          OBVIOUS
        <4>1. u \in InHand(1) /\ u \in Everyone /\ Has(call[u], 1)
          BY <1>1 DEF Hands, InHand, Has
        <4>2. u # t
          BY <1>1, <1>2, <4>1, Idle
        <4>3. call'[u].file.there /\ call'[u].on = 1
          BY <2>5, <4>1, <4>2 DEF Has
        <4>4. slot'[1].there
          BY <1>4, <2>1
        <4> QED
          BY ONLY NobodyElse, <1>1, <4>1, <4>3, <4>4 DEF NobodyElse
      <3> QED
        BY <3>1, <3>2
    <2>7. /\ slot'[1].there /\ slot'[1].held = slot[1].held
          /\ (slot[1].held # <<>> => slot[1].there)
          /\ slot'[1].err = slot[1].err \/ slot'[1].held = <<>>
      BY <1>1, <1>4, <1>7, <2>1 DEF FileOk
    <2>8. named' \subseteq Streams /\ armed' \in BOOLEAN
      BY <1>1, <1>2, <1>3
    <2>9. call'[t] \in {NoCall, Reading}
      BY <2>5
    <2>10. /\ call[t] = NoCall /\ calls' = calls + 1 /\ given' = given /\ out' = out
           /\ lost' = lost /\ phase' = phase /\ due' = due
      BY <1>2
    <2> HIDE DEF f
    <2> QED
      BY ONLY StdInv, phase # Over, <1>1, <1>3, <2>1, <2>2, <2>3, <2>5, <2>6, <2>7, <2>8, <2>9,
              <2>10, SlotStep
  <1>8. CASE f.held # <<>>
    <2> DEFINE x == [op |-> "get", on |-> 1, byte |-> 0, file |-> f, pc |-> "drain"]
    <2>1. slot[1].there /\ f = slot[1]
      BY <1>1, <1>8, NoneIs
    <2>2. x \in CallTypes /\ x.file = slot[1] /\ x.on = 1 /\ CallOk(x) /\ x.byte = 0
      BY <1>1, <1>4, <2>1 DEF CallTypes, CallOk
    <2>3. /\ slot' \in [Streams -> FileTypes] /\ slot'[1] = None /\ slot'[0] = None
          /\ \A k \in Streams \ {0, 1} : slot'[k] = slot[k]
      BY <1>1, <1>2, <1>5, <1>8
    <2>4. \A k \in Streams : FileOk(slot'[k])
      BY <1>1, <1>5, <2>3
    <2>5. \A k \in Outputs \ {1} : slot'[k] = slot[k]
      BY <1>1, <2>3
    <2>6. call' = [call EXCEPT ![t] = x]
      BY <1>2, <1>8
    <2> HIDE DEF x, f
    <2>7. /\ call' \in [Everyone -> CallTypes] /\ call'[t] = x
          /\ \A u \in Everyone \ {t} : call'[u] = call[u]
      BY <1>1, <2>2, <2>6
    <2>8. named' \subseteq Streams /\ armed' \in BOOLEAN /\ phase' \in 0..4
      BY <1>1, <1>2, <1>3
    <2>9. StdTypes' /\ FilesOk' /\ BytesOk' /\ OwnBytes'
      <3>1. call[t] = NoCall /\ calls' = calls + 1 /\ out' = out /\ given' = given /\ lost' = lost
        BY <1>2
      <3> QED
        BY ONLY StdInv, <1>1, <2>1, <2>2, <2>3, <2>4, <2>5, <2>7, <2>8, <3>1, TakeStep
    <2>10. Beside(t, 1, slot, call, out, given, slot', call', out', given')
      <3>1. ~call[t].file.there
        BY <1>1, <1>2, Idle
      <3>2. out' = out /\ given' = given
        BY <1>2
      <3> QED
        BY ONLY <2>2, <2>5, <2>7, <3>1, <3>2 DEF Beside
    <2>11. HookStep(t, 1)
      <3>1. Passed(slot'[1], due)
        BY <2>3, PassedNone
      <3>2. /\ phase' = phase /\ due' = due /\ given' = given
        BY <1>2
      <3> QED
        BY <1>3, <2>5, <3>1, <3>2 DEF HookStep
    <2> QED
      BY <1>1, <2>9, <2>10, <2>11, HookKeeps DEF StdInv
  <1> QED
    BY <1>7, <1>8

LEMMA RootStep == ASSUME StdInv, RootReturns PROVE StdInv'
  <1>1. /\ phase = 0 /\ phase' = IF armed THEN 1 ELSE Over
        /\ due' = given[1] \cup given[2]
        /\ slot' = slot /\ named' = named /\ armed' = armed /\ out' = out /\ given' = given
        /\ calls' = calls
    BY DEF RootReturns
  <1>2. CASE armed
    <2>1. call' = call /\ lost' = lost /\ phase' = 1
      BY <1>1, <1>2 DEF RootReturns
    <2>2. StdTypes'
      BY <1>1, <2>1 DEF StdInv, StdTypes
    <2>3. FilesOk' /\ BytesOk' /\ OwnBytes'
      BY <1>1, <2>1 DEF StdInv, FilesOk, BytesOk, OwnBytes, ByteOk
    <2>4. HookOk'
      <3>1. \A i \in Outputs : ~(i < 1)
        BY DEF Outputs
      <3> QED
        BY <1>1, <1>2, <2>1, <3>1 DEF HookOk
    <2>5. EndOk'
      BY <2>1 DEF EndOk, Over
    <2> QED
      BY <2>2, <2>3, <2>4, <2>5 DEF StdInv
  <1>3. CASE ~armed
    <2>1. /\ phase' = Over
          /\ call' = [u \in DOMAIN call |-> IF u \in DOMAIN call THEN NoCall ELSE call[u]]
          /\ lost' = lost \cup UNION {ToSet(call[u].file.held) : u \in DOMAIN call}
      BY <1>1, <1>3 DEF RootReturns, DropCalls
    <2>2. \A i \in Outputs : given[i] = {} \/ Passed(slot[i], due')
      BY <1>3 DEF StdInv, HookOk
    <2>3. due' \subseteq given[1] \cup given[2]
      BY <1>1
    <2> QED
      BY ONLY StdInv, <1>1, <2>1, <2>2, <2>3, EndedStep
  <1> QED
    BY <1>2, <1>3

LEMMA HookFlushStep == ASSUME StdInv, HookFlush PROVE StdInv'
  <1>1. PICK i \in phase..2 :
          /\ slot[i].held # <<>> /\ \A j \in phase..(i - 1) : slot[j].held = <<>>
          /\ Take(i) /\ phase' = i + 1
          /\ call' = [call EXCEPT ![Hook] = [op |-> "flush", on |-> i, byte |-> 0,
                                             file |-> slot[i], pc |-> "drain"]]
    BY DEF HookFlush
  <1> DEFINE x == [op |-> "flush", on |-> i, byte |-> 0, file |-> slot[i], pc |-> "drain"]
  <1>2. /\ phase \in 1..2 /\ call[Hook] = NoCall
        /\ named' = named /\ armed' = armed /\ out' = out /\ given' = given
        /\ lost' = lost /\ due' = due /\ calls' = calls
    BY DEF HookFlush
  <1>3. /\ i \in {1, 2} /\ i \in Outputs /\ i \in Streams /\ i + 1 \in 0..4 /\ i + 1 # Over
    BY <1>2 DEF Outputs, Streams, Over
  <1>4. /\ Hook \in Everyone /\ call \in [Everyone -> CallTypes]
        /\ slot \in [Streams -> FileTypes] /\ calls \in Nat
        /\ named \subseteq Streams /\ armed \in BOOLEAN
        /\ \A k \in Streams : FileOk(slot[k])
        /\ \A j \in Outputs : j \in Streams
    BY DEF Everyone, StdInv, StdTypes, FilesOk, Outputs, Streams
  <1>5. slot[i].there /\ slot[i] \in FileTypes
    BY <1>1, <1>3, <1>4 DEF FileOk
  <1>6. x \in CallTypes /\ x.file = slot[i] /\ x.on = i /\ CallOk(x) /\ x.byte = 0
    BY <1>3, <1>5 DEF CallTypes, CallOk
  <1> HIDE DEF x
  <1>7. call' \in [Everyone -> CallTypes] /\ call'[Hook] = x
        /\ \A u \in Everyone \ {Hook} : call'[u] = call[u]
    <2>1. call' = [call EXCEPT ![Hook] = x]
      BY <1>1 DEF x
    <2> QED
      BY <1>4, <1>6, <2>1
  <1>8. /\ slot' \in [Streams -> FileTypes] /\ slot'[i] = None
        /\ \A k \in Outputs \ {i} : slot'[k] = slot[k]
        /\ \A k \in Streams : FileOk(slot'[k])
    <2>1. slot' = [slot EXCEPT ![i] = None]
      BY <1>1 DEF Take
    <2> QED
      BY <1>3, <1>4, <2>1, NoneIs DEF FileOk
  <1>9. phase' = i + 1 /\ phase' \in 0..4
    BY <1>1, <1>3
  <1>10. StdTypes' /\ FilesOk' /\ BytesOk' /\ OwnBytes'
    <2>1. named' \subseteq Streams /\ armed' \in BOOLEAN
      BY <1>2, <1>4
    <2> QED
      BY ONLY StdInv, <1>2, <1>3, <1>4, <1>5, <1>6, <1>7, <1>8, <1>9, <2>1, TakeStep
  <1>11. HookOk'
    <2>1. armed
      <3>1. given[i] # {}
        <4>1. HeldOf(slot, call, i) = slot[i].held
          BY <1>5, HeldSlot
        <4>2. StreamOk(out[i], slot[i].held, given[i], lost, calls)
          BY <1>3, <4>1, NextByte
        <4>3. /\ out[i] \in Seq(Nat) /\ slot[i].held \in Seq(Nat) /\ slot[i].held # <<>>
              /\ ToSet(out[i] \o slot[i].held) \subseteq given[i]
          BY <1>1, <4>2 DEF StreamOk
        <4>4. slot[i].held[1] \in ToSet(slot[i].held)
          BY <4>3 DEF ToSet
        <4>5. ToSet(slot[i].held) \subseteq ToSet(out[i] \o slot[i].held)
          BY <4>3, ToSetJoined
        <4> QED
          BY <4>3, <4>4, <4>5
      <3> QED
        BY <1>3, <3>1 DEF StdInv, HookOk
    <2>2. phase' # 0 => due' \subseteq given'[1] \cup given'[2]
      BY <1>2 DEF StdInv, HookOk
    <2>3. ASSUME NEW j \in Outputs, phase' \in 1..3, j < phase' PROVE Passed(slot'[j], due')
      <3>1. CASE j = i
        BY <1>8, <3>1, PassedNone
      <3>2. CASE j # i
        <4>1. slot'[j] = slot[j] /\ j \in 1..2 /\ j < i + 1
          BY <1>8, <1>9, <2>3, <3>2 DEF Outputs
        <4>2. j < phase \/ j \in phase..(i - 1)
          BY <1>2, <1>3, <3>2, <4>1
        <4>3. CASE j < phase
          <5>1. Passed(slot[j], due)
            <6>1. phase \in 1..3
              BY <1>2
            <6> QED
              BY <4>3, <6>1 DEF StdInv, HookOk
          <5> QED
            BY <1>2, <4>1, <5>1
        <4>4. CASE j \in phase..(i - 1)
          <5>1. slot[j].held = <<>>
            BY <1>1, <4>4
          <5>2. Passed(slot[j], due)
            BY <5>1 DEF Passed, ToSet
          <5> QED
            BY <1>2, <4>1, <5>2
        <4> QED
          BY <4>2, <4>3, <4>4
      <3> QED
        BY <3>1, <3>2
    <2>4. armed'
      BY <1>2, <2>1
    <2> QED
      BY <2>2, <2>3, <2>4 DEF HookOk
  <1>12. EndOk'
    BY <1>3, <1>9 DEF EndOk
  <1> QED
    BY <1>10, <1>11, <1>12 DEF StdInv

LEMMA HookDoneStep == ASSUME StdInv, HookDone PROVE StdInv'
  <1>1. /\ phase \in 1..3 /\ phase' = Over
        /\ call' = [u \in DOMAIN call |-> IF u \in DOMAIN call THEN NoCall ELSE call[u]]
        /\ lost' = lost \cup UNION {ToSet(call[u].file.held) : u \in DOMAIN call}
        /\ slot' = slot /\ named' = named /\ armed' = armed /\ out' = out /\ given' = given
        /\ due' = due /\ calls' = calls
        /\ \A i \in phase..2 : slot[i].held = <<>>
    BY DEF HookDone, DropCalls
  <1>2. due' \subseteq given[1] \cup given[2]
    BY <1>1 DEF StdInv, HookOk
  <1>3. ASSUME NEW i \in Outputs PROVE Passed(slot[i], due')
    <2>1. CASE i < phase
      BY <1>1, <2>1 DEF StdInv, HookOk
    <2>2. CASE ~(i < phase)
      <3>1. slot[i].held = <<>>
        BY <1>1, <2>2 DEF Outputs
      <3> QED
        BY <3>1 DEF Passed, ToSet
    <2> QED
      BY <2>1, <2>2
  <1> QED
    BY ONLY StdInv, <1>1, <1>2, <1>3, EndedStep

LEMMA StdStarts == StdInit => StdInv
  <1> SUFFICES ASSUME StdInit PROVE StdInv
    OBVIOUS
  <1>1. /\ slot = [i \in Streams |-> None] /\ named = {} /\ armed = FALSE
        /\ call = [t \in Everyone |-> NoCall] /\ phase = 0
        /\ out = [i \in Outputs |-> <<>>]
        /\ given = [i \in Outputs |-> {}] /\ lost = {} /\ due = {} /\ calls = 0
    BY DEF StdInit, Everyone
  <1>2. /\ 0 \in Streams /\ 0 \in Nat /\ None \in FileTypes /\ <<>> \in Seq(Nat)
        /\ \A i \in Outputs : i \in Streams
    BY NoneIs DEF Streams, Outputs
  <1>3. NoCall \in CallTypes
    BY <1>2 DEF NoCall, CallTypes
  <1>4. CallOk(NoCall) /\ FileOk(None) /\ FileOk(NoCall.file) /\ ~NoCall.file.there
        /\ NoCall.byte = 0 /\ ~None.there
    BY NoneIs DEF CallOk, FileOk
  <1>5. StdTypes
    <2>1. slot \in [Streams -> FileTypes]
      BY <1>1, <1>2
    <2>2. call \in [Everyone -> CallTypes]
      BY <1>1, <1>3
    <2>3. out \in [Outputs -> Seq(Nat)] /\ given \in [Outputs -> SUBSET Nat]
      BY <1>1, <1>2
    <2>4. named \subseteq Streams /\ armed \in BOOLEAN
      BY <1>1
    <2>5. phase \in 0..4 /\ calls \in Nat
      BY <1>1
    <2> QED
      BY ONLY <2>1, <2>2, <2>3, <2>4, <2>5 DEF StdTypes
  <1>6. FilesOk /\ OwnBytes
    BY <1>1, <1>4 DEF FilesOk, OwnBytes, ByteOk
  <1>7. ASSUME NEW i \in Outputs
        PROVE  /\ Single(slot, call, i)
               /\ StreamOk(out[i], HeldOf(slot, call, i), given[i], lost, calls)
    <2>1. Hands(call, i) = {}
      BY <1>1, <1>4 DEF Hands, Has
    <2>2. HeldOf(slot, call, i) = <<>>
      BY <1>1, <1>2, <1>4, <2>1, HeldNone
    <2>3. StreamOk(<<>>, <<>>, {}, {}, 0)
      <3>1. <<>> \o <<>> = <<>> /\ <<>> \in Seq(Nat) /\ ToSet(<<>>) = {}
        BY DEF ToSet
      <3>2. Rising(<<>>)
        BY DEF Rising
      <3> QED
        BY <3>1, <3>2 DEF StreamOk
    <2> QED
      BY <1>1, <2>1, <2>2, <2>3 DEF Single
  <1>8. BytesOk
    BY <1>7 DEF BytesOk
  <1>9. HookOk /\ EndOk
    BY <1>1, <1>4 DEF HookOk, EndOk, Over
  <1> QED
    BY <1>5, <1>6, <1>8, <1>9 DEF StdInv

LEMMA StdSteps == StdInv /\ [CarefulNext]_stdVars => StdInv'
  <1> SUFFICES ASSUME StdInv, [CarefulNext]_stdVars PROVE StdInv'
    OBVIOUS
  <1>1. CASE UNCHANGED stdVars
    BY <1>1 DEF stdVars, StdInv, StdTypes, FilesOk, BytesOk, OwnBytes, ByteOk, HookOk, EndOk
  <1>2. CASE CarefulNext
    <2>1. StdNext /\ NobodyElse
      BY <1>2 DEF CarefulNext
    <2>2. ASSUME Live PROVE phase # Over
      <3>1. CASE phase = 0
        BY <3>1 DEF Over
      <3>2. CASE call[Hook] # NoCall
        BY <3>2 DEF StdInv, EndOk, Everyone
      <3> QED
        BY <2>2, <3>1, <3>2 DEF Live
    <2>3. ASSUME NEW t \in Tasks, Live, Step(t) PROVE StdInv'
      <3>1. phase # Over
        BY <2>2, <2>3
      <3>2. ASSUME NEW i \in Streams, Name(t, i) PROVE StdInv'
        BY <2>1, <3>1, <3>2, NameStep
      <3>3. ASSUME NEW i \in Outputs, SetBuffering(t, i) \/ WriteFast(t, i) PROVE StdInv'
        BY <3>1, <3>3, FastStep
      <3>4. ASSUME NEW i \in Outputs, WriteSlow(t, i) \/ Flush(t, i) PROVE StdInv'
        BY <3>1, <3>4, SlowStep
      <3>5. ASSUME Probe(t) \/ Body(t) PROVE StdInv'
        BY <3>5, ProbeStep, BodyStep
      <3>6. ASSUME GetTied(t) PROVE StdInv'
        BY <2>1, <3>1, <3>6, GetTiedStep
      <3>7. ASSUME Read(t) \/ Drop(t) PROVE StdInv'
        BY <3>1, <3>7, ReadStep, DropStep
      <3> QED
        BY <2>3, <3>2, <3>3, <3>4, <3>5, <3>6, <3>7 DEF Step
    <2>4. ASSUME NEW t \in Everyone, Drain(t) \/ Drained(t) PROVE StdInv'
      BY <2>4, DrainStep, DrainedStep
    <2> QED
      BY <2>1, <2>3, <2>4, RootStep, HookFlushStep, HookDoneStep DEF StdNext, Everyone
  <1> QED
    BY <1>1, <1>2

\* The inductive invariant of the standard streams, where programs take turns with
\* them (file.rs's Std).
THEOREM StdInvariant == CarefulSpec => []StdInv
  <1>1. StdInit => StdInv
    BY StdStarts
  <1>2. StdInv /\ [CarefulNext]_stdVars => StdInv'
    BY StdSteps
  <1> QED
    BY <1>1, <1>2, PTL DEF CarefulSpec

\* What tasks that take turns with a stream write to it comes out once and in order,
\* and what was in when the program returned is out when it has ended (Std::take and
\* give, arm_flush, and rt.rs's shutdown).
THEOREM StdLosesNothing == CarefulSpec => []NothingLost
  <1>1. StdInv => NothingLost
    <2> SUFFICES ASSUME StdInv, NEW i \in Outputs
                 PROVE  /\ given[i] \ lost \subseteq
                             ToSet(out[i]) \cup UNION {ToSet(f.held) : f \in FilesOf(i)}
                        /\ \A m, n \in DOMAIN out[i] : m < n => out[i][m] < out[i][n]
                        /\ phase = Over /\ ~slot[i].err
                             => (due \cap given[i]) \ lost \subseteq ToSet(out[i])
      BY DEF NothingLost
    <2> DEFINE h == HeldOf(slot, call, i)
    <2>1. Single(slot, call, i) /\ StreamOk(out[i], h, given[i], lost, calls)
      BY NextByte
    <2>2. ToSet(out[i] \o h) = ToSet(out[i]) \cup ToSet(h) /\ Rising(out[i])
      BY <2>1, ToSetJoined, RisingJoined DEF StreamOk
    <2>3. ToSet(h) \subseteq UNION {ToSet(f.held) : f \in FilesOf(i)}
      <3>1. CASE slot[i].there
        <4>1. h = slot[i].held
          BY <3>1, HeldSlot
        <4> QED
          BY <4>1 DEF FilesOf
      <3>2. CASE Hands(call, i) # {}
        <4>1. PICK t : t \in Hands(call, i)
          BY <3>2
        <4>2. h = call[t].file.held
          BY <2>1, <4>1, HeldHand
        <4>3. t \in InHand(i)
          BY <4>1 DEF Hands, Has, InHand
        <4> QED
          BY <4>2, <4>3 DEF FilesOf
      <3>3. CASE ~slot[i].there /\ Hands(call, i) = {}
        <4>1. h = <<>>
          BY <3>3, HeldNone
        <4> QED
          BY <4>1 DEF ToSet
      <3> QED
        BY <3>1, <3>2, <3>3
    <2>4. given[i] \ lost \subseteq ToSet(out[i] \o h)
      BY <2>1 DEF StreamOk
    <2>5. phase = Over /\ ~slot[i].err => (due \cap given[i]) \ lost \subseteq ToSet(out[i])
      BY DEF StdInv, EndOk
    <2> HIDE DEF h
    <2> QED
      BY <2>2, <2>3, <2>4, <2>5 DEF Rising
  <1> QED
    BY <1>1, StdInvariant, PTL
=============================================================================
