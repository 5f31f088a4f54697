---------------------------- MODULE ScreenServer ----------------------------
(* The screen daemon: the protocol server (screen/proto.cpp) and the loop   *)
(* that drives it (ks_daemon.cpp), against programs that send what they     *)
(* like.  A program may have two connections: one of frames, and the byte   *)
(* channel, which is its stdout.                                            *)
(*                                                                         *)
(* What a frame asks is settled when the daemon looks at it, and its seq is *)
(* the number of it on its connection.  What is drawn is left out, but for  *)
(* the order in which prints reach the scrolling screen.                    *)
EXTENDS Integers, Sequences, FiniteSets, SequencesExt

CONSTANTS Conns,           \* <<program, "frames" or "bytes">>
          Nobody,
          Patient,         \* programs wait for their replies before they print,
          Burst,           \* and then print so much at most until the next
          RecvLen,         \* items one recv takes: 4096 bytes of them
          SockLen,         \* items a socket holds, which is many more
          DeferMax,        \* DEFER_MAX, in prints
          MaxFrames,       \* bound: frames sent, all told
          MaxPrints,       \* bound: prints of a program
          MaxEvents        \* bound: keys typed and resizes

ASSUME ConnsAssumption ==
  /\ \A c \in Conns : c = <<c[1], c[2]>> /\ c[2] \in {"frames", "bytes"}
  /\ Nobody \notin Conns
ASSUME SizesAssumption ==
  RecvLen \in Nat \ {0} /\ Burst \in Nat /\ SockLen \in Nat /\ DeferMax \in Nat

Programs == {c[1] : c \in Conns}
Channel(p) == <<p, "bytes">>

VARIABLES state,           \* of each connection
          exited,          \* connections whose client has closed them
          inbox,           \* what is in each socket: for each frame or print,
                           \* how much its program had written before it
          printed, sent,   \* prints each program has written; frames sent
          frames, answered, replies,  \* ConnStats; the seqs answered
          looked,          \* what each program had printed before the last of
                           \* its frames that has been looked at
          parked,          \* park_seq, or 0
          keys, screen,    \* who holds each claim
          saved,           \* connections whose Saved is held
          arrived,         \* prints of each program taken in
          shown, deferred, \* prints on the scrolling screen, and held back
          erased,          \* those that DEFER_MAX has cost
          polled, hup,     \* what poll saw and is not served; who has hung up
          cur, gone,       \* the recv in hand; recv has said EOF
          turn,            \* a turn is under way
          events

clients == <<exited, printed, sent>>
claims == <<keys, screen, saved>>
prints == <<arrived, shown, deferred, erased>>
told == <<frames, answered, replies, looked>>
loop == <<polled, hup, gone, turn>>
serverVars == <<state, inbox, clients, claims, prints, told, parked, loop, cur, events>>

Present == {c \in Conns : state[c] \in {"new", "framed", "bytes", "closed"}}

ServerInit ==
  /\ state = [c \in Conns |-> "backlog"]
  /\ exited = {}
  /\ inbox = [c \in Conns |-> <<>>]
  /\ printed = [p \in Programs |-> 0] /\ sent = 0
  /\ frames = [c \in Conns |-> 0] /\ replies = [c \in Conns |-> 0]
  /\ looked = [p \in Programs |-> 0]
  /\ answered = [c \in Conns |-> {}] /\ parked = [c \in Conns |-> 0]
  /\ keys = Nobody /\ screen = Nobody /\ saved = {}
  /\ arrived = [p \in Programs |-> 0] /\ shown = <<>> /\ deferred = <<>> /\ erased = {}
  /\ polled = {} /\ hup = {} /\ cur = <<>> /\ gone = {} /\ turn = FALSE
  /\ events = 0

-----------------------------------------------------------------------------
(* The programs.  What a recv has brought is in the daemon's memory: nobody *)
(* sees it change.                                                          *)

Outside == cur = <<>> /\ UNCHANGED <<state, claims, prints, told, parked, loop, cur, events>>

Sends(c, after) ==
  /\ c \notin exited /\ state[c] # "freed" /\ Len(inbox[c]) < SockLen
  /\ inbox' = [inbox EXCEPT ![c] = Append(@, after)]
  /\ Outside /\ UNCHANGED exited

\* On a byte channel the handshake is the only frame.
SendFrame(c) ==
  /\ sent < MaxFrames /\ sent' = sent + 1
  /\ c[2] = "bytes" => state[c] # "bytes" /\ inbox[c] = <<>>
  /\ Sends(c, printed[c[1]]) /\ UNCHANGED printed

\* A write of stdout has come back before its program does anything else.
Write(p) ==
  /\ Channel(p) \in Conns /\ state[Channel(p)] = "bytes" /\ printed[p] < MaxPrints
  /\ Patient => inbox[<<p, "frames">>] = <<>> /\ printed[p] < looked[p] + Burst
  /\ printed' = [printed EXCEPT ![p] = @ + 1]
  /\ Sends(Channel(p), 0) /\ UNCHANGED sent

Exit(c) ==
  /\ c \in Present \ exited
  /\ exited' = exited \cup {c}
  /\ Outside /\ UNCHANGED <<inbox, printed, sent>>

-----------------------------------------------------------------------------
(* feed, one frame of a recv at a time.                                     *)

\* The next item of the recv in hand is taken.
Taken(c) ==
  /\ cur # <<>> /\ cur[1] = c
  /\ inbox' = [inbox EXCEPT ![c] = Tail(@)]
  /\ cur' = IF cur[2] = 1 THEN <<>> ELSE <<c, cur[2] - 1>>
  /\ UNCHANGED <<clients, loop, events>>

\* dispatch counts it.
LooksAt(c) ==
  /\ frames' = [frames EXCEPT ![c] = @ + 1]
  /\ looked' = [looked EXCEPT ![c[1]] = Head(inbox[c])]

Framed(c, s) == state[c] = s /\ Taken(c) /\ LooksAt(c)

\* reply, to the frames seqs.
Reply(c, seqs) ==
  /\ answered' = [answered EXCEPT ![c] = @ \cup seqs]
  /\ replies' = [replies EXCEPT ![c] = @ + Cardinality(seqs)]

Answer(c) == Reply(c, {frames'[c]})

Hello(c) ==
  /\ Framed(c, "new") /\ Answer(c)
  /\ state' = [state EXCEPT ![c] = IF c[2] = "bytes" THEN "bytes" ELSE "framed"]
  /\ UNCHANGED <<parked, claims, prints>>

\* protocol_error: a frame before HELLO, another HELLO, or no frame at all.
\* What else the recv brought is not looked at.
ProtocolError(c) ==
  /\ cur # <<>> /\ cur[1] = c /\ state[c] \in {"new", "framed"}
  /\ LooksAt(c) /\ Answer(c)
  /\ state' = [state EXCEPT ![c] = "closed"]
  /\ inbox' = [inbox EXCEPT ![c] = SubSeq(@, cur[2] + 1, Len(@))]
  /\ cur' = <<>>
  /\ UNCHANGED <<clients, loop, events, parked, claims, prints>>

\* What draws or asks, and what is refused for its content, a HELLO too.
Other(c) ==
  /\ Framed(c, "framed") \/ Framed(c, "new")
  /\ Answer(c) /\ UNCHANGED <<state, parked, claims, prints>>

\* EPERM while somebody else holds them.
KeyTake(c) ==
  /\ Framed(c, "framed") /\ Answer(c)
  /\ keys' = IF keys = Nobody THEN c ELSE keys
  /\ UNCHANGED <<state, parked, screen, saved, prints>>

KeyGive(c) ==
  /\ Framed(c, "framed") /\ Answer(c)
  /\ keys' = IF keys = c THEN Nobody ELSE keys
  /\ UNCHANGED <<state, parked, screen, saved, prints>>

\* ENOTTY without the claim, EBUSY with one parked already.  Before it a variant
\* that lets a second read take the place of the first.
KeyReadTwice(c) ==
  /\ Framed(c, "framed")
  /\ IF keys = c
     THEN parked' = [parked EXCEPT ![c] = frames'[c]] /\ UNCHANGED <<answered, replies>>
     ELSE Answer(c) /\ UNCHANGED parked
  /\ UNCHANGED <<state, claims, prints>>

KeyRead(c) ==
  /\ Framed(c, "framed")
  /\ IF keys = c /\ parked[c] = 0
     THEN parked' = [parked EXCEPT ![c] = frames'[c]] /\ UNCHANGED <<answered, replies>>
     ELSE Answer(c) /\ UNCHANGED parked
  /\ UNCHANGED <<state, claims, prints>>

\* screen_save, unless it is the holder that asks again.
ScreenTake(c) ==
  /\ Framed(c, "framed") /\ Answer(c)
  /\ IF screen = Nobody THEN screen' = c /\ saved' = saved \cup {c}
     ELSE UNCHANGED <<screen, saved>>
  /\ UNCHANGED <<state, parked, keys, prints>>

\* screen_restore, with bytes_flush at its end; the variant leaves that out.
ScreenRestoreOnly(c) ==
  IF c \in saved THEN saved' = saved \ {c} /\ UNCHANGED prints
  ELSE UNCHANGED <<saved, prints>>

ScreenRestore(c) ==
  IF c \in saved
  THEN saved' = saved \ {c} /\ shown' = shown \o deferred /\ deferred' = <<>>
       /\ UNCHANGED <<arrived, erased>>
  ELSE UNCHANGED <<saved, prints>>

EndClaim(c) ==
  IF screen = c THEN screen' = Nobody /\ ScreenRestore(c)
  ELSE UNCHANGED <<screen, saved, prints>>

ScreenGive(c) ==
  /\ Framed(c, "framed") /\ Answer(c) /\ EndClaim(c)
  /\ UNCHANGED <<state, parked, keys>>

\* bytes_in: the oldest goes when too much is held.
BytesIn(c) ==
  /\ state[c] = "bytes" /\ Taken(c)
  /\ LET p == c[1] held == Append(deferred, <<p, arrived'[p]>>) IN
     /\ arrived' = [arrived EXCEPT ![p] = @ + 1]
     /\ IF screen = Nobody
        THEN shown' = Append(shown, <<p, arrived'[p]>>) /\ UNCHANGED <<deferred, erased>>
        ELSE /\ deferred' = IF Len(held) > DeferMax THEN Tail(held) ELSE held
             /\ erased' = IF Len(held) > DeferMax THEN erased \cup {Head(held)} ELSE erased
             /\ UNCHANGED shown
  /\ UNCHANGED <<state, told, parked, claims>>

Feed(c) ==
  \/ Hello(c) \/ ProtocolError(c) \/ BytesIn(c) \/ Other(c)
  \/ KeyTake(c) \/ KeyGive(c) \/ KeyRead(c) \/ ScreenTake(c) \/ ScreenGive(c)

-----------------------------------------------------------------------------
(* The loop.                                                                *)

\* poll, and one accept: who is accepted is not among those it saw.
Poll ==
  /\ ~turn /\ turn' = TRUE
  /\ hup' = Present \cap exited
  /\ polled' = {c \in Present : inbox[c] # <<>>} \cup hup'
  /\ \/ \E c \in Conns : state[c] = "backlog" /\ state' = [state EXCEPT ![c] = "new"]
     \/ UNCHANGED state
  /\ UNCHANGED <<inbox, clients, claims, prints, told, parked, cur, gone, events>>

\* Two passes: the byte channels, then the rest; in the variant there is one.
NoBytes == {}
Bytes == {c \in polled : state[c] = "bytes"}

Recv(c) ==
  /\ turn /\ cur = <<>> /\ c \in polled
  /\ c \in Bytes \/ Bytes = {}
  /\ polled' = polled \ {c}
  /\ IF inbox[c] = <<>> THEN gone' = gone \cup {c} /\ UNCHANGED cur
     ELSE cur' = <<c, IF Len(inbox[c]) < RecvLen THEN Len(inbox[c]) ELSE RecvLen>>
          /\ UNCHANGED gone
  /\ UNCHANGED <<state, inbox, clients, claims, prints, told, parked, hup, turn, events>>

ToFree == {c \in Present : c \in gone \cup hup \/ state[c] = "closed"}

\* conn_eof and conn_free.
Free(c) ==
  /\ turn /\ polled = {} /\ cur = <<>> /\ c \in ToFree
  /\ state' = [state EXCEPT ![c] = "freed"]
  /\ inbox' = [inbox EXCEPT ![c] = <<>>] /\ parked' = [parked EXCEPT ![c] = 0]
  /\ frames' = [frames EXCEPT ![c] = 0] /\ replies' = [replies EXCEPT ![c] = 0]
  /\ answered' = [answered EXCEPT ![c] = {}]
  /\ keys' = IF keys = c THEN Nobody ELSE keys
  /\ EndClaim(c)
  /\ UNCHANGED <<clients, looked, loop, cur, events>>

EndTurn ==
  /\ turn /\ polled = {} /\ cur = <<>> /\ ToFree = {} /\ turn' = FALSE
  /\ gone' = {} /\ hup' = {}
  /\ UNCHANGED <<state, inbox, clients, claims, prints, told, parked, polled, cur, events>>

Waiting == {c \in Present : parked[c] # 0}

\* answer_key, between two turns.
AnswerKeys(s) ==
  /\ ~turn /\ events < MaxEvents /\ events' = events + 1
  /\ answered' = [c \in Conns |-> answered[c] \cup IF c \in s THEN {parked[c]} ELSE {}]
  /\ replies' = [c \in Conns |-> replies[c] + IF c \in s THEN 1 ELSE 0]
  /\ parked' = [c \in Conns |-> IF c \in s THEN 0 ELSE parked[c]]
  /\ UNCHANGED <<state, inbox, clients, claims, prints, frames, looked, loop, cur>>

\* A key goes to the holder's parked read, and without one is dropped; typed or
\* from a script.
Key == keys \in Waiting /\ AnswerKeys({keys})

\* server_resize: every parked read, whoever has the keys.
Resize == Waiting # {} /\ AnswerKeys(Waiting)

ServerNext ==
  \/ Poll \/ EndTurn \/ Key \/ Resize
  \/ \E c \in Conns : Recv(c) \/ Feed(c) \/ Free(c) \/ SendFrame(c) \/ Exit(c)
  \/ \E p \in Programs : Write(p)

ServerSpec == ServerInit /\ [][ServerNext]_serverVars
-----------------------------------------------------------------------------
(* Properties.                                                              *)

\* "every accepted request frame produces exactly one reply": replies + parked
\* == frames, each is for a frame of its own, and a parked one is not answered.
OneReplyEach ==
  \A c \in Present :
    /\ replies[c] = Cardinality(answered[c])
    /\ answered[c] \cup ({parked[c]} \ {0}) = 1..frames[c]
    /\ parked[c] \notin answered[c]

\* Claims are those of connections that are there, the screen that is put away
\* is its holder's, and prints are held back only while there is one: after any
\* end of a claim each print but those DEFER_MAX has cost is on the screen or
\* held, and those of a program are in the order it wrote them.
Kept == shown \o deferred
Prints == UNION {{p} \X (1..arrived[p]) : p \in Programs}

ClaimsGivenBack ==
  /\ {keys, screen} \subseteq Present \cup {Nobody}
  /\ saved = {screen} \ {Nobody}
  /\ deferred # <<>> => screen # Nobody
  /\ ToSet(Kept) = Prints \ erased
  /\ \A i, j \in DOMAIN Kept : i < j /\ Kept[i][1] = Kept[j][1] => Kept[i][2] < Kept[j][2]

\* "Byte channels first ... and this is what makes us take them in that order":
\* when a frame is looked at, what its program had printed before is taken.
PrintsFirst ==
  [][\A c \in Conns : frames'[c] > frames[c] => arrived[c[1]] >= Head(inbox[c])]_serverVars

\* A byte channel is let go when all that was written to it is taken in.
PrintsArrive ==
  [][\A c \in Conns :
       c[2] = "bytes" /\ state'[c] = "freed" => arrived'[c[1]] = printed[c[1]]]_serverVars

\* What a program prints is taken in before what it asks afterwards, and before
\* its channel goes, as long as it waits for its replies and between two of them
\* prints no more than one recv takes.
PrintsInOrder == PrintsFirst /\ PrintsArrive
=============================================================================
