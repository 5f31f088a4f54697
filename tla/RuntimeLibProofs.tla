-------------------------- MODULE RuntimeLibProofs --------------------------
(***************************************************************************)
(* Proofs about the Rust library: the connection to the screen daemon, for *)
(* any tasks, any calls and any size of a frame, and the buffered stream,  *)
(* for any files, any size of the block and any calls.                     *)
(*                                                                         *)
(* The connection: at most one call is sending.  It has the token, also    *)
(* when it is dropped half-way, and as long as the daemon is there the     *)
(* wire ends where that call's frame is up to; otherwise it ends with a    *)
(* whole frame.                                                            *)
(*                                                                         *)
(* The stream: what was read ahead is the bytes before the descriptor's    *)
(* position, and at each await it is known which way round the buffer is   *)
(* and what is left in it.  Each step is then a step of the plain file, or *)
(* none of its.                                                            *)
(***************************************************************************)
EXTENDS ScreenConn, File, FiniteSetTheorems, SequenceTheorems, WellFoundedInduction, TLAPS

-----------------------------------------------------------------------------
(* The connection.                                                          *)

ConnTypes ==
  /\ stage \in [Calls -> {"new", "queued", "writing", "sent", "done", "failed", "dropped"}]
  /\ op \in [Calls -> {"none", "flight", "landed", "refused"}]
  /\ piece \in [Calls -> 1..Pieces]
  /\ wire \in Seq(Calls \X (1..Pieces))
  /\ token \in BOOLEAN /\ dead \in BOOLEAN /\ up \in BOOLEAN

\* What a call has done of its frame.
Begun ==
  \A k \in Calls :
    /\ stage[k] \in {"new", "queued"} => op[k] = "none"
    /\ op[k] = "none" => piece[k] = 1

\* A call is sending from when it takes the token to the end of its frame; one
\* that is dropped half-way, and one that had nothing out when the connection
\* died, never end it.
Sending(k) ==
  \/ op[k] = "flight"
  \/ op[k] = "landed" /\ (piece[k] < Pieces \/ stage[k] = "writing")
  \/ op[k] = "none" /\ stage[k] = "writing" /\ ~dead

OneSender ==
  /\ \A j, k \in Calls : Sending(j) /\ Sending(k) => j = k
  /\ ~dead => \A k \in Calls : Sending(k) => token

Cut == wire # <<>> /\ wire[Len(wire)][2] < Pieces
EndsWith(k, n) == wire # <<>> /\ wire[Len(wire)] = <<k, n>>

\* The wire ends where the sender is.
Fits(k) ==
  /\ op[k] = "none" => ~Cut
  /\ op[k] = "flight" /\ piece[k] = 1 => ~Cut
  /\ op[k] = "flight" /\ piece[k] # 1 => EndsWith(k, piece[k] - 1)
  /\ op[k] = "landed" => EndsWith(k, piece[k])

WireOk ==
  up =>
    /\ \A k \in Calls : Sending(k) => Fits(k)
    /\ Cut => \E k \in Calls : Sending(k)

\* WholeFrames, of what is on the wire.
Whole ==
  \A i \in 1..Len(wire) :
    LET before == IF i = 1 THEN <<{}, Pieces>> ELSE wire[i - 1] IN
    IF wire[i][2] = 1 THEN before[2] = Pieces
    ELSE before = <<wire[i][1], wire[i][2] - 1>>

ConnInv == ConnTypes /\ Begun /\ OneSender /\ WireOk /\ Whole

-----------------------------------------------------------------------------
LEMMA ConnStarts ==
  ASSUME Pieces \in Nat \ {0}, Init
  PROVE  ConnInv
  <1>1. ConnTypes /\ Begun
    <2>1. wire \in Seq(Calls \X (1..Pieces))
      <3>1. wire = <<>>
        BY DEF Init
      <3> QED
        BY <3>1
    <2>2. 1 \in 1..Pieces
      OBVIOUS
    <2>3. /\ stage = [k \in Calls |-> "new"] /\ op = [k \in Calls |-> "none"]
          /\ piece = [k \in Calls |-> 1]
          /\ token = FALSE /\ dead = FALSE /\ up = TRUE
      BY DEF Init
    <2> QED
      BY <2>1, <2>2, <2>3 DEF ConnTypes, Begun
  <1>2. \A k \in Calls : ~Sending(k)
    BY DEF Init, Sending
  <1>3. wire = <<>>
    BY DEF Init
  <1> QED
    BY <1>1, <1>2, <1>3 DEF ConnInv, OneSender, WireOk, Cut, Whole

\* A step in which no WRITE begins or ends, and nobody begins to send.
LEMMA Quiet ==
  ASSUME Pieces \in Nat \ {0}, ConnInv, UNCHANGED <<op, piece, wire, up>>,
         stage' \in [Calls -> {"new", "queued", "writing", "sent", "done", "failed", "dropped"}],
         token' \in BOOLEAN, dead' \in BOOLEAN,
         \A k \in Calls : stage'[k] \in {"new", "queued"} => op[k] = "none",
         \A k \in Calls : Sending(k)' => Sending(k),
         ~dead' => ~dead /\ (token' = token \/ \A k \in Calls : ~Sending(k)')
  PROVE  ConnInv'
  <1>1. ConnTypes' /\ Begun' /\ Whole'
    BY DEF ConnInv, ConnTypes, Begun, Whole
  <1>2. OneSender'
    BY DEF ConnInv, OneSender
  <1>3. Cut' = Cut /\ \A k \in Calls : Fits(k)' = Fits(k)
    BY DEF Cut, EndsWith, Fits
  <1>4. ASSUME NEW k \in Calls, Sending(k), ~Sending(k)', up PROVE ~Cut
    <2>1. op[k] = "none" \/ (op[k] = "landed" /\ piece[k] = Pieces)
      BY <1>4 DEF Sending, ConnInv, ConnTypes
    <2>2. CASE op[k] = "none"
      BY <1>4, <2>2 DEF ConnInv, WireOk, Fits
    <2>3. CASE op[k] = "landed" /\ piece[k] = Pieces
      <3>1. EndsWith(k, Pieces)
        BY <1>4, <2>3 DEF ConnInv, WireOk, Fits
      <3> QED
        BY <3>1 DEF EndsWith, Cut
    <2> QED
      BY <2>1, <2>2, <2>3
  <1>5. WireOk'
    <2> SUFFICES ASSUME up PROVE WireOk'
      BY DEF WireOk
    <2>1. ASSUME NEW k \in Calls, Sending(k)' PROVE Fits(k)'
      BY <2>1, <1>3 DEF ConnInv, WireOk, Fits
    <2>2. Cut' => \E k \in Calls : Sending(k)'
      BY <1>3, <1>4 DEF ConnInv, WireOk, Fits
    <2> QED
      BY <2>1, <2>2, <1>3 DEF WireOk
  <1> QED
    BY <1>1, <1>2, <1>5 DEF ConnInv

\* The call that ends, and those its race drops.
LEMMA EndsIs ==
  ASSUME ConnTypes, NEW k \in Calls, NEW way \in {"done", "failed"}, Ends(k, way)
  PROVE  /\ stage' \in [Calls -> {"new", "queued", "writing", "sent", "done", "failed", "dropped"}]
         /\ \A x \in Calls : stage'[x] = stage[x] \/ stage'[x] \in {"done", "failed", "dropped"}
         /\ stage'[k] = way
  BY DEF Ends, ConnTypes

-----------------------------------------------------------------------------
(* Steps of a task.                                                         *)

LEMMA TakesKeeps ==
  ASSUME Pieces \in Nat \ {0}, ConnInv, NEW k \in Calls, Takes(k)
  PROVE  ConnInv'
  <1>1. /\ UNCHANGED <<op, piece, wire, up, dead>> /\ token' = TRUE
        /\ stage' = [stage EXCEPT ![k] = "writing"]
    BY DEF Takes, GoesOn, socket
  <1>2. op[k] = "none" /\ piece[k] = 1
    BY DEF Takes, ConnInv, Begun
  <1>3. \A x \in Calls : x # k => Sending(x)' = Sending(x)
    BY <1>1 DEF Sending, ConnInv, ConnTypes
  <1>4. ~Sending(k)
    BY <1>2 DEF Sending, Takes
  <1>5. CASE dead
    <2>1. ~Sending(k)'
      BY <1>1, <1>2, <1>5 DEF Sending
    <2>2. \A x \in Calls : Sending(x)' => Sending(x)
      BY <1>3, <2>1
    <2>3. \A x \in Calls : stage'[x] \in {"new", "queued"} => op[x] = "none"
      BY <1>1 DEF ConnInv, ConnTypes, Begun
    <2>4. stage' \in [Calls -> {"new", "queued", "writing", "sent", "done", "failed", "dropped"}]
      BY <1>1 DEF ConnInv, ConnTypes
    <2> QED
      BY <1>1, <1>5, <2>2, <2>3, <2>4, Quiet DEF ConnInv, ConnTypes
  <1>6. CASE ~dead
    <2>1. \A x \in Calls : ~Sending(x)
      BY <1>6 DEF ConnInv, OneSender, Takes
    <2>2. \A x \in Calls : Sending(x)' => x = k
      BY <2>1, <1>3
    <2>3. OneSender'
      BY <1>1, <2>2 DEF OneSender
    <2>4. up => ~Cut
      BY <2>1 DEF ConnInv, WireOk, Fits
    <2>5. WireOk'
      <3>1. Cut' = Cut /\ op' = op
        BY <1>1 DEF Cut
      <3> QED
        BY <1>1, <1>2, <2>2, <2>4, <3>1 DEF WireOk, Fits
    <2>6. ConnTypes' /\ Begun' /\ Whole'
      BY <1>1, <1>2 DEF ConnInv, ConnTypes, Begun, Whole
    <2> QED
      BY <2>3, <2>5, <2>6 DEF ConnInv
  <1> QED
    BY <1>5, <1>6

\* A WRITE begins: the frame's first piece, or the next one.
LEMMA WritesKeeps ==
  ASSUME Pieces \in Nat \ {0}, ConnInv, NEW k \in Calls, Writes(k) \/ NextPiece(k)
  PROVE  ConnInv'
  <1>1. /\ UNCHANGED <<stage, wire, up, dead, token>>
        /\ op' = [op EXCEPT ![k] = "flight"]
        /\ stage[k] = "writing"
    BY DEF Writes, NextPiece, conn
  <1>2. \/ op[k] = "none" /\ ~dead /\ piece' = piece /\ piece[k] = 1
        \/ /\ op[k] = "landed" /\ piece[k] < Pieces
           /\ piece' = [piece EXCEPT ![k] = @ + 1]
    BY DEF Writes, NextPiece, ConnInv, Begun
  <1>3. Sending(k) /\ Sending(k)'
    BY <1>1, <1>2 DEF Sending, ConnInv, ConnTypes
  <1>4. \A x \in Calls : x # k => op'[x] = op[x] /\ piece'[x] = piece[x]
    BY <1>1, <1>2 DEF ConnInv, ConnTypes
  <1>5. \A x \in Calls : x # k => Sending(x)' = Sending(x)
    BY <1>1, <1>4 DEF Sending
  <1>6. \A x \in Calls : Sending(x)' => x = k
    BY <1>3, <1>5 DEF ConnInv, OneSender
  <1>7. OneSender'
    BY <1>1, <1>3, <1>6 DEF OneSender, ConnInv
  <1>8. ConnTypes' /\ Begun' /\ Whole'
    <2>1. piece' \in [Calls -> 1..Pieces]
      <3>1. piece \in [Calls -> 1..Pieces]
        BY DEF ConnInv, ConnTypes
      <3>2. CASE piece[k] < Pieces /\ piece' = [piece EXCEPT ![k] = @ + 1]
        <4>1. piece[k] + 1 \in 1..Pieces
          BY <3>1, <3>2
        <4> QED
          BY <3>1, <3>2, <4>1
      <3> QED
        BY <1>2, <3>1, <3>2
    <2> QED
      BY <2>1, <1>1, <1>4 DEF ConnInv, ConnTypes, Begun, Whole
  <1>9. WireOk'
    <2> SUFFICES ASSUME up PROVE WireOk'
      BY <1>1 DEF WireOk
    <2>1. op'[k] = "flight"
      BY <1>1 DEF ConnInv, ConnTypes
    <2>2. (piece'[k] = 1 => ~Cut) /\ (piece'[k] # 1 => EndsWith(k, piece'[k] - 1))
      <3>1. CASE op[k] = "none" /\ piece' = piece /\ piece[k] = 1
        BY <3>1, <1>3 DEF ConnInv, WireOk, Fits
      <3>2. CASE op[k] = "landed" /\ piece' = [piece EXCEPT ![k] = @ + 1]
        <4>1. piece[k] \in 1..Pieces /\ piece'[k] = piece[k] + 1
          BY <3>2 DEF ConnInv, ConnTypes
        <4>2. EndsWith(k, piece[k])
          BY <3>2, <1>3 DEF ConnInv, WireOk, Fits
        <4>3. piece'[k] # 1 /\ piece'[k] - 1 = piece[k]
          BY <4>1
        <4> QED
          BY <4>2, <4>3
      <3> QED
        BY <1>2, <3>1, <3>2
    <2>3. Cut' = Cut /\ EndsWith(k, piece[k] - 1)' = EndsWith(k, piece'[k] - 1)
      BY <1>1 DEF Cut, EndsWith
    <2>4. Fits(k)'
      BY <2>1, <2>2, <2>3 DEF Fits
    <2> QED
      BY <1>3, <1>6, <2>4 DEF WireOk
  <1> QED
    BY <1>7, <1>8, <1>9 DEF ConnInv

LEMMA SentKeeps ==
  ASSUME Pieces \in Nat \ {0}, ConnInv, NEW k \in Calls, Sent(k)
  PROVE  ConnInv'
  <1>1. /\ UNCHANGED <<op, piece, wire, up, dead>> /\ token' = FALSE
        /\ stage' = [stage EXCEPT ![k] = "sent"]
        /\ stage[k] = "writing" /\ op[k] = "landed" /\ piece[k] = Pieces
    BY DEF Sent, Release, GoesOn, socket
  <1>2. Sending(k) /\ ~Sending(k)'
    BY <1>1 DEF Sending, ConnInv, ConnTypes
  <1>3. \A x \in Calls : x # k => Sending(x)' = Sending(x)
    BY <1>1 DEF Sending, ConnInv, ConnTypes
  <1>4. \A x \in Calls : ~Sending(x)'
    BY <1>2, <1>3 DEF ConnInv, OneSender
  <1>5. \A x \in Calls : stage'[x] \in {"new", "queued"} => op[x] = "none"
    BY <1>1 DEF ConnInv, ConnTypes, Begun
  <1>6. stage' \in [Calls -> {"new", "queued", "writing", "sent", "done", "failed", "dropped"}]
    BY <1>1 DEF ConnInv, ConnTypes
  <1> QED
    BY <1>1, <1>4, <1>5, <1>6, Quiet DEF ConnInv, ConnTypes

\* What leaves the WRITEs alone, and the token, if the connection lives.
LEMMA OtherPollsKeep ==
  ASSUME Pieces \in Nat \ {0}, ConnInv, NEW k \in Calls,
         \/ Refused(k) \/ Queues(k) \/ StillWriting(k) \/ SendFails(k)
         \/ Answered(k) \/ Unanswered(k) \/ Waits(k)
  PROVE  ConnInv'
  <1> DEFINE Places == {"new", "queued", "writing", "sent", "done", "failed", "dropped"}
  <1>1. /\ UNCHANGED <<op, piece, wire, up>>
        /\ token' \in BOOLEAN /\ dead' \in BOOLEAN
        /\ dead => dead'
        /\ ~dead' => token' = token
    BY DEF Refused, Queues, StillWriting, SendFails, Answered, Unanswered, Waits, Kill,
           conn, socket, ConnInv, ConnTypes
  <1>2. /\ stage' \in [Calls -> Places]
        /\ \A x \in Calls : stage'[x] # "writing" \/ stage[x] = "writing"
        /\ \A x \in Calls : stage'[x] \in {"new", "queued"} => stage[x] \in {"new", "queued"}
    <2>1. CASE Refused(k) \/ SendFails(k) \/ Answered(k) \/ Unanswered(k)
      <3>1. PICK way \in {"done", "failed"} : Ends(k, way)
        BY <2>1 DEF Refused, SendFails, Answered, Unanswered
      <3>2. ConnTypes
        BY DEF ConnInv
      <3> HIDE DEF Places
      <3> QED
        BY <3>1, <3>2, EndsIs DEF Places
    <2>2. CASE Queues(k)
      <3>1. stage' = [stage EXCEPT ![k] = "queued"] /\ stage[k] \in {"new", "queued"}
        BY <2>2 DEF Queues
      <3> QED
        BY <3>1 DEF ConnInv, ConnTypes
    <2>3. CASE StillWriting(k) \/ Waits(k)
      <3>1. stage' = stage
        BY <2>3 DEF StillWriting, Waits
      <3> QED
        BY <3>1 DEF ConnInv, ConnTypes
    <2> QED
      BY <2>1, <2>2, <2>3
  <1>3. \A x \in Calls : Sending(x)' => Sending(x)
    BY <1>1, <1>2 DEF Sending
  <1>4. \A x \in Calls : stage'[x] \in {"new", "queued"} => op[x] = "none"
    BY <1>2 DEF ConnInv, Begun
  <1> QED
    BY <1>1, <1>2, <1>3, <1>4, Quiet

-----------------------------------------------------------------------------
(* The kernel.                                                              *)

\* A WRITE lands: the wire has one piece more.
LEMMA LandsKeeps ==
  ASSUME Pieces \in Nat \ {0}, ConnInv, NEW k \in Calls, Lands(k)
  PROVE  ConnInv'
  <1>1. /\ up /\ op[k] = "flight" /\ op' = [op EXCEPT ![k] = "landed"]
        /\ wire' = Append(wire, <<k, piece[k]>>)
        /\ UNCHANGED <<stage, token, dead, up, piece>>
    BY DEF Lands, OpEnds, conn
  <1>2. /\ piece[k] \in 1..Pieces /\ wire \in Seq(Calls \X (1..Pieces))
        /\ op'[k] = "landed" /\ \A x \in Calls : x # k => op'[x] = op[x]
    BY <1>1 DEF ConnInv, ConnTypes
  <1>3. /\ wire' \in Seq(Calls \X (1..Pieces)) /\ Len(wire') = Len(wire) + 1
        /\ wire'[Len(wire) + 1] = <<k, piece[k]>>
        /\ \A i \in 1..Len(wire) : wire'[i] = wire[i]
        /\ Len(wire) \in Nat
    BY <1>1, <1>2
  <1>4. Sending(k) /\ \A x \in Calls : x # k => Sending(x)' = Sending(x)
    BY <1>1, <1>2 DEF Sending
  <1>5. \A x \in Calls : Sending(x)' => x = k
    BY <1>4 DEF ConnInv, OneSender
  <1>6. ConnTypes' /\ Begun'
    BY <1>1, <1>2, <1>3 DEF ConnInv, ConnTypes, Begun
  <1>7. OneSender'
    BY <1>1, <1>4, <1>5 DEF OneSender, ConnInv
  <1>8. wire' # <<>> /\ EndsWith(k, piece[k])'
    BY <1>1, <1>3 DEF EndsWith
  <1>9. WireOk'
    <2>1. Cut' => Sending(k)'
      BY <1>1, <1>2, <1>8 DEF Cut, EndsWith, Sending
    <2>2. Fits(k)'
      BY <1>2, <1>8 DEF Fits
    <2> QED
      BY <1>5, <2>1, <2>2 DEF WireOk
  <1>10. (piece[k] = 1 => ~Cut) /\ (piece[k] # 1 => EndsWith(k, piece[k] - 1))
    BY <1>1, <1>4 DEF ConnInv, WireOk, Fits
  <1>11. Whole'
    <2> SUFFICES ASSUME NEW i \in 1..Len(wire')
                 PROVE  LET before == IF i = 1 THEN <<{}, Pieces>> ELSE wire'[i - 1] IN
                        IF wire'[i][2] = 1 THEN before[2] = Pieces
                        ELSE before = <<wire'[i][1], wire'[i][2] - 1>>
      BY DEF Whole
    <2>1. CASE i \in 1..Len(wire)
      <3>1. wire'[i] = wire[i]
        BY <1>3, <2>1
      <3>2. ASSUME i # 1 PROVE wire'[i - 1] = wire[i - 1]
        <4>1. i - 1 \in 1..Len(wire)
          BY <1>3, <2>1, <3>2
        <4> QED
          BY <1>3, <4>1
      <3> QED
        BY <2>1, <3>1, <3>2 DEF ConnInv, Whole
    <2>2. CASE i = Len(wire) + 1
      <3>1. wire'[i] = <<k, piece[k]>>
        BY <1>3, <2>2
      <3>2. CASE Len(wire) = 0
        <4>1. i = 1 /\ wire = <<>>
          BY <2>2, <3>2, <1>2, EmptySeq
        <4>2. piece[k] = 1
          BY <4>1, <1>10 DEF EndsWith
        <4> QED
          BY <3>1, <4>1, <4>2
      <3>3. CASE Len(wire) # 0
        <4>1. i # 1 /\ i - 1 = Len(wire) /\ Len(wire) \in 1..Len(wire) /\ wire # <<>>
          BY <1>3, <2>2, <3>3
        <4>2. wire'[i - 1] = wire[Len(wire)] /\ wire[Len(wire)] \in Calls \X (1..Pieces)
          BY <1>2, <1>3, <4>1
        <4>3. CASE piece[k] = 1
          <5>1. wire[Len(wire)][2] = Pieces
            BY <4>1, <4>2, <4>3, <1>10 DEF Cut
          <5> QED
            BY <3>1, <4>1, <4>2, <4>3, <5>1
        <4>4. CASE piece[k] # 1
          BY <3>1, <4>1, <4>2, <4>4, <1>10 DEF EndsWith
        <4> QED
          BY <4>3, <4>4
      <3> QED
        BY <3>2, <3>3
    <2> QED
      BY <2>1, <2>2, <1>3
  <1> QED
    BY <1>6, <1>7, <1>9, <1>11 DEF ConnInv

\* The daemon has gone: the wire ends where it is, for good.
LEMMA RefusesKeeps ==
  ASSUME Pieces \in Nat \ {0}, ConnInv, NEW k \in Calls, Refuses(k)
  PROVE  ConnInv'
  <1>1. /\ ~up /\ op[k] = "flight" /\ op' = [op EXCEPT ![k] = "refused"]
        /\ UNCHANGED <<stage, wire, token, dead, up, piece>>
    BY DEF Refuses, OpEnds, conn
  <1>2. op'[k] = "refused" /\ \A x \in Calls : x # k => op'[x] = op[x]
    BY <1>1 DEF ConnInv, ConnTypes
  <1>3. ~Sending(k)' /\ \A x \in Calls : x # k => Sending(x)' = Sending(x)
    BY <1>1, <1>2 DEF Sending
  <1>4. ConnTypes' /\ Begun' /\ Whole'
    BY <1>1, <1>2 DEF ConnInv, ConnTypes, Begun, Whole
  <1>5. OneSender'
    BY <1>1, <1>3 DEF ConnInv, OneSender
  <1> QED
    BY <1>1, <1>4, <1>5 DEF ConnInv, WireOk, Fits

LEMMA HangUpKeeps ==
  ASSUME Pieces \in Nat \ {0}, ConnInv, HangUp
  PROVE  ConnInv'
  <1>1. up' = FALSE /\ UNCHANGED <<stage, op, piece, wire, token, dead>>
    BY DEF HangUp, conn
  <1>2. \A x \in Calls : Sending(x)' = Sending(x)
    BY <1>1 DEF Sending
  <1>3. ConnTypes' /\ Begun' /\ Whole'
    BY <1>1 DEF ConnInv, ConnTypes, Begun, Whole
  <1> QED
    BY <1>1, <1>2, <1>3 DEF ConnInv, OneSender, WireOk

\* What neither writes nor ends a call.
LEMMA IdleKeeps ==
  ASSUME Pieces \in Nat \ {0}, ConnInv, UNCHANGED <<op, piece, wire, up, stage>>,
         \/ UNCHANGED <<token, dead>>
         \/ dead' = TRUE /\ token' = token
  PROVE  ConnInv'
  <1>1. \A x \in Calls : Sending(x)' => Sending(x)
    BY DEF Sending
  <1>2. \A x \in Calls : stage'[x] \in {"new", "queued"} => op[x] = "none"
    BY DEF ConnInv, Begun
  <1>3. /\ stage' \in [Calls -> {"new", "queued", "writing", "sent", "done", "failed", "dropped"}]
        /\ token' \in BOOLEAN /\ dead' \in BOOLEAN
    BY DEF ConnInv, ConnTypes
  <1>4. ~dead' => ~dead /\ token' = token
    OBVIOUS
  <1> QED
    BY <1>1, <1>2, <1>3, <1>4, Quiet

LEMMA ConnSteps ==
  ASSUME Pieces \in Nat \ {0}, ConnInv, [Next]_vars
  PROVE  ConnInv'
  <1>1. CASE UNCHANGED vars
    BY <1>1, IdleKeeps DEF vars, conn, socket
  <1>2. ASSUME NEW t \in Tasks, Start(t) PROVE ConnInv'
    BY <1>2, IdleKeeps DEF Start, conn, socket
  <1>3. ASSUME NEW k \in Calls, Poll(k) PROVE ConnInv'
    BY <1>3, TakesKeeps, WritesKeeps, SentKeeps, OtherPollsKeep DEF Poll
  <1>4. CASE Pump
    <2>1. UNCHANGED <<op, piece, wire, up, stage, token>> /\ (dead' = dead \/ dead' = TRUE)
      BY <1>4 DEF Pump, Kill
    <2> QED
      BY <2>1, IdleKeeps
  <1>5. CASE HangUp
    BY <1>5, HangUpKeeps
  <1>6. ASSUME NEW k \in Calls, Kernel(k) PROVE ConnInv'
    BY <1>6, LandsKeeps, RefusesKeeps DEF Kernel
  <1>7. ASSUME NEW k \in Calls, Reply(k) PROVE ConnInv'
    BY <1>7, IdleKeeps DEF Reply, conn
  <1> QED
    BY <1>1, <1>2, <1>3, <1>4, <1>5, <1>6, <1>7 DEF Next, Program

\* The inductive invariant of the connection (screen.rs's send and its token).
THEOREM ConnInvariant == Spec => []ConnInv
  <1>1. Init => ConnInv
    BY ConnStarts, PiecesAssumption
  <1>2. ConnInv /\ [Next]_vars => ConnInv'
    BY ConnSteps, PiecesAssumption
  <1> QED
    BY <1>1, <1>2, PTL DEF Spec

\* One WRITE is in flight at most, and frames are whole on the wire, each after the
\* end of the one before, whatever calls are dropped (screen.rs's send).
THEOREM ConnWholeFrames == Spec => []WholeFrames
  <1>1. ConnInv => WholeFrames
    <2> SUFFICES ASSUME ConnInv PROVE WholeFrames
      OBVIOUS
    <2>1. Cardinality({k \in Calls : op[k] = "flight"}) <= 1
      <3> DEFINE Flying == {k \in Calls : op[k] = "flight"}
      <3>1. \A j, k \in Flying : j = k
        BY DEF ConnInv, OneSender, Sending
      <3>2. CASE Flying = {}
        BY <3>2, FS_EmptySet
      <3>3. CASE Flying # {}
        <4>1. PICK k : k \in Flying
          BY <3>3
        <4>2. Flying = {k}
          BY <3>1, <4>1
        <4>3. Cardinality(Flying) = 1
          BY <4>2, FS_Singleton
        <4> QED
          BY <4>3
      <3> QED
        BY <3>2, <3>3
    <2> QED
      BY <2>1 DEF ConnInv, Whole, WholeFrames
  <1> QED
    BY <1>1, ConnInvariant, PTL

-----------------------------------------------------------------------------
(* Sequences of bytes.                                                      *)

B == P!Byte

\* A slice of bytes is bytes, as many as were asked for, in their order.
LEMMA IsSlice ==
  ASSUME NEW s \in Seq(B), NEW m \in Nat, NEW n \in Nat, m + n <= Len(s)
  PROVE  /\ P!Slice(s, m, n) \in Seq(B)
         /\ Len(P!Slice(s, m, n)) = n
         /\ \A i \in 1..n : P!Slice(s, m, n)[i] = s[m + i]
  <1>1. m + 1 \in 1..(Len(s) + 1) /\ m + n \in 0..Len(s)
    OBVIOUS
  <1>2. \A i \in (m + 1)..(m + n) : s[i] \in B
    <2>1. (m + 1)..(m + n) \subseteq 1..Len(s)
      OBVIOUS
    <2>2. QED
      BY <2>1
  <1>3. QED
    BY <1>1, <1>2, SubSeqProperties DEF P!Slice

\* The front of bytes is bytes, with the places they had.
LEMMA IsFront ==
  ASSUME NEW s \in Seq(B), NEW n \in 0..Len(s)
  PROVE  /\ P!Front(s, n) \in Seq(B)
         /\ Len(P!Front(s, n)) = n
         /\ \A i \in 1..n : P!Front(s, n)[i] = s[i]
  <1>1. P!Front(s, n) = P!Slice(s, 0, n)
    BY DEF P!Front, P!Slice
  <1>2. QED
    BY <1>1, IsSlice

\* What follows the front is bytes, each n places lower.
LEMMA IsAfter ==
  ASSUME NEW s \in Seq(B), NEW n \in 0..Len(s)
  PROVE  /\ P!After(s, n) \in Seq(B)
         /\ Len(P!After(s, n)) = Len(s) - n
         /\ \A i \in 1..(Len(s) - n) : P!After(s, n)[i] = s[n + i]
  <1> DEFINE k == Len(s) - n
  <1>1. P!After(s, n) = P!Slice(s, n, k)
    BY DEF P!After, P!Slice
  <1>2. n \in Nat /\ k \in Nat /\ n + k <= Len(s)
    OBVIOUS
  <1> HIDE DEF k
  <1>3. /\ P!Slice(s, n, k) \in Seq(B) /\ Len(P!Slice(s, n, k)) = k
        /\ \A i \in 1..k : P!Slice(s, n, k)[i] = s[n + i]
    BY <1>2, IsSlice
  <1>4. QED
    BY <1>1, <1>3 DEF k

\* Bytes and more bytes are bytes: the first ones, then the others.
LEMMA IsConcat ==
  ASSUME NEW s \in Seq(B), NEW t \in Seq(B)
  PROVE  /\ s \o t \in Seq(B)
         /\ Len(s \o t) = Len(s) + Len(t)
         /\ \A i \in 1..Len(s) : (s \o t)[i] = s[i]
         /\ \A i \in 1..Len(t) : (s \o t)[Len(s) + i] = t[i]
  OBVIOUS

\* Bytes of one length that agree place by place are the same.
LEMMA SameSeq ==
  ASSUME NEW s \in Seq(B), NEW t \in Seq(B), Len(s) = Len(t),
         \A i \in 1..Len(s) : s[i] = t[i]
  PROVE  s = t
  BY SeqEqual

\* What Over is, place by place.
LEMMA IsOver ==
  ASSUME NEW s \in Seq(B), NEW p \in Nat, NEW b \in Seq(B), NEW k \in Nat \ {0}, k = Len(b)
  PROVE  /\ P!Over(s, p, b) \in Seq(B)
         /\ Len(P!Over(s, p, b)) = P!Larger(Len(s), p + k)
         /\ \A i \in 1..Len(P!Over(s, p, b)) :
              P!Over(s, p, b)[i] = IF i > p /\ i <= p + k THEN b[i - p]
                                   ELSE IF i <= Len(s) THEN s[i] ELSE P!Zero
  <1> DEFINE n == P!Larger(Len(s), p + k)
             f == [i \in 1..n |-> IF i \in (p + 1)..(p + k) THEN b[i - p]
                                  ELSE IF i <= Len(s) THEN s[i] ELSE P!Zero]
  <1>1. n \in Nat
    BY DEF P!Larger
  <1>0. b # <<>>
    OBVIOUS
  <1>2. P!Over(s, p, b) = f
    BY <1>0 DEF P!Over
  <1>3. \A i \in 1..n : f[i] \in B
    <2> SUFFICES ASSUME NEW i \in 1..n PROVE f[i] \in B
      OBVIOUS
    <2>1. P!Zero \in B
      BY DEF B, P!Byte
    <2>2. CASE i \in (p + 1)..(p + k)
      <3>1. i - p \in 1..k
        BY <2>2
      <3>2. QED
        BY <2>2, <3>1
    <2>3. CASE i \notin (p + 1)..(p + k)
      BY <2>1, <2>3, <1>1
    <2>4. QED
      BY <2>2, <2>3
  <1>4. f \in Seq(B) /\ Len(f) = n
    <2> HIDE DEF n
    <2>1. f \in [1..n -> B]
      BY <1>3
    <2> HIDE DEF f
    <2>2. QED
      BY <1>1, <2>1
  <1>5. \A i \in 1..n : f[i] = IF i > p /\ i <= p + k THEN b[i - p]
                               ELSE IF i <= Len(s) THEN s[i] ELSE P!Zero
    <2>1. ASSUME NEW i \in 1..n
          PROVE  i \in (p + 1)..(p + k) <=> i > p /\ i <= p + k
      BY <1>1
    <2>2. QED
      BY <2>1
  <1>6. QED
    BY <1>2, <1>4, <1>5

\* To put nothing over bytes changes nothing.
LEMMA OverNothing ==
  \A s, p : P!Over(s, p, <<>>) = s
  BY DEF P!Over

\* Bytes put over, and more put after them, are both put over at once.
LEMMA OverOver ==
  ASSUME NEW s \in Seq(B), NEW p \in Nat, NEW b \in Seq(B), NEW c \in Seq(B)
  PROVE  P!Over(P!Over(s, p, b), p + Len(b), c) = P!Over(s, p, b \o c)
  <1> DEFINE o == P!Over(s, p, b)
             l == P!Over(o, p + Len(b), c)
             r == P!Over(s, p, b \o c)
  <1>1. CASE c = <<>>
    <2>1. b \o c = b /\ l = o
      BY <1>1 DEF P!Over
    <2>2. QED
      BY <2>1
  <1>2. CASE b = <<>>
    <2>1. b \o c = c /\ o = s /\ p + Len(b) = p
      BY <1>2 DEF P!Over
    <2>2. QED
      BY <2>1
  <1>3. CASE b # <<>> /\ c # <<>>
    <2>1. /\ b \o c \in Seq(B) /\ b \o c # <<>> /\ Len(b \o c) = Len(b) + Len(c)
          /\ \A i \in 1..Len(b) : (b \o c)[i] = b[i]
          /\ \A i \in 1..Len(c) : (b \o c)[Len(b) + i] = c[i]
          /\ Len(b) \in Nat \ {0} /\ Len(c) \in Nat \ {0} /\ Len(s) \in Nat
      BY <1>3, IsConcat, EmptySeq
    <2> DEFINE bc == b \o c
    <2> HIDE DEF bc
    <2>2. /\ o \in Seq(B) /\ Len(o) = P!Larger(Len(s), p + Len(b))
          /\ \A i \in 1..Len(o) : o[i] = IF i > p /\ i <= p + Len(b) THEN b[i - p]
                                         ELSE IF i <= Len(s) THEN s[i] ELSE P!Zero
      BY <2>1, IsOver
    <2>30. bc \in Seq(B) /\ Len(b) + Len(c) = Len(bc) /\ Len(b) + Len(c) \in Nat \ {0} /\ r = P!Over(s, p, bc)
      BY <2>1 DEF bc
    <2>3. /\ r \in Seq(B) /\ Len(r) = P!Larger(Len(s), p + (Len(b) + Len(c)))
          /\ \A i \in 1..Len(r) : r[i] = IF i > p /\ i <= p + (Len(b) + Len(c)) THEN bc[i - p]
                                         ELSE IF i <= Len(s) THEN s[i] ELSE P!Zero
      <3> DEFINE k == Len(b) + Len(c)
      <3>1. k \in Nat \ {0} /\ k = Len(bc) /\ bc \in Seq(B) /\ p \in Nat /\ s \in Seq(B)
        BY <2>30
      <3>2. r = P!Over(s, p, bc)
        BY <2>30
      <3> HIDE DEF k, r, o, l
      <3>3. ASSUME NEW t \in Seq(B), Len(t) \in Nat \ {0}
            PROVE  /\ P!Over(s, p, t) \in Seq(B) /\ Len(P!Over(s, p, t)) = P!Larger(Len(s), p + Len(t))
                   /\ \A i \in 1..Len(P!Over(s, p, t)) :
                        P!Over(s, p, t)[i] = IF i > p /\ i <= p + Len(t) THEN t[i - p]
                                             ELSE IF i <= Len(s) THEN s[i] ELSE P!Zero
        BY <3>3, IsOver
      <3>4. QED
        BY <3>1, <3>2, <3>3, Zenon DEF k
    <2>4. p + Len(b) \in Nat
      BY <2>1
    <2> HIDE DEF o, r
    <2>5. /\ l \in Seq(B) /\ Len(l) = P!Larger(Len(o), (p + Len(b)) + Len(c))
          /\ \A i \in 1..Len(l) : l[i] = IF i > p + Len(b) /\ i <= (p + Len(b)) + Len(c)
                                           THEN c[i - (p + Len(b))]
                                         ELSE IF i <= Len(o) THEN o[i] ELSE P!Zero
      <3> DEFINE q == p + Len(b)
                 k == Len(c)
      <3>1. q \in Nat /\ k \in Nat \ {0} /\ k = Len(c) /\ o \in Seq(B) /\ c \in Seq(B) /\ l = P!Over(o, q, c)
        BY <2>1, <2>2, <2>4
      <3> HIDE DEF q, l
      <3>2. /\ l \in Seq(B) /\ Len(l) = P!Larger(Len(o), q + Len(c))
            /\ \A i \in 1..Len(l) : l[i] = IF i > q /\ i <= q + Len(c) THEN c[i - q]
                                           ELSE IF i <= Len(o) THEN o[i] ELSE P!Zero
        <4>1. /\ P!Over(o, q, c) \in Seq(B) /\ Len(P!Over(o, q, c)) = P!Larger(Len(o), q + Len(c))
              /\ \A i \in 1..Len(P!Over(o, q, c)) :
                   P!Over(o, q, c)[i] = IF i > q /\ i <= q + Len(c) THEN c[i - q]
                                        ELSE IF i <= Len(o) THEN o[i] ELSE P!Zero
          BY <3>1, IsOver
        <4>2. QED
          BY <3>1, <4>1, Zenon
      <3>3. QED
        BY <3>2 DEF q, k
    <2> HIDE DEF l
    <2>6. Len(l) = Len(r)
      BY <2>1, <2>2, <2>3, <2>5 DEF P!Larger
    <2>7. ASSUME NEW i \in 1..Len(l)
          PROVE  l[i] = r[i]
      <3> DEFINE u == Len(b)
                 v == Len(c)
                 m == Len(s)
      <3>1. u \in Nat \ {0} /\ v \in Nat \ {0} /\ m \in Nat /\ i \in Nat /\ i > 0
            /\ Len(o) = (IF m < p + u THEN p + u ELSE m)
            /\ i <= Len(l) /\ Len(l) = (IF Len(o) < (p + u) + v THEN (p + u) + v ELSE Len(o))
        BY <2>1, <2>2, <2>5 DEF P!Larger
      <3>2. r[i] = IF i > p /\ i <= p + (u + v) THEN bc[i - p]
                   ELSE IF i <= m THEN s[i] ELSE P!Zero
        BY <2>3, <2>6
      <3>3. l[i] = IF i > p + u /\ i <= (p + u) + v THEN c[i - (p + u)]
                   ELSE IF i <= Len(o) THEN o[i] ELSE P!Zero
        BY <2>5
      <3>4. CASE i > p + u /\ i <= (p + u) + v
        <4>1. i - (p + u) \in 1..v /\ i - p = u + (i - (p + u))
          BY <3>1, <3>4
        <4>2. bc[i - p] = c[i - (p + u)]
          BY <2>1, <4>1 DEF bc
        <4>3. i > p /\ i <= p + (u + v)
          BY <3>1, <3>4
        <4>4. QED
          BY <3>2, <3>3, <3>4, <4>2, <4>3
      <3>5. CASE i > p /\ i <= p + u
        <4>1. i - p \in 1..u /\ i <= Len(o) /\ i \in 1..Len(o) /\ i <= p + (u + v) /\ ~(i > p + u)
          BY <3>1, <3>5
        <4>2. bc[i - p] = b[i - p]
          BY <2>1, <4>1 DEF bc
        <4>3. o[i] = b[i - p]
          BY <2>2, <3>5, <4>1
        <4>4. QED
          BY <3>2, <3>3, <3>5, <4>1, <4>2, <4>3
      <3>6. CASE ~(i > p /\ i <= p + (u + v))
        <4>1. ~(i > p + u /\ i <= (p + u) + v) /\ ~(i > p /\ i <= p + u) /\ (i <= m => i <= Len(o))
          BY <3>1, <3>6
        <4>2. i <= Len(o) => o[i] = IF i <= m THEN s[i] ELSE P!Zero
          BY <2>2, <3>1, <4>1
        <4>3. QED
          BY <3>2, <3>3, <3>6, <4>1, <4>2
      <3>7. QED
        BY <3>1, <3>4, <3>5, <3>6
    <2>8. QED
      BY <2>3, <2>5, <2>6, <2>7, SameSeq DEF l, r, o
  <1>4. QED
    BY <1>1, <1>2, <1>3

\* A front and what follows it are the whole.
LEMMA FrontAfter ==
  ASSUME NEW b \in Seq(B), NEW n \in 0..Len(b)
  PROVE  P!Front(b, n) \o P!After(b, n) = b
  <1> DEFINE f == P!Front(b, n)
             a == P!After(b, n)
  <1>1. f \in Seq(B) /\ Len(f) = n /\ \A i \in 1..n : f[i] = b[i]
    BY IsFront
  <1>2. a \in Seq(B) /\ Len(a) = Len(b) - n /\ \A i \in 1..(Len(b) - n) : a[i] = b[n + i]
    BY IsAfter
  <1> DEFINE fa == f \o a
  <1> HIDE DEF f, a
  <1>3. /\ fa \in Seq(B) /\ Len(fa) = Len(b)
        /\ \A i \in 1..n : fa[i] = f[i]
        /\ \A i \in 1..(Len(b) - n) : fa[n + i] = a[i]
    BY <1>1, <1>2, IsConcat
  <1> HIDE DEF fa
  <1>4. ASSUME NEW i \in 1..Len(b)
        PROVE  fa[i] = b[i]
    <2>1. CASE i <= n
      BY <1>1, <1>3, <2>1
    <2>2. CASE i > n
      <3>1. i - n \in 1..(Len(b) - n) /\ n + (i - n) = i
        BY <2>2
      <3>2. QED
        BY <1>2, <1>3, <3>1
    <2>3. n \in Nat /\ i \in Nat
      OBVIOUS
    <2>4. QED
      BY <2>1, <2>2, <2>3
  <1>5. QED
    BY <1>3, <1>4, SameSeq DEF fa, f, a

\* A part of the bytes is out, and the position behind it.
LEMMA OverRest ==
  ASSUME NEW s \in Seq(B), NEW p \in Nat, NEW b \in Seq(B), NEW n \in 0..Len(b)
  PROVE  P!Over(P!Over(s, p, P!Front(b, n)), p + n, P!After(b, n)) = P!Over(s, p, b)
  <1> DEFINE f == P!Front(b, n)
             a == P!After(b, n)
  <1>1. f \in Seq(B) /\ Len(f) = n /\ a \in Seq(B)
    BY IsFront, IsAfter
  <1>2. f \o a = b
    BY FrontAfter
  <1> HIDE DEF f, a
  <1>3. P!Over(P!Over(s, p, f), p + Len(f), a) = P!Over(s, p, f \o a)
    BY <1>1, OverOver
  <1>4. P!Over(P!Over(s, p, f), p + n, a) = P!Over(s, p, b)
    <2>1. p + Len(f) = p + n
      BY <1>1
    <2>2. QED
      BY <1>2, <1>3, <2>1, Zenon
  <1>5. QED
    BY <1>4 DEF f, a

\* A part of the bytes is out, and the position is not.
LEMMA OverAgain ==
  ASSUME NEW s \in Seq(B), NEW p \in Nat, NEW b \in Seq(B), NEW n \in 1..Len(b)
  PROVE  P!Over(P!Over(s, p, P!Front(b, n)), p, b) = P!Over(s, p, b)
  <1> DEFINE f == P!Front(b, n)
             o == P!Over(s, p, f)
             l == P!Over(o, p, b)
             r == P!Over(s, p, b)
  <1>1. f \in Seq(B) /\ Len(f) = n /\ (\A i \in 1..n : f[i] = b[i]) /\ n \in Nat \ {0} /\ f # <<>>
    BY IsFront
  <1> HIDE DEF f
  <1>2. /\ b # <<>> /\ Len(b) \in Nat \ {0} /\ n <= Len(b) /\ Len(s) \in Nat
    BY EmptySeq
  <1>3. /\ o \in Seq(B) /\ Len(o) = P!Larger(Len(s), p + n)
        /\ \A i \in 1..Len(o) : o[i] = IF i > p /\ i <= p + n THEN f[i - p]
                                       ELSE IF i <= Len(s) THEN s[i] ELSE P!Zero
    BY <1>1, IsOver
  <1>4. /\ r \in Seq(B) /\ Len(r) = P!Larger(Len(s), p + Len(b))
        /\ \A i \in 1..Len(r) : r[i] = IF i > p /\ i <= p + Len(b) THEN b[i - p]
                                       ELSE IF i <= Len(s) THEN s[i] ELSE P!Zero
    BY <1>2, IsOver
  <1> HIDE DEF o, r
  <1>5. /\ l \in Seq(B) /\ Len(l) = P!Larger(Len(o), p + Len(b))
        /\ \A i \in 1..Len(l) : l[i] = IF i > p /\ i <= p + Len(b) THEN b[i - p]
                                       ELSE IF i <= Len(o) THEN o[i] ELSE P!Zero
    BY <1>2, <1>3, IsOver
  <1> HIDE DEF l
  <1>6. Len(l) = Len(r)
    BY <1>1, <1>2, <1>3, <1>4, <1>5 DEF P!Larger
  <1>7. ASSUME NEW i \in 1..Len(l)
        PROVE  l[i] = r[i]
    <2>1. CASE i > p /\ i <= p + Len(b)
      BY <1>4, <1>5, <1>6, <2>1
    <2>2. CASE ~(i > p /\ i <= p + Len(b))
      <3>1. l[i] = (IF i <= Len(o) THEN o[i] ELSE P!Zero) /\ r[i] = (IF i <= Len(s) THEN s[i] ELSE P!Zero)
        BY <1>4, <1>5, <1>6, <2>2
      <3>2. ~(i > p /\ i <= p + n) /\ (i <= Len(s) => i <= Len(o)) /\ i \in Nat \ {0}
        BY <1>1, <1>2, <1>3, <2>2 DEF P!Larger
      <3>3. i <= Len(o) => o[i] = IF i <= Len(s) THEN s[i] ELSE P!Zero
        BY <1>3, <3>2
      <3>4. QED
        BY <3>1, <3>2, <3>3
    <2>3. QED
      BY <2>1, <2>2
  <1>8. QED
    BY <1>4, <1>5, <1>6, <1>7, SameSeq DEF l, r, o, f

\* A slice of no bytes is empty.
LEMMA SliceOfNothing ==
  ASSUME NEW s, NEW p \in Nat
  PROVE  P!Slice(s, p, 0) = <<>>
  <1>1. P!Slice(s, p, 0) = SubSeq(s, p + 1, p)
    BY DEF P!Slice
  <1>2. QED
    BY <1>1

-----------------------------------------------------------------------------
(* The invariant.                                                           *)

Ops == {"get", "read", "getline", "scan", "write", "flush", "seek", "close", "detach", "unget"}
Pcs == {"refused", "settle", "body", "drain", "through", "fill", "direct", "stat", "written", "failed"}

FileTypes ==
  /\ content \in Seq(B) /\ held \in Seq(B) /\ off \in Nat
  /\ seekable \in BOOLEAN /\ writing \in BOOLEAN

\* What a call has, by its kind.
CallTypes ==
  call # P!NoCall =>
    /\ call = [op |-> call.op, arg |-> call.arg, got |-> call.got, pc |-> call.pc, next |-> call.next]
    /\ call.op \in Ops /\ call.pc \in Pcs /\ call.got \in Seq(B)
    /\ call.op \in {"scan", "write", "unget"} => call.arg \in Seq(B)
    /\ call.op = "read" => call.arg \in Nat \ {0}
    /\ call.op = "seek" => call.arg \in [whence : {"set", "cur", "end"}, off : Int]

\* Which way round the buffer is, and what is left in it, where a call waits.
Places ==
  call # P!NoCall =>
    /\ call.next = "settle" <=> call.op \in {"get", "read", "getline"}
    /\ call.next \in {"settle", "body", "written"}
    /\ call.next = "written" \/ call.pc = "written" => call.arg = <<>> /\ call.op = "write" /\ writing
    /\ call.pc = "settle" => call.op \in {"get", "read", "getline", "write"}
    /\ call.pc = "body" => /\ call.op \in Reads \cup {"unget"} => ~writing
                           /\ call.op = "write" => writing
                           /\ call.op \in {"flush", "seek", "close", "detach"} => ~writing \/ held = <<>>
    /\ call.pc = "drain" => writing
    /\ call.pc = "through" => call.op = "write" /\ writing /\ held = <<>>
    /\ call.pc = "fill" => /\ call.op \in Reads /\ ~writing
                           /\ held \in {<<>>, <<"h">>} /\ (held # <<>> => call.op = "get")
    /\ call.pc = "direct" => call.op = "read" /\ ~writing /\ held = <<>>
    /\ call.pc = "stat" => call.op = "seek" /\ call.arg.whence = "end" /\ ~writing /\ held = <<>>
    /\ call.pc = "failed" => call.op = "close"
    /\ call.op = "scan" => ~writing
    /\ call.op = "unget" => call.pc = "body"
    /\ call.got # <<>> => call.op = "getline" /\ call.pc \in {"fill", "body"} /\ off <= Len(content)

\* These bytes are the ones of c before its position p.
Behind(c, bytes, p) ==
  /\ Len(bytes) <= p
  /\ bytes # <<>> => p <= Len(c)
  /\ \A i \in 1..Len(bytes) : c[p - Len(bytes) + i] = bytes[i]

\* What was read ahead is what is before the descriptor's position, and the
\* rune that may go back is what is before the program's.
Ahead == ~writing => Behind(content, held, off)

Lit == {<<"rune", "a">>, <<"rune", "h", "t">>}
Ungettable ==
  /\ call = P!NoCall /\ answer \in Lit => ~writing /\ Behind(content, Tail(answer), off - Len(held))
  /\ call # P!NoCall /\ call.op = "unget" => Behind(content, call.arg, off - Len(held))

FileInv == FileTypes /\ CallTypes /\ Places /\ Ahead /\ Ungettable

-----------------------------------------------------------------------------
(* The steps of the plain file, in the state of the buffered one.           *)

\* Nothing of the plain file changes.
Same == UNCHANGED <<seekable, Image, Position, Progress, answer>>

\* A step that shows nothing of the plain file is a stutter of its.
LEMMA Stutters ==
  ASSUME Same
  PROVE  UNCHANGED Plain!abstract
  BY DEF Same, Plain!abstract

\* A call of the plain file ends with the answer a.
CallEnds(a) == Progress # P!NoCall /\ Progress' = P!NoCall /\ answer' = a /\ UNCHANGED seekable

\* The plain file's operators are the same ones under the mapping.
LEMMA SameOperators ==
  /\ \A s, p, b : Plain!Over(s, p, b) = P!Over(s, p, b)
  /\ \A s, n : Plain!Front(s, n) = P!Front(s, n) /\ Plain!After(s, n) = P!After(s, n)
  /\ \A s, m, n : Plain!Slice(s, m, n) = P!Slice(s, m, n)
  /\ \A s, p : Plain!RuneAt(s, p) = P!RuneAt(s, p) /\ Plain!WidthAt(s, p) = P!WidthAt(s, p)
  /\ \A s : Plain!Line(s) = P!Line(s)
  <1>3. \A s, n : Plain!Front(s, n) = P!Front(s, n) /\ Plain!After(s, n) = P!After(s, n)
    BY DEF Plain!Front, P!Front, Plain!After, P!After
  <1>4. \A s, m, n : Plain!Slice(s, m, n) = P!Slice(s, m, n)
    BY DEF Plain!Slice, P!Slice
  <1>5. \A s, p, b : Plain!Over(s, p, b) = P!Over(s, p, b)
    BY Zenon DEF Plain!Over, P!Over, Plain!Larger, P!Larger, Plain!Zero, P!Zero
  <1>6. \A s : Plain!Width(s) = P!Width(s)
    BY DEF Plain!Width, P!Width
  <1>7. \A s : Plain!Rune(s) = P!Rune(s)
    BY <1>3, <1>6, Zenon DEF Plain!Rune, P!Rune
  <1>8. \A s, p : Plain!RuneAt(s, p) = P!RuneAt(s, p) /\ Plain!WidthAt(s, p) = P!WidthAt(s, p)
    BY <1>3, <1>6, <1>7, Zenon DEF Plain!RuneAt, P!RuneAt, Plain!WidthAt, P!WidthAt
  <1>9. \A s : Plain!Valid(s) = P!Valid(s)
    BY DEF Plain!Valid, P!Valid
  <1>10. \A s : Plain!Line(s) = P!Line(s)
    BY <1>9, Zenon DEF Plain!Line, P!Line, Plain!Error, P!Error
  <1>11. QED
    BY <1>3, <1>4, <1>5, <1>8, <1>10

\* The plain file's constants are the same ones under the mapping.
LEMMA NoCallSame == Plain!NoCall = P!NoCall /\ Plain!NoAnswer = P!NoAnswer /\ Plain!Error = P!Error
                    /\ Plain!Newline = P!Newline
  BY DEF Plain!NoCall, P!NoCall, Plain!NoAnswer, P!NoAnswer, Plain!Error, P!Error, Plain!Newline, P!Newline

\* A call that begins is one begun on the plain file.
LEMMA Begins ==
  ASSUME UNCHANGED <<seekable, Image, Position, answer>>, Progress = P!NoCall,
         Progress' # P!NoCall, Progress'.got = <<>>
  PROVE  Plain!Next
  <1>1. Plain!Begin
    BY NoCallSame DEF Plain!Begin
  <1>2. QED
    BY <1>1 DEF Plain!Next

\* get_rune's answer is the plain file's rune at the position.
LEMMA GetReturns ==
  ASSUME CallEnds(<<"rune">> \o P!RuneAt(Image, Position)), Progress.op = "get",
         UNCHANGED Image, Position < Len(Image), Position' = Position + P!WidthAt(Image, Position)
  PROVE  Plain!Next
  <1>1. Plain!GetDone
    BY NoCallSame, SameOperators DEF Plain!GetDone, Plain!Ends, CallEnds
  <1>2. QED
    BY <1>1 DEF Plain!Next, CallEnds

\* unget_rune steps back over the bytes it was given.
LEMMA UngetReturns ==
  ASSUME CallEnds(<<>>), Progress.op = "unget", UNCHANGED Image, Position >= Len(Progress.arg),
         Position' = Position - Len(Progress.arg), P!Slice(Image, Position', Len(Progress.arg)) = Progress.arg
  PROVE  Plain!Next
  <1>1. Plain!UngetDone
    BY NoCallSame, SameOperators DEF Plain!UngetDone, Plain!Ends, CallEnds
  <1>2. QED
    BY <1>1 DEF Plain!Next, CallEnds

\* read's answer is a non-empty piece of the plain file at the position.
LEMMA ReadReturns ==
  ASSUME NEW n \in 1..Progress.arg, CallEnds(P!Slice(Image, Position, n)), Progress.op = "read",
         UNCHANGED Image, Position + n <= Len(Image), Position' = Position + n
  PROVE  Plain!Next
  <1>1. Plain!ReadDone
    BY NoCallSame, SameOperators DEF Plain!ReadDone, Plain!Ends, CallEnds
  <1>2. QED
    BY <1>1 DEF Plain!Next, CallEnds

\* A scan takes the byte at the position if it is the one asked for, and leaves it otherwise.
LEMMA ScanReturns ==
  ASSUME NEW a, CallEnds(a), Progress.op = "scan", UNCHANGED Image, Position < Len(Image),
         \/ P!Slice(Image, Position, 1) = Progress.arg /\ a = Progress.arg /\ Position' = Position + 1
         \/ P!Slice(Image, Position, 1) # Progress.arg /\ a = <<>> /\ Position' = Position
  PROVE  Plain!Next
  <1>1. Plain!ScanDone
    BY NoCallSame, SameOperators DEF Plain!ScanDone, Plain!Ends, CallEnds
  <1>2. QED
    BY <1>1 DEF Plain!Next, CallEnds

\* A piece of a line with no newline in it is one more piece of the call.
LEMMA LineGoesOn ==
  ASSUME NEW s, s = P!Slice(Image, Position, Position' - Position),
         Progress.op = "getline", Position' \in (Position + 1)..Len(Image),
         P!Newline \notin {s[i] : i \in DOMAIN s},
         Progress' = [Progress EXCEPT !.got = @ \o s], UNCHANGED <<seekable, Image, answer>>
  PROVE  Plain!Next
  <1>1. Plain!LineMore
    BY NoCallSame, SameOperators DEF Plain!LineMore
  <1>2. QED
    BY <1>1 DEF Plain!Next

\* A line that ends in a newline is handed over without it, or is malformed.
LEMMA LineReturns ==
  ASSUME NEW s, s = P!Slice(Image, Position, Position' - Position - 1),
         CallEnds(P!Line(Progress.got \o s)), Progress.op = "getline", UNCHANGED Image,
         Position' \in (Position + 1)..Len(Image), Image[Position'] = P!Newline,
         P!Newline \notin {s[i] : i \in DOMAIN s}
  PROVE  Plain!Next
  <1>1. Plain!LineDone
    BY NoCallSame, SameOperators DEF Plain!LineDone, Plain!Ends, CallEnds
  <1>2. QED
    BY <1>1 DEF Plain!Next, CallEnds

\* A last line with no newline is handed over at the end of the file, likewise.
LEMMA LastLineReturns ==
  ASSUME CallEnds(P!Line(Progress.got)), Progress.op = "getline", UNCHANGED <<Image, Position>>,
         Position = Len(Image), Progress.got # <<>>
  PROVE  Plain!Next
  <1>1. Plain!LineDone
    BY NoCallSame, SameOperators DEF Plain!LineDone, Plain!Ends, CallEnds
  <1>2. QED
    BY <1>1 DEF Plain!Next, CallEnds

\* A piece of the bytes is put over the plain file, and the rest stays to be written.
LEMMA WriteGoesOn ==
  ASSUME NEW n \in 1..Len(Progress.arg), Progress.op = "write", UNCHANGED <<seekable, answer>>,
         Image' = P!Over(Image, Position, P!Front(Progress.arg, n)), Position' = Position + n,
         Progress' = [Progress EXCEPT !.arg = P!After(@, n)]
  PROVE  Plain!Next
  <1>1. Plain!WriteMore
    BY SameOperators DEF Plain!WriteMore
  <1>2. QED
    BY <1>1 DEF Plain!Next

\* The last bytes of a call are put over the plain file, and the call is done.
LEMMA WriteReturns ==
  ASSUME CallEnds(<<>>), Progress.op = "write",
         Image' = P!Over(Image, Position, Progress.arg), Position' = Position + Len(Progress.arg)
  PROVE  Plain!Next
  <1>1. Plain!WriteDone
    BY NoCallSame, SameOperators DEF Plain!WriteDone, Plain!Ends, CallEnds
  <1>2. QED
    BY <1>1 DEF Plain!Next, CallEnds

\* A seek from the end, between giving back what was read ahead and the answer of stat.
LEMMA SeekLosesPlace ==
  ASSUME Progress.op = "seek", Progress.arg.whence = "end", Position' >= Position,
         UNCHANGED <<seekable, Image, Progress, answer>>
  PROVE  Plain!Next
  <1>1. Plain!SeekLeaves
    BY DEF Plain!SeekLeaves
  <1>2. QED
    BY <1>1 DEF Plain!Next

\* A seek leaves the position where its argument says.
LEMMA SeekReturns ==
  ASSUME CallEnds(<<>>), Progress.op = "seek", UNCHANGED Image, Position' >= 0,
         Position' = CASE Progress.arg.whence = "set" -> Progress.arg.off
                       [] Progress.arg.whence = "cur" -> Position + Progress.arg.off
                       [] OTHER -> Len(Image) + Progress.arg.off
  PROVE  Plain!Next
  <1>1. Position' = Plain!Target
    BY DEF Plain!Target
  <1>2. Plain!SeekDone
    BY <1>1, NoCallSame DEF Plain!SeekDone, Plain!Ends, CallEnds
  <1>3. QED
    BY <1>2 DEF Plain!Next, CallEnds

\* flush, detach and close show nothing of the bytes.
LEMMA OtherReturns ==
  ASSUME CallEnds(<<>>), Progress.op \in {"flush", "detach", "close"}, UNCHANGED Image,
         Progress.op # "close" => UNCHANGED Position
  PROVE  Plain!Next
  <1>1. Plain!OtherDone
    BY NoCallSame DEF Plain!OtherDone, Plain!Ends, CallEnds
  <1>2. QED
    BY <1>1 DEF Plain!Next, CallEnds

\* A call that fails leaves the bytes and the position it had, a seek and a close aside.
LEMMA CallFails ==
  ASSUME CallEnds(P!Error),
         \/ UNCHANGED <<Image, Position>>
         \/ Progress.op = "seek" /\ Position' >= Position /\ UNCHANGED Image
         \/ Progress.op = "close"
  PROVE  Plain!Next
  <1>1. Plain!Fails
    BY NoCallSame DEF Plain!Fails, Plain!Ends, CallEnds
  <1>2. QED
    BY <1>1 DEF Plain!Next, CallEnds

\* A dropped call: part of its bytes may be written, or bytes of a pipe lost.
LEMMA CallDropped ==
  ASSUME CallEnds(P!NoAnswer), UNCHANGED Position,
         \/ UNCHANGED Image
         \/ /\ Progress.op = "write"
            /\ \E n \in 1..Len(Progress.arg) : Image' = P!Over(Image, Position, P!Front(Progress.arg, n))
         \/ /\ ~seekable
            /\ \E p, q \in Position..Len(Image) : p < q /\ Image' = P!Front(Image, p) \o P!After(Image, q)
  PROVE  Plain!Next
  <1>1. Plain!Dropped
    BY NoCallSame, SameOperators DEF Plain!Dropped, Plain!Ends, CallEnds
  <1>2. QED
    BY <1>1 DEF Plain!Next, CallEnds

-----------------------------------------------------------------------------
(* What the calls' records are, and the two ways a step leaves them.        *)

\* A call made of its parts.
Made(c, kind, arg, got, pc, next) ==
  c = [op |-> kind, arg |-> arg, got |-> got, pc |-> pc, next |-> next]

\* A record of a call is made of its parts, and is not the one of no call.
LEMMA Shape ==
  ASSUME FileInv
  PROVE  /\ call.op = "none" <=> call = P!NoCall
         /\ call # P!NoCall => call.op \in Ops /\ Made(call, call.op, call.arg, call.got, call.pc, call.next)
         /\ call # P!NoCall => Progress = [op |-> call.op, arg |-> call.arg, got |-> call.got]
         /\ call # P!NoCall => Progress # P!NoCall
  <1>1. CASE call = P!NoCall
    BY <1>1 DEF P!NoCall
  <1>2. CASE call # P!NoCall
    <2>1. call.op \in Ops /\ Made(call, call.op, call.arg, call.got, call.pc, call.next)
      BY <1>2 DEF FileInv, CallTypes, Made
    <2>2. call.op # "none"
      BY <2>1 DEF Ops
    <2>3. Progress = [op |-> call.op, arg |-> call.arg, got |-> call.got]
      BY <2>2 DEF Progress
    <2>4. Progress # P!NoCall
      <3>1. Progress.op = call.op
        BY <2>3
      <3>2. P!NoCall.op = "none"
        BY DEF P!NoCall
      <3>3. QED
        BY <2>2, <3>1, <3>2
    <2>5. QED
      BY <1>2, <2>1, <2>2, <2>3, <2>4
  <1>3. QED
    BY <1>1, <1>2

\* The parts of a call made of them.
LEMMA MadeIs ==
  ASSUME NEW c, NEW kind \in Ops, NEW arg, NEW got, NEW pc, NEW next, Made(c, kind, arg, got, pc, next)
  PROVE  /\ c.op = kind /\ c.arg = arg /\ c.got = got /\ c.pc = pc /\ c.next = next
         /\ c # P!NoCall /\ c.op # "none"
  <1>1. c.op = kind /\ c.arg = arg /\ c.got = got /\ c.pc = pc /\ c.next = next
    BY DEF Made
  <1>2. kind # "none"
    BY DEF Ops
  <1>3. P!NoCall.op = "none"
    BY DEF P!NoCall
  <1>4. QED
    BY <1>1, <1>2, <1>3

\* A step inside a call, which changes what it has of its record.
LEMMA CallMoves ==
  ASSUME FileInv, call # P!NoCall, UNCHANGED answer,
         NEW arg, NEW got, NEW pc, NEW next, Made(call', call.op, arg, got, pc, next),
         pc \in Pcs, got \in Seq(B),
         arg = call.arg \/ (call.op = "write" /\ arg \in Seq(B))
  PROVE  /\ CallTypes'
         /\ call' # P!NoCall
         /\ call'.op = call.op /\ call'.arg = arg /\ call'.got = got /\ call'.pc = pc /\ call'.next = next
         /\ Progress' = [op |-> call.op, arg |-> arg, got |-> got]
  <1>1. call.op \in Ops /\ CallTypes
    BY Shape DEF FileInv
  <1>2. /\ call'.op = call.op /\ call'.arg = arg /\ call'.got = got /\ call'.pc = pc /\ call'.next = next
        /\ call' # P!NoCall /\ call'.op # "none"
    BY <1>1, MadeIs
  <1>3. call' = [op |-> call'.op, arg |-> call'.arg, got |-> call'.got, pc |-> call'.pc, next |-> call'.next]
    BY <1>2 DEF Made
  <1>4. CallTypes'
    BY <1>1, <1>2, <1>3 DEF CallTypes
  <1>5. Progress' = [op |-> call.op, arg |-> arg, got |-> got]
    BY <1>2 DEF Progress
  <1>6. QED
    BY <1>2, <1>4, <1>5

\* A step that only moves the program counter keeps the rest of the call.
LEMMA PcMoves ==
  ASSUME FileInv, call # P!NoCall, NEW pc, Goto(pc), pc \in Pcs
  PROVE  /\ CallTypes'
         /\ call' # P!NoCall
         /\ call'.op = call.op /\ call'.arg = call.arg /\ call'.got = call.got /\ call'.pc = pc
         /\ call'.next = call.next
         /\ Progress' = Progress /\ UNCHANGED answer
  <1>1. Made(call, call.op, call.arg, call.got, call.pc, call.next) /\ call.got \in Seq(B)
    BY Shape DEF FileInv, CallTypes
  <1>2. Made(call', call.op, call.arg, call.got, pc, call.next) /\ UNCHANGED answer
    BY <1>1 DEF Goto, Made
  <1>3. Progress = [op |-> call.op, arg |-> call.arg, got |-> call.got]
    BY Shape
  <1>4. QED
    BY <1>1, <1>2, <1>3, CallMoves

\* A call that returns leaves nothing to say but of the buffer, and of a rune.
LEMMA CallReturns ==
  ASSUME FileInv, call # P!NoCall, NEW a, Return(a), UNCHANGED seekable
  PROVE  /\ CallTypes' /\ Places' /\ call' = P!NoCall
         /\ CallEnds(a)
         /\ a \notin Lit => Ungettable'
  <1>1. call' = P!NoCall /\ answer' = a
    BY DEF Return
  <1>2. call'.op = "none"
    BY <1>1 DEF P!NoCall
  <1>3. Progress' = P!NoCall
    BY <1>1, <1>2 DEF Progress
  <1>4. Progress # P!NoCall
    BY Shape
  <1>5. QED
    BY <1>1, <1>3, <1>4 DEF CallTypes, Places, Ungettable, CallEnds

\* An error, a bad rune, plain bytes and a line are not a rune that may go back.
LEMMA NotLit ==
  /\ P!Error \notin Lit /\ P!NoAnswer \notin Lit /\ <<"rune">> \o <<"bad">> \notin Lit
  /\ \A s \in Seq(B) : s \notin Lit /\ P!Line(s) \notin Lit
  <1>1. P!Error \notin Lit /\ P!NoAnswer \notin Lit
    BY DEF P!Error, P!NoAnswer, Lit
  <1>2. <<"rune">> \o <<"bad">> \notin Lit
    <2>1. (<<"rune">> \o <<"bad">>)[2] = "bad"
      OBVIOUS
    <2>2. \A l \in Lit : l[2] \in {"a", "h"}
      BY DEF Lit
    <2>3. QED
      BY <2>1, <2>2
  <1>3. ASSUME NEW s \in Seq(B), s \in Lit
        PROVE  FALSE
    <2>1. s[1] = "rune" /\ Len(s) \in {2, 3}
      BY <1>3 DEF Lit
    <2>2. s[1] \in B
      BY <2>1
    <2>3. "rune" \notin B
      BY DEF B, P!Byte, P!Newline, P!Zero
    <2>4. QED
      BY <2>1, <2>2, <2>3
  <1>4. \A s : P!Line(s) \in {s, P!Error}
    BY Zenon DEF P!Line
  <1>5. QED
    BY <1>1, <1>2, <1>3, <1>4

-----------------------------------------------------------------------------
(* Bytes that are before a position.                                        *)

\* A slice of the file within what is behind a position is a front of it.
LEMMA BehindSlice ==
  ASSUME NEW c \in Seq(B), NEW b \in Seq(B), NEW p \in Nat, Behind(c, b, p), b # <<>>,
         NEW n \in 0..Len(b)
  PROVE  /\ p - Len(b) \in Nat /\ (p - Len(b)) + n <= Len(c) /\ p <= Len(c)
         /\ P!Slice(c, p - Len(b), n) = P!Front(b, n)
         /\ \A i \in 1..Len(b) : c[p - Len(b) + i] = b[i]
  <1> DEFINE m == p - Len(b)
  <1>1. m \in Nat /\ m + n <= Len(c) /\ n \in Nat /\ p <= Len(c) /\ n <= Len(b)
    BY DEF Behind
  <1>2. \A i \in 1..Len(b) : c[m + i] = b[i]
    BY DEF Behind
  <1> HIDE DEF m
  <1>3. /\ P!Slice(c, m, n) \in Seq(B) /\ Len(P!Slice(c, m, n)) = n
        /\ \A i \in 1..n : P!Slice(c, m, n)[i] = c[m + i]
    BY <1>1, IsSlice
  <1>4. /\ P!Front(b, n) \in Seq(B) /\ Len(P!Front(b, n)) = n
        /\ \A i \in 1..n : P!Front(b, n)[i] = b[i]
    BY IsFront
  <1>5. \A i \in 1..n : P!Slice(c, m, n)[i] = P!Front(b, n)[i]
    BY <1>1, <1>2, <1>3, <1>4
  <1>6. P!Slice(c, m, n) = P!Front(b, n)
    BY <1>3, <1>4, <1>5, SameSeq
  <1>7. QED
    BY <1>1, <1>2, <1>6 DEF m

\* No bytes are behind any position.
LEMMA BehindNothing ==
  ASSUME NEW c, NEW p \in Nat
  PROVE  Behind(c, <<>>, p)
  BY DEF Behind

\* What is left of bytes behind a position is behind it.
LEMMA BehindAfter ==
  ASSUME NEW c \in Seq(B), NEW b \in Seq(B), NEW p \in Nat, Behind(c, b, p), NEW n \in 0..Len(b)
  PROVE  /\ Behind(c, P!After(b, n), p)
         /\ Behind(c, P!Front(b, n), p - Len(P!After(b, n)))
  <1> DEFINE a == P!After(b, n)
             f == P!Front(b, n)
             k == Len(b)
  <1>1. a \in Seq(B) /\ Len(a) = k - n /\ \A i \in 1..(k - n) : a[i] = b[n + i]
    BY IsAfter
  <1>2. f \in Seq(B) /\ Len(f) = n /\ \A i \in 1..n : f[i] = b[i]
    BY IsFront
  <1>3. k \in Nat /\ n \in Nat /\ n <= k /\ k <= p /\ (k > 0 => p <= Len(c)) /\ \A i \in 1..k : c[(p - k) + i] = b[i]
    BY EmptySeq DEF Behind
  <1> HIDE DEF a, f, k
  <1>4. Behind(c, a, p)
    <2>1. ASSUME NEW i \in 1..Len(a)
          PROVE  c[p - Len(a) + i] = a[i]
      <3>1. n + i \in 1..k /\ (p - k) + (n + i) = p - Len(a) + i /\ i \in 1..(k - n)
        BY <1>1, <1>3
      <3>2. c[(p - k) + (n + i)] = b[n + i] /\ a[i] = b[n + i]
        BY <1>1, <1>3, <3>1
      <3>3. QED
        BY <3>1, <3>2
    <2>2. a # <<>> => k > 0
      BY <1>1, <1>3, EmptySeq
    <2>3. QED
      BY <1>1, <1>3, <2>1, <2>2 DEF Behind
  <1>5. Behind(c, f, p - Len(a))
    <2>1. ASSUME NEW i \in 1..Len(f)
          PROVE  c[(p - Len(a)) - Len(f) + i] = f[i]
      <3>1. i \in 1..k /\ (p - Len(a)) - Len(f) + i = (p - k) + i /\ i \in 1..n
        BY <1>1, <1>2, <1>3
      <3>2. c[(p - k) + i] = b[i] /\ f[i] = b[i]
        BY <1>2, <1>3, <3>1
      <3>3. QED
        BY <3>1, <3>2
    <2>2. f # <<>> => k > 0
      BY <1>2, <1>3, EmptySeq
    <2>3. Len(f) <= p - Len(a) /\ (k > 0 => p - Len(a) <= Len(c))
      BY <1>1, <1>2, <1>3
    <2>4. QED
      BY <2>1, <2>2, <2>3 DEF Behind
  <1>6. QED
    BY <1>4, <1>5 DEF a, f

\* Bytes behind bytes that are behind a position.
LEMMA BehindConcat ==
  ASSUME NEW c \in Seq(B), NEW a \in Seq(B), NEW b \in Seq(B), NEW p \in Nat,
         Behind(c, b, p), Behind(c, a, p - Len(b))
  PROVE  Behind(c, a \o b, p)
  <1> DEFINE ab == a \o b
             k == Len(a)
             m == Len(b)
  <1>1. /\ ab \in Seq(B) /\ Len(ab) = k + m
        /\ \A i \in 1..k : ab[i] = a[i]
        /\ \A i \in 1..m : ab[k + i] = b[i]
    BY IsConcat
  <1>2. /\ k \in Nat /\ m \in Nat /\ m <= p /\ k <= p - m
        /\ (m > 0 => p <= Len(c)) /\ (k > 0 => p - m <= Len(c))
        /\ \A i \in 1..m : c[(p - m) + i] = b[i]
        /\ \A i \in 1..k : c[((p - m) - k) + i] = a[i]
    BY EmptySeq DEF Behind
  <1> HIDE DEF ab, k, m
  <1>3. ASSUME NEW i \in 1..Len(ab)
        PROVE  c[p - Len(ab) + i] = ab[i]
    <2>1. CASE i <= k
      <3>1. i \in 1..k /\ p - Len(ab) + i = ((p - m) - k) + i
        BY <1>1, <1>2, <2>1
      <3>2. QED
        BY <1>1, <1>2, <3>1
    <2>2. CASE i > k
      <3>1. i - k \in 1..m /\ p - Len(ab) + i = (p - m) + (i - k) /\ i = k + (i - k)
        BY <1>1, <1>2, <2>2
      <3>2. ab[k + (i - k)] = b[i - k] /\ c[(p - m) + (i - k)] = b[i - k]
        BY <1>1, <1>2, <3>1
      <3>3. QED
        BY <3>1, <3>2
    <2>3. i \in Nat
      OBVIOUS
    <2>4. QED
      BY <1>2, <2>1, <2>2, <2>3
  <1>4. Len(ab) <= p
    BY <1>1, <1>2
  <1>5. ab # <<>> => p <= Len(c)
    <2>1. ab # <<>> => k > 0 \/ m > 0
      BY <1>1, <1>2, EmptySeq
    <2>2. m = 0 => p - m = p
      OBVIOUS
    <2>3. QED
      BY <1>2, <2>1, <2>2
  <1>6. QED
    BY <1>3, <1>4, <1>5 DEF Behind, ab

\* Bytes read from the position on are behind the position they leave.
LEMMA BehindMore ==
  ASSUME NEW c \in Seq(B), NEW b \in Seq(B), NEW p \in Nat, Behind(c, b, p),
         NEW n \in Nat \ {0}, p + n <= Len(c)
  PROVE  /\ b \o P!Slice(c, p, n) \in Seq(B)
         /\ Len(b \o P!Slice(c, p, n)) = Len(b) + n
         /\ Behind(c, b \o P!Slice(c, p, n), p + n)
  <1> DEFINE s == P!Slice(c, p, n)
             q == p + n
  <1>1. s \in Seq(B) /\ Len(s) = n /\ \A i \in 1..n : s[i] = c[p + i]
    BY IsSlice
  <1> HIDE DEF s
  <1>2. q \in Nat /\ q - Len(s) = p /\ q <= Len(c)
    BY <1>1
  <1>3. Behind(c, s, q)
    <2>1. \A i \in 1..Len(s) : c[q - Len(s) + i] = s[i]
      BY <1>1, <1>2
    <2>2. Len(s) <= q
      BY <1>1
    <2>3. QED
      BY <1>2, <2>1, <2>2 DEF Behind
  <1>4. Behind(c, b, q - Len(s))
    BY <1>2
  <1> HIDE DEF q
  <1>5. Behind(c, b \o s, q)
    BY <1>1, <1>2, <1>3, <1>4, BehindConcat
  <1>6. b \o s \in Seq(B) /\ Len(b \o s) = Len(b) + n
    BY <1>1, IsConcat
  <1>7. QED
    BY <1>5, <1>6 DEF s, q

\* Where nothing before p changes, what is behind p stays there.
LEMMA BehindStays ==
  ASSUME NEW c \in Seq(B), NEW d \in Seq(B), NEW b \in Seq(B), NEW p \in Nat, Behind(c, b, p),
         p <= Len(d), \A i \in 1..p : i <= Len(c) => d[i] = c[i]
  PROVE  Behind(d, b, p)
  <1>1. Len(b) \in Nat /\ Len(b) <= p /\ (b # <<>> => p <= Len(c))
        /\ \A i \in 1..Len(b) : c[p - Len(b) + i] = b[i]
    BY DEF Behind
  <1>2. ASSUME NEW i \in 1..Len(b)
        PROVE  d[p - Len(b) + i] = b[i]
    <2>1. b # <<>> /\ p - Len(b) + i \in 1..p
      BY <1>1
    <2>2. p - Len(b) + i <= Len(c)
      BY <1>1, <2>1
    <2>3. QED
      BY <1>1, <2>1, <2>2
  <1>3. QED
    BY <1>1, <1>2 DEF Behind

\* A rune that is all there is the same with more bytes after it.
LEMMA RuneAhead ==
  ASSUME NEW s \in Seq(B), P!Width(s) # 0
  PROVE  /\ P!Width(s) \in 1..Len(s) /\ s # <<>>
         /\ \A t \in Seq(B) : Len(s) <= Len(t) /\ (\A i \in 1..Len(s) : t[i] = s[i])
                                => t # <<"h">> /\ P!Width(t) = P!Width(s) /\ P!Rune(t) = P!Rune(s)
  <1> DEFINE k == Len(s)
  <1>1. s # <<>> /\ s # <<"h">> /\ k \in Nat /\ k > 0
    BY EmptySeq DEF P!Width
  <1>11. k \in Nat /\ k # 0
    BY <1>1
  <1>10. k = 1 \/ k > 1
    <2>1. \A x \in Nat : x # 0 => x = 1 \/ x > 1
      OBVIOUS
    <2>2. QED
      BY <1>11, <2>1, Zenon
  <1>2. P!Width(s) = IF s[1] = "h" /\ s[2] = "t" THEN 2 ELSE 1
    BY <1>1 DEF P!Width
  <1>3. k = 1 => s[1] # "h"
    <2>1. ASSUME k = 1, s[1] = "h" PROVE FALSE
      <3>1. <<"h">> \in Seq(B) /\ Len(<<"h">>) = 1 /\ <<"h">>[1] = "h"
        BY DEF B, P!Byte
      <3>2. s = <<"h">>
        BY <2>1, <3>1, SameSeq
      <3>3. QED
        BY <1>1, <3>2
    <2>2. QED
      BY <2>1
  <1>4. P!Width(s) \in 1..k
    <2>1. CASE s[1] = "h" /\ s[2] = "t"
      <3>1. k > 1 /\ P!Width(s) = 2
        BY <1>2, <1>3, <1>10, <2>1
      <3>2. QED
        BY <1>1, <3>1
    <2>2. CASE ~(s[1] = "h" /\ s[2] = "t")
      <3>1. P!Width(s) = 1
        BY <1>2, <2>2
      <3>2. QED
        BY <1>1, <3>1
    <2>3. QED
      BY <2>1, <2>2
  <1>5. ASSUME NEW t \in Seq(B), k <= Len(t), \A i \in 1..k : t[i] = s[i]
        PROVE  t # <<"h">> /\ P!Width(t) = P!Width(s) /\ P!Rune(t) = P!Rune(s)
    <2>1. t[1] = s[1] /\ (k > 1 => t[2] = s[2])
      BY <1>1, <1>5
    <2>2. t # <<"h">>
      <3>1. ASSUME t = <<"h">> PROVE FALSE
        <4>1. Len(t) = 1 /\ t[1] = "h"
          BY <3>1
        <4>2. k = 1
          BY <1>1, <1>5, <4>1
        <4>3. QED
          BY <1>3, <2>1, <4>1, <4>2
      <3>2. QED
        BY <3>1
    <2>3. t # <<>>
      BY <1>1, <1>5, EmptySeq
    <2>4. P!Width(t) = IF t[1] = "h" /\ t[2] = "t" THEN 2 ELSE 1
      BY <2>2, <2>3 DEF P!Width
    <2>5. P!Width(t) = P!Width(s)
      <3>1. CASE k = 1
        BY <1>2, <1>3, <2>1, <2>4, <3>1
      <3>2. CASE k > 1
        BY <1>2, <2>1, <2>4, <3>2
      <3>3. k = 1 \/ k > 1
        BY <1>10
      <3>4. QED
        BY <3>1, <3>2, <3>3
    <2>6. P!Front(t, P!Width(s)) = P!Front(s, P!Width(s))
      <3> DEFINE w == P!Width(s)
      <3>1. w \in 0..k /\ w \in 0..Len(t)
        BY <1>1, <1>4, <1>5
      <3> HIDE DEF w
      <3>2. P!Front(t, w) \in Seq(B) /\ Len(P!Front(t, w)) = w /\ \A i \in 1..w : P!Front(t, w)[i] = t[i]
        BY <3>1, IsFront
      <3>3. P!Front(s, w) \in Seq(B) /\ Len(P!Front(s, w)) = w /\ \A i \in 1..w : P!Front(s, w)[i] = s[i]
        BY <3>1, IsFront
      <3>4. \A i \in 1..w : P!Front(t, w)[i] = P!Front(s, w)[i]
        <4>1. ASSUME NEW i \in 1..w PROVE i \in 1..k
          BY <1>1, <3>1
        <4>2. \A i \in 1..w : t[i] = s[i]
          BY <1>5, <4>1
        <4>3. QED
          BY <3>2, <3>3, <4>2
      <3>5. P!Front(t, w) = P!Front(s, w)
        BY <3>2, <3>3, <3>4, SameSeq
      <3>6. QED
        BY <3>5 DEF w
    <2>7. P!Rune(t) = P!Rune(s)
      BY <2>1, <2>5, <2>6 DEF P!Rune
    <2>8. QED
      BY <2>2, <2>5, <2>7
  <1>6. QED
    BY <1>1, <1>4, <1>5

\* The bytes of a rune's answer are the rune.
LEMMA TailRune ==
  ASSUME NEW s \in Seq(B)
  PROVE  Tail(<<"rune">> \o s) = s
  <1> DEFINE R == B \cup {"rune"}
             r == <<"rune">> \o s
  <1>1. s \in Seq(R) /\ <<"rune">> \in Seq(R) /\ Len(<<"rune">>) = 1
    OBVIOUS
  <1>2. r \in Seq(R) /\ Len(r) = 1 + Len(s) /\ \A i \in 1..Len(s) : r[1 + i] = s[i]
    <2> HIDE DEF R
    <2>1. QED
      BY <1>1
  <1> HIDE DEF R, r
  <1>3. r # <<>> /\ Len(s) \in Nat
    BY <1>2, EmptySeq
  <1>4. Tail(r) \in Seq(R) /\ Len(Tail(r)) = Len(r) - 1 /\ \A i \in 1..Len(Tail(r)) : Tail(r)[i] = r[i + 1]
    BY <1>2, <1>3, HeadTailProperties
  <1>5. Len(Tail(r)) = Len(s) /\ \A i \in 1..Len(s) : Tail(r)[i] = s[i]
    BY <1>2, <1>3, <1>4
  <1>6. Tail(r) = s
    BY <1>1, <1>4, <1>5, SeqEqual
  <1>7. QED
    BY <1>6 DEF r

-----------------------------------------------------------------------------
(* Each step keeps the invariant, and is a step of the plain file or none.  *)

Follows == Plain!Next \/ UNCHANGED Plain!abstract

\* What the invariant says of a call that is under way.
LEMMA InCall ==
  ASSUME FileInv, NEW pc, At(pc)
  PROVE  call # P!NoCall /\ call.pc = pc /\ call.op \in Ops
  <1>1. call.op # "none" /\ call.pc = pc
    BY DEF At
  <1>2. QED
    BY <1>1, Shape

\* A step that only moves the program counter shows nothing.
LEMMA PcStep ==
  ASSUME FileInv, call # P!NoCall, NEW pc \in Pcs, Goto(pc),
         UNCHANGED <<content, off, seekable, held, writing>>, Places'
  PROVE  FileInv' /\ Follows
  <1>1. /\ CallTypes' /\ call' # P!NoCall
        /\ call'.op = call.op /\ call'.arg = call.arg
        /\ Progress' = Progress /\ UNCHANGED answer
    BY PcMoves
  <1>2. FileTypes' /\ Ahead'
    BY DEF FileInv, FileTypes, Ahead
  <1>3. Ungettable'
    BY <1>1 DEF FileInv, Ungettable
  <1>4. UNCHANGED <<Image, Position>>
    BY DEF Image, Position
  <1>5. Same
    BY <1>1, <1>4 DEF Same
  <1>6. QED
    BY <1>1, <1>2, <1>3, <1>5, Stutters DEF FileInv, Follows

\* A step at which the call fails.
LEMMA FailStep ==
  ASSUME FileInv, call # P!NoCall, Return(P!Error),
         UNCHANGED <<content, off, seekable, held, writing>>
  PROVE  FileInv' /\ Follows
  <1>1. CallTypes' /\ Places' /\ CallEnds(P!Error) /\ Ungettable'
    BY CallReturns, NotLit
  <1>2. FileTypes' /\ Ahead'
    BY DEF FileInv, FileTypes, Ahead
  <1>3. UNCHANGED <<Image, Position>>
    BY DEF Image, Position
  <1>4. QED
    BY <1>1, <1>2, <1>3, CallFails DEF FileInv, Follows

\* A call begins, or is refused at once.
LEMMA BeginStep ==
  ASSUME FileInv, NEW kind \in Ops, NEW arg, Begin(kind, arg),
         kind \in {"scan", "write", "unget"} => arg \in Seq(B),
         kind = "read" => arg \in Nat \ {0},
         kind = "seek" => arg \in [whence : {"set", "cur", "end"}, off : Int],
         kind = "scan" => ~writing,
         kind = "unget" => ~writing /\ Behind(content, arg, off - Len(held))
  PROVE  FileInv' /\ Follows
  <1> DEFINE pc == call'.pc
             next == call'.next
  <1>1. Made(call', kind, arg, <<>>, pc, next)
    BY DEF Begin, Made
  <1>2. /\ call'.op = kind /\ call'.arg = arg /\ call'.got = <<>>
        /\ call' # P!NoCall /\ call'.op # "none"
    BY <1>1, MadeIs
  <1>3. /\ call = P!NoCall
        /\ UNCHANGED <<content, off, seekable, held, writing, answer>>
    BY Shape DEF Begin, file, buf
  <1>4. next = IF kind \in {"get", "read", "getline"} THEN "settle" ELSE "body"
    BY DEF Begin
  <1>5. pc = "refused" \/ pc = FirstPc(kind)
    BY DEF Begin
  <1>6. \/ pc = "refused" /\ kind # "unget"
        \/ pc = "settle" /\ kind \in {"get", "read", "getline", "write"}
        \/ pc = "drain" /\ kind \in {"flush", "seek", "close", "detach"} /\ writing
        \/ /\ pc = "body"
           /\ kind # "write" /\ (kind \in {"get", "read", "getline"} => ~writing)
           /\ kind \in {"flush", "seek", "close", "detach"} => ~writing \/ held = <<>>
    <2>1. kind = "unget" => pc # "refused"
      <3>1. ASSUME kind = "unget"
            PROVE  kind \notin Reads \cup {"write"} /\ FirstPc(kind) = "body"
        BY <3>1 DEF Reads, FirstPc
      <3>2. QED
        BY <3>1 DEF Begin
    <2>2. QED
      BY <1>5, <2>1 DEF FirstPc, Ops
  <1>7. CallTypes'
    <2>1. pc \in Pcs
      BY <1>6 DEF Pcs
    <2>2. <<>> \in Seq(B)
      OBVIOUS
    <2>3. QED
      BY <1>1, <1>2, <2>1, <2>2 DEF CallTypes, Made
  <1>8. Places'
    BY <1>2, <1>3, <1>4, <1>6 DEF Places, Reads
  <1>9. FileTypes' /\ Ahead'
    BY <1>3 DEF FileInv, FileTypes, Ahead
  <1>10. Ungettable'
    BY <1>2, <1>3 DEF FileInv, Ungettable
  <1>11. Progress = P!NoCall /\ Progress' = [op |-> kind, arg |-> arg, got |-> <<>>] /\ Progress' # P!NoCall
    <2>1. Progress = P!NoCall
      BY <1>3, Shape DEF Progress
    <2>2. Progress' = [op |-> kind, arg |-> arg, got |-> <<>>]
      BY <1>2 DEF Progress
    <2>3. Progress'.op = kind /\ P!NoCall.op = "none" /\ kind # "none"
      BY <2>2 DEF P!NoCall, Ops
    <2>4. QED
      BY <2>1, <2>2, <2>3
  <1>12. Progress'.got = <<>>
    BY <1>11
  <1>13. UNCHANGED <<seekable, Image, Position, answer>>
    BY <1>3 DEF Image, Position
  <1>14. Plain!Next
    BY <1>11, <1>12, <1>13, Begins
  <1>15. QED
    BY <1>7, <1>8, <1>9, <1>10, <1>14 DEF FileInv, Follows

\* The same, for any of the calls.
LEMMA SomeCallStep ==
  ASSUME FileInv, SomeCall
  PROVE  FileInv' /\ Follows
  <1>1. CASE \E kind \in {"get", "getline", "flush", "close", "detach"} : Begin(kind, <<>>)
    BY <1>1, BeginStep DEF Ops
  <1>2. CASE \E n \in Counts : Begin("read", n)
    BY <1>2, BeginStep, CountsAssumption DEF Ops
  <1>3. CASE ~writing /\ Begin("scan", <<"a">>)
    <2>1. <<"a">> \in Seq(B)
      BY DEF B, P!Byte
    <2>2. QED
      BY <1>3, <2>1, BeginStep DEF Ops
  <1>4. CASE \E b \in Bytes : off + Len(held) + Len(b) <= MaxLen /\ Begin("write", b)
    BY <1>4, BeginStep, BytesAssumption DEF Ops, B
  <1>5. CASE \E s \in Seeks : Begin("seek", s)
    BY <1>5, BeginStep, SeeksAssumption DEF Ops
  <1>6. CASE answer \in {<<"rune", "a">>, <<"rune", "h", "t">>} /\ Begin("unget", Tail(answer))
    <2>1. call = P!NoCall
      BY <1>6, Shape DEF Begin
    <2>2. ~writing /\ Behind(content, Tail(answer), off - Len(held))
      BY <1>6, <2>1 DEF FileInv, Ungettable, Lit
    <2>3. Tail(answer) \in Seq(B)
      <3>1. CASE answer = <<"rune", "a">>
        <4>1. Tail(answer) = <<"a">>
          BY <3>1
        <4>2. <<"a">> \in Seq(B)
          BY DEF B, P!Byte
        <4>3. QED
          BY <4>1, <4>2, Zenon
      <3>2. CASE answer = <<"rune", "h", "t">>
        <4>1. Tail(answer) = <<"h", "t">>
          BY <3>2
        <4>2. <<"h", "t">> \in Seq(B)
          BY DEF B, P!Byte
        <4>3. QED
          BY <4>1, <4>2, Zenon
      <3>3. QED
        BY <1>6, <3>1, <3>2
    <2>4. QED
      BY <1>6, <2>2, <2>3, BeginStep DEF Ops
  <1>7. QED
    BY <1>1, <1>2, <1>3, <1>4, <1>5, <1>6 DEF SomeCall

\* refused: the answer is an error.
LEMMA RefusedStep ==
  ASSUME FileInv, RefusedAtOnce
  PROVE  FileInv' /\ Follows
  <1>1. call # P!NoCall
    BY InCall DEF RefusedAtOnce
  <1>2. QED
    BY <1>1, FailStep DEF RefusedAtOnce, Fail, file, buf

\* The call of write that only fills the block.
LEMMA WriteFastStep ==
  ASSUME FileInv, WriteFast
  PROVE  FileInv' /\ Follows
  <1>1. call # P!NoCall /\ call.op = "write" /\ writing
    BY InCall DEF WriteFast, Doing, FitsFast
  <1>2. /\ UNCHANGED <<content, off, seekable, writing>>
        /\ held' = held \o call.arg /\ Return(<<>>)
    BY DEF WriteFast, file
  <1>3. call.arg \in Seq(B) /\ held \in Seq(B) /\ content \in Seq(B) /\ off \in Nat
    BY <1>1 DEF FileInv, CallTypes, FileTypes
  <1>4. CallTypes' /\ Places' /\ CallEnds(<<>>) /\ Ungettable'
    BY <1>1, <1>2, CallReturns, NotLit, EmptySeq
  <1>5. held' \in Seq(B) /\ Len(held') = Len(held) + Len(call.arg)
    BY <1>2, <1>3
  <1>6. FileTypes' /\ Ahead'
    BY <1>1, <1>2, <1>5 DEF FileInv, FileTypes, Ahead
  <1>7. Image' = P!Over(Image, Position, call.arg)
    <2>1. P!Over(P!Over(content, off, held), off + Len(held), call.arg) = P!Over(content, off, held \o call.arg)
      BY <1>3, OverOver
    <2>2. QED
      BY <1>1, <1>2, <2>1 DEF Image, Position
  <1>8. Position' = Position + Len(call.arg)
    <2>1. Position = off + Len(held) /\ Position' = off' + Len(held')
      BY <1>1, <1>2, Zenon DEF Position
    <2>2. off' = off /\ off \in Nat /\ Len(held) \in Nat /\ Len(call.arg) \in Nat
      BY <1>2, <1>3
    <2> DEFINE k == Len(call.arg)
    <2>3. Len(held') = Len(held) + k /\ k \in Nat
      BY <1>5, <2>2
    <2> HIDE DEF k
    <2>4. Position' = Position + k
      BY <2>1, <2>2, <2>3
    <2>5. QED
      BY <2>4 DEF k
  <1>9. Progress.op = "write" /\ Progress.arg = call.arg
    BY <1>1, Shape
  <1>10. Plain!Next
    BY <1>4, <1>7, <1>8, <1>9, WriteReturns
  <1>11. QED
    BY <1>4, <1>6, <1>10 DEF FileInv, Follows

\* The first write of an automatic stream decides how it is buffered.
LEMMA ProbeStep ==
  ASSUME FileInv, Probe
  PROVE  FileInv' /\ Follows
  <1>1. UNCHANGED <<content, off, seekable, held, writing, call, answer>>
    BY DEF Probe, file, buf
  <1>2. FileInv'
    BY <1>1 DEF FileInv, FileTypes, CallTypes, Places, Ahead, Ungettable
  <1>3. Same
    BY <1>1 DEF Same, Image, Position, Progress
  <1>4. QED
    BY <1>2, <1>3, Stutters DEF Follows

\* clear_error.
LEMMA ClearErrStep ==
  ASSUME FileInv, ClearErr
  PROVE  FileInv' /\ Follows
  <1>1. UNCHANGED <<content, off, seekable, held, writing, call, answer>>
    BY DEF ClearErr, file, buf
  <1>2. FileInv'
    BY <1>1 DEF FileInv, FileTypes, CallTypes, Places, Ahead, Ungettable
  <1>3. Same
    BY <1>1 DEF Same, Image, Position, Progress
  <1>4. QED
    BY <1>2, <1>3, Stutters DEF Follows

\* The buffer is the right way round already.
LEMMA AlreadySettledStep ==
  ASSUME FileInv, AlreadySettled
  PROVE  FileInv' /\ Follows
  <1>1. call # P!NoCall /\ call.pc = "settle" /\ writing = (call.op = "write") /\ Goto("body")
    BY InCall DEF AlreadySettled
  <1>2. UNCHANGED <<content, off, seekable, held, writing>>
    BY DEF AlreadySettled, file, buf
  <1>3. "body" \in Pcs
    BY DEF Pcs
  <1>4. /\ call' # P!NoCall /\ call'.pc = "body"
        /\ call'.op = call.op /\ call'.arg = call.arg /\ call'.got = call.got /\ call'.next = call.next
    BY <1>1, <1>3, PcMoves
  <1>5. Places'
    BY <1>1, <1>2, <1>4 DEF FileInv, Places, Reads, Ops
  <1>6. QED
    BY <1>1, <1>2, <1>3, <1>5, PcStep

\* The buffer is turned from writing to reading: it is drained first.
LEMMA SettleToReadStep ==
  ASSUME FileInv, SettleToRead
  PROVE  FileInv' /\ Follows
  <1>1. /\ call # P!NoCall /\ call.pc = "settle" /\ writing /\ call.op \in {"get", "read", "getline"}
        /\ UNCHANGED <<content, off, seekable, held>>
    BY InCall DEF SettleToRead, FileInv, Places, file, buf
  <1>2. CASE held = <<>>
    <2>1. ~writing' /\ writing' \in BOOLEAN /\ Goto("body") /\ "body" \in Pcs
      BY <1>2 DEF SettleToRead, Pcs
    <2>2. /\ CallTypes' /\ call' # P!NoCall /\ call'.pc = "body" /\ Progress' = Progress /\ UNCHANGED answer
          /\ call'.op = call.op /\ call'.arg = call.arg /\ call'.got = call.got /\ call'.next = call.next
      BY <1>1, <2>1, PcMoves
    <2>3. Places'
      BY <1>1, <2>1, <2>2 DEF FileInv, Places, Reads
    <2>4. FileTypes' /\ Ahead' /\ Ungettable'
      <3>1. FileTypes' /\ off' \in Nat /\ held' = <<>>
        <4>1. UNCHANGED <<content, off, seekable, held>> /\ writing' \in BOOLEAN /\ held = <<>>
          BY <1>1, <1>2, <2>1
        <4>2. QED
          BY <4>1 DEF FileInv, FileTypes
      <3>2. Behind(content', held', off')
        BY <3>1, BehindNothing
      <3>3. Ungettable'
        BY <1>1, <2>2 DEF Ungettable
      <3>4. QED
        BY <3>1, <3>2, <3>3 DEF Ahead
    <2>5. Image' = Image /\ Position' = Position
      <3>1. Image' = content' /\ Image = P!Over(content, off, held) /\ P!Over(content, off, held) = content
        BY <1>1, <1>2, <2>1 DEF Image, P!Over
      <3>2. Position' = off' - Len(held') /\ Position = off + Len(held) /\ Len(held) = 0 /\ off \in Nat
        BY <1>1, <1>2, <2>1 DEF Position, FileInv, FileTypes
      <3>3. QED
        BY <1>1, <3>1, <3>2
    <2>6. Same
      BY <1>1, <2>2, <2>5 DEF Same
    <2>7. QED
      BY <2>2, <2>3, <2>4, <2>6, Stutters DEF FileInv, Follows
  <1>3. CASE held # <<>>
    <2>1. /\ UNCHANGED <<writing, answer>>
          /\ Made(call', call.op, call.arg, call.got, "drain", "settle")
          /\ "drain" \in Pcs /\ call.got \in Seq(B)
      <3>1. call' = [call EXCEPT !.pc = "drain", !.next = "settle"] /\ UNCHANGED <<writing, answer>>
        BY <1>3 DEF SettleToRead
      <3>2. Made(call, call.op, call.arg, call.got, call.pc, call.next) /\ call.got \in Seq(B)
        BY <1>1, Shape DEF FileInv, CallTypes
      <3>3. QED
        BY <3>1, <3>2 DEF Made, Pcs
    <2>2. /\ CallTypes' /\ call' # P!NoCall /\ call'.pc = "drain" /\ call'.next = "settle"
          /\ call'.op = call.op /\ call'.arg = call.arg /\ call'.got = call.got
          /\ Progress' = [op |-> call.op, arg |-> call.arg, got |-> call.got]
      BY <1>1, <2>1, CallMoves
    <2>3. Places'
      BY <1>1, <2>1, <2>2 DEF FileInv, Places, Reads
    <2>4. FileTypes' /\ Ahead' /\ Ungettable'
      BY <1>1, <2>1, <2>2 DEF FileInv, FileTypes, Ahead, Ungettable
    <2>5. Same
      <3>1. Image' = Image /\ Position' = Position
        BY <1>1, <2>1 DEF Image, Position
      <3>2. Progress' = Progress
        BY <1>1, <2>2, Shape
      <3>3. QED
        BY <1>1, <2>1, <3>1, <3>2 DEF Same
    <2>6. QED
      BY <2>2, <2>3, <2>4, <2>5, Stutters DEF FileInv, Follows
  <1>4. QED
    BY <1>2, <1>3

\* The buffer is turned from reading to writing: what was read ahead is given back.
LEMMA SettleToWriteStep ==
  ASSUME FileInv, SettleToWrite
  PROVE  FileInv' /\ Follows
  <1>1. /\ call # P!NoCall /\ call.pc = "settle" /\ ~writing /\ call.op = "write"
        /\ UNCHANGED <<content, seekable>>
        /\ off' = off - Len(held) /\ held' = <<>> /\ writing' /\ Goto("body") /\ "body" \in Pcs
    BY InCall DEF SettleToWrite, Reset, file, Pcs
  <1>2. /\ CallTypes' /\ call' # P!NoCall /\ call'.pc = "body" /\ Progress' = Progress /\ UNCHANGED answer
        /\ call'.op = call.op /\ call'.arg = call.arg /\ call'.got = call.got /\ call'.next = call.next
    BY <1>1, PcMoves
  <1>3. Places'
    BY <1>1, <1>2 DEF FileInv, Places, Reads
  <1>4. off \in Nat /\ Len(held) \in Nat /\ Len(held) <= off
    BY <1>1 DEF FileInv, FileTypes, Ahead, Behind
  <1>5. FileTypes' /\ Ahead' /\ Ungettable'
    <2>1. off' \in Nat /\ held' \in Seq(B) /\ writing' \in BOOLEAN
      BY <1>1, <1>4
    <2>2. QED
      BY <1>1, <1>2, <2>1 DEF FileInv, FileTypes, Ahead, Ungettable
  <1>6. Image' = Image /\ Position' = Position
    <2>1. Image' = P!Over(content', off', held') /\ Image = content
      BY <1>1 DEF Image
    <2>2. P!Over(content', off', held') = content'
      BY <1>1 DEF P!Over
    <2>3. Position' = off' + Len(held') /\ Position = off - Len(held)
      BY <1>1 DEF Position
    <2>4. Len(held') = 0
      BY <1>1
    <2>5. QED
      BY <1>1, <1>4, <2>1, <2>2, <2>3, <2>4
  <1>7. Same
    BY <1>1, <1>2, <1>6 DEF Same
  <1>8. QED
    BY <1>2, <1>3, <1>5, <1>7, Stutters DEF FileInv, Follows

\* What goes out of the block and what stays in it are the same file.
LEMMA DrainStep ==
  ASSUME FileInv, Drain
  PROVE  FileInv' /\ Follows
  <1>1. /\ call # P!NoCall /\ call.pc = "drain" /\ writing
        /\ UNCHANGED <<seekable, writing, call, answer>>
    BY InCall DEF Drain, file, FileInv, Places
  <1>2. PICK n \in 1..Len(held) : Written(held, n) /\ Consume(n)
    BY DEF Drain
  <1>3. content \in Seq(B) /\ held \in Seq(B) /\ off \in Nat /\ n \in 0..Len(held) /\ n \in Nat \ {0}
    BY DEF FileInv, FileTypes
  <1>4. /\ content' = P!Over(content, off, P!Front(held, n)) /\ off' = off + n
        /\ held' = P!After(held, n)
    BY <1>2 DEF Written, Consume
  <1>5. /\ P!Front(held, n) \in Seq(B) /\ n = Len(P!Front(held, n))
        /\ held' \in Seq(B) /\ Len(held') = Len(held) - n
    BY <1>3, <1>4, IsFront, IsAfter
  <1>6. content' \in Seq(B) /\ off' \in Nat
    <2>1. P!Over(content, off, P!Front(held, n)) \in Seq(B)
      BY <1>3, <1>5, IsOver
    <2>2. QED
      BY <1>3, <1>4, <2>1
  <1>7. FileTypes' /\ CallTypes' /\ Ahead'
    BY <1>1, <1>5, <1>6 DEF FileInv, FileTypes, CallTypes, Ahead
  <1>8. Places' /\ Ungettable'
    <2>1. call.op # "unget" /\ call.got = <<>>
      BY <1>1 DEF FileInv, Places
    <2>2. Ungettable'
      BY <1>1, <2>1 DEF Ungettable
    <2>3. Places'
      BY <1>1, <2>1 DEF FileInv, Places, Reads
    <2>4. QED
      BY <2>2, <2>3
  <1>9. Image' = Image
    <2>1. P!Over(P!Over(content, off, P!Front(held, n)), off + n, P!After(held, n)) = P!Over(content, off, held)
      BY <1>3, OverRest
    <2>2. Image = P!Over(content, off, held) /\ Image' = P!Over(content', off', held')
      BY <1>1 DEF Image
    <2>3. QED
      BY <1>4, <2>1, <2>2, Zenon
  <1>10. Position' = Position
    <2>1. Position = off + Len(held) /\ Position' = off' + Len(held')
      BY <1>1 DEF Position
    <2>2. off' = off + n
      BY <1>4
    <2>3. Len(held) \in Nat
      BY <1>3
    <2>4. QED
      BY <1>3, <1>5, <2>1, <2>2, <2>3
  <1>11. Same
    BY <1>1, <1>9, <1>10 DEF Same, Progress
  <1>12. QED
    BY <1>7, <1>8, <1>11, Stutters DEF FileInv, Follows

\* The block has been written out.
LEMMA DrainedStep ==
  ASSUME FileInv, Drained
  PROVE  FileInv' /\ Follows
  <1>1. /\ call # P!NoCall /\ call.pc = "drain" /\ held = <<>> /\ Goto(call.next) /\ writing
        /\ UNCHANGED <<content, off, seekable, held, writing>>
    BY InCall DEF Drained, file, buf, FileInv, Places
  <1>2. call.next \in Pcs
    BY <1>1 DEF FileInv, Places, Pcs
  <1>3. /\ call' # P!NoCall /\ call'.pc = call.next
        /\ call'.op = call.op /\ call'.arg = call.arg /\ call'.got = call.got /\ call'.next = call.next
    BY <1>1, <1>2, PcMoves
  <1>4. Places'
    BY <1>1, <1>2, <1>3 DEF FileInv, Places, Reads, Pcs
  <1>5. QED
    BY <1>1, <1>2, <1>4, PcStep

\* The block could not be written out; close goes on to close.
LEMMA DrainFailsStep ==
  ASSUME FileInv, DrainFails
  PROVE  FileInv' /\ Follows
  <1>1. /\ call # P!NoCall /\ call.pc = "drain" /\ writing
        /\ UNCHANGED <<content, off, seekable, held, writing>>
    BY InCall DEF DrainFails, file, buf, FileInv, Places
  <1>2. CASE call.op = "close"
    <2>1. Goto("failed") /\ "failed" \in Pcs
      BY <1>2 DEF DrainFails, Pcs
    <2>2. /\ call' # P!NoCall /\ call'.pc = "failed"
          /\ call'.op = call.op /\ call'.arg = call.arg /\ call'.got = call.got /\ call'.next = call.next
      BY <1>1, <2>1, PcMoves
    <2>3. Places'
      BY <1>1, <1>2, <2>2 DEF FileInv, Places, Reads
    <2>4. QED
      BY <1>1, <2>1, <2>3, PcStep
  <1>3. CASE call.op # "close"
    <2>1. Return(P!Error)
      BY <1>3 DEF DrainFails
    <2>2. QED
      BY <1>1, <2>1, FailStep
  <1>4. QED
    BY <1>2, <1>3

\* An operation of a call fails.
LEMMA OpFailsStep ==
  ASSUME FileInv, OpFails
  PROVE  FileInv' /\ Follows
  <1>1. call # P!NoCall /\ Return(P!Error)
    BY InCall DEF OpFails, Fail
  <1>2. UNCHANGED <<content, off, seekable, held, writing>>
    BY DEF OpFails, file, buf
  <1>3. QED
    BY <1>1, <1>2, FailStep

\* Bytes go past the buffer.
LEMMA ThroughStep ==
  ASSUME FileInv, Through
  PROVE  FileInv' /\ Follows
  <1>1. /\ call # P!NoCall /\ call.pc = "through" /\ call.op = "write" /\ writing /\ held = <<>>
        /\ UNCHANGED <<seekable, writing, held>> /\ writing'
    BY InCall DEF Through, file, buf, FileInv, Places
  <1> DEFINE b == call.arg
  <1> HIDE DEF b
  <1>2. PICK n \in 1..Len(b) :
          /\ Written(b, n)
          /\ IF n = Len(b) THEN Return(<<>>)
             ELSE call' = [call EXCEPT !.arg = P!After(@, n)] /\ UNCHANGED answer
    BY DEF Through, b
  <1>3. content \in Seq(B) /\ off \in Nat /\ b \in Seq(B) /\ n \in 0..Len(b) /\ n \in Nat \ {0}
    <2>1. content \in Seq(B) /\ off \in Nat
      BY DEF FileInv, FileTypes
    <2>2. b \in Seq(B)
      BY <1>1 DEF FileInv, CallTypes, b
    <2>3. QED
      BY <2>1, <2>2
  <1>4. content' = P!Over(content, off, P!Front(b, n)) /\ off' = off + n
    BY <1>2 DEF Written
  <1>5. /\ P!Front(b, n) \in Seq(B) /\ n = Len(P!Front(b, n)) /\ P!After(b, n) \in Seq(B)
    BY <1>3, IsFront, IsAfter
  <1>6. content' \in Seq(B) /\ off' \in Nat
    <2>1. P!Over(content, off, P!Front(b, n)) \in Seq(B)
      BY <1>3, <1>5, IsOver
    <2>2. QED
      BY <1>3, <1>4, <2>1
  <1>7. FileTypes' /\ Ahead'
    BY <1>1, <1>6 DEF FileInv, FileTypes, Ahead
  <1>8. /\ Image' = P!Over(Image, Position, P!Front(b, n)) /\ Position' = Position + n
    <2>1. Image = content /\ Image' = content' /\ Position = off /\ Position' = off'
      <3>1. Image = P!Over(content, off, held) /\ Image' = P!Over(content', off', held')
        BY <1>1 DEF Image
      <3>2. Position = off + Len(held) /\ Position' = off' + Len(held')
        BY <1>1 DEF Position
      <3>3. Len(held) = 0 /\ Len(held') = 0 /\ held' = <<>>
        BY <1>1
      <3>4. Position = off /\ Position' = off'
        <4>1. off \in Nat /\ off' \in Nat
          BY <1>3, <1>6
        <4>2. Position = off + 0 /\ Position' = off' + 0
          BY <3>2, <3>3, Zenon
        <4>3. \A x \in Nat : x + 0 = x
          OBVIOUS
        <4>4. QED
          BY <4>1, <4>2, <4>3, Zenon
      <3>5. Image = content /\ Image' = content'
        BY <1>1, <3>1, <3>3, OverNothing
      <3>6. QED
        BY <3>4, <3>5
    <2>2. QED
      BY <1>4, <2>1
  <1>9. Progress = [op |-> "write", arg |-> b, got |-> call.got] /\ call.got \in Seq(B)
    BY <1>1, Shape DEF FileInv, CallTypes, b
  <1>10. CASE n = Len(b)
    <2>1. Return(<<>>)
      BY <1>2, <1>10
    <2>2. CallTypes' /\ Places' /\ CallEnds(<<>>) /\ Ungettable'
      BY <1>1, <2>1, CallReturns, NotLit, EmptySeq
    <2>3. P!Front(b, n) = b
      <3>1. \A i \in 1..Len(b) : P!Front(b, n)[i] = b[i]
        BY <1>3, <1>10, IsFront
      <3>2. QED
        BY <1>3, <1>5, <1>10, <3>1, SameSeq
    <2>4. Progress.op = "write" /\ Progress.arg = b
      BY <1>9
    <2>5. Plain!Next
      BY <1>8, <1>10, <2>2, <2>3, <2>4, WriteReturns
    <2>6. QED
      BY <1>7, <2>2, <2>5 DEF FileInv, Follows
  <1>11. CASE n # Len(b)
    <2>1. call' = [call EXCEPT !.arg = P!After(@, n)] /\ UNCHANGED answer
      BY <1>2, <1>11
    <2>2. Made(call', call.op, P!After(b, n), call.got, "through", call.next) /\ "through" \in Pcs
      <3>1. Made(call, call.op, call.arg, call.got, call.pc, call.next)
        BY <1>1, Shape
      <3>2. QED
        BY <1>1, <2>1, <3>1 DEF Made, Pcs, b
    <2>3. /\ CallTypes' /\ call' # P!NoCall /\ call'.pc = "through" /\ call'.next = call.next
          /\ call'.op = call.op /\ call'.arg = P!After(b, n) /\ call'.got = call.got
          /\ Progress' = [op |-> call.op, arg |-> P!After(b, n), got |-> call.got]
      BY <1>1, <1>5, <1>9, <2>1, <2>2, CallMoves
    <2>4. call.next # "written" /\ call.got = <<>>
      <3>1. b # <<>>
        BY <1>3
      <3>2. QED
        BY <1>1, <3>1 DEF FileInv, Places, b
    <2>5. Places'
      BY <1>1, <2>3, <2>4 DEF FileInv, Places, Reads
    <2>6. Ungettable'
      BY <1>1, <2>3 DEF Ungettable
    <2>7. Progress' = [Progress EXCEPT !.arg = P!After(@, n)]
      BY <1>1, <1>9, <2>3
    <2>8. Progress.op = "write" /\ Progress.arg = b
      BY <1>9
    <2>9. Plain!Next
      BY <1>1, <1>8, <2>1, <2>7, <2>8, WriteGoesOn
    <2>10. QED
      BY <1>7, <2>3, <2>5, <2>6, <2>9 DEF FileInv, Follows
  <1>12. QED
    BY <1>10, <1>11

\* get_rune takes a rune of the buffer, or asks for more.
LEMMA GetStep ==
  ASSUME FileInv, Get
  PROVE  FileInv' /\ Follows
  <1>1. /\ call # P!NoCall /\ call.pc = "body" /\ call.op = "get" /\ ~writing
        /\ UNCHANGED <<content, off, seekable, writing>> /\ ~writing'
    BY InCall DEF Get, Doing, file, FileInv, Places, Reads
  <1>2. /\ content \in Seq(B) /\ held \in Seq(B) /\ off \in Nat /\ Behind(content, held, off)
    BY <1>1 DEF FileInv, FileTypes, Ahead
  <1> DEFINE w == P!Width(held)
  <1>3. CASE w > 0
    <2>1. held' = P!After(held, w) /\ Return(<<"rune">> \o P!Rune(held))
      BY <1>3 DEF Get, Consume
    <2>0. P!Width(held) # 0
      BY <1>3
    <2>2. /\ w \in 1..Len(held) /\ held # <<>>
          /\ \A t \in Seq(B) : Len(held) <= Len(t) /\ (\A i \in 1..Len(held) : t[i] = held[i])
                                 => t # <<"h">> /\ P!Width(t) = w /\ P!Rune(t) = P!Rune(held)
      BY <1>2, <2>0, RuneAhead
    <2> HIDE DEF w
    <2>3. /\ off - Len(held) \in Nat /\ (off - Len(held)) + 0 <= Len(content) /\ off <= Len(content)
          /\ \A i \in 1..Len(held) : content[off - Len(held) + i] = held[i]
          /\ Len(held) \in Nat /\ Len(held) > 0 /\ Len(content) \in Nat
      BY <1>2, <2>2, BehindSlice, EmptySeq
    <2>4. Image = content /\ Image' = content /\ Position = off - Len(held) /\ Position' = off - Len(held')
      BY <1>1 DEF Image, Position
    <2>5. held' \in Seq(B) /\ Len(held') = Len(held) - w /\ w \in 0..Len(held)
      BY <1>2, <2>1, <2>2, IsAfter
    <2>6. Position' = Position + w /\ Position < Len(content)
      <3>1. w \in Nat
        BY <2>2
      <3>2. QED
        BY <1>2, <2>3, <2>4, <2>5, <3>1
    <2>7. P!WidthAt(Image, Position) = w /\ P!RuneAt(Image, Position) = P!Rune(held)
      <3> DEFINE m == off - Len(held)
                 t == P!After(content, m)
      <3>1. m \in 0..Len(content) /\ Len(content) - m >= Len(held)
        BY <1>2, <2>3
      <3>2. \A i \in 1..Len(held) : content[m + i] = held[i]
        BY <2>3
      <3> HIDE DEF m
      <3>3. t \in Seq(B) /\ Len(t) = Len(content) - m /\ \A i \in 1..(Len(content) - m) : t[i] = content[m + i]
        BY <1>2, <3>1, IsAfter
      <3> HIDE DEF t
      <3>4. \A i \in 1..Len(held) : t[i] = held[i]
        BY <2>3, <3>1, <3>2, <3>3
      <3>5. Len(held) <= Len(t)
        BY <3>1, <3>3
      <3>6. t # <<"h">> /\ P!Width(t) = w /\ P!Rune(t) = P!Rune(held)
        BY <2>2, <3>3, <3>4, <3>5
      <3>7. Image = content /\ Position = m
        BY <2>4 DEF m
      <3>8. QED
        BY <3>6, <3>7 DEF t, P!WidthAt, P!RuneAt
    <2>8. CallTypes' /\ Places' /\ CallEnds(<<"rune">> \o P!Rune(held)) /\ call' = P!NoCall
      BY <1>1, <2>1, CallReturns
    <2>9. Behind(content, P!After(held, w), off) /\ Behind(content, P!Front(held, w), off - Len(P!After(held, w)))
      BY <1>2, <2>5, BehindAfter
    <2>10. FileTypes' /\ Ahead'
      BY <1>1, <2>1, <2>5, <2>9 DEF FileInv, FileTypes, Ahead
    <2>11. Ungettable'
      <3>1. ASSUME answer' \in Lit
            PROVE  Tail(answer') = P!Front(held, w)
        <4>1. answer' = <<"rune">> \o P!Rune(held)
          BY <2>1 DEF Return
        <4>2. P!Rune(held) = <<"bad">> \/ P!Rune(held) = P!Front(held, w)
          BY DEF P!Rune, w
        <4>3. P!Rune(held) = P!Front(held, w)
          BY <3>1, <4>1, <4>2, NotLit
        <4>4. P!Front(held, w) \in Seq(B)
          BY <1>2, <2>5, IsFront
        <4>5. Tail(<<"rune">> \o P!Front(held, w)) = P!Front(held, w)
          BY <4>4, TailRune
        <4>6. QED
          BY <4>1, <4>3, <4>5
      <3>2. QED
        BY <1>1, <2>1, <2>8, <2>9, <3>1 DEF Ungettable
    <2>12. Progress.op = "get" /\ UNCHANGED Image
      BY <1>1, <2>4, Shape
    <2>13. Plain!Next
      BY <2>4, <2>6, <2>7, <2>8, <2>12, GetReturns
    <2>14. QED
      BY <2>8, <2>10, <2>11, <2>13 DEF FileInv, Follows
  <1>4. CASE ~(w > 0)
    <2>1. UNCHANGED held /\ Goto("fill") /\ "fill" \in Pcs
      BY <1>4 DEF Get, Pcs
    <2>2. held \in {<<>>, <<"h">>}
      BY <1>4 DEF P!Width
    <2>3. /\ call' # P!NoCall /\ call'.pc = "fill"
          /\ call'.op = call.op /\ call'.arg = call.arg /\ call'.got = call.got /\ call'.next = call.next
      BY <1>1, <2>1, PcMoves
    <2>4. Places'
      BY <1>1, <2>1, <2>2, <2>3 DEF FileInv, Places, Reads
    <2>5. QED
      BY <1>1, <2>1, <2>4, PcStep
  <1>5. QED
    BY <1>3, <1>4

\* What a call takes from the bytes in hand is what is at the program's position.
LEMMA Taking ==
  ASSUME FileInv, ~writing, ~writing', writing' \in BOOLEAN, held # <<>>, NEW n \in 0..Len(held),
         held' = P!After(held, n), UNCHANGED <<content, off, seekable>>
  PROVE  /\ FileTypes' /\ Ahead'
         /\ Image = content /\ UNCHANGED Image /\ Position' = Position + n
         /\ Position \in Nat /\ Position < Len(Image) /\ Position + n <= Len(Image)
         /\ P!Slice(Image, Position, n) = P!Front(held, n)
         /\ \A i \in 1..Len(held) : Image[Position + i] = held[i]
  <1>1. /\ content \in Seq(B) /\ held \in Seq(B) /\ off \in Nat /\ Behind(content, held, off)
    BY DEF FileInv, FileTypes, Ahead
  <1>2. /\ off - Len(held) \in Nat /\ (off - Len(held)) + n <= Len(content) /\ off <= Len(content)
        /\ P!Slice(content, off - Len(held), n) = P!Front(held, n)
        /\ \A i \in 1..Len(held) : content[off - Len(held) + i] = held[i]
    BY <1>1, BehindSlice
  <1>3. /\ Image = content /\ Image' = content' /\ Position = off - Len(held) /\ Position' = off' - Len(held')
    BY DEF Image, Position
  <1>4. held' \in Seq(B) /\ Len(held') = Len(held) - n
    BY <1>1, IsAfter
  <1>5. Len(held) \in Nat /\ Len(held) > 0 /\ off' = off /\ n \in Nat
    BY <1>1, EmptySeq
  <1>6. Position' = Position + n
    BY <1>1, <1>3, <1>4, <1>5
  <1>7. Position < Len(Image)
    BY <1>1, <1>2, <1>3, <1>5
  <1>8. Behind(content', held', off')
    BY <1>1, BehindAfter
  <1>9. FileTypes' /\ Ahead'
    BY <1>1, <1>4, <1>8 DEF FileInv, FileTypes, Ahead
  <1>10. QED
    BY <1>2, <1>3, <1>6, <1>7, <1>9

\* read takes what is held, or asks for more.
LEMMA ReadStep ==
  ASSUME FileInv, Read
  PROVE  FileInv' /\ Follows
  <1>1. /\ call # P!NoCall /\ call.pc = "body" /\ call.op = "read" /\ ~writing
        /\ UNCHANGED <<content, off, seekable, writing>> /\ ~writing' /\ writing' \in BOOLEAN
    BY InCall DEF Read, Doing, file, FileInv, FileTypes, Places, Reads
  <1> DEFINE m == call.arg
  <1>2. m \in Nat \ {0}
    BY <1>1 DEF FileInv, CallTypes
  <1>3. Progress.op = "read" /\ Progress.arg = m
    BY <1>1, Shape
  <1> HIDE DEF m
  <1>4. CASE held # <<>>
    <2> DEFINE n == P!Smaller(m, Len(held))
    <2>1. held' = P!After(held, n) /\ Return(P!Front(held, n))
      BY <1>4 DEF Read, Consume, m
    <2>2. held \in Seq(B) /\ Len(held) \in Nat \ {0}
      BY <1>4, EmptySeq DEF FileInv, FileTypes
    <2>3. n \in 1..m /\ n \in 0..Len(held)
      BY <1>2, <2>2 DEF P!Smaller
    <2> HIDE DEF n
    <2>4. /\ FileTypes' /\ Ahead' /\ UNCHANGED Image /\ Position' = Position + n
          /\ Position + n <= Len(Image) /\ P!Slice(Image, Position, n) = P!Front(held, n)
      BY <1>1, <1>4, <2>1, <2>3, Taking
    <2>5. P!Front(held, n) \in Seq(B)
      BY <2>2, <2>3, IsFront
    <2>6. CallTypes' /\ Places' /\ CallEnds(P!Front(held, n)) /\ Ungettable'
      BY <1>1, <2>1, <2>5, CallReturns, NotLit
    <2>7. n \in 1..Progress.arg
      BY <1>3, <2>3
    <2>8. Plain!Next
      BY <1>3, <2>4, <2>6, <2>7, ReadReturns
    <2>9. QED
      BY <2>4, <2>6, <2>8 DEF FileInv, Follows
  <1>5. CASE held = <<>>
    <2> DEFINE pc == IF how = "none" \/ call.arg >= Cap THEN "direct" ELSE "fill"
    <2>1. UNCHANGED held /\ Goto(pc) /\ pc \in {"direct", "fill"}
      BY <1>5 DEF Read, buf
    <2> HIDE DEF pc
    <2>2. pc \in Pcs
      BY <2>1 DEF Pcs
    <2>3. /\ call' # P!NoCall /\ call'.pc = pc
          /\ call'.op = call.op /\ call'.arg = call.arg /\ call'.got = call.got /\ call'.next = call.next
      BY <1>1, <2>1, <2>2, PcMoves
    <2>4. Places'
      BY <1>1, <1>5, <2>1, <2>3 DEF FileInv, Places, Reads
    <2>5. QED
      BY <1>1, <2>1, <2>2, <2>4, PcStep
  <1>6. QED
    BY <1>4, <1>5

\* A scan looks at the next byte held, or asks for one.
LEMMA ScanStep ==
  ASSUME FileInv, Scan
  PROVE  FileInv' /\ Follows
  <1>1. /\ call # P!NoCall /\ call.pc = "body" /\ call.op = "scan" /\ ~writing
        /\ UNCHANGED <<content, off, seekable, writing>> /\ ~writing' /\ writing' \in BOOLEAN
    BY InCall DEF Scan, Doing, file, FileInv, FileTypes, Places, Reads
  <1> DEFINE m == call.arg
  <1>2. m \in Seq(B)
    BY <1>1 DEF FileInv, CallTypes
  <1>3. Progress.op = "scan" /\ Progress.arg = m
    BY <1>1, Shape
  <1> HIDE DEF m
  <1>4. CASE held # <<>>
    <2>1. held \in Seq(B) /\ Len(held) \in Nat \ {0} /\ 1 \in 0..Len(held) /\ 0 \in 0..Len(held)
      BY <1>4, EmptySeq DEF FileInv, FileTypes
    <2>2. CASE P!Front(held, 1) = m
      <3>1. held' = P!After(held, 1) /\ Return(m)
        BY <1>4, <2>2 DEF Scan, Consume, m
      <3>2. /\ FileTypes' /\ Ahead' /\ UNCHANGED Image /\ Position' = Position + 1
            /\ Position < Len(Image) /\ P!Slice(Image, Position, 1) = P!Front(held, 1)
        BY <1>1, <1>4, <2>1, <3>1, Taking
      <3>3. CallTypes' /\ Places' /\ CallEnds(m) /\ Ungettable'
        BY <1>1, <1>2, <3>1, CallReturns, NotLit
      <3>4. Plain!Next
        BY <1>3, <2>2, <3>2, <3>3, ScanReturns
      <3>5. QED
        BY <3>2, <3>3, <3>4 DEF FileInv, Follows
    <2>3. CASE P!Front(held, 1) # m
      <3>1. UNCHANGED held /\ Return(<<>>)
        BY <1>4, <2>3 DEF Scan, buf, m
      <3>2. held' = P!After(held, 0)
        <4>1. P!After(held, 0) \in Seq(B) /\ Len(P!After(held, 0)) = Len(held)
          BY <2>1, IsAfter
        <4>2. \A i \in 1..Len(held) : P!After(held, 0)[i] = held[i]
          BY <2>1, IsAfter
        <4>3. P!After(held, 0) = held
          BY <2>1, <4>1, <4>2, SameSeq
        <4>4. QED
          BY <3>1, <4>3
      <3>3. /\ FileTypes' /\ Ahead' /\ UNCHANGED Image /\ Position' = Position + 0
            /\ Position < Len(Image) /\ Position \in Nat
        BY <1>1, <1>4, <2>1, <3>2, Taking
      <3>4. P!Slice(Image, Position, 1) = P!Front(held, 1)
        <4>1. Behind(content, held, off) /\ content \in Seq(B) /\ off \in Nat
          BY <1>1 DEF FileInv, FileTypes, Ahead
        <4>2. P!Slice(content, off - Len(held), 1) = P!Front(held, 1)
          BY <1>4, <2>1, <4>1, BehindSlice
        <4>3. QED
          BY <1>1, <4>2 DEF Image, Position
      <3>5. CallTypes' /\ Places' /\ CallEnds(<<>>) /\ Ungettable'
        BY <1>1, <3>1, CallReturns, NotLit, EmptySeq
      <3>6. Position' = Position
        BY <3>3
      <3>7. Plain!Next
        BY <1>3, <2>3, <3>3, <3>4, <3>5, <3>6, ScanReturns
      <3>8. QED
        BY <3>3, <3>5, <3>7 DEF FileInv, Follows
    <2>4. QED
      BY <2>2, <2>3
  <1>5. CASE held = <<>>
    <2>1. UNCHANGED held /\ Goto("fill") /\ "fill" \in Pcs
      BY <1>5 DEF Scan, buf, Pcs
    <2>2. /\ call' # P!NoCall /\ call'.pc = "fill"
          /\ call'.op = call.op /\ call'.arg = call.arg /\ call'.got = call.got /\ call'.next = call.next
      BY <1>1, <2>1, PcMoves
    <2>3. Places'
      BY <1>1, <1>5, <2>1, <2>2 DEF FileInv, Places, Reads
    <2>4. QED
      BY <1>1, <2>1, <2>3, PcStep
  <1>6. QED
    BY <1>4, <1>5

\* A non-empty set of places has a least one.
LEMMA LeastOf ==
  ASSUME NEW S, S \subseteq Nat, S # {}, NEW x, x = CHOOSE i \in S : \A j \in S : i <= j
  PROVE  x \in S /\ \A j \in S : x <= j
  <1> DEFINE R == {ss \in Nat \X Nat : ss[1] < ss[2]}
  <1>1. R = OpToRel(<, Nat)
    BY DEF OpToRel
  <1>2. IsWellFoundedOn(R, Nat)
    BY <1>1, NatLessThanWellFounded
  <1>3. \A y, z \in Nat : y < z => <<y, z>> \in R
    OBVIOUS
  <1> HIDE DEF R
  <1>4. PICK m \in S : \A y \in S : ~(<<y, m>> \in R)
    BY <1>2, WFMin
  <1>5. \A j \in S : ~(j < m)
    BY <1>3, <1>4
  <1>6. \A j \in S : m <= j
    BY <1>5
  <1>7. \E i \in S : \A j \in S : i <= j
    BY <1>6
  <1>8. QED
    BY <1>7

\* get_line takes what is held up to the newline, or all of it, and asks for more.
LEMMA GetLineStep ==
  ASSUME FileInv, GetLine
  PROVE  FileInv' /\ Follows
  <1>1. /\ call # P!NoCall /\ call.pc = "body" /\ call.op = "getline" /\ ~writing
        /\ UNCHANGED <<content, off, seekable, writing>> /\ ~writing' /\ writing' \in BOOLEAN
    BY InCall DEF GetLine, Doing, file, FileInv, FileTypes, Places, Reads
  <1> DEFINE g == call.got
             ends == {i \in DOMAIN held : held[i] = P!Newline}
             nl == CHOOSE i \in ends : \A j \in ends : i <= j
  <1>2. /\ g \in Seq(B) /\ held \in Seq(B) /\ content \in Seq(B) /\ off \in Nat
        /\ Behind(content, held, off) /\ (g # <<>> => off <= Len(content))
    BY <1>1 DEF FileInv, CallTypes, FileTypes, Ahead, Places
  <1>3. Progress = [op |-> "getline", arg |-> call.arg, got |-> g]
    BY <1>1, Shape
  <1>4. Made(call, call.op, call.arg, g, call.pc, call.next)
    BY <1>1, Shape
  <1>5. CASE ends # {}
    <2>1. nl \in ends /\ \A j \in ends : nl <= j
      <3>1. ends \subseteq Nat
        BY <1>2
      <3> HIDE DEF ends
      <3>2. QED
        BY <1>5, <3>1, LeastOf
    <2>2. held' = P!After(held, nl) /\ Return(P!Line(g \o P!Front(held, nl - 1)))
      BY <1>5 DEF GetLine, Consume
    <2>3. nl \in 1..Len(held) /\ held[nl] = P!Newline /\ \A j \in 1..Len(held) : held[j] = P!Newline => nl <= j
      BY <1>2, <2>1
    <2> HIDE DEF nl, ends, g
    <2>4. nl \in 0..Len(held) /\ nl - 1 \in 0..Len(held) /\ held # <<>>
      BY <1>2, <2>3, EmptySeq
    <2>5. /\ FileTypes' /\ Ahead' /\ UNCHANGED Image /\ Position' = Position + nl
          /\ Position + nl <= Len(Image) /\ Position \in Nat
          /\ \A i \in 1..Len(held) : Image[Position + i] = held[i]
      BY <1>1, <2>2, <2>4, Taking
    <2> DEFINE s == P!Front(held, nl - 1)
    <2>6. s \in Seq(B) /\ Len(s) = nl - 1 /\ \A i \in 1..(nl - 1) : s[i] = held[i]
      BY <1>2, <2>4, IsFront
    <2>7. P!Newline \notin {s[i] : i \in DOMAIN s}
      <3> HIDE DEF s
      <3>1. SUFFICES ASSUME NEW i \in 1..(nl - 1)
                     PROVE  s[i] # P!Newline
        BY <2>6
      <3>2. i \in 1..Len(held) /\ ~(nl <= i)
        BY <1>2, <2>3
      <3>3. QED
        BY <2>3, <2>6, <3>2
    <2>8. P!Slice(Image, Position, nl - 1) = s
      <3>1. Image = content /\ Position = off - Len(held)
        BY <1>1 DEF Image, Position
      <3>2. P!Slice(content, off - Len(held), nl - 1) = P!Front(held, nl - 1)
        BY <1>2, <2>4, BehindSlice
      <3>3. QED
        BY <3>1, <3>2
    <2>9. Position' - Position - 1 = nl - 1 /\ Position' \in (Position + 1)..Len(Image)
      <3>1. nl \in Nat /\ nl >= 1 /\ Len(Image) \in Nat
        <4>1. Image = content
          BY <1>1 DEF Image
        <4>2. QED
          BY <1>2, <2>3, <4>1
      <3>2. QED
        BY <2>5, <3>1
    <2> HIDE DEF s
    <2>10. s = P!Slice(Image, Position, Position' - Position - 1)
      BY <2>8, <2>9
    <2>11. Image[Position'] = P!Newline
      BY <2>3, <2>5
    <2>12. g \o s \in Seq(B)
      BY <1>2, <2>6
    <2>13. CallTypes' /\ Places' /\ CallEnds(P!Line(g \o s)) /\ Ungettable'
      <3>1. Return(P!Line(g \o s))
        BY <2>2 DEF s
      <3>2. QED
        BY <1>1, <2>12, <3>1, CallReturns, NotLit
    <2>14. Progress.op = "getline" /\ Progress.got = g
      BY <1>3
    <2>15. Plain!Next
      BY <2>5, <2>7, <2>9, <2>10, <2>11, <2>13, <2>14, LineReturns
    <2>16. QED
      BY <2>5, <2>13, <2>15 DEF FileInv, Follows
  <1>6. CASE ends = {}
    <2>1. /\ held' = P!After(held, Len(held)) /\ UNCHANGED answer
          /\ call' = [call EXCEPT !.got = @ \o held, !.pc = "fill"]
      BY <1>6 DEF GetLine, Consume
    <2>2. \A i \in 1..Len(held) : held[i] # P!Newline
      BY <1>2, <1>6
    <2> HIDE DEF ends, nl, g
    <2>3. Made(call', call.op, call.arg, g \o held, "fill", call.next) /\ "fill" \in Pcs
      BY <1>4, <2>1 DEF Made, Pcs, g
    <2>4. g \o held \in Seq(B)
      BY <1>2
    <2>5. /\ CallTypes' /\ call' # P!NoCall /\ call'.pc = "fill" /\ call'.next = call.next
          /\ call'.op = call.op /\ call'.arg = call.arg /\ call'.got = g \o held
          /\ Progress' = [op |-> call.op, arg |-> call.arg, got |-> g \o held]
      <3> DEFINE gh == g \o held
      <3>1. gh \in Seq(B) /\ Made(call', call.op, call.arg, gh, "fill", call.next) /\ UNCHANGED answer
        BY <2>1, <2>3, <2>4
      <3> HIDE DEF gh
      <3>2. /\ CallTypes' /\ call' # P!NoCall /\ call'.pc = "fill" /\ call'.next = call.next
            /\ call'.op = call.op /\ call'.arg = call.arg /\ call'.got = gh
            /\ Progress' = [op |-> call.op, arg |-> call.arg, got |-> gh]
        BY <1>1, <2>3, <3>1, CallMoves
      <3>3. QED
        BY <3>2 DEF gh
    <2>6. P!After(held, Len(held)) = <<>>
      <3>1. Len(held) \in 0..Len(held)
        BY <1>2
      <3>2. P!After(held, Len(held)) \in Seq(B) /\ Len(P!After(held, Len(held))) = Len(held) - Len(held)
        BY <1>2, <3>1, IsAfter
      <3>3. Len(held) - Len(held) = 0
        BY <1>2
      <3>4. QED
        BY <3>2, <3>3, EmptySeq
    <2>7. g \o held # <<>> => off <= Len(content)
      <3>1. held = <<>> => g \o held = g
        BY <1>2
      <3>2. held # <<>> => off <= Len(content)
        BY <1>2 DEF Behind
      <3>3. QED
        BY <1>2, <3>1, <3>2
    <2>8. Places'
      BY <1>1, <2>1, <2>5, <2>6, <2>7 DEF FileInv, Places, Reads
    <2>9. Ungettable'
      BY <1>1, <2>5 DEF Ungettable
    <2>10. CASE held = <<>>
      <3>1. held' = held /\ g \o held = g
        BY <1>2, <2>1, <2>6, <2>10
      <3>2. FileTypes' /\ Ahead'
        BY <1>1, <1>2, <3>1 DEF FileInv, FileTypes, Ahead
      <3>3. Image' = Image /\ Position' = Position
        BY <1>1, <3>1 DEF Image, Position
      <3>4. Progress' = Progress
        BY <1>1, <1>3, <2>5, <3>1
      <3>5. Same
        BY <1>1, <2>1, <3>3, <3>4 DEF Same
      <3>6. QED
        BY <2>5, <2>8, <2>9, <3>2, <3>5, Stutters DEF FileInv, Follows
    <2>11. CASE held # <<>>
      <3> DEFINE k == Len(held)
      <3>1. k \in 0..Len(held) /\ k \in Nat \ {0}
        BY <1>2, <2>11, EmptySeq
      <3>2. /\ FileTypes' /\ Ahead' /\ UNCHANGED Image /\ Image = content
            /\ Position' = Position + k /\ Position \in Nat
            /\ Position + k <= Len(Image) /\ P!Slice(Image, Position, k) = P!Front(held, k)
        BY <1>1, <2>1, <2>11, <3>1, Taking
      <3>3. P!Front(held, k) = held
        <4>1. /\ P!Front(held, k) \in Seq(B) /\ Len(P!Front(held, k)) = k
              /\ \A i \in 1..k : P!Front(held, k)[i] = held[i]
          BY <1>2, <3>1, IsFront
        <4>2. QED
          BY <1>2, <4>1, SameSeq
      <3>4. P!Newline \notin {held[i] : i \in DOMAIN held}
        BY <1>2, <2>2
      <3> HIDE DEF k
      <3>5. Position' - Position = k /\ Position' \in (Position + 1)..Len(Image)
        <4>1. Len(Image) \in Nat
          BY <1>2, <3>2
        <4>2. QED
          BY <3>1, <3>2, <4>1
      <3>6. held = P!Slice(Image, Position, Position' - Position)
        BY <3>2, <3>3, <3>5
      <3>7. Progress' = [Progress EXCEPT !.got = @ \o held] /\ Progress.op = "getline"
        <4>1. Progress.got = g /\ Progress.op = "getline"
          BY <1>3
        <4> DEFINE gh == g \o held
        <4>2. Progress' = [op |-> "getline", arg |-> call.arg, got |-> gh]
          BY <1>1, <2>5
        <4> HIDE DEF gh
        <4>3. Progress' = [Progress EXCEPT !.got = gh]
          BY <1>3, <4>2
        <4>4. QED
          BY <4>1, <4>3, Zenon DEF gh
      <3>8. Plain!Next
        BY <1>1, <2>1, <3>2, <3>4, <3>5, <3>6, <3>7, LineGoesOn
      <3>9. QED
        BY <2>5, <2>8, <2>9, <3>2, <3>8 DEF FileInv, Follows
    <2>12. QED
      BY <2>10, <2>11
  <1>7. QED
    BY <1>5, <1>6

\* flush, once the block is out.
LEMMA FlushStep ==
  ASSUME FileInv, FlushDone
  PROVE  FileInv' /\ Follows
  <1>1. call # P!NoCall /\ Return(<<>>) /\ UNCHANGED <<content, off, seekable, held, writing>>
    BY InCall DEF FlushDone, Doing, file, buf
  <1>2. CallTypes' /\ Places' /\ CallEnds(<<>>) /\ Ungettable'
    BY <1>1, CallReturns, NotLit, EmptySeq
  <1>3. FileTypes' /\ Ahead'
    BY <1>1 DEF FileInv, FileTypes, Ahead
  <1>4. UNCHANGED <<Image, Position>>
    BY <1>1 DEF Image, Position
  <1>5. Progress.op = call.op /\ Progress.arg = call.arg
    BY <1>1, Shape
  <1>6. CASE At("written")
    <2>1. call.op = "write" /\ call.arg = <<>> /\ writing
      BY <1>1, <1>6, InCall DEF FileInv, Places
    <2>2. Image' = P!Over(Image, Position, Progress.arg)
      BY <1>4, <1>5, <2>1, OverNothing
    <2>3. Position' = Position + Len(Progress.arg)
      <3>1. off \in Nat /\ Len(held) \in Nat /\ Position = off + Len(held)
        BY <2>1 DEF FileInv, FileTypes, Position
      <3>2. Position \in Nat /\ Len(<<>>) = 0
        BY <3>1
      <3>3. \A x \in Nat : x + 0 = x
        OBVIOUS
      <3>4. Position + Len(Progress.arg) = Position
        BY <1>5, <2>1, <3>2, <3>3, Zenon
      <3>5. QED
        BY <1>4, <3>4
    <2>4. Plain!Next
      BY <1>2, <1>5, <2>1, <2>2, <2>3, WriteReturns
    <2>5. QED
      BY <1>2, <1>3, <2>4 DEF FileInv, Follows
  <1>7. CASE Doing("flush", "body")
    <2>1. Progress.op = "flush"
      BY <1>5, <1>7 DEF Doing
    <2>2. Plain!Next
      BY <1>2, <1>4, <2>1, OtherReturns
    <2>3. QED
      BY <1>2, <1>3, <2>2 DEF FileInv, Follows
  <1>8. QED
    BY <1>6, <1>7 DEF FlushDone

\* write fills the block, and drains it when it is full or has a line.
LEMMA WriteStep ==
  ASSUME FileInv, Write
  PROVE  FileInv' /\ Follows
  <1>1. /\ call # P!NoCall /\ call.pc = "body" /\ call.op = "write" /\ writing
        /\ UNCHANGED <<content, off, seekable, writing>> /\ writing'
    BY InCall DEF Write, Doing, file, FileInv, Places
  <1> DEFINE b == call.arg
             hb == held \o b
  <1>2. /\ content \in Seq(B) /\ held \in Seq(B) /\ off \in Nat /\ b \in Seq(B) /\ call.got = <<>>
        /\ call.next = "written" => b = <<>>
    BY <1>1 DEF FileInv, FileTypes, CallTypes, Places
  <1>3. Progress = [op |-> "write", arg |-> b, got |-> call.got] /\ Progress.op = "write" /\ Progress.arg = b
    BY <1>1, Shape
  <1>4. Made(call, call.op, b, call.got, call.pc, call.next)
    BY <1>1, Shape
  <1>5. hb \in Seq(B) /\ Len(hb) = Len(held) + Len(b)
    BY <1>2, IsConcat
  <1>6. P!Over(P!Over(content, off, held), off + Len(held), b) = P!Over(content, off, hb)
    BY <1>2, OverOver
  <1> HIDE DEF hb
  <1>7. ASSUME UNCHANGED held, NEW pc \in {"through", "drain"}, Goto(pc), pc = "through" => held = <<>>
        PROVE  FileInv' /\ Follows
    <2>1. pc \in Pcs
      BY DEF Pcs
    <2>2. /\ call' # P!NoCall /\ call'.pc = pc
          /\ call'.op = call.op /\ call'.arg = call.arg /\ call'.got = call.got /\ call'.next = call.next
      BY <1>1, <1>7, <2>1, PcMoves
    <2>3. Places'
      BY <1>1, <1>2, <1>7, <2>2 DEF FileInv, Places, Reads
    <2>4. QED
      BY <1>1, <1>7, <2>1, <2>3, PcStep
  <1>8. ASSUME held' = hb
        PROVE  /\ FileTypes' /\ Ahead'
               /\ Image' = P!Over(Image, Position, b) /\ Position' = Position + Len(b)
    <2>1. FileTypes' /\ Ahead'
      BY <1>1, <1>5, <1>8 DEF FileInv, FileTypes, Ahead
    <2>2. Image = P!Over(content, off, held) /\ Position = off + Len(held)
          /\ Image' = P!Over(content, off, hb) /\ Position' = off + Len(hb)
      BY <1>1, <1>8 DEF Image, Position
    <2>3. Len(held) \in Nat /\ Len(b) \in Nat
      BY <1>2
    <2> DEFINE k == Len(b)
               m == Len(held)
    <2>4. off \in Nat /\ m \in Nat /\ k \in Nat /\ Position = off + m /\ Position' = off + (m + k)
      BY <1>2, <1>5, <2>2, <2>3
    <2> HIDE DEF k, m
    <2>5. Position' = Position + k
      BY <2>4
    <2>6. QED
      BY <1>6, <2>1, <2>2, <2>5 DEF k
  <1>9. CASE (how = "none" \/ Len(call.arg) >= Cap) /\ held = <<>>
    <2>1. UNCHANGED held /\ Goto("through")
      BY <1>9 DEF Write, buf
    <2>2. QED
      BY <1>7, <1>9, <2>1
  <1>10. CASE (how = "none" \/ Len(call.arg) >= Cap) /\ held # <<>>
    <2>1. UNCHANGED held /\ Goto("drain")
      BY <1>10 DEF Write, buf
    <2>2. QED
      BY <1>7, <2>1
  <1>11. CASE ~(how = "none" \/ Len(call.arg) >= Cap) /\ Len(call.arg) > Room
    <2>1. UNCHANGED held /\ Goto("drain")
      BY <1>11 DEF Write, buf
    <2>2. QED
      BY <1>7, <2>1
  <1>12. CASE ~(how = "none" \/ Len(call.arg) >= Cap) /\ ~(Len(call.arg) > Room)
    <2> DEFINE lines == how = "line" /\ P!Newline \in {call.arg[i] : i \in DOMAIN call.arg}
    <2>1. /\ held' = hb
          /\ IF lines
             THEN call' = [call EXCEPT !.arg = <<>>, !.pc = "drain", !.next = "written"] /\ UNCHANGED answer
             ELSE Return(<<>>)
      BY <1>12 DEF Write, hb
    <2>2. /\ FileTypes' /\ Ahead'
          /\ Image' = P!Over(Image, Position, b) /\ Position' = Position + Len(b)
      BY <1>8, <2>1
    <2>3. CASE ~lines
      <3>1. Return(<<>>)
        BY <2>1, <2>3
      <3>2. CallTypes' /\ Places' /\ CallEnds(<<>>) /\ Ungettable'
        BY <1>1, <3>1, CallReturns, NotLit, EmptySeq
      <3>3. Plain!Next
        BY <1>3, <2>2, <3>2, WriteReturns
      <3>4. QED
        BY <2>2, <3>2, <3>3 DEF FileInv, Follows
    <2>4. CASE lines
      <3>1. call' = [call EXCEPT !.arg = <<>>, !.pc = "drain", !.next = "written"] /\ UNCHANGED answer
        BY <2>1, <2>4
      <3>2. Made(call', call.op, <<>>, call.got, "drain", "written") /\ "drain" \in Pcs /\ <<>> \in Seq(B)
        <4>1. Made(call', call.op, <<>>, call.got, "drain", "written")
          BY <1>4, <3>1 DEF Made
        <4>2. "drain" \in Pcs
          BY DEF Pcs
        <4>3. <<>> \in Seq(B)
          OBVIOUS
        <4>4. QED
          BY <4>1, <4>2, <4>3
      <3>3. Len(b) \in Nat \ {0}
        <4>1. b # <<>>
          BY <2>4
        <4>2. QED
          BY <1>2, <4>1, EmptySeq
      <3> HIDE DEF b, lines
      <3>4. call.got \in Seq(B)
        BY <1>2, EmptySeq
      <3>5. /\ CallTypes' /\ call' # P!NoCall /\ call'.pc = "drain" /\ call'.next = "written"
            /\ call'.op = call.op /\ call'.arg = <<>> /\ call'.got = call.got
            /\ Progress' = [op |-> call.op, arg |-> <<>>, got |-> call.got]
        BY <1>1, <3>1, <3>2, <3>4, CallMoves
      <3>6. Places'
        BY <1>1, <1>2, <3>5 DEF Places, Reads
      <3>7. Ungettable'
        BY <1>1, <3>5 DEF Ungettable
      <3> DEFINE n == Len(b)
      <3>8. P!Front(b, n) = b /\ P!After(b, n) = <<>>
        <4>1. n \in 0..Len(b)
          BY <3>3
        <4>2. P!Front(b, n) \in Seq(B) /\ Len(P!Front(b, n)) = Len(b) /\ \A i \in 1..n : P!Front(b, n)[i] = b[i]
          BY <1>2, <4>1, IsFront
        <4>3. P!Front(b, n) = b
          BY <1>2, <4>2, SameSeq
        <4>4. P!After(b, n) \in Seq(B) /\ Len(P!After(b, n)) = Len(b) - n
          BY <1>2, <4>1, IsAfter
        <4>5. Len(b) - n = 0
          BY <3>3
        <4>6. P!After(b, n) = <<>>
          BY <4>4, <4>5, EmptySeq
        <4>7. QED
          BY <4>3, <4>6
      <3>9. n \in 1..Len(Progress.arg)
        <4>1. \A x \in Nat \ {0} : x \in 1..x
          OBVIOUS
        <4>2. QED
          BY <1>3, <3>3, <4>1
      <3> HIDE DEF n
      <3>10. Image' = P!Over(Image, Position, P!Front(Progress.arg, n)) /\ Position' = Position + n
        <4>1. P!Front(Progress.arg, n) = b
          BY <1>3, <3>8
        <4>2. QED
          BY <2>2, <4>1 DEF n
      <3>11. Progress' = [Progress EXCEPT !.arg = P!After(@, n)]
        <4>1. P!After(Progress.arg, n) = <<>>
          BY <1>3, <3>8
        <4>2. Progress' = [Progress EXCEPT !.arg = <<>>]
          BY <1>1, <1>3, <3>5
        <4>3. QED
          BY <4>1, <4>2, Zenon
      <3>12. Plain!Next
        BY <1>1, <1>3, <3>1, <3>9, <3>10, <3>11, WriteGoesOn
      <3>13. QED
        BY <2>2, <3>5, <3>6, <3>7, <3>12 DEF FileInv, Follows
    <2>5. QED
      BY <2>3, <2>4
  <1>13. QED
    BY <1>9, <1>10, <1>11, <1>12

\* A read into the buffer finds the end of the file.
LEMMA FillAtEndStep ==
  ASSUME FileInv, FillAtEnd
  PROVE  FileInv' /\ Follows
  <1>1. /\ call # P!NoCall /\ call.pc = "fill" /\ ~writing
        /\ UNCHANGED <<content, off, seekable, writing>> /\ ~writing' /\ writing' \in BOOLEAN
        /\ held \in {<<>>, <<"h">>} /\ (held # <<>> => call.op = "get")
    BY InCall DEF FillAtEnd, file, FileInv, FileTypes, Places
  <1>2. /\ content \in Seq(B) /\ held \in Seq(B) /\ off \in Nat /\ off >= Len(content)
        /\ Behind(content, held, off)
    BY <1>1 DEF FileInv, FileTypes, Ahead, FillAtEnd, AtEnd
  <1>3. CASE call.op = "get" /\ held # <<>>
    <2>1. held' = P!After(held, 1) /\ Return(<<"rune", "bad">>)
      BY <1>3 DEF FillAtEnd, Consume
    <2>2. held = <<"h">> /\ Len(held) = 1 /\ 1 \in 0..Len(held)
      BY <1>1, <1>3
    <2>3. /\ FileTypes' /\ Ahead' /\ Image = content /\ UNCHANGED Image /\ Position' = Position + 1
          /\ Position < Len(Image)
      BY <1>1, <1>3, <2>1, <2>2, Taking
    <2>4. Position = off - 1 /\ off = Len(content) /\ off \in Nat \ {0}
      <3>1. off <= Len(content) /\ Len(held) <= off
        BY <1>2, <1>3 DEF Behind
      <3>2. Position = off - Len(held)
        BY <1>1 DEF Position
      <3>3. QED
        BY <1>2, <2>2, <3>1, <3>2
    <2>5. P!After(Image, Position) = <<"h">>
      <3> DEFINE m == off - 1
                 a == P!After(content, m)
      <3>1. m \in 0..Len(content) /\ Len(content) - m = 1
        BY <1>2, <2>4
      <3>2. a \in Seq(B) /\ Len(a) = Len(content) - m /\ \A i \in 1..(Len(content) - m) : a[i] = content[m + i]
        <4> HIDE DEF m
        <4>1. QED
          BY <1>2, <3>1, IsAfter
      <3>3. content[m + 1] = held[1]
        <4>1. content[off - Len(held) + 1] = held[1]
          BY <2>2 , <1>2 DEF Behind
        <4>2. QED
          BY <2>2, <4>1
      <3>4. Len(a) = 1 /\ a[1] = held[1]
        <4> HIDE DEF m, a
        <4>1. QED
          BY <3>1, <3>2, <3>3
      <3> HIDE DEF a
      <3>5. a = held
        <4>1. \A i \in 1..Len(a) : a[i] = held[i]
          BY <3>4
        <4>2. QED
          BY <1>2, <2>2, <3>2, <3>4, <4>1, SameSeq
      <3>6. QED
        BY <2>2, <2>3, <2>4, <3>5 DEF a
    <2>6. P!RuneAt(Image, Position) = <<"bad">> /\ P!WidthAt(Image, Position) = 1
      BY <2>5 DEF P!RuneAt, P!WidthAt
    <2>7. <<"rune", "bad">> = <<"rune">> \o <<"bad">>
      OBVIOUS
    <2>8. CallTypes' /\ Places' /\ CallEnds(<<"rune">> \o <<"bad">>) /\ Ungettable'
      <3>1. Return(<<"rune">> \o <<"bad">>)
        BY <2>1, <2>7, Zenon
      <3>2. QED
        BY <1>1, <3>1, CallReturns, NotLit
    <2>9. Progress.op = "get"
      BY <1>1, <1>3, Shape
    <2>10. Plain!Next
      BY <2>3, <2>6, <2>8, <2>9, GetReturns
    <2>11. QED
      BY <2>3, <2>8, <2>10 DEF FileInv, Follows
  <1>4. CASE ~(call.op = "get" /\ held # <<>>) /\ call.op = "getline" /\ call.got # <<>>
    <2>1. UNCHANGED held /\ Return(P!Line(call.got))
      BY <1>4 DEF FillAtEnd, buf
    <2>2. held = <<>> /\ off <= Len(content) /\ call.got \in Seq(B)
      BY <1>1, <1>4 DEF FileInv, Places, CallTypes
    <2>3. CallTypes' /\ Places' /\ CallEnds(P!Line(call.got)) /\ Ungettable'
      BY <1>1, <2>1, <2>2, CallReturns, NotLit
    <2>4. FileTypes' /\ Ahead'
      BY <1>1, <2>1 DEF FileInv, FileTypes, Ahead
    <2>5. UNCHANGED <<Image, Position>>
      BY <1>1, <2>1 DEF Image, Position
    <2>6. Position = Len(Image)
      <3>1. Image = content /\ Position = off - Len(held)
        BY <1>1 DEF Image, Position
      <3>2. Len(held) = 0 /\ off = Len(content)
        BY <1>2, <2>2
      <3>3. QED
        BY <1>2, <3>1, <3>2
    <2>7. Progress.op = "getline" /\ Progress.got = call.got
      BY <1>1, <1>4, Shape
    <2>8. Plain!Next
      BY <1>4, <2>3, <2>5, <2>6, <2>7, LastLineReturns
    <2>9. QED
      BY <2>3, <2>4, <2>8 DEF FileInv, Follows
  <1>5. CASE ~(call.op = "get" /\ held # <<>>) /\ ~(call.op = "getline" /\ call.got # <<>>)
    <2>1. UNCHANGED held /\ Return(P!Error)
      BY <1>5 DEF FillAtEnd, buf
    <2>2. QED
      BY <1>1, <2>1, FailStep
  <1>6. QED
    BY <1>3, <1>4, <1>5

\* A read into the buffer brings bytes.
LEMMA FillStep ==
  ASSUME FileInv, Fill
  PROVE  FileInv' /\ Follows
  <1>1. /\ call # P!NoCall /\ call.pc = "fill" /\ ~writing /\ call.op \in Reads
        /\ UNCHANGED <<content, seekable, writing>> /\ ~writing' /\ writing' \in BOOLEAN
        /\ Goto("body") /\ "body" \in Pcs
    BY InCall DEF Fill, file, FileInv, FileTypes, Places, Pcs
  <1>2. content \in Seq(B) /\ held \in Seq(B) /\ off \in Nat /\ Behind(content, held, off)
    BY <1>1 DEF FileInv, FileTypes, Ahead
  <1>3. PICK n \in 1..P!Smaller(Cap - Len(held), Len(content) - off) :
               held' = held \o P!Slice(content, off, n) /\ off' = off + n
    BY DEF Fill
  <1>4. n \in Nat \ {0} /\ off + n <= Len(content)
    BY <1>2, CapAssumption DEF P!Smaller
  <1>5. /\ held' \in Seq(B) /\ Len(held') = Len(held) + n /\ Behind(content, held', off')
    BY <1>2, <1>3, <1>4, BehindMore
  <1>6. /\ CallTypes' /\ call' # P!NoCall /\ call'.pc = "body" /\ Progress' = Progress /\ UNCHANGED answer
        /\ call'.op = call.op /\ call'.arg = call.arg /\ call'.got = call.got /\ call'.next = call.next
    BY <1>1, PcMoves
  <1>7. off' \in Nat /\ off' <= Len(content')
    BY <1>1, <1>2, <1>3, <1>4
  <1>8. FileTypes' /\ Ahead'
    BY <1>1, <1>5, <1>7 DEF FileInv, FileTypes, Ahead
  <1>9. Places'
    BY <1>1, <1>6, <1>7 DEF FileInv, Places, Reads
  <1>10. Ungettable'
    BY <1>1, <1>6 DEF Ungettable, Reads
  <1>11. Same
    <2>1. Image' = Image
      BY <1>1 DEF Image
    <2>2. Position = off - Len(held) /\ Position' = off' - Len(held')
      BY <1>1 DEF Position
    <2> DEFINE m == Len(held)
    <2>3. m \in Nat /\ Position = off - m /\ Position' = (off + n) - (m + n)
      BY <1>2, <1>3, <1>5, <2>2
    <2> HIDE DEF m
    <2>4. Position' = Position
      BY <1>2, <1>4, <2>3
    <2>5. QED
      BY <1>1, <1>6, <2>1, <2>4 DEF Same
  <1>12. QED
    BY <1>6, <1>8, <1>9, <1>10, <1>11, Stutters DEF FileInv, Follows

\* A read past the buffer.
LEMMA DirectStep ==
  ASSUME FileInv, Direct
  PROVE  FileInv' /\ Follows
  <1>1. /\ call # P!NoCall /\ call.pc = "direct" /\ ~writing /\ call.op = "read" /\ held = <<>>
        /\ UNCHANGED <<content, seekable, writing, held>> /\ ~writing' /\ writing' \in BOOLEAN
    BY InCall DEF Direct, file, buf, FileInv, FileTypes, Places
  <1> DEFINE b == call.arg
  <1>2. content \in Seq(B) /\ off \in Nat /\ b \in Nat \ {0} /\ Len(content) \in Nat
    BY <1>1 DEF FileInv, FileTypes, CallTypes
  <1>3. Progress.op = "read" /\ Progress.arg = b
    BY <1>1, Shape
  <1> HIDE DEF b
  <1>4. CASE AtEnd
    <2>1. Return(P!Error) /\ UNCHANGED off
      BY <1>4 DEF Direct, Fail
    <2>2. QED
      BY <1>1, <2>1, FailStep
  <1>5. CASE ~AtEnd
    <2>1. PICK n \in 1..P!Smaller(b, Len(content) - off) :
                 off' = off + n /\ Return(P!Slice(content, off, n))
      BY <1>5 DEF Direct, b
    <2>2. n \in 1..b /\ n \in Nat /\ off + n <= Len(content)
      BY <1>2 DEF P!Smaller
    <2>3. off' \in Nat /\ held' \in Seq(B) /\ held' = <<>>
      BY <1>1, <1>2, <2>1, <2>2
    <2>4. FileTypes' /\ Ahead'
      <3>1. Behind(content', held', off')
        BY <2>3, BehindNothing
      <3>2. QED
        BY <1>1, <2>3, <3>1 DEF FileInv, FileTypes, Ahead
    <2>5. P!Slice(content, off, n) \in Seq(B)
      BY <1>2, <2>2, IsSlice
    <2>6. CallTypes' /\ Places' /\ CallEnds(P!Slice(content, off, n)) /\ Ungettable'
      BY <1>1, <2>1, <2>5, CallReturns, NotLit
    <2>7. Image = content /\ Image' = content /\ Position = off /\ Position' = off + n
      <3>1. Position = off - Len(held) /\ Position' = off' - Len(held') /\ Image = content /\ Image' = content'
        BY <1>1 DEF Image, Position
      <3>2. Len(held) = 0 /\ Len(held') = 0 /\ \A x \in Nat : x - 0 = x
        BY <1>1
      <3>3. QED
        BY <1>1, <1>2, <2>1, <2>3, <3>1, <3>2, Zenon
    <2>8. Plain!Next
      BY <1>3, <2>2, <2>6, <2>7, ReadReturns
    <2>9. QED
      BY <2>4, <2>6, <2>8 DEF FileInv, Follows
  <1>6. QED
    BY <1>4, <1>5

\* seek from the start or from the position.
LEMMA SeekStep ==
  ASSUME FileInv, Seek
  PROVE  FileInv' /\ Follows
  <1>1. /\ call # P!NoCall /\ call.pc = "body" /\ call.op = "seek" /\ (~writing \/ held = <<>>)
        /\ UNCHANGED <<content, seekable>> /\ ~writing' /\ writing' \in BOOLEAN /\ held' = <<>>
    BY InCall DEF Seek, Doing, Reset, file, FileInv, FileTypes, Places
  <1> DEFINE a == call.arg
  <1>2. content \in Seq(B) /\ held \in Seq(B) /\ off \in Nat /\ a \in [whence : {"set", "cur", "end"}, off : Int]
    BY <1>1 DEF FileInv, FileTypes, CallTypes
  <1>3. Progress.op = "seek" /\ Progress.arg = a
    BY <1>1, Shape
  <1>4. a.off \in Int /\ a.whence \in {"set", "cur", "end"}
    BY <1>2
  <1> DEFINE back == IF writing THEN 0 ELSE Len(held)
             to == CASE a.whence = "set" -> a.off
                     [] a.whence = "cur" -> off + a.off - back
                     [] OTHER -> 0
  <1>5. back \in Nat /\ back <= off /\ Position = off - back
    <2>1. CASE writing
      <3>1. held = <<>> /\ back = 0 /\ Position = off + Len(held)
        BY <1>1, <2>1 DEF Position
      <3>2. QED
        BY <1>2, <3>1
    <2>2. CASE ~writing
      BY <1>2, <2>2 DEF FileInv, Ahead, Behind, Position
    <2>3. QED
      BY <2>1, <2>2
  <1>6. Image = content /\ Image' = content
    <2>1. Image' = content
      BY <1>1 DEF Image
    <2>2. CASE writing
      <3>1. Image = P!Over(content, off, <<>>)
        BY <1>1, <2>2 DEF Image
      <3>2. QED
        BY <2>1, <3>1, OverNothing
    <2>3. CASE ~writing
      BY <2>1, <2>3 DEF Image
    <2>4. QED
      BY <2>2, <2>3
  <1>7. ASSUME off' \in Nat
        PROVE  FileTypes' /\ Ahead' /\ Position' = off'
    <2>1. held' \in Seq(B) /\ Behind(content', held', off')
      BY <1>1, <1>7, BehindNothing
    <2>2. Position' = off' - Len(held') /\ Len(held') = 0
      BY <1>1 DEF Position
    <2>3. \A x \in Nat : x - 0 = x
      OBVIOUS
    <2>4. Position' = off'
      BY <1>7, <2>2, <2>3, Zenon
    <2>5. FileTypes' /\ Ahead'
      BY <1>1, <1>7, <2>1 DEF FileInv, FileTypes, Ahead
    <2>6. QED
      BY <2>4, <2>5
  <1>8. CASE a.whence = "end" /\ seekable
    <2>1. Goto("stat") /\ UNCHANGED off /\ "stat" \in Pcs
      BY <1>8 DEF Seek, a, Pcs
    <2>2. /\ CallTypes' /\ call' # P!NoCall /\ call'.pc = "stat" /\ Progress' = Progress /\ UNCHANGED answer
          /\ call'.op = call.op /\ call'.arg = call.arg /\ call'.got = call.got /\ call'.next = call.next
      BY <1>1, <2>1, PcMoves
    <2>3. FileTypes' /\ Ahead' /\ Position' = off
      BY <1>2, <1>7, <2>1
    <2>4. Places'
      BY <1>1, <1>8, <2>2 DEF FileInv, Places, Reads
    <2>5. Ungettable'
      BY <1>1, <2>2 DEF Ungettable
    <2>6. Position' >= Position
      <3> HIDE DEF back
      <3>1. QED
        BY <1>2, <1>5, <2>3
    <2>7. Plain!Next
      BY <1>1, <1>3, <1>6, <1>8, <2>2, <2>6, SeekLosesPlace
    <2>8. QED
      BY <2>2, <2>3, <2>4, <2>5, <2>7 DEF FileInv, Follows
  <1>9. CASE ~(a.whence = "end" /\ seekable)
    <2>1. SeekTo(to)
      <3>1. CASE a.whence = "set"
        BY <3>1 DEF Seek
      <3>2. CASE a.whence = "cur"
        <4>1. SeekTo(off + a.off - Back)
          BY <3>2 DEF Seek
        <4>2. Back = back
          BY <3>2 DEF Back
        <4>3. to = off + a.off - back
          BY <3>2
        <4>4. QED
          BY <4>1, <4>2, <4>3
      <3>3. CASE a.whence = "end"
        <4>1. ~seekable /\ to = 0
          BY <1>9, <3>3
        <4>2. QED
          BY <3>3, <4>1 DEF Seek
      <3>4. QED
        BY <1>4, <3>1, <3>2, <3>3
    <2>2. to \in Int
      BY <1>2, <1>4, <1>5
    <2>3. a.whence = "end" => ~seekable
      BY <1>9
    <2>4. CASE ~seekable \/ to < 0
      <3>1. Return(P!Error) /\ UNCHANGED off
        BY <2>1, <2>4 DEF SeekTo, Fail
      <3>2. CallTypes' /\ Places' /\ CallEnds(P!Error) /\ Ungettable'
        BY <1>1, <3>1, CallReturns, NotLit
      <3>3. FileTypes' /\ Ahead' /\ Position' = off
        BY <1>2, <1>7, <3>1
      <3>4. Position' >= Position
        <4> HIDE DEF back
        <4>1. QED
          BY <1>2, <1>5, <3>3
      <3>5. Plain!Next
        BY <1>3, <1>6, <3>2, <3>4, CallFails
      <3>6. QED
        BY <3>2, <3>3, <3>5 DEF FileInv, Follows
    <2>5. CASE ~(~seekable \/ to < 0)
      <3>1. Return(<<>>) /\ off' = to
        BY <2>1, <2>5 DEF SeekTo
      <3>2. CallTypes' /\ Places' /\ CallEnds(<<>>) /\ Ungettable'
        BY <1>1, <3>1, CallReturns, NotLit, EmptySeq
      <3>3. to \in Nat
        BY <2>2, <2>5
      <3> HIDE DEF to
      <3>4. FileTypes' /\ Ahead' /\ Position' = to
        BY <1>7, <3>1, <3>3
      <3>5. to = CASE a.whence = "set" -> a.off
                   [] a.whence = "cur" -> Position + a.off
                   [] OTHER -> Len(Image) + a.off
        <4>1. CASE a.whence = "set"
          BY <4>1 DEF to
        <4>2. CASE a.whence = "cur"
          <5>1. to = off + a.off - back
            BY <4>2 DEF to
          <5> HIDE DEF back
          <5>2. off + a.off - back = Position + a.off
            BY <1>2, <1>4, <1>5
          <5>3. QED
            BY <4>2, <5>1, <5>2
        <4>3. a.whence # "end"
          BY <2>3, <2>5
        <4>4. QED
          BY <1>4, <4>1, <4>2, <4>3
      <3>6. Position' >= 0
        BY <3>3, <3>4
      <3>7. Position' = CASE Progress.arg.whence = "set" -> Progress.arg.off
                          [] Progress.arg.whence = "cur" -> Position + Progress.arg.off
                          [] OTHER -> Len(Image) + Progress.arg.off
        BY <1>3, <3>4, <3>5
      <3>8. Plain!Next
        BY <1>3, <1>6, <3>2, <3>6, <3>7, SeekReturns
      <3>9. QED
        BY <3>2, <3>4, <3>8 DEF FileInv, Follows
    <2>6. QED
      BY <2>4, <2>5
  <1>10. QED
    BY <1>8, <1>9

\* seek from the end, with the answer of stat.
LEMMA SeekEndStep ==
  ASSUME FileInv, SeekEnd
  PROVE  FileInv' /\ Follows
  <1>1. /\ call # P!NoCall /\ call.pc = "stat" /\ call.op = "seek" /\ ~writing /\ held = <<>>
        /\ UNCHANGED <<content, seekable, held, writing>> /\ ~writing'
        /\ SeekTo(Len(content) + call.arg.off)
    BY InCall DEF SeekEnd, file, buf, FileInv, Places
  <1> DEFINE a == call.arg
             to == Len(content) + a.off
  <1>2. content \in Seq(B) /\ off \in Nat /\ a \in [whence : {"set", "cur", "end"}, off : Int] /\ a.whence = "end"
    BY <1>1 DEF FileInv, FileTypes, CallTypes, Places
  <1>3. Progress.op = "seek" /\ Progress.arg = a
    BY <1>1, Shape
  <1>4. Image = content /\ Image' = content
    BY <1>1 DEF Image
  <1>5. to \in Int
    <2>1. a.off \in Int /\ Len(content) \in Nat
      BY <1>2
    <2>2. QED
      BY <2>1
  <1>6. CASE ~seekable \/ to < 0
    <2>1. Return(P!Error) /\ UNCHANGED off
      BY <1>1, <1>6 DEF SeekTo, Fail
    <2>2. QED
      BY <1>1, <2>1, FailStep
  <1>7. CASE ~(~seekable \/ to < 0)
    <2>1. Return(<<>>) /\ off' = to
      BY <1>1, <1>7 DEF SeekTo
    <2>2. CallTypes' /\ Places' /\ CallEnds(<<>>) /\ Ungettable'
      BY <1>1, <2>1, CallReturns, NotLit, EmptySeq
    <2>3. to \in Nat
      BY <1>5, <1>7
    <2>4. to = Len(Image) + Progress.arg.off
      BY <1>3, <1>4
    <2> HIDE DEF to
    <2>5. Position' = to
      <3>1. Position' = off' - Len(held') /\ Len(held') = 0
        BY <1>1 DEF Position
      <3>2. \A x \in Nat : x - 0 = x
        OBVIOUS
      <3>3. QED
        BY <2>1, <2>3, <3>1, <3>2, Zenon
    <2>6. FileTypes' /\ Ahead'
      <3>1. off' \in Nat /\ held' = <<>>
        BY <1>1, <2>1, <2>3
      <3>2. Behind(content', held', off')
        BY <3>1, BehindNothing
      <3>3. QED
        BY <1>1, <3>1, <3>2 DEF FileInv, FileTypes, Ahead
    <2>7. Position' >= 0
      BY <2>3, <2>5
    <2>8. Position' = CASE Progress.arg.whence = "set" -> Progress.arg.off
                        [] Progress.arg.whence = "cur" -> Position + Progress.arg.off
                        [] OTHER -> Len(Image) + Progress.arg.off
      BY <1>2, <1>3, <2>4, <2>5
    <2>9. Plain!Next
      BY <1>3, <1>4, <2>2, <2>7, <2>8, SeekReturns
    <2>10. QED
      BY <2>2, <2>6, <2>9 DEF FileInv, Follows
  <1>8. QED
    BY <1>6, <1>7

\* close, of which only the first error is kept.
LEMMA CloseStep ==
  ASSUME FileInv, Close
  PROVE  FileInv' /\ Follows
  <1>1. /\ call # P!NoCall /\ call.op = "close" /\ (call.pc = "body" \/ call.pc = "failed")
        /\ UNCHANGED <<content, off, seekable, writing>> /\ held' = <<>>
        /\ (call.pc = "body" => ~writing \/ held = <<>>)
    BY InCall DEF Close, Doing, Reset, file, FileInv, Places
  <1>2. content \in Seq(B) /\ off \in Nat
    BY DEF FileInv, FileTypes
  <1>3. FileTypes' /\ Ahead'
    <2>1. Behind(content', held', off') /\ held' \in Seq(B)
      BY <1>1, <1>2, BehindNothing
    <2>2. QED
      BY <1>1, <2>1 DEF FileInv, FileTypes, Ahead
  <1>4. Progress.op = "close"
    BY <1>1, Shape
  <1>5. CASE At("failed")
    <2>1. Return(P!Error)
      BY <1>5 DEF Close
    <2>2. CallTypes' /\ Places' /\ CallEnds(P!Error) /\ Ungettable'
      BY <1>1, <2>1, CallReturns, NotLit
    <2>3. Plain!Next
      BY <1>4, <2>2, CallFails
    <2>4. QED
      BY <1>3, <2>2, <2>3 DEF FileInv, Follows
  <1>6. CASE ~At("failed")
    <2>1. Return(<<>>) /\ (~writing \/ held = <<>>)
      BY <1>1, <1>6 DEF Close, Doing, At
    <2>2. CallTypes' /\ Places' /\ CallEnds(<<>>) /\ Ungettable'
      BY <1>1, <2>1, CallReturns, NotLit, EmptySeq
    <2>3. Image' = Image
      <3>1. CASE writing
        <4>1. Image = P!Over(content, off, <<>>) /\ Image' = P!Over(content, off, <<>>)
          BY <1>1, <2>1, <3>1 DEF Image
        <4>2. QED
          BY <4>1
      <3>2. CASE ~writing
        BY <1>1, <3>2 DEF Image
      <3>3. QED
        BY <3>1, <3>2
    <2>4. Plain!Next
      BY <1>4, <2>2, <2>3, OtherReturns
    <2>5. QED
      BY <1>3, <2>2, <2>4 DEF FileInv, Follows
  <1>7. QED
    BY <1>5, <1>6

\* detach gives back what was read ahead.
LEMMA DetachStep ==
  ASSUME FileInv, Detach
  PROVE  FileInv' /\ Follows
  <1>1. /\ call # P!NoCall /\ call.op = "detach" /\ call.pc = "body"
        /\ UNCHANGED <<content, seekable, writing>> /\ (~writing \/ held = <<>>)
    BY InCall DEF Detach, Doing, file, FileInv, Places
  <1>2. content \in Seq(B) /\ held \in Seq(B) /\ off \in Nat
    BY DEF FileInv, FileTypes
  <1>3. CASE ~writing /\ held # <<>> /\ ~seekable
    <2>1. Return(P!Error) /\ UNCHANGED <<off, held>>
      BY <1>3 DEF Detach, buf
    <2>2. QED
      BY <1>1, <2>1, FailStep
  <1>4. CASE ~(~writing /\ held # <<>> /\ ~seekable)
    <2>1. Return(<<>>) /\ held' = <<>> /\ off' = IF writing THEN off ELSE off - Len(held)
      BY <1>4 DEF Detach, Reset
    <2>2. CallTypes' /\ Places' /\ CallEnds(<<>>) /\ Ungettable'
      BY <1>1, <2>1, CallReturns, NotLit, EmptySeq
    <2>3. Progress.op = "detach"
      BY <1>1, Shape
    <2>4. Len(held') = 0 /\ held' \in Seq(B)
      BY <2>1
    <2>5. CASE writing
      <3>1. held' = held /\ off' = off
        BY <1>1, <2>1, <2>5
      <3>2. UNCHANGED <<Image, Position>>
        BY <1>1, <3>1 DEF Image, Position
      <3>3. FileTypes' /\ Ahead'
        BY <1>1, <3>1 DEF FileInv, FileTypes, Ahead
      <3>4. Plain!Next
        BY <2>2, <2>3, <3>2, OtherReturns
      <3>5. QED
        BY <2>2, <3>3, <3>4 DEF FileInv, Follows
    <2>6. CASE ~writing
      <3>1. off' = off - Len(held) /\ off - Len(held) \in Nat
        BY <1>2, <2>1, <2>6 DEF FileInv, Ahead, Behind
      <3>2. Image' = Image
        BY <1>1, <2>6 DEF Image
      <3>3. Position = off - Len(held) /\ Position' = off' - Len(held')
        BY <1>1, <2>6 DEF Position
      <3>4. \A x \in Nat : x - 0 = x
        OBVIOUS
      <3>5. Position' = Position
        BY <2>4, <3>1, <3>3, <3>4, Zenon
      <3>6. Behind(content', held', off')
        BY <2>1, <3>1, BehindNothing
      <3>7. FileTypes' /\ Ahead'
        BY <1>1, <2>4, <3>1, <3>6 DEF FileInv, FileTypes, Ahead
      <3>8. Plain!Next
        BY <2>2, <2>3, <3>2, <3>5, OtherReturns
      <3>9. QED
        BY <2>2, <3>7, <3>8 DEF FileInv, Follows
    <2>7. QED
      BY <2>5, <2>6
  <1>5. QED
    BY <1>3, <1>4

\* unget_rune puts the bytes before what is held.
LEMMA UngetStep ==
  ASSUME FileInv, Unget
  PROVE  FileInv' /\ Follows
  <1>1. /\ call # P!NoCall /\ call.op = "unget" /\ call.pc = "body"
        /\ UNCHANGED <<content, off, seekable, writing>>
    BY InCall DEF Unget, Doing, file
  <1> DEFINE b == call.arg
             bh == b \o held
  <1>2. content \in Seq(B) /\ held \in Seq(B) /\ off \in Nat /\ b \in Seq(B) /\ Behind(content, b, off - Len(held))
    BY <1>1 DEF FileInv, FileTypes, CallTypes, Ungettable
  <1>3. Progress.op = "unget" /\ Progress.arg = b
    BY <1>1, Shape
  <1>4. CASE ~writing /\ Len(call.arg) + Len(held) <= Cap
    <2>1. held' = bh /\ Return(<<>>)
      BY <1>4 DEF Unget
    <2> HIDE DEF b
    <2>2. Behind(content, held, off)
      BY <1>4 DEF FileInv, Ahead
    <2>3. bh \in Seq(B) /\ Len(bh) = Len(b) + Len(held) /\ Behind(content, bh, off)
      BY <1>2, <2>2, BehindConcat, IsConcat
    <2> HIDE DEF bh
    <2>4. FileTypes' /\ Ahead'
      BY <1>1, <2>1, <2>3 DEF FileInv, FileTypes, Ahead
    <2>5. CallTypes' /\ Places' /\ CallEnds(<<>>) /\ Ungettable'
      BY <1>1, <2>1, CallReturns, NotLit, EmptySeq
    <2> DEFINE k == Len(b)
               m == Len(held)
    <2>6. Image = content /\ Image' = content /\ Position = off - m /\ Position' = off - Len(held')
      BY <1>1, <1>4 DEF Image, Position
    <2>7. k \in Nat /\ m \in Nat /\ Len(held') = k + m /\ m <= off /\ k <= off - m
      BY <1>2, <2>1, <2>2, <2>3 DEF Behind
    <2> HIDE DEF k, m
    <2>8. Position' = Position - k /\ Position >= k
      BY <1>2, <2>6, <2>7
    <2>9. P!Slice(Image, Position', k) = b
      <3>1. CASE b = <<>>
        <4>1. k = 0
          BY <3>1 DEF k
        <4>2. P!Slice(Image, Position', 0) = <<>>
          <5>1. Position' \in Nat
            BY <1>2, <2>6, <2>7, <2>8
          <5>2. QED
            BY <5>1, SliceOfNothing
        <4>3. QED
          BY <3>1, <4>1, <4>2
      <3>2. CASE b # <<>>
        <4> DEFINE p == off - m
        <4>1. p \in Nat /\ Behind(content, b, p)
          BY <1>2, <2>7 DEF m
        <4>2. k \in 0..Len(b)
          BY <2>7 DEF k
        <4> HIDE DEF p
        <4>3. P!Slice(content, p - Len(b), k) = P!Front(b, k)
          BY <1>2, <3>2, <4>1, <4>2, BehindSlice
        <4>4. P!Front(b, k) = b
          <5>1. P!Front(b, k) \in Seq(B) /\ Len(P!Front(b, k)) = Len(b) /\ \A i \in 1..k : P!Front(b, k)[i] = b[i]
            BY <1>2, <4>2, IsFront DEF k
          <5>2. QED
            BY <1>2, <5>1, SameSeq DEF k
        <4>5. Position' = p - Len(b)
          BY <2>6, <2>8 DEF p, k
        <4>6. QED
          BY <2>6, <4>3, <4>4, <4>5
      <3>3. QED
        BY <3>1, <3>2
    <2>10. Position >= Len(Progress.arg) /\ Position' = Position - Len(Progress.arg)
           /\ P!Slice(Image, Position', Len(Progress.arg)) = Progress.arg
      BY <1>3, <2>8, <2>9 DEF k
    <2>11. Plain!Next
      BY <1>3, <2>5, <2>6, <2>10, UngetReturns
    <2>12. QED
      BY <2>4, <2>5, <2>11 DEF FileInv, Follows
  <1>5. CASE ~(~writing /\ Len(call.arg) + Len(held) <= Cap)
    <2>1. UNCHANGED held /\ Return(P!Error)
      BY <1>5 DEF Unget, buf
    <2>2. QED
      BY <1>1, <2>1, FailStep
  <1>6. QED
    BY <1>4, <1>5

\* The future of a call is dropped at an await.
LEMMA DropStep ==
  ASSUME FileInv, Drop
  PROVE  FileInv' /\ Follows
  <1>1. call # P!NoCall /\ Return(P!NoAnswer) /\ UNCHANGED <<seekable, held, writing>>
    BY InCall DEF Drop, file, buf
  <1>2. content \in Seq(B) /\ held \in Seq(B) /\ off \in Nat /\ call.op \in Ops
    BY <1>1, Shape DEF FileInv, FileTypes
  <1>3. CallTypes' /\ Places' /\ CallEnds(P!NoAnswer) /\ Ungettable'
    BY <1>1, CallReturns, NotLit
  <1>4. Progress.op = call.op /\ Progress.arg = call.arg
    BY <1>1, Shape
  <1>5. CASE UNCHANGED <<content, off>>
    <2>1. FileTypes' /\ Ahead'
      BY <1>1, <1>5 DEF FileInv, FileTypes, Ahead
    <2>2. UNCHANGED <<Image, Position>>
      BY <1>1, <1>5 DEF Image, Position
    <2>3. Plain!Next
      BY <1>3, <2>2, CallDropped
    <2>4. QED
      BY <1>3, <2>1, <2>3 DEF FileInv, Follows
  <1>6. CASE /\ At("drain") /\ UNCHANGED off
             /\ \E n \in 1..Len(held) : content' = P!Over(content, off, P!Front(held, n))
    <2>1. PICK n \in 1..Len(held) : content' = P!Over(content, off, P!Front(held, n))
      BY <1>6
    <2>2. writing
      BY <1>6, InCall DEF FileInv, Places
    <2>3. P!Front(held, n) \in Seq(B) /\ n = Len(P!Front(held, n)) /\ n \in Nat \ {0}
      BY <1>2, IsFront
    <2>4. content' \in Seq(B)
      BY <1>2, <2>1, <2>3, IsOver
    <2>5. FileTypes' /\ Ahead'
      BY <1>1, <1>6, <2>2, <2>4 DEF FileInv, FileTypes, Ahead
    <2>6. Image' = Image
      <3>1. P!Over(P!Over(content, off, P!Front(held, n)), off, held) = P!Over(content, off, held)
        BY <1>2, OverAgain
      <3>2. Image = P!Over(content, off, held) /\ Image' = P!Over(content', off, held)
        BY <1>1, <1>6, <2>2 DEF Image
      <3>3. QED
        BY <2>1, <3>1, <3>2, Zenon
    <2>7. Position' = Position
      BY <1>1, <1>6 DEF Position
    <2>8. Plain!Next
      BY <1>3, <2>6, <2>7, CallDropped
    <2>9. QED
      BY <1>3, <2>5, <2>8 DEF FileInv, Follows
  <1>7. CASE /\ At("through") /\ UNCHANGED off
             /\ \E n \in 1..Len(call.arg) : content' = P!Over(content, off, P!Front(call.arg, n))
    <2> DEFINE b == call.arg
    <2>1. call.op = "write" /\ writing /\ held = <<>> /\ call.pc = "through"
      BY <1>7, InCall DEF FileInv, Places
    <2>2. b \in Seq(B)
      BY <1>1, <2>1 DEF FileInv, CallTypes
    <2> HIDE DEF b
    <2>3. PICK n \in 1..Len(b) : content' = P!Over(content, off, P!Front(b, n))
      BY <1>7 DEF b
    <2>4. P!Front(b, n) \in Seq(B) /\ n = Len(P!Front(b, n)) /\ n \in Nat \ {0}
      BY <2>2, IsFront
    <2>5. content' \in Seq(B)
      BY <1>2, <2>3, <2>4, IsOver
    <2>6. FileTypes' /\ Ahead'
      BY <1>1, <1>7, <2>1, <2>5 DEF FileInv, FileTypes, Ahead
    <2>7. Image = content /\ Image' = content' /\ Position' = Position /\ Position = off
      <3>1. Image = P!Over(content, off, <<>>) /\ Image' = P!Over(content', off, <<>>)
        BY <1>1, <1>7, <2>1 DEF Image
      <3>2. Position = off + Len(held) /\ Position' = off + Len(held) /\ Len(held) = 0
        BY <1>1, <1>7, <2>1 DEF Position
      <3>3. \A x \in Nat : x + 0 = x
        OBVIOUS
      <3>4. Position' = Position /\ Position = off
        BY <1>2, <3>2, <3>3, Zenon
      <3>5. QED
        BY <3>1, <3>4, OverNothing
    <2>8. Progress.op = "write" /\ Progress.arg = b
      BY <1>4, <2>1 DEF b
    <2>9. Plain!Next
      BY <1>3, <2>3, <2>7, <2>8, CallDropped
    <2>10. QED
      BY <1>3, <2>6, <2>9 DEF FileInv, Follows
  <1>8. CASE /\ At("fill") \/ At("direct")
             /\ ~seekable /\ UNCHANGED off
             /\ \E p \in (off + 1)..Len(content) :
                  content' = P!Front(content, off) \o P!After(content, p)
    <2>1. PICK p \in (off + 1)..Len(content) : content' = P!Front(content, off) \o P!After(content, p)
      BY <1>8
    <2>2. ~writing /\ Behind(content, held, off)
      BY <1>8, InCall DEF FileInv, Places, Ahead
    <2>3. off \in 0..Len(content) /\ p \in 0..Len(content)
      BY <1>2
    <2> DEFINE f == P!Front(content, off)
               a == P!After(content, p)
    <2>4. f \in Seq(B) /\ Len(f) = off /\ \A i \in 1..off : f[i] = content[i]
      BY <1>2, <2>3, IsFront
    <2>5. a \in Seq(B)
      BY <1>2, <2>3, IsAfter
    <2>6. content' = f \o a
      BY <2>1
    <2> HIDE DEF f, a
    <2>7. content' \in Seq(B) /\ off <= Len(content') /\ \A i \in 1..off : content'[i] = content[i]
      <3> DEFINE fa == f \o a
      <3>1. fa \in Seq(B) /\ Len(fa) = off + Len(a) /\ \A i \in 1..off : fa[i] = f[i]
        BY <2>4, <2>5, IsConcat
      <3>2. off <= Len(fa) /\ \A i \in 1..off : fa[i] = content[i]
        <4>1. Len(a) \in Nat
          BY <2>5
        <4> HIDE DEF fa
        <4>2. QED
          BY <1>2, <2>4, <3>1, <4>1
      <3>3. QED
        BY <2>6, <3>1, <3>2
    <2>8. Behind(content', held, off)
      BY <1>2, <2>2, <2>7, BehindStays
    <2>9. FileTypes' /\ Ahead'
      BY <1>1, <1>8, <2>7, <2>8 DEF FileInv, FileTypes, Ahead
    <2>10. Image = content /\ Image' = content' /\ Position' = Position /\ Position = off - Len(held)
      BY <1>1, <1>8, <2>2 DEF Image, Position
    <2>11. off \in Position..Len(Image) /\ p \in Position..Len(Image) /\ off < p
      <3>1. Len(held) \in Nat /\ Len(held) <= off /\ Len(content) \in Nat
        BY <1>2, <2>2 DEF Behind
      <3>2. QED
        BY <1>2, <2>3, <2>10, <3>1
    <2>12. Image' = P!Front(Image, off) \o P!After(Image, p)
      BY <2>1, <2>10
    <2>13. Plain!Next
      BY <1>3, <1>8, <2>10, <2>11, <2>12, CallDropped
    <2>14. QED
      BY <1>3, <2>9, <2>13 DEF FileInv, Follows
  <1>9. QED
    BY <1>5, <1>6, <1>7, <1>8 DEF Drop

\* The first state has the invariant and is one of the plain file.
LEMMA FileInits ==
  ASSUME FileInit
  PROVE  FileInv /\ Plain!Init
  <1>1. /\ content \in Seq(B) /\ off = 0 /\ seekable \in BOOLEAN /\ held = <<>>
        /\ writing = FALSE /\ call = P!NoCall /\ answer = P!NoAnswer
    BY BytesAssumption DEF FileInit, B
  <1>2. FileTypes /\ CallTypes /\ Places
    <2>1. held \in Seq(B) /\ off \in Nat /\ writing \in BOOLEAN
      <3>1. <<>> \in Seq(B)
        OBVIOUS
      <3>2. QED
        BY <1>1, <3>1
    <2>2. FileTypes
      BY <1>1, <2>1 DEF FileTypes
    <2>3. CallTypes /\ Places
      BY <1>1 DEF CallTypes, Places
    <2>4. QED
      BY <2>2, <2>3
  <1>3. Ahead /\ Ungettable
    BY <1>1, BehindNothing, NotLit DEF Ahead, Ungettable
  <1>4. Image = content /\ Position = 0 /\ Progress = P!NoCall
    <2>1. Image = content /\ Position = off - Len(held) /\ Len(held) = 0
      BY <1>1 DEF Image, Position
    <2>2. call.op = "none"
      BY <1>1 DEF P!NoCall
    <2>3. Progress = P!NoCall
      BY <1>1, <2>2 DEF Progress
    <2>4. Position = 0
      <3>1. off - Len(held) = 0 - 0
        BY <1>1, <2>1, Zenon
      <3>2. QED
        BY <2>1, <3>1
    <2>5. QED
      BY <2>1, <2>3, <2>4
  <1>5. Plain!Byte = P!Byte
    BY DEF Plain!Byte, P!Byte, Plain!Newline, P!Newline, Plain!Zero, P!Zero
  <1>6. Plain!Init
    BY <1>1, <1>4, <1>5, NoCallSame DEF Plain!Init, B
  <1>7. QED
    BY <1>2, <1>3, <1>6 DEF FileInv

\* Every step keeps the invariant, and is a step of the plain file or a stutter.
LEMMA FileStep ==
  ASSUME FileInv, [FileNext]_fileVars
  PROVE  FileInv' /\ Follows
  <1>1. CASE SomeCall
    BY <1>1, SomeCallStep
  <1>2. CASE Step
    BY <1>2, RefusedStep, WriteFastStep, ProbeStep, AlreadySettledStep, SettleToReadStep, SettleToWriteStep,
       DrainStep, DrainedStep, ThroughStep, FillAtEndStep, FillStep, DirectStep, GetStep, ReadStep,
       GetLineStep, ScanStep, WriteStep, FlushStep, SeekStep, SeekEndStep, CloseStep, DetachStep, UngetStep
       DEF Step
  <1>3. CASE DrainFails \/ OpFails \/ ClearErr \/ Drop
    BY <1>3, DrainFailsStep, OpFailsStep, ClearErrStep, DropStep
  <1>4. CASE UNCHANGED fileVars
    <2>1. UNCHANGED <<content, off, seekable, held, writing, call, answer>>
      BY <1>4 DEF fileVars, file, buf
    <2>2. FileInv'
      BY <2>1 DEF FileInv, FileTypes, CallTypes, Places, Ahead, Ungettable
    <2>3. Same
      BY <2>1 DEF Same, Image, Position, Progress
    <2>4. QED
      BY <2>2, <2>3, Stutters DEF Follows
  <1>5. QED
    BY <1>1, <1>2, <1>3, <1>4 DEF FileNext

\* The buffer always holds what its direction says: ahead of the descriptor,
\* the bytes before its position; behind it, what is not out; and nothing where
\* a call goes past it (settle, fill, seek, close, detach).
THEOREM FileInvariant == FileSpec => []FileInv
  <1>1. FileInit => FileInv
    BY FileInits
  <1>2. FileInv /\ [FileNext]_fileVars => FileInv'
    BY FileStep
  <1>3. QED
    BY <1>1, <1>2, PTL DEF FileSpec

\* The buffered stream implements a file without a buffer: whatever the kernel
\* does of each READ and WRITE, and wherever a call fails or is dropped.
THEOREM FileIsAPlainFile == FileSpec => IsAPlainFile
  <1>1. FileInit => FileInv /\ Plain!Init
    BY FileInits
  <1>2. FileInv /\ [FileNext]_fileVars => FileInv' /\ [Plain!Next]_Plain!abstract
    BY FileStep DEF Follows
  <1>3. QED
    BY <1>1, <1>2, PTL DEF FileSpec, IsAPlainFile, Plain!Spec
=============================================================================
