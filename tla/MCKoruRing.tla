----------------------------- MODULE MCKoruRing -----------------------------
(* Instances of KoruRing for TLC.                                          *)
EXTENDS KoruRing, TLC

CONSTANTS KindsUsed,    \* the groups of opcodes this instance submits
          MaxCall,      \* bound: SQEs one ENTER submits
          MaxMin,       \* bound: completions one ENTER waits for
          Capped        \* whether a call may have a timeout

\* Each SQE has a user_data of its own, its number.
MCUserData == [q \in SqeIds |-> q]

\* Only slot and path operations name a slot, and only CANCEL a target.
MCShapes ==
  {s \in [kind : KindsUsed, slot : Slots, aim : 0..MaxSqe] :
     /\ s.kind \notin {"slot", "path"} => s.slot = CHOOSE x \in Slots : TRUE
     /\ s.kind # "cancel" => s.aim = 0
     /\ s.kind = "cancel" => s.aim > 0}

\* Submit only, submit and wait, and wait only.  All the arguments validation
\* lets through, with the array as large as the queue.
MCCalls ==
  {c \in [submit : 0..MaxCall, space : {CqEntries}, min : 0..MaxMin, capped : Capped] :
     c.submit = 0 => c.min <= 1}

\* For liveness fewer: submit and go on, submit and wait for two, wait for one.
MCLiveCalls ==
  {c \in MCCalls : <<c.submit, c.min>> \in {<<1, 0>>, <<1, 2>>, <<0, 1>>}}

\* Bound: a third SQE only after two polls, which can wait for as long as they
\* like and so fill the ring; and only until one of the three is reaped.
ThirdWhenFull ==
  Len(sqe) = 3 => (\A q \in 1..3 : sqe[q].kind = "poll") /\ reaped = <<>>

Symmetry == Permutations(Tasks)
=============================================================================
