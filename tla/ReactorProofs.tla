---------------------------- MODULE ReactorProofs ----------------------------
(***************************************************************************)
(* Proofs about the reactors of the Rust and the C++ runtime, for any      *)
(* number of slots, SQEs and completions, and any size of ENTER, and about *)
(* what the library's calls leave open, for any tree and any calls.        *)
(*                                                                         *)
(* An SQE is in one place: in `pending', in what is left of the turn's     *)
(* batch, or out, which it is until its completion has been dispatched     *)
(* (PendInv, BatchInv, OutInv).  Wherever it is, its cookie's entry is in  *)
(* the slab and is its operation's, in a state that fits the place.  SQEs  *)
(* are numbered as they are registered and leave in that order (OrderInv), *)
(* which keeps those of the batch apart from those that have gone.  An     *)
(* entry's generation only grows, and at one generation an entry never     *)
(* changes its operation (Ages): so a cookie that was retired names        *)
(* nothing again, and a CANCEL meets nobody but whom it was made for.      *)
(*                                                                         *)
(* CoreInv is what the two runtimes have in common.  They differ in what   *)
(* is pending: the Rust one leaves the SQE of a dropped operation there,   *)
(* whose entry is Dead then (PendsIn); the C++ one retires the cookie, and *)
(* leaves the SQE out of the batch because it names nothing (CppPendsIn).  *)
(*                                                                         *)
(* take_batch and abandon are the two steps that touch more than one       *)
(* entry.  What take_batch retains (Retained) is known by induction over   *)
(* the batch, as a part of it in its order.                                *)
(***************************************************************************)
EXTENDS CppReactor, Tree, RingContractProofs, Integers, SequenceTheorems, FiniteSetTheorems, WellFoundedInduction, TLAPS

-----------------------------------------------------------------------------
(* Retained, by induction over what it is applied to.                      *)

\* Induction over the natural numbers, for a set of them.
LEMMA NatSetInduction ==
  ASSUME NEW T, T \subseteq Nat, 0 \in T, \A n \in T : n + 1 \in T
  PROVE  T = Nat
  <1> DEFINE R == {ss \in Nat \X Nat : ss[1] < ss[2]}
             Rest == Nat \ T
  <1> SUFFICES ASSUME Rest # {} PROVE FALSE
    OBVIOUS
  <1>1. R = OpToRel(<, Nat)
    BY DEF OpToRel
  <1>2. IsWellFoundedOn(R, Nat)
    BY <1>1, NatLessThanWellFounded
  <1>3. \A x, y \in Nat : x < y => <<x, y>> \in R
    OBVIOUS
  <1>4. Rest \subseteq Nat /\ 0 \notin Rest /\ \A x \in Rest : x = 0 \/ x - 1 \in Rest
    OBVIOUS
  <1> HIDE DEF R, Rest
  <1>5. PICK x \in Rest : \A y \in Rest : ~(<<y, x>> \in R)
    BY <1>2, <1>4, WFMin
  <1>6. x - 1 \in Rest /\ x \in Nat /\ x - 1 \in Nat
    BY <1>4
  <1>7. <<x - 1, x>> \in R
    BY <1>3, <1>6
  <1>8. QED
    BY <1>5, <1>6, <1>7

\* `upTo' of Retained, for the first n.
UpTo(sqes, some, n, f) ==
  f = [k \in 0..n |->
        IF k = 0 THEN <<>>
        ELSE IF sqes[k] \in some THEN Append(f[k - 1], sqes[k]) ELSE f[k - 1]]

\* The function Retained chooses does exist.
LEMMA UpToExists ==
  ASSUME NEW s, NEW T, NEW n \in Nat
  PROVE  \E f : UpTo(s, T, n, f)
  <1> DEFINE Good == {m \in Nat : \E f : UpTo(s, T, m, f)}
  <1>1. 0 \in Good
    <2>1. UpTo(s, T, 0, [k \in 0..0 |-> <<>>])
      BY DEF UpTo
    <2>2. QED
      BY <2>1
  <1>2. ASSUME NEW m \in Good
        PROVE  m + 1 \in Good
    <2>1. PICK f : UpTo(s, T, m, f)
      OBVIOUS
    <2> DEFINE g == [k \in 0..(m + 1) |->
                       IF k = m + 1
                       THEN IF s[m + 1] \in T THEN Append(f[m], s[m + 1]) ELSE f[m]
                       ELSE f[k]]
    <2>2. \A k \in 0..m : g[k] = f[k]
      OBVIOUS
    <2>3. g = [k \in 0..(m + 1) |-> g[k]]
      OBVIOUS
    <2>4. g[m + 1] = IF s[m + 1] \in T THEN Append(f[m], s[m + 1]) ELSE f[m]
      OBVIOUS
    <2>5. \A k \in 0..m :
            f[k] = IF k = 0 THEN <<>>
                   ELSE IF s[k] \in T THEN Append(f[k - 1], s[k]) ELSE f[k - 1]
      BY <2>1 DEF UpTo
    <2>6. \A k \in 0..(m + 1) : k \in 0..m \/ k = m + 1
      OBVIOUS
    <2>7. \A k \in 0..m : k = 0 \/ k - 1 \in 0..m
      OBVIOUS
    <2> HIDE DEF g
    <2>8. \A k \in 0..(m + 1) :
            g[k] = IF k = 0 THEN <<>>
                   ELSE IF s[k] \in T THEN Append(g[k - 1], s[k]) ELSE g[k - 1]
      BY <2>2, <2>4, <2>5, <2>6, <2>7
    <2>9. UpTo(s, T, m + 1, g)
      BY <2>3, <2>8 DEF UpTo
    <2>10. QED
      BY <2>9
  <1>3. Good \subseteq Nat
    OBVIOUS
  <1> HIDE DEF Good
  <1>4. Good = Nat
    BY <1>1, <1>2, <1>3, NatSetInduction
  <1>5. QED
    BY <1>4 DEF Good

\* r is what is in T of the first n of s, in its order: h says where from.
From(s, T, n, r, h) ==
  /\ h \in [1..Len(r) -> 1..n]
  /\ \A j \in 1..Len(r) : r[j] = s[h[j]] /\ r[j] \in T
  /\ \A i, j \in 1..Len(r) : i < j => h[i] < h[j]

\* Retained gives a part of what it is given, in its order.
LEMMA RetainedIs ==
  ASSUME NEW S, NEW s \in Seq(S), NEW T
  PROVE  /\ Retained(s, T) \in Seq(S)
         /\ \E h : From(s, T, Len(s), Retained(s, T), h)
  <1>0. Len(s) \in Nat
    OBVIOUS
  <1>1. \E f : UpTo(s, T, Len(s), f)
    BY <1>0, UpToExists
  <1> DEFINE f0 == CHOOSE g : UpTo(s, T, Len(s), g)
  <1>2. UpTo(s, T, Len(s), f0)
    BY <1>1
  <1>3. Retained(s, T) = f0[Len(s)]
    BY DEF Retained, UpTo
  <1> HIDE DEF f0
  <1>4. \A k \in 0..Len(s) :
          f0[k] = IF k = 0 THEN <<>>
                  ELSE IF s[k] \in T THEN Append(f0[k - 1], s[k]) ELSE f0[k - 1]
    BY <1>2 DEF UpTo
  <1> DEFINE Good == {m \in Nat : m <= Len(s) => f0[m] \in Seq(S) /\ \E h : From(s, T, m, f0[m], h)}
  <1>5. 0 \in Good
    <2>1. f0[0] = <<>>
      BY <1>4
    <2>2. From(s, T, 0, <<>>, <<>>)
      BY DEF From
    <2>3. f0[0] \in Seq(S) /\ \E h : From(s, T, 0, f0[0], h)
      BY <2>1, <2>2
    <2>4. QED
      BY <2>3
  <1>6. ASSUME NEW m \in Good
        PROVE  m + 1 \in Good
    <2> SUFFICES ASSUME m + 1 <= Len(s)
                 PROVE  f0[m + 1] \in Seq(S) /\ \E h : From(s, T, m + 1, f0[m + 1], h)
      OBVIOUS
    <2>1. f0[m] \in Seq(S) /\ m \in Nat
      OBVIOUS
    <2>2. PICK h : From(s, T, m, f0[m], h)
      OBVIOUS
    <2>3. f0[m + 1] = IF s[m + 1] \in T THEN Append(f0[m], s[m + 1]) ELSE f0[m]
      BY <1>4
    <2>4. s[m + 1] \in S
      OBVIOUS
    <2> DEFINE r == f0[m]
    <2> HIDE DEF r, Good
    <2>5. CASE s[m + 1] \notin T
      <3>1. From(s, T, m + 1, r, h)
        BY <2>1, <2>2 DEF From, r
      <3>2. QED
        BY <2>1, <2>3, <2>5, <3>1 DEF r
    <2>6. CASE s[m + 1] \in T
      <3> DEFINE q == Append(r, s[m + 1])
                 g == [j \in 1..(Len(r) + 1) |-> IF j = Len(r) + 1 THEN m + 1 ELSE h[j]]
      <3>1. q \in Seq(S) /\ Len(q) = Len(r) + 1 /\ q[Len(r) + 1] = s[m + 1]
            /\ \A j \in 1..Len(r) : q[j] = r[j]
        BY <2>1, <2>4 DEF r
      <3>2. /\ h \in [1..Len(r) -> 1..m]
            /\ \A j \in 1..Len(r) : r[j] = s[h[j]] /\ r[j] \in T
            /\ \A i, j \in 1..Len(r) : i < j => h[i] < h[j]
        BY <2>2 DEF From, r
      <3> DEFINE l == Len(r)
      <3>3. l \in Nat /\ m \in Nat
        BY <2>1 DEF r
      <3> HIDE DEF l
      <3>4. \A j \in 1..l : h[j] \in 1..m
        BY <3>2 DEF l
      <3>5. \A j \in 1..(l + 1) : j = l + 1 \/ j \in 1..l
        BY <3>3
      <3>6. \A j \in 1..l : j # l + 1 /\ j \in 1..(l + 1)
        BY <3>3
      <3>7. g = [j \in 1..(l + 1) |-> IF j = l + 1 THEN m + 1 ELSE h[j]]
        BY DEF l
      <3> HIDE DEF q, g
      <3>8. g[l + 1] = m + 1 /\ \A j \in 1..l : g[j] = h[j]
        BY <3>3, <3>6, <3>7
      <3>9. \A j \in 1..(l + 1) : g[j] \in 1..(m + 1)
        BY <3>3, <3>4, <3>5, <3>8
      <3>10. g \in [1..(l + 1) -> 1..(m + 1)]
        BY <3>7, <3>9
      <3>11. \A j \in 1..(l + 1) : q[j] = s[g[j]] /\ q[j] \in T
        BY <2>6, <3>1, <3>2, <3>5, <3>8 DEF l
      <3>12. \A i, j \in 1..(l + 1) : i < j => g[i] < g[j]
        <4> SUFFICES ASSUME NEW i \in 1..(l + 1), NEW j \in 1..(l + 1), i < j
                     PROVE  g[i] < g[j]
          OBVIOUS
        <4>1. i \in 1..l
          BY <3>3
        <4>2. CASE j = l + 1
          BY <3>3, <3>4, <3>8, <4>1, <4>2
        <4>3. CASE j \in 1..l
          BY <3>2, <3>8, <4>1, <4>3 DEF l
        <4>4. QED
          BY <3>5, <4>2, <4>3
      <3>13. From(s, T, m + 1, q, g)
        BY <3>1, <3>10, <3>11, <3>12 DEF From, l
      <3>14. QED
        BY <2>3, <2>6, <3>1, <3>13 DEF q, r
    <2>7. QED
      BY <2>5, <2>6
  <1>7. Good \subseteq Nat
    OBVIOUS
  <1> HIDE DEF Good
  <1>8. Good = Nat
    BY <1>5, <1>6, <1>7, NatSetInduction
  <1>9. Len(s) \in Good
    BY <1>8
  <1>10. QED
    BY <1>3, <1>9 DEF Good

-----------------------------------------------------------------------------
(* The invariant.                                                          *)

Cookie == [index : Nat, gen : Nat]
AnySqe == [ud : Cookie, aim : Cookie, slot : Slots \cup {NilSlot}, serial : Nat]
AnyEntry == [gen : Nat, state : States, slot : Slots \cup {NilSlot}, serial : Nat]
AnyTurn == [batch : Seq(AnySqe), off : Nat, sent : Nat, want : Nat, woke : Nat,
            wait : BOOLEAN, capped : BOOLEAN, cq : Seq(Nat)]

Types ==
  /\ accepted \in Nat /\ owed \subseteq Nat /\ queue \in Seq(Nat)
  /\ consumed \in Seq(AnySqe) /\ Len(consumed) = accepted
  /\ pending \in Seq(AnySqe) /\ turn \in AnyTurn
  /\ entries \in Seq(AnyEntry) /\ free \in Seq(Nat)
  /\ pool \subseteq Slots /\ hands \subseteq Slots /\ serial \in Nat

\* The operation of an SQE is in the slab.
HasIn(es, x) ==
  /\ x.ud.index \in 1..Len(es)
  /\ es[x.ud.index].gen = x.ud.gen
  /\ es[x.ud.index].state # "Free"
  /\ es[x.ud.index].serial = x.serial

\* And its entry is as it is before it goes out, ...
WaitsIn(es, x) ==
  /\ HasIn(es, x)
  /\ es[x.ud.index].state \in {"Queued", "CancelProbe"}
  /\ es[x.ud.index].slot = x.slot

\* ... or its future was dropped there.
DeadIn(es, x) == HasIn(es, x) /\ es[x.ud.index].state = "Dead"
PendsIn(es, x) == WaitsIn(es, x) \/ DeadIn(es, x)

FreeInv ==
  /\ \A k \in 1..Len(free) : free[k] \in 1..Len(entries) /\ entries[free[k]].state = "Free"
  /\ \A j, k \in 1..Len(free) : free[j] = free[k] => j = k

\* A slot has one place.
SlotInv ==
  /\ \A i \in 1..Len(entries) :
       /\ entries[i].state \in {"Free", "Dead", "CancelProbe"} => entries[i].slot = NilSlot
       /\ entries[i].slot \notin pool \cup hands
  /\ \A i, j \in 1..Len(entries) :
       entries[i].slot = entries[j].slot => i = j \/ entries[i].slot = NilSlot
  /\ pool \cap hands = {}
  /\ \A s \in Slots : s \in pool \cup hands \/ \E i \in 1..Len(entries) : entries[i].slot = s

Sending == thread \in {"submit", "wait", "reap"}

\* How much of the batch the kernel has consumed.
Gone == turn.off + (IF Sending THEN turn.sent ELSE 0)

Threads == {"tasks", "enter", "submit", "wait", "reap", "dispatch"}

TurnInv ==
  /\ thread \in Threads
  /\ thread = "tasks" => turn = Idle
  /\ thread \notin {"tasks", "dispatch"} => pending = <<>>
  /\ Gone <= Len(turn.batch)

BatchInv == \A k \in 1..Len(turn.batch) : k > turn.off => WaitsIn(entries, turn.batch[k])

\* Operations whose completion has not been dispatched.
Queue == {queue[k] : k \in 1..Len(queue)}
Taken == {turn.cq[k] : k \in 1..Len(turn.cq)}
Out == owed \cup Queue \cup Taken

OutInv ==
  \A n \in Out :
    LET x == consumed[n] IN
    /\ n \in 1..Len(consumed)
    /\ HasIn(entries, x) /\ entries[x.ud.index].slot = x.slot
    /\ \/ entries[x.ud.index].state \in {"Live", "Abandoned", "CancelProbe"}
       \/ /\ entries[x.ud.index].state = "Queued"
          /\ Sending /\ \E k \in 1..turn.sent : turn.batch[turn.off + k] = x

OnceInv ==
  /\ owed \cap Queue = {} /\ owed \cap Taken = {} /\ Queue \cap Taken = {}
  /\ \A j, k \in 1..Len(queue) : queue[j] = queue[k] => j = k
  /\ \A j, k \in 1..Len(turn.cq) : turn.cq[j] = turn.cq[k] => j = k

\* SQEs go out as they were registered.
Rising(sqes) == \A j, k \in 1..Len(sqes) : j < k => sqes[j].serial < sqes[k].serial

OrderInv ==
  /\ Rising(consumed) /\ Rising(turn.batch) /\ Rising(pending)
  /\ \A j \in 1..Len(consumed), k \in 1..Len(turn.batch) :
       k > Gone => consumed[j].serial < turn.batch[k].serial
  /\ \A j \in 1..Len(consumed), k \in 1..Len(pending) : consumed[j].serial < pending[k].serial
  /\ \A j \in 1..Len(consumed) : consumed[j].serial <= serial
  /\ \A j \in 1..Len(turn.batch) : turn.batch[j].serial <= serial
  /\ \A j \in 1..Len(pending) : pending[j].serial <= serial

\* Who a CANCEL is for was dropped, or is gone.
AimedIn(es, x) ==
  x.aim # NoCookie =>
    /\ x.aim.index \in 1..Len(es)
    /\ \/ es[x.aim.index].gen > x.aim.gen
       \/ es[x.aim.index].gen = x.aim.gen /\ es[x.aim.index].state = "Abandoned"

AimInv ==
  /\ \A n \in 1..Len(consumed) : AimedIn(entries, consumed[n])
  /\ \A n \in 1..Len(turn.batch) : AimedIn(entries, turn.batch[n])
  /\ \A n \in 1..Len(pending) : AimedIn(entries, pending[n])

\* An SQE that went out names its operation, or nothing any more.
WasIn(es, x) ==
  /\ x.ud.index \in 1..Len(es)
  /\ es[x.ud.index].gen > x.ud.gen \/ HasIn(es, x)

HistInv == \A n \in 1..Len(consumed) : WasIn(entries, consumed[n])

SlabInv == FreeInv /\ SlotInv
TokenInv == TurnInv /\ BatchInv /\ OutInv /\ OnceInv /\ OrderInv

\* What the two runtimes have in common.
CoreInv == Types /\ SlabInv /\ TokenInv /\ AimInv /\ HistInv

\* The Rust one keeps what did not go out in the batch until the turn ends.
PendInv ==
  /\ \A k \in 1..Len(pending) : PendsIn(entries, pending[k])
  /\ thread = "dispatch" => pending = <<>>

ReactorInv == CoreInv /\ PendInv

\* In the C++ one it is pending again as soon as ENTER is back, and an operation
\* dropped while it is pending leaves the slab at once.
CppPendsIn(es, x) ==
  \/ WaitsIn(es, x)
  \/ x.ud.index \in 1..Len(es) /\ es[x.ud.index].gen > x.ud.gen

CppInv ==
  /\ CoreInv
  /\ \A k \in 1..Len(pending) : CppPendsIn(entries, pending[k])
  /\ turn.off = 0
  /\ thread = "enter" => turn.sent = 0 /\ turn.cq = <<>>
  /\ thread = "dispatch" => turn.batch = <<>>

-----------------------------------------------------------------------------
(* What may be done to the slab.                                           *)

\* No entry goes back to a generation it had, or changes its operation.
Ages ==
  /\ entries' \in Seq(AnyEntry) /\ Len(entries) <= Len(entries')
  /\ \A i \in 1..Len(entries) :
       \/ entries'[i].gen > entries[i].gen
       \/ /\ entries'[i].gen = entries[i].gen
          /\ entries[i].state # "Free" =>
               entries'[i].state # "Free" /\ entries'[i].serial = entries[i].serial
          /\ entries[i].state = "Abandoned" => entries'[i].state = "Abandoned"

\* What an SQE's cookies were to the slab they still are, while ages only grow.
LEMMA AgesKeeps ==
  ASSUME Types, Ages, NEW x \in AnySqe
  PROVE  /\ WasIn(entries, x) => WasIn(entries', x)
         /\ AimedIn(entries, x) => AimedIn(entries', x)
  <1> DEFINE i == x.ud.index
             a == x.aim.index
             l == Len(entries)
             m == Len(entries')
  <1>1. l \in Nat /\ m \in Nat /\ l <= m
    BY DEF Types, Ages
  <1>2. x.ud.gen \in Nat /\ x.aim.gen \in Nat
    BY DEF AnySqe, Cookie
  <1>3. \A k \in 1..l : k \in 1..m
    BY <1>1
  <1>4. \A k \in 1..l : entries[k].gen \in Nat
    <2>1. entries \in Seq(AnyEntry)
      BY DEF Types
    <2>2. \A k \in 1..l : entries[k] \in AnyEntry
      BY <2>1
    <2>3. QED
      BY <2>2 DEF AnyEntry
  <1>5. \A k \in 1..m : entries'[k].gen \in Nat
    <2>1. entries' \in Seq(AnyEntry)
      BY DEF Ages
    <2>2. \A k \in 1..m : entries'[k] \in AnyEntry
      BY <2>1
    <2>3. QED
      BY <2>2 DEF AnyEntry
  <1>6. \A k \in 1..l :
       \/ entries'[k].gen > entries[k].gen
       \/ /\ entries'[k].gen = entries[k].gen
          /\ entries[k].state # "Free" =>
               entries'[k].state # "Free" /\ entries'[k].serial = entries[k].serial
          /\ entries[k].state = "Abandoned" => entries'[k].state = "Abandoned"
    BY DEF Ages
  <1> HIDE DEF l, m
  <1>7. ASSUME WasIn(entries, x)
        PROVE  WasIn(entries', x)
    <2>1. i \in 1..l /\ (entries[i].gen > x.ud.gen \/ HasIn(entries, x))
      BY <1>7 DEF WasIn, l
    <2>2. i \in 1..m
      BY <1>3, <2>1
    <2>3. CASE entries[i].gen > x.ud.gen
      <3>1. entries'[i].gen > x.ud.gen
        BY <1>2, <1>4, <1>5, <1>6, <2>1, <2>2, <2>3
      <3>2. QED
        BY <2>2, <3>1 DEF WasIn, m
    <2>4. CASE HasIn(entries, x)
      <3>1. entries[i].gen = x.ud.gen /\ entries[i].state # "Free" /\ entries[i].serial = x.serial
        BY <2>4 DEF HasIn
      <3>2. CASE entries'[i].gen > entries[i].gen
        BY <2>2, <3>1, <3>2 DEF WasIn, m
      <3>3. CASE ~(entries'[i].gen > entries[i].gen)
        BY <1>6, <2>1, <2>2, <3>1, <3>3 DEF WasIn, HasIn, m
      <3>4. QED
        BY <3>2, <3>3
    <2>5. QED
      BY <2>1, <2>3, <2>4
  <1>8. ASSUME AimedIn(entries, x), x.aim # NoCookie
        PROVE  AimedIn(entries', x)
    <2>1. /\ a \in 1..l
          /\ \/ entries[a].gen > x.aim.gen
             \/ entries[a].gen = x.aim.gen /\ entries[a].state = "Abandoned"
      BY <1>8 DEF AimedIn, l
    <2>2. a \in 1..m
      BY <1>3, <2>1
    <2>3. \/ entries'[a].gen > x.aim.gen
          \/ entries'[a].gen = x.aim.gen /\ entries'[a].state = "Abandoned"
      BY <1>2, <1>4, <1>5, <1>6, <2>1, <2>2
    <2>4. QED
      BY <2>2, <2>3 DEF AimedIn, m
  <1>9. QED
    BY <1>7, <1>8 DEF AimedIn

\* What an insertion does to the slab: one entry, at the next cookie's index.
LEMMA InsertedIs ==
  ASSUME Types, FreeInv, NEW es \in Seq(AnyEntry), Len(es) = Len(entries),
         NEW state \in States, NEW slot \in Slots \cup {NilSlot}
  PROVE  /\ NextCookie \in Cookie
         /\ Inserted(es, state, slot) \in Seq(AnyEntry)
         /\ Len(entries) <= Len(Inserted(es, state, slot))
         /\ NextCookie.index \in 1..Len(Inserted(es, state, slot))
         /\ NextCookie.index \in 1..Len(entries) =>
              /\ entries[NextCookie.index].state = "Free"
              /\ entries[NextCookie.index].gen = NextCookie.gen
         /\ Inserted(es, state, slot)[NextCookie.index] =
              [gen |-> NextCookie.gen, state |-> state, slot |-> slot, serial |-> serial + 1]
         /\ \A i \in 1..Len(Inserted(es, state, slot)) :
              i # NextCookie.index =>
                i \in 1..Len(entries) /\ Inserted(es, state, slot)[i] = es[i]
         /\ \A i \in 1..Len(entries) : i \in 1..Len(Inserted(es, state, slot))
  <1> DEFINE c == NextCookie
             e == [gen |-> c.gen, state |-> state, slot |-> slot, serial |-> serial + 1]
             l == Len(entries)
  <1>1. l \in Nat
    BY DEF Types
  <1>2. /\ c \in Cookie /\ c.index \in 1..(l + 1) /\ c.gen \in Nat
        /\ c.index \in 1..l => entries[c.index].state = "Free" /\ entries[c.index].gen = c.gen
    <2>1. CASE free # <<>>
      <3>1. Len(free) \in 1..Len(free)
        BY <2>1 DEF Types
      <3>2. free[Len(free)] \in 1..l /\ entries[free[Len(free)]].state = "Free"
        BY <3>1 DEF FreeInv
      <3>3. entries[free[Len(free)]].gen \in Nat
        <4>1. entries \in Seq(AnyEntry)
          BY DEF Types
        <4>2. entries[free[Len(free)]] \in AnyEntry
          BY <3>2, <4>1
        <4>3. QED
          BY <4>2 DEF AnyEntry
      <3>4. c = [index |-> free[Len(free)], gen |-> entries[free[Len(free)]].gen]
        BY <2>1 DEF NextCookie
      <3> HIDE DEF l, c
      <3>5. QED
        BY <1>1, <3>2, <3>3, <3>4 DEF Cookie
    <2>2. CASE free = <<>>
      <3>1. c = [index |-> l + 1, gen |-> 1]
        BY <2>2 DEF NextCookie
      <3> HIDE DEF l, c
      <3>2. QED
        BY <1>1, <3>1 DEF Cookie
    <2>3. QED
      BY <2>1, <2>2
  <1>3. e \in AnyEntry
    BY <1>2 DEF AnyEntry, Types
  <1>4. Inserted(es, state, slot) = IF c.index <= l THEN [es EXCEPT ![c.index] = e] ELSE Append(es, e)
    BY DEF Inserted
  <1> DEFINE es2 == Inserted(es, state, slot)
  <1> HIDE DEF c, e, l, es2
  <1>5. CASE c.index <= l
    <2>1. es2 = [es EXCEPT ![c.index] = e] /\ c.index \in 1..Len(es)
      BY <1>1, <1>2, <1>4, <1>5 DEF es2, l
    <2>2. es2 \in Seq(AnyEntry) /\ Len(es2) = l /\ es2[c.index] = e
          /\ \A i \in 1..l : i # c.index => es2[i] = es[i]
      BY <1>3, <2>1 DEF l
    <2>3. QED
      BY <1>1, <1>2, <1>5, <2>2 DEF es2, e, c, l
  <1>6. CASE ~(c.index <= l)
    <2>1. es2 = Append(es, e) /\ c.index = l + 1
      BY <1>1, <1>2, <1>4, <1>6 DEF es2
    <2>2. es2 \in Seq(AnyEntry) /\ Len(es2) = l + 1 /\ es2[l + 1] = e
          /\ \A i \in 1..l : es2[i] = es[i]
      BY <1>3, <2>1 DEF l
    <2>3. QED
      BY <1>1, <1>2, <2>1, <2>2 DEF es2, e, c, l
  <1>7. QED
    BY <1>5, <1>6


\* A part of a sequence.
LEMMA PartOf ==
  ASSUME NEW S, NEW s \in Seq(S), NEW m \in Nat \ {0}, NEW n \in Nat, n <= Len(s)
  PROVE  /\ SubSeq(s, m, n) \in Seq(S)
         /\ Len(SubSeq(s, m, n)) = IF m <= n THEN n - m + 1 ELSE 0
         /\ \A i \in 1..(n - m + 1) : SubSeq(s, m, n)[i] = s[m + i - 1]
  <1>1. \A i \in m..n : s[i] \in S
    OBVIOUS
  <1>2. m \in Int /\ n \in Int
    OBVIOUS
  <1>3. QED
    BY <1>1, <1>2, SubSeqProperties

\* What the types say of single elements.
LEMMA TypeFacts ==
  ASSUME Types
  PROVE  /\ Len(entries) \in Nat /\ Len(free) \in Nat /\ Len(pending) \in Nat
         /\ Len(consumed) \in Nat /\ Len(queue) \in Nat
         /\ entries \in Seq(AnyEntry) /\ pending \in Seq(AnySqe) /\ free \in Seq(Nat)
         /\ consumed \in Seq(AnySqe) /\ turn.batch \in Seq(AnySqe) /\ turn.cq \in Seq(Nat)
         /\ Len(turn.batch) \in Nat /\ Len(turn.cq) \in Nat
         /\ turn.off \in Nat /\ turn.sent \in Nat
         /\ \A i \in 1..Len(entries) : entries[i] \in AnyEntry
         /\ \A k \in 1..Len(pending) : pending[k] \in AnySqe
         /\ \A k \in 1..Len(turn.batch) : turn.batch[k] \in AnySqe
         /\ \A k \in 1..Len(consumed) : consumed[k] \in AnySqe
  <1>1. turn.batch \in Seq(AnySqe) /\ turn.cq \in Seq(Nat) /\ turn.off \in Nat /\ turn.sent \in Nat
    BY DEF Types, AnyTurn
  <1>2. entries \in Seq(AnyEntry) /\ pending \in Seq(AnySqe) /\ free \in Seq(Nat)
        /\ consumed \in Seq(AnySqe) /\ queue \in Seq(Nat)
    BY DEF Types
  <1>3. /\ Len(entries) \in Nat /\ \A i \in 1..Len(entries) : entries[i] \in AnyEntry
        /\ Len(pending) \in Nat /\ \A k \in 1..Len(pending) : pending[k] \in AnySqe
        /\ Len(free) \in Nat /\ Len(queue) \in Nat
    BY <1>2
  <1>4. /\ Len(consumed) \in Nat /\ \A k \in 1..Len(consumed) : consumed[k] \in AnySqe
    BY <1>2
  <1>5. /\ Len(turn.batch) \in Nat /\ \A k \in 1..Len(turn.batch) : turn.batch[k] \in AnySqe
        /\ Len(turn.cq) \in Nat
    BY <1>1
  <1>6. QED
    BY <1>1, <1>2, <1>3, <1>4, <1>5

\* An operation that is in the slab still is when its entry has not changed.
Alike(e, f) == e.gen = f.gen /\ e.state = f.state /\ e.slot = f.slot /\ e.serial = f.serial

\* An operation stays where its entry does not change.
LEMMA SameEntry ==
  ASSUME NEW es, NEW es2, NEW x, x.ud.index \in 1..Len(es2), Alike(es2[x.ud.index], es[x.ud.index])
  PROVE  /\ HasIn(es, x) => HasIn(es2, x)
         /\ WaitsIn(es, x) => WaitsIn(es2, x)
         /\ DeadIn(es, x) => DeadIn(es2, x)
         /\ PendsIn(es, x) => PendsIn(es2, x)
  BY DEF HasIn, WaitsIn, PendsIn, DeadIn, Alike

\* What was known of the SQEs that went out, and of whom CANCELs are for.
LEMMA OldTokens ==
  ASSUME Types, Ages, NEW s \in Seq(AnySqe)
  PROVE  /\ (\A n \in 1..Len(s) : AimedIn(entries, s[n])) => \A n \in 1..Len(s) : AimedIn(entries', s[n])
         /\ (\A n \in 1..Len(s) : WasIn(entries, s[n])) => \A n \in 1..Len(s) : WasIn(entries', s[n])
  <1>1. \A n \in 1..Len(s) : s[n] \in AnySqe
    OBVIOUS
  <1>2. QED
    BY <1>1, AgesKeeps

\* In the tasks' turn nothing is being sent.
LEMMA AtTasks ==
  ASSUME TurnInv, thread = "tasks"
  PROVE  /\ turn.batch = <<>> /\ turn.cq = <<>> /\ turn.off = 0 /\ turn.sent = 0
         /\ ~Sending /\ Gone = 0
  BY DEF TurnInv, Idle, Sending, Gone

\* A completion is in one place as long as no completion moves.
LEMMA OnceKept ==
  ASSUME OnceInv, UNCHANGED <<owed, queue>>, turn'.cq = turn.cq
  PROVE  OnceInv'
  <1>1. Queue' = Queue /\ Taken' = Taken
    BY DEF Queue, Taken
  <1>2. /\ owed \cap Queue = {} /\ owed \cap Taken = {} /\ Queue \cap Taken = {}
        /\ \A j, k \in 1..Len(queue) : queue[j] = queue[k] => j = k
        /\ \A j, k \in 1..Len(turn.cq) : turn.cq[j] = turn.cq[k] => j = k
    BY DEF OnceInv
  <1>3. /\ owed' \cap Queue' = {} /\ owed' \cap Taken' = {} /\ Queue' \cap Taken' = {}
    BY <1>1, <1>2
  <1>4. /\ \A j, k \in 1..Len(queue') : queue'[j] = queue'[k] => j = k
        /\ \A j, k \in 1..Len(turn'.cq) : turn'.cq[j] = turn'.cq[k] => j = k
    BY <1>2
  <1>5. QED
    BY <1>3, <1>4 DEF OnceInv

\* What is pending stays so, and an operation is added to it at most.
PendingStays ==
  /\ \/ pending' = pending
     \/ \E x \in AnySqe : pending' = Append(pending, x) /\ WaitsIn(entries', x)
  /\ \A k \in 1..Len(pending) :
       /\ WaitsIn(entries, pending[k]) => WaitsIn(entries', pending[k])
       /\ DeadIn(entries, pending[k]) => DeadIn(entries', pending[k])

\* A cookie that was retired stays so.
LEMMA RetiredStays ==
  ASSUME Types, Ages, NEW x \in AnySqe, x.ud.index \in 1..Len(entries),
         entries[x.ud.index].gen > x.ud.gen
  PROVE  x.ud.index \in 1..Len(entries') /\ entries'[x.ud.index].gen > x.ud.gen
  <1> DEFINE i == x.ud.index
  <1>1. /\ Len(entries) \in Nat /\ Len(entries') \in Nat /\ Len(entries) <= Len(entries')
        /\ entries'[i].gen > entries[i].gen \/ entries'[i].gen = entries[i].gen
    <2>1. /\ entries' \in Seq(AnyEntry) /\ Len(entries) <= Len(entries')
          /\ entries'[i].gen > entries[i].gen \/ entries'[i].gen = entries[i].gen
      BY DEF Ages
    <2> QED
      BY <2>1, TypeFacts
  <1>2. i \in 1..Len(entries')
    BY <1>1
  <1>3. entries[i] \in AnyEntry /\ entries'[i] \in AnyEntry
    BY <1>2, TypeFacts DEF Ages
  <1>4. entries[i].gen \in Nat /\ entries'[i].gen \in Nat /\ x.ud.gen \in Nat
    BY <1>3 DEF AnyEntry, AnySqe, Cookie
  <1>5. entries[i].gen > x.ud.gen
    OBVIOUS
  <1> HIDE DEF i
  <1>6. entries'[i].gen > x.ud.gen
    BY <1>1, <1>4, <1>5
  <1>7. QED
    BY <1>2, <1>6 DEF i

\* Then it is as each of the runtimes has it.
LEMMA PendingKept ==
  ASSUME Types, PendingStays
  PROVE  /\ (\A k \in 1..Len(pending) : PendsIn(entries, pending[k]))
              => \A k \in 1..Len(pending') : PendsIn(entries', pending'[k])
         /\ Ages /\ (\A k \in 1..Len(pending) : CppPendsIn(entries, pending[k]))
              => \A k \in 1..Len(pending') : CppPendsIn(entries', pending'[k])
  <1> DEFINE p == Len(pending)
  <1>1. pending \in Seq(AnySqe) /\ p \in Nat
    BY TypeFacts
  <1>2. \A k \in 1..Len(pending') :
          (k \in 1..p /\ pending'[k] = pending[k]) \/ WaitsIn(entries', pending'[k])
    <2>1. CASE pending' = pending
      BY <2>1
    <2>2. ASSUME NEW x \in AnySqe, pending' = Append(pending, x), WaitsIn(entries', x)
          PROVE  \A k \in 1..Len(pending') :
                   (k \in 1..p /\ pending'[k] = pending[k]) \/ WaitsIn(entries', pending'[k])
      <3>1. /\ Len(pending') = p + 1 /\ pending'[p + 1] = x
            /\ \A k \in 1..p : pending'[k] = pending[k]
            /\ \A k \in 1..(p + 1) : k = p + 1 \/ k \in 1..p
        BY <1>1, <2>2
      <3>2. QED
        BY <2>2, <3>1
    <2>3. QED
      BY <2>1, <2>2 DEF PendingStays
  <1>3. \A k \in 1..p : PendsIn(entries, pending[k]) => PendsIn(entries', pending[k])
    BY DEF PendingStays, PendsIn
  <1>4. ASSUME Ages, NEW k \in 1..p, CppPendsIn(entries, pending[k])
        PROVE  CppPendsIn(entries', pending[k])
    <2> DEFINE x == pending[k]
               i == x.ud.index
    <2>1. CASE WaitsIn(entries, x)
      BY <2>1 DEF PendingStays, CppPendsIn
    <2>2. CASE i \in 1..Len(entries) /\ entries[i].gen > x.ud.gen
      BY <1>1, <1>4, <2>2, RetiredStays DEF CppPendsIn
    <2>3. QED
      BY <1>4, <2>1, <2>2 DEF CppPendsIn
  <1> HIDE DEF p
  <1>5. (\A k \in 1..p : PendsIn(entries, pending[k]))
           => \A k \in 1..Len(pending') : PendsIn(entries', pending'[k])
    BY <1>2, <1>3 DEF PendsIn
  <1>6. Ages /\ (\A k \in 1..p : CppPendsIn(entries, pending[k]))
           => \A k \in 1..Len(pending') : CppPendsIn(entries', pending'[k])
    BY <1>2, <1>4 DEF CppPendsIn
  <1>7. QED
    BY <1>5, <1>6 DEF p

\* es is the slab, with live operations whose futures were dropped.
MayAbandon(es) ==
  /\ es \in Seq(AnyEntry) /\ Len(es) = Len(entries)
  /\ \A i \in 1..Len(entries) :
       /\ es[i].gen = entries[i].gen /\ es[i].serial = entries[i].serial
       /\ es[i].slot = entries[i].slot
       /\ \/ es[i].state = entries[i].state
          \/ entries[i].state = "Live" /\ es[i].state = "Abandoned"

\* A new operation's entry and its SQE.
Insertion(es, state, slot, aim) ==
  /\ thread = "tasks"
  /\ entries' = Inserted(es, state, slot)
  /\ free' = FreeAfterInsertion
  /\ pending' = Append(pending, NextSqe(aim, slot))
  /\ hands' = hands \ {slot}
  /\ serial' = serial + 1
  /\ UNCHANGED <<kernel, pool, thread, turn>>

\* An insertion keeps the slab: types, free list, slots and ages.
LEMMA InsertionSlab ==
  ASSUME Types, SlabInv, NEW es, MayAbandon(es),
         NEW state \in {"Queued", "CancelProbe"}, NEW slot \in hands \cup {NilSlot},
         state = "CancelProbe" => slot = NilSlot,
         NEW aim \in Cookie, Insertion(es, state, slot, aim)
  PROVE  Types' /\ SlabInv' /\ Ages
  <1> DEFINE c == NextCookie.index
             l == Len(entries)
             m == Len(entries')
             e == [gen |-> NextCookie.gen, state |-> state, slot |-> slot, serial |-> serial + 1]
             x == NextSqe(aim, slot)
  <1>1. slot \in Slots \cup {NilSlot} /\ NilSlot \notin Slots /\ state \in States
    BY SlotsAssumption DEF Types, States
  <1>2. es \in Seq(AnyEntry) /\ Len(es) = Len(entries)
    BY DEF MayAbandon
  <1>3. l \in Nat /\ free \in Seq(Nat) /\ Len(free) \in Nat
    BY TypeFacts
  <1>4. /\ NextCookie \in Cookie
        /\ entries' \in Seq(AnyEntry)
        /\ l <= m
        /\ c \in 1..m
        /\ c \in 1..l => entries[c].state = "Free" /\ entries[c].gen = NextCookie.gen
        /\ entries'[c] = e
        /\ \A i \in 1..m : i # c => i \in 1..l /\ entries'[i] = es[i]
        /\ \A i \in 1..l : i \in 1..m
    <2> HIDE DEF e
    <2>1. FreeInv
      BY DEF SlabInv
    <2>2. entries' = Inserted(es, state, slot)
      BY DEF Insertion
    <2>3. QED
      BY <1>1, <1>2, <2>1, <2>2, InsertedIs DEF e
  <1>5. /\ \A i \in 1..l :
             /\ es[i].gen = entries[i].gen /\ es[i].serial = entries[i].serial
             /\ es[i].slot = entries[i].slot
             /\ \/ es[i].state = entries[i].state
                \/ entries[i].state = "Live" /\ es[i].state = "Abandoned"
    BY DEF MayAbandon
  <1>6. e.gen = NextCookie.gen /\ e.state = state /\ e.slot = slot /\ e.serial = serial + 1
    OBVIOUS
  <1>7. /\ free' = FreeAfterInsertion /\ pending' = Append(pending, x) /\ hands' = hands \ {slot}
        /\ serial' = serial + 1 /\ UNCHANGED <<kernel, pool, thread, turn>>
    BY DEF Insertion
  <1> HIDE DEF c, l, m, e
  <1>8. /\ free' \in Seq(Nat)
        /\ \A k \in 1..Len(free') : k \in 1..Len(free) /\ free'[k] = free[k] /\ free[k] # c
    <2>1. CASE free = <<>>
      BY <1>7, <2>1 DEF FreeAfterInsertion
    <2>2. CASE free # <<>>
      <3>1. free' = SubSeq(free, 1, Len(free) - 1) /\ Len(free) \in 1..Len(free)
        BY <1>3, <1>7, <2>2 DEF FreeAfterInsertion
      <3>2. c = free[Len(free)]
        BY <2>2 DEF NextCookie, c
      <3>3. /\ free' \in Seq(Nat) /\ Len(free') = Len(free) - 1
            /\ \A k \in 1..(Len(free) - 1) : free'[k] = free[k]
        <4> DEFINE n == Len(free) - 1
        <4>1. n \in Nat /\ n <= Len(free) /\ 1 \in Nat \ {0} /\ n - 1 + 1 = n
          BY <1>3, <3>1
        <4>2. free' = SubSeq(free, 1, n)
          BY <3>1
        <4> HIDE DEF n
        <4>3. /\ free' \in Seq(Nat)
              /\ Len(free') = IF 1 <= n THEN n - 1 + 1 ELSE 0
              /\ \A k \in 1..(n - 1 + 1) : free'[k] = free[1 + k - 1]
          BY <1>3, <4>1, <4>2, PartOf
        <4>4. Len(free') = n
          BY <4>1, <4>3
        <4>5. \A k \in 1..n : 1 + k - 1 = k
          BY <4>1
        <4>6. QED
          BY <4>1, <4>3, <4>4, <4>5 DEF n
      <3>4. \A j, k \in 1..Len(free) : free[j] = free[k] => j = k
        BY DEF SlabInv, FreeInv
      <3>5. \A k \in 1..(Len(free) - 1) : k \in 1..Len(free) /\ k # Len(free)
        BY <1>3
      <3>6. QED
        BY <3>1, <3>2, <3>3, <3>4, <3>5
    <2>3. QED
      BY <2>1, <2>2
  <1>9. Types'
    <2>1. x \in AnySqe
      <3>1. serial + 1 \in Nat
        BY DEF Types
      <3>2. QED
        BY <1>1, <1>4, <3>1 DEF NextSqe, AnySqe
    <2>2. pending' \in Seq(AnySqe)
      <3> HIDE DEF x
      <3>1. pending \in Seq(AnySqe)
        BY DEF Types
      <3>2. QED
        BY <1>7, <2>1, <3>1
    <2>3. serial' \in Nat /\ hands' \subseteq Slots
      BY <1>7 DEF Types
    <2>4. UNCHANGED <<accepted, owed, queue, consumed, turn, pool>>
      BY <1>7 DEF kernel, ringVars
    <2>5. QED
      BY <1>4, <1>8, <2>2, <2>3, <2>4 DEF Types
  <1>10. FreeInv'
    <2>1. /\ \A k \in 1..Len(free) : free[k] \in 1..l /\ entries[free[k]].state = "Free"
          /\ \A j, k \in 1..Len(free) : free[j] = free[k] => j = k
      BY DEF SlabInv, FreeInv, l
    <2>2. \A k \in 1..Len(free') : free'[k] \in 1..m /\ entries'[free'[k]].state = "Free"
      <3> TAKE k \in 1..Len(free')
      <3>1. k \in 1..Len(free) /\ free'[k] = free[k] /\ free[k] # c
        BY <1>8
      <3> DEFINE i == free[k]
      <3>2. i \in 1..l /\ entries[i].state = "Free" /\ i # c
        BY <2>1, <3>1
      <3> HIDE DEF i
      <3>3. i \in 1..m /\ entries'[i] = es[i] /\ es[i].state = "Free"
        BY <1>4, <1>5, <3>2
      <3>4. QED
        BY <3>1, <3>3 DEF i
    <2>3. \A j, k \in 1..Len(free') : free'[j] = free'[k] => j = k
      BY <1>8, <2>1
    <2>4. QED
      BY <2>2, <2>3 DEF FreeInv, m
  <1>11. SlotInv'
    <2>1. /\ \A i \in 1..l :
               /\ entries[i].state \in {"Free", "Dead", "CancelProbe"} => entries[i].slot = NilSlot
               /\ entries[i].slot \notin pool \cup hands
          /\ \A i, j \in 1..l : entries[i].slot = entries[j].slot => i = j \/ entries[i].slot = NilSlot
          /\ pool \cap hands = {}
          /\ \A s \in Slots : s \in pool \cup hands \/ \E i \in 1..l : entries[i].slot = s
      BY DEF SlabInv, SlotInv, l
    <2>2. \A i \in 1..m : i # c => i \in 1..l /\ entries'[i].slot = entries[i].slot
      BY <1>4, <1>5
    <2>3. entries'[c].slot = slot /\ entries'[c].state = state
      BY <1>4, <1>6
    <2>4. pool' = pool /\ hands' = hands \ {slot} /\ pool \subseteq Slots /\ hands \subseteq Slots
      BY <1>7 DEF Types
    <2>5. \A i \in 1..m :
               /\ entries'[i].state \in {"Free", "Dead", "CancelProbe"} => entries'[i].slot = NilSlot
               /\ entries'[i].slot \notin pool' \cup hands'
      <3> TAKE i \in 1..m
      <3>1. CASE i = c
        BY <1>1, <2>1, <2>3, <2>4, <3>1
      <3>2. CASE i # c
        BY <1>4, <1>5, <2>1, <2>2, <2>4, <3>2
      <3>3. QED
        BY <3>1, <3>2
    <2>6. \A i, j \in 1..m :
            entries'[i].slot = entries'[j].slot => i = j \/ entries'[i].slot = NilSlot
      <3>1. \A j \in 1..m : j # c /\ entries'[j].slot = slot => slot = NilSlot
        BY <2>1, <2>2
      <3>2. QED
        BY <2>1, <2>2, <2>3, <3>1
    <2>7. pool' \cap hands' = {}
      BY <2>1, <2>4
    <2>8. ASSUME NEW s \in Slots
          PROVE  s \in pool' \cup hands' \/ \E i \in 1..m : entries'[i].slot = s
      <3>1. CASE s \in pool \cup hands
        BY <1>4, <2>3, <2>4, <3>1
      <3>2. CASE \E i \in 1..l : entries[i].slot = s
        <4>1. PICK i \in 1..l : entries[i].slot = s
          BY <3>2
        <4>2. i # c
          BY <1>1, <1>4, <2>1, <4>1
        <4>3. entries'[i].slot = s /\ i \in 1..m
          BY <1>4, <2>2, <4>1, <4>2
        <4>4. QED
          BY <4>3
      <3>3. QED
        BY <2>1, <3>1, <3>2
    <2>9. QED
      BY <2>5, <2>6, <2>7, <2>8 DEF SlotInv, m
  <1>12. Ages
    <2>1. \A i \in 1..l :
       \/ entries'[i].gen > entries[i].gen
       \/ /\ entries'[i].gen = entries[i].gen
          /\ entries[i].state # "Free" =>
               entries'[i].state # "Free" /\ entries'[i].serial = entries[i].serial
          /\ entries[i].state = "Abandoned" => entries'[i].state = "Abandoned"
      <3> TAKE i \in 1..l
      <3>1. CASE i = c
        BY <1>4, <1>6, <3>1
      <3>2. CASE i # c
        BY <1>4, <1>5, <3>2
      <3>3. QED
        BY <3>1, <3>2
    <2>2. QED
      BY <1>4, <2>1 DEF Ages, l, m
  <1>13. QED
    BY <1>9, <1>10, <1>11, <1>12 DEF SlabInv

\* An operation is registered: its SQE is pending, and in no other place.
LEMMA InsertionStep ==
  ASSUME CoreInv, NEW es, MayAbandon(es),
         NEW state \in {"Queued", "CancelProbe"}, NEW slot \in hands \cup {NilSlot},
         state = "CancelProbe" => slot = NilSlot,
         NEW aim \in Cookie,
         aim # NoCookie =>
           /\ aim.index \in 1..Len(entries)
           /\ es[aim.index].gen = aim.gen /\ es[aim.index].state = "Abandoned",
         Insertion(es, state, slot, aim)
  PROVE  CoreInv' /\ Ages /\ PendingStays
  <1> DEFINE c == NextCookie.index
             l == Len(entries)
             m == Len(entries')
             p == Len(pending)
             e == [gen |-> NextCookie.gen, state |-> state, slot |-> slot, serial |-> serial + 1]
             x == NextSqe(aim, slot)
  <1>1. Types /\ SlabInv /\ FreeInv /\ TurnInv
    BY DEF CoreInv, SlabInv, TokenInv
  <1>2. Types' /\ SlabInv' /\ Ages
    BY <1>1, InsertionSlab
  <1>3. /\ NextCookie \in Cookie
        /\ entries' \in Seq(AnyEntry)
        /\ l <= m
        /\ c \in 1..m
        /\ c \in 1..l => entries[c].state = "Free" /\ entries[c].gen = NextCookie.gen
        /\ entries'[c] = e
        /\ \A i \in 1..m : i # c => i \in 1..l /\ entries'[i] = es[i]
        /\ \A i \in 1..l : i \in 1..m
    <2> HIDE DEF e
    <2>1. slot \in Slots \cup {NilSlot} /\ state \in States
      BY <1>1, SlotsAssumption DEF Types, States
    <2>2. es \in Seq(AnyEntry) /\ Len(es) = Len(entries)
      BY DEF MayAbandon
    <2>3. entries' = Inserted(es, state, slot)
      BY DEF Insertion
    <2>4. QED
      BY <1>1, <2>1, <2>2, <2>3, InsertedIs DEF e
  <1>4. /\ \A i \in 1..l :
             /\ es[i].gen = entries[i].gen /\ es[i].serial = entries[i].serial
             /\ es[i].slot = entries[i].slot
             /\ \/ es[i].state = entries[i].state
                \/ entries[i].state = "Live" /\ es[i].state = "Abandoned"
    BY DEF MayAbandon
  <1>5. /\ pending' = Append(pending, x) /\ thread = "tasks"
        /\ serial' = serial + 1 /\ UNCHANGED <<kernel, pool, thread, turn>>
    BY DEF Insertion
  <1>6. UNCHANGED <<accepted, owed, queue, consumed>>
    BY <1>5 DEF kernel, ringVars
  <1>7. e.gen = NextCookie.gen /\ e.state = state /\ e.slot = slot /\ e.serial = serial + 1
    OBVIOUS
  <1>8. x.ud = NextCookie /\ x.aim = aim /\ x.slot = slot /\ x.serial = serial + 1
    BY DEF NextSqe
  <1>9. /\ p \in Nat /\ pending \in Seq(AnySqe) /\ consumed \in Seq(AnySqe)
        /\ \A k \in 1..p : pending[k] \in AnySqe
        /\ \A k \in 1..Len(consumed) : consumed[k] \in AnySqe
    BY <1>1, TypeFacts
  <1>10. turn.batch = <<>> /\ turn.cq = <<>> /\ turn.off = 0 /\ turn.sent = 0
         /\ ~Sending /\ Gone = 0
    BY <1>1, <1>5, AtTasks
  <1> HIDE DEF c, l, m, e, x, p
  <1>11. /\ Len(pending') = p + 1 /\ pending'[p + 1] = x
         /\ \A k \in 1..p : pending'[k] = pending[k]
         /\ \A k \in 1..(p + 1) : k = p + 1 \/ k \in 1..p
    BY <1>5, <1>9 DEF p
  \* An operation already there keeps its place.
  <1>12. ASSUME NEW y, HasIn(entries, y)
         PROVE  /\ y.ud.index \in 1..m
                /\ entries'[y.ud.index].gen = entries[y.ud.index].gen
                /\ entries'[y.ud.index].serial = entries[y.ud.index].serial
                /\ entries'[y.ud.index].slot = entries[y.ud.index].slot
                /\ \/ entries'[y.ud.index].state = entries[y.ud.index].state
                   \/ /\ entries[y.ud.index].state = "Live"
                      /\ entries'[y.ud.index].state = "Abandoned"
    <2> DEFINE i == y.ud.index
    <2>1. i \in 1..l /\ entries[i].state # "Free"
      BY <1>12 DEF HasIn, l
    <2> HIDE DEF i
    <2>2. i # c /\ i \in 1..m
      BY <1>3, <2>1
    <2>3. QED
      BY <1>3, <1>4, <2>1, <2>2 DEF i
  <1>13. TurnInv'
    BY <1>1, <1>5, <1>10 DEF TurnInv, Gone, Sending
  <1>14. PendingStays
    <2>1. ASSUME NEW k \in 1..p
          PROVE  /\ WaitsIn(entries, pending[k]) => WaitsIn(entries', pending[k])
                 /\ DeadIn(entries, pending[k]) => DeadIn(entries', pending[k])
      <3> SUFFICES ASSUME WaitsIn(entries, pending[k]) \/ DeadIn(entries, pending[k])
                   PROVE  /\ WaitsIn(entries, pending[k]) => WaitsIn(entries', pending[k])
                          /\ DeadIn(entries, pending[k]) => DeadIn(entries', pending[k])
        OBVIOUS
      <3>2. HasIn(entries, pending[k]) /\ entries[pending[k].ud.index].state # "Live"
        BY DEF DeadIn, WaitsIn
      <3>3. /\ pending[k].ud.index \in 1..Len(entries')
            /\ Alike(entries'[pending[k].ud.index], entries[pending[k].ud.index])
        BY <1>12, <3>2 DEF Alike, m
      <3>4. QED
        BY <3>3, SameEntry
    <2>2. WaitsIn(entries', x)
      BY <1>3, <1>7, <1>8 DEF WaitsIn, HasIn, m, c
    <2>3. x \in AnySqe
      <3>1. pending' \in Seq(AnySqe)
        BY <1>2 DEF Types
      <3>2. QED
        BY <1>9, <1>11, <3>1
    <2>4. QED
      BY <1>5, <2>1, <2>2, <2>3 DEF PendingStays, p
  <1>15. BatchInv'
    BY <1>5, <1>10 DEF BatchInv
  <1>16. OutInv'
    <2>1. Out' = Out
      BY <1>5, <1>6 DEF Out, Queue, Taken
    <2>2. ASSUME NEW n \in Out
          PROVE  LET y == consumed[n] IN
                 /\ n \in 1..Len(consumed)
                 /\ HasIn(entries', y) /\ entries'[y.ud.index].slot = y.slot
                 /\ entries'[y.ud.index].state \in {"Live", "Abandoned", "CancelProbe"}
      <3> DEFINE y == consumed[n]
      <3>1. /\ n \in 1..Len(consumed)
            /\ HasIn(entries, y) /\ entries[y.ud.index].slot = y.slot
            /\ entries[y.ud.index].state \in {"Live", "Abandoned", "CancelProbe"}
        BY <1>10 DEF CoreInv, TokenInv, OutInv
      <3> HIDE DEF y
      <3>2. QED
        BY <1>12, <3>1 DEF HasIn, m, y
    <2>3. QED
      BY <1>6, <2>1, <2>2 DEF OutInv
  <1>17. OnceInv'
    BY <1>5, <1>6, OnceKept DEF CoreInv, TokenInv
  <1>18. OrderInv'
    <2>1. /\ Rising(consumed) /\ Rising(pending)
          /\ \A j \in 1..Len(consumed), k \in 1..p : consumed[j].serial < pending[k].serial
          /\ \A j \in 1..Len(consumed) : consumed[j].serial <= serial
          /\ \A j \in 1..p : pending[j].serial <= serial
      BY DEF CoreInv, TokenInv, OrderInv, p
    <2>2. serial \in Nat
      BY <1>1 DEF Types
    <2>3. /\ \A k \in 1..p : pending[k].serial \in Nat
          /\ \A k \in 1..Len(consumed) : consumed[k].serial \in Nat
      BY <1>9 DEF AnySqe
    <2>4. \A j \in 1..(p + 1) : pending'[j].serial <= serial + 1
      BY <1>8, <1>11, <2>1, <2>2, <2>3
    <2>5. \A j \in 1..Len(consumed), k \in 1..(p + 1) : consumed[j].serial < pending'[k].serial
      BY <1>8, <1>11, <2>1, <2>2, <2>3
    <2>6. \A j \in 1..Len(consumed) : consumed[j].serial <= serial + 1
      BY <2>1, <2>2, <2>3
    <2>7. Rising(pending')
      <3>1. \A j, k \in 1..(p + 1) : j < k => pending'[j].serial < pending'[k].serial
        <4> SUFFICES ASSUME NEW j \in 1..(p + 1), NEW k \in 1..(p + 1), j < k
                     PROVE  pending'[j].serial < pending'[k].serial
          OBVIOUS
        <4>1. j \in 1..p
          BY <1>9
        <4>2. CASE k \in 1..p
          BY <1>11, <2>1, <4>1, <4>2 DEF Rising, p
        <4>3. CASE k = p + 1
          BY <1>8, <1>11, <2>1, <2>2, <2>3, <4>1, <4>3
        <4>4. QED
          BY <1>11, <4>2, <4>3
      <3>2. QED
        BY <1>11, <3>1 DEF Rising
    <2>8. Len(turn'.batch) = 0
      BY <1>5, <1>10
    <2>9. QED
      BY <1>5, <1>6, <1>11, <2>1, <2>4, <2>5, <2>6, <2>7, <2>8 DEF OrderInv, Rising
  <1>19. AimInv' /\ HistInv'
    <2>1. /\ \A n \in 1..Len(consumed) : AimedIn(entries, consumed[n])
          /\ \A n \in 1..p : AimedIn(entries, pending[n])
          /\ \A n \in 1..Len(consumed) : WasIn(entries, consumed[n])
      BY DEF CoreInv, AimInv, HistInv, p
    <2>2. /\ \A n \in 1..Len(consumed) : AimedIn(entries', consumed[n])
          /\ \A n \in 1..Len(consumed) : WasIn(entries', consumed[n])
      BY <1>1, <1>2, <1>9, <2>1, OldTokens
    <2>3. \A n \in 1..p : AimedIn(entries', pending[n])
      BY <1>1, <1>2, <1>9, <2>1, OldTokens DEF p
    <2>4. AimedIn(entries', x)
      <3> SUFFICES ASSUME aim # NoCookie
                   PROVE  /\ aim.index \in 1..m
                          /\ entries'[aim.index].gen = aim.gen /\ entries'[aim.index].state = "Abandoned"
        BY <1>8 DEF AimedIn, m
      <3> DEFINE a == aim.index
      <3>1. a \in 1..l /\ es[a].gen = aim.gen /\ es[a].state = "Abandoned"
        BY DEF l
      <3> HIDE DEF a
      <3>2. a # c
        BY <1>3, <1>4, <3>1
      <3>3. QED
        BY <1>3, <3>1, <3>2 DEF a
    <2>5. \A n \in 1..(p + 1) : AimedIn(entries', pending'[n])
      BY <1>11, <2>3, <2>4
    <2>6. QED
      BY <1>5, <1>6, <1>10, <1>11, <2>2, <2>5 DEF AimInv, HistInv
  <1>20. QED
    BY <1>2, <1>5, <1>13, <1>14, <1>15, <1>16, <1>17, <1>18, <1>19 DEF CoreInv, TokenInv

\* Inner::submit.
LEMMA RegisterStep ==
  ASSUME CoreInv, NEW slot \in Slots \cup {NilSlot}, Register(slot)
  PROVE  CoreInv' /\ Ages /\ PendingStays
  <1>1. MayAbandon(entries)
    BY DEF MayAbandon, CoreInv, Types
  <1>2. Insertion(entries, "Queued", slot, NoCookie) /\ slot \in hands \cup {NilSlot}
    BY DEF Insertion, Register
  <1>3. NoCookie \in Cookie
    BY DEF NoCookie, Cookie
  <1>4. QED
    BY <1>1, <1>2, <1>3, InsertionStep

\* Inner::abandon, of a live operation: it is marked and a CANCEL registered.
LEMMA DropLiveStep ==
  ASSUME CoreInv, NEW c, thread = "tasks", Names(c), c \in Cookie, DropLive(c),
         UNCHANGED <<kernel, hands, thread, turn>>
  PROVE  CoreInv' /\ Ages /\ PendingStays
  <1> DEFINE es == [entries EXCEPT ![c.index].state = "Abandoned"]
             i == c.index
  <1>1. Types
    BY DEF CoreInv
  <1>2. /\ entries \in Seq(AnyEntry) /\ i \in 1..Len(entries) /\ entries[i] \in AnyEntry
        /\ entries[i].gen = c.gen /\ entries[i].state = "Live"
    BY <1>1, TypeFacts DEF Names, DropLive
  <1>3. es = [entries EXCEPT ![i] = [entries[i] EXCEPT !.state = "Abandoned"]]
    BY <1>2
  <1>4. [entries[i] EXCEPT !.state = "Abandoned"] \in AnyEntry
    BY <1>2 DEF AnyEntry, States
  <1>5. /\ [entries[i] EXCEPT !.state = "Abandoned"].state = "Abandoned"
        /\ [entries[i] EXCEPT !.state = "Abandoned"].gen = entries[i].gen
        /\ [entries[i] EXCEPT !.state = "Abandoned"].serial = entries[i].serial
        /\ [entries[i] EXCEPT !.state = "Abandoned"].slot = entries[i].slot
    BY <1>2 DEF AnyEntry
  <1>6. entries' = Inserted(es, "CancelProbe", NilSlot)
    BY DEF DropLive
  <1> HIDE DEF es, i
  <1>7. es \in Seq(AnyEntry) /\ Len(es) = Len(entries)
        /\ \A k \in 1..Len(entries) : es[k] = IF k = i THEN [entries[i] EXCEPT !.state = "Abandoned"] ELSE entries[k]
    BY <1>2, <1>3, <1>4
  <1>8. MayAbandon(es)
    BY <1>2, <1>5, <1>7 DEF MayAbandon
  <1>9. hands \ {NilSlot} = hands
    BY <1>1, SlotsAssumption DEF Types
  <1>10. Insertion(es, "CancelProbe", NilSlot, c)
    BY <1>6, <1>9 DEF Insertion, DropLive
  <1>11. c.index \in 1..Len(entries) /\ es[c.index].gen = c.gen /\ es[c.index].state = "Abandoned"
    BY <1>2, <1>5, <1>7 DEF i
  <1>12. QED
    BY <1>8, <1>10, <1>11, InsertionStep

\* One entry gives its slot to the pool, or to the program.
GivesBack(i) ==
  /\ i \in 1..Len(entries)
  /\ entries' \in Seq(AnyEntry) /\ Len(entries') = Len(entries)
  /\ \A j \in 1..Len(entries) : j # i => entries'[j] = entries[j]
  /\ entries'[i].slot = NilSlot
  /\ \/ pool' = pool \cup Freed(entries[i].slot) /\ hands' = hands
     \/ hands' = hands \cup Freed(entries[i].slot) /\ pool' = pool

\* The slot of an entry that is vacated goes to the pool, or to the hands of a caller.
LEMMA SlotGivenBack ==
  ASSUME Types, SlotInv, NEW i, GivesBack(i)
  PROVE  SlotInv' /\ pool' \subseteq Slots /\ hands' \subseteq Slots
  <1> DEFINE l == Len(entries)
             o == entries[i].slot
  <1>1. NilSlot \notin Slots
    BY SlotsAssumption
  <1>2. /\ i \in 1..l /\ Len(entries') = l
        /\ \A j \in 1..l : j # i => entries'[j] = entries[j]
        /\ entries'[i].slot = NilSlot
        /\ \/ pool' = pool \cup Freed(o) /\ hands' = hands
           \/ hands' = hands \cup Freed(o) /\ pool' = pool
    BY DEF GivesBack
  <1>3. /\ \A j \in 1..l :
             /\ entries[j].state \in {"Free", "Dead", "CancelProbe"} => entries[j].slot = NilSlot
             /\ entries[j].slot \notin pool \cup hands
        /\ \A j, k \in 1..l : entries[j].slot = entries[k].slot => j = k \/ entries[j].slot = NilSlot
        /\ pool \cap hands = {}
        /\ \A s \in Slots : s \in pool \cup hands \/ \E j \in 1..l : entries[j].slot = s
    BY DEF SlotInv
  <1>4. pool \subseteq Slots /\ hands \subseteq Slots
    BY DEF Types
  <1>5. o \in Slots \cup {NilSlot}
    <2>1. entries[i] \in AnyEntry
      BY <1>2, TypeFacts
    <2>2. QED
      BY <2>1 DEF AnyEntry
  <1>6. o # NilSlot => \A j \in 1..l : j # i => entries[j].slot # o
    BY <1>2, <1>3
  <1>7. o \notin pool \cup hands
    BY <1>2, <1>3
  <1>8. Freed(o) = IF o = NilSlot THEN {} ELSE {o}
    BY DEF Freed
  <1> HIDE DEF l, o
  <1>9. \A j \in 1..l :
             /\ entries'[j].state \in {"Free", "Dead", "CancelProbe"} => entries'[j].slot = NilSlot
             /\ entries'[j].slot \notin pool' \cup hands'
    <2> TAKE j \in 1..l
    <2>1. CASE j = i
      BY <1>1, <1>2, <1>4, <1>5, <1>8, <2>1
    <2>2. CASE j # i
      BY <1>2, <1>3, <1>6, <1>8, <2>2
    <2>3. QED
      BY <2>1, <2>2
  <1>10. \A j, k \in 1..l : entries'[j].slot = entries'[k].slot => j = k \/ entries'[j].slot = NilSlot
    BY <1>2, <1>3
  <1>11. pool' \cap hands' = {}
    BY <1>2, <1>3, <1>7, <1>8
  <1>12. ASSUME NEW s \in Slots
         PROVE  s \in pool' \cup hands' \/ \E j \in 1..l : entries'[j].slot = s
    <2>1. CASE s \in pool \cup hands
      BY <1>2, <2>1
    <2>2. CASE \E j \in 1..l : entries[j].slot = s
      <3>1. PICK j \in 1..l : entries[j].slot = s
        BY <2>2
      <3>2. CASE j = i
        <4>1. s \in Freed(o)
          BY <1>1, <1>8, <3>1, <3>2 DEF o
        <4>2. QED
          BY <1>2, <4>1
      <3>3. CASE j # i
        BY <1>2, <3>1, <3>3
      <3>4. QED
        BY <3>2, <3>3
    <2>3. QED
      BY <1>3, <2>1, <2>2
  <1>13. pool' \subseteq Slots /\ hands' \subseteq Slots
    BY <1>2, <1>4, <1>5, <1>8
  <1>14. QED
    BY <1>2, <1>9, <1>10, <1>11, <1>12, <1>13 DEF SlotInv

\* An entry is taken out.
Removal(c) ==
  /\ Names(c) /\ RemoveEntry(c)
  /\ \/ pool' = pool \cup Freed(entries[c.index].slot) /\ hands' = hands
     \/ hands' = hands \cup Freed(entries[c.index].slot) /\ pool' = pool

\* A removal keeps the slab: the index is free, and a generation older.
LEMMA RemovalSlab ==
  ASSUME Types, SlabInv, NEW c, Removal(c)
  PROVE  /\ GivesBack(c.index) /\ SlabInv' /\ Ages /\ free' \in Seq(Nat)
         /\ pool' \subseteq Slots /\ hands' \subseteq Slots
         /\ entries'[c.index].gen = entries[c.index].gen + 1
         /\ entries'[c.index].state = "Free"
  <1> DEFINE i == c.index
             l == Len(entries)
             e == Vacant(entries[i])
             f == Len(free)
  <1>1. /\ i \in 1..l /\ entries[i].state # "Free" /\ entries \in Seq(AnyEntry)
        /\ l \in Nat /\ f \in Nat /\ free \in Seq(Nat)
        /\ entries[i] \in AnyEntry
    BY TypeFacts DEF Removal, Names
  <1>2. e = [gen |-> entries[i].gen + 1, state |-> "Free", slot |-> NilSlot, serial |-> 0]
    BY DEF Vacant
  <1>3. e \in AnyEntry /\ e.gen > entries[i].gen
        /\ e.gen = entries[i].gen + 1 /\ e.state = "Free" /\ e.slot = NilSlot
    <2>1. entries[i].gen \in Nat
      BY <1>1 DEF AnyEntry
    <2>2. QED
      BY <1>2, <2>1 DEF AnyEntry, States
  <1>4. entries' = [entries EXCEPT ![i] = e] /\ free' = Append(free, i)
    BY DEF Removal, RemoveEntry
  <1>5. /\ \A k \in 1..f : free[k] \in 1..l /\ entries[free[k]].state = "Free"
        /\ \A j, k \in 1..f : free[j] = free[k] => j = k
    BY DEF SlabInv, FreeInv
  <1> HIDE DEF i, l, e, f
  <1>6. /\ entries' \in Seq(AnyEntry) /\ Len(entries') = l /\ entries'[i] = e
        /\ \A j \in 1..l : j # i => entries'[j] = entries[j]
    BY <1>1, <1>3, <1>4 DEF l
  <1>7. GivesBack(i)
    BY <1>1, <1>3, <1>6 DEF GivesBack, Removal, i, l
  <1>8. SlotInv' /\ pool' \subseteq Slots /\ hands' \subseteq Slots
    BY <1>7, SlotGivenBack DEF SlabInv
  <1>9. /\ free' \in Seq(Nat) /\ Len(free') = f + 1 /\ free'[f + 1] = i
        /\ \A k \in 1..f : free'[k] = free[k]
        /\ \A k \in 1..(f + 1) : k = f + 1 \/ k \in 1..f
    BY <1>1, <1>4 DEF f
  <1>10. FreeInv'
    <2>1. \A k \in 1..f : free'[k] \in 1..l /\ free'[k] # i /\ entries'[free'[k]].state = "Free"
      <3> TAKE k \in 1..f
      <3> DEFINE j == free[k]
      <3>1. free'[k] = j /\ j \in 1..l /\ entries[j].state = "Free"
        BY <1>5, <1>9
      <3> HIDE DEF j
      <3>2. QED
        BY <1>1, <1>6, <3>1
    <2>2. \A k \in 1..(f + 1) : free'[k] \in 1..l /\ entries'[free'[k]].state = "Free"
      BY <1>1, <1>3, <1>6, <1>9, <2>1
    <2>3. \A j, k \in 1..(f + 1) : free'[j] = free'[k] => j = k
      BY <1>5, <1>9, <2>1
    <2>4. QED
      BY <1>6, <1>9, <2>2, <2>3 DEF FreeInv
  <1>11. Ages
    <2>1. \A j \in 1..l : \/ entries'[j].gen > entries[j].gen
                          \/ entries'[j] = entries[j]
      BY <1>3, <1>6
    <2>2. l <= Len(entries')
      BY <1>1, <1>6
    <2>3. QED
      BY <1>6, <2>1, <2>2 DEF Ages, l
  <1>12. QED
    BY <1>3, <1>6, <1>7, <1>8, <1>9, <1>10, <1>11 DEF SlabInv, i

-----------------------------------------------------------------------------
(* The program's steps.                                                    *)

\* The states of an operation in the kernel.
Within == {"Live", "Abandoned", "CancelProbe"}

\* A change of the slab between turns that no SQE minds.
LEMMA TasksChange ==
  ASSUME CoreInv, thread = "tasks", UNCHANGED <<kernel, turn, thread, pending, serial>>,
         Types', SlabInv', Ages,
         \A y \in AnySqe :
           HasIn(entries, y) /\ entries[y.ud.index].state \in Within =>
             HasIn(entries', y) /\ Alike(entries'[y.ud.index], entries[y.ud.index])
  PROVE  CoreInv'
  <1>1. Types /\ TurnInv
    BY DEF CoreInv, TokenInv
  <1>2. UNCHANGED <<accepted, owed, queue, consumed, turn, thread, pending, serial>>
    BY DEF kernel, ringVars
  <1>3. /\ pending \in Seq(AnySqe) /\ consumed \in Seq(AnySqe)
        /\ \A k \in 1..Len(pending) : pending[k] \in AnySqe
        /\ \A k \in 1..Len(consumed) : consumed[k] \in AnySqe
    BY <1>1, TypeFacts
  <1>4. turn.batch = <<>> /\ turn.off = 0 /\ turn.sent = 0 /\ ~Sending /\ Gone = 0
    BY <1>1, AtTasks
  <1>5. TurnInv'
    BY <1>1, <1>2, <1>4 DEF TurnInv, Gone, Sending
  <1>7. BatchInv'
    BY <1>2, <1>4 DEF BatchInv
  <1>8. OutInv'
    <2>1. Out' = Out
      BY <1>2 DEF Out, Queue, Taken
    <2>2. ASSUME NEW n \in Out
          PROVE  LET y == consumed[n] IN
                 /\ n \in 1..Len(consumed)
                 /\ HasIn(entries', y) /\ entries'[y.ud.index].slot = y.slot
                 /\ entries'[y.ud.index].state \in {"Live", "Abandoned", "CancelProbe"}
      <3>1. LET y == consumed[n] IN
            /\ n \in 1..Len(consumed)
            /\ HasIn(entries, y) /\ entries[y.ud.index].slot = y.slot
            /\ entries[y.ud.index].state \in Within
        BY <1>4 DEF CoreInv, TokenInv, OutInv, Within
      <3>2. QED
        BY <1>3, <3>1 DEF Alike, Within
    <2>3. QED
      BY <1>2, <2>1, <2>2 DEF OutInv
  <1>9. OnceInv'
    BY <1>2, OnceKept DEF CoreInv, TokenInv
  <1>10. OrderInv'
    <2>1. OrderInv
      BY DEF CoreInv, TokenInv
    <2>2. Gone' = Gone
      BY <1>2 DEF Gone, Sending
    <2>3. QED
      BY <1>2, <2>1, <2>2 DEF OrderInv, Rising
  <1>11. AimInv' /\ HistInv'
    <2>1. /\ \A n \in 1..Len(consumed) : AimedIn(entries, consumed[n])
          /\ \A n \in 1..Len(pending) : AimedIn(entries, pending[n])
          /\ \A n \in 1..Len(consumed) : WasIn(entries, consumed[n])
      BY DEF CoreInv, AimInv, HistInv
    <2>2. /\ \A n \in 1..Len(consumed) : AimedIn(entries', consumed[n])
          /\ \A n \in 1..Len(consumed) : WasIn(entries', consumed[n])
          /\ \A n \in 1..Len(pending) : AimedIn(entries', pending[n])
      BY <1>1, <1>3, <2>1, OldTokens
    <2>3. QED
      BY <1>2, <1>4, <2>2 DEF AimInv, HistInv
  <1>12. QED
    BY <1>2, <1>5, <1>7, <1>8, <1>9, <1>10, <1>11 DEF CoreInv, TokenInv

\* A slab that stays has not gone back.
LEMMA SlabKept ==
  ASSUME Types, UNCHANGED entries
  PROVE  Ages
  <1>1. entries' \in Seq(AnyEntry) /\ Len(entries) <= Len(entries')
    BY DEF Types
  <1>2. QED
    BY <1>1 DEF Ages

\* The pool gives a slot, or gets one back.
LEMMA HandStep ==
  ASSUME CoreInv, NEW s \in Slots, Acquire(s) \/ Release(s)
  PROVE  CoreInv' /\ Ages /\ PendingStays
  <1>1. /\ thread = "tasks" /\ UNCHANGED <<kernel, turn, thread, pending, serial, entries, free>>
        /\ \/ s \in pool /\ pool' = pool \ {s} /\ hands' = hands \cup {s}
           \/ s \in hands /\ pool' = pool \cup {s} /\ hands' = hands \ {s}
    BY DEF Acquire, Release, slab
  <1>2. Types /\ FreeInv /\ SlotInv
    BY DEF CoreInv, SlabInv
  <1>3. Types'
    BY <1>1, <1>2 DEF Types, kernel, ringVars
  <1>4. FreeInv'
    BY <1>1, <1>2 DEF FreeInv
  <1>5. SlotInv'
    <2>1. pool' \cup hands' = pool \cup hands
      BY <1>1
    <2>2. pool' \cap hands' = {}
      BY <1>1, <1>2 DEF SlotInv
    <2>3. QED
      BY <1>1, <1>2, <2>1, <2>2 DEF SlotInv
  <1>6. Ages
    BY <1>1, <1>2, SlabKept
  <1>7. PendingStays
    BY <1>1 DEF PendingStays
  <1>8. QED
    BY <1>1, <1>3, <1>4, <1>5, <1>6, <1>7, TasksChange DEF SlabInv, Alike

\* No SQE is there for an operation whose completion has come.
LEMMA ReadyRemoval ==
  ASSUME CoreInv, NEW c, Removal(c), entries[c.index].state = "Ready", thread = "tasks",
         UNCHANGED <<kernel, turn, thread, pending, serial>>
  PROVE  CoreInv' /\ Ages /\ PendingStays
  <1>1. Types /\ SlabInv
    BY DEF CoreInv
  <1>2. /\ GivesBack(c.index) /\ SlabInv' /\ Ages /\ free' \in Seq(Nat)
        /\ pool' \subseteq Slots /\ hands' \subseteq Slots
    BY <1>1, RemovalSlab
  <1>3. Types'
    BY <1>1, <1>2 DEF Types, kernel, ringVars, Ages
  <1>4. ASSUME NEW y, HasIn(entries, y), entries[y.ud.index].state # "Ready"
        PROVE  /\ y.ud.index \in 1..Len(entries')
               /\ entries'[y.ud.index] = entries[y.ud.index]
    BY <1>2, <1>4 DEF HasIn, GivesBack
  <1>5. PendingStays
    <2>1. ASSUME NEW k \in 1..Len(pending),
                 WaitsIn(entries, pending[k]) \/ DeadIn(entries, pending[k])
          PROVE  /\ WaitsIn(entries, pending[k]) => WaitsIn(entries', pending[k])
                 /\ DeadIn(entries, pending[k]) => DeadIn(entries', pending[k])
      <3>1. HasIn(entries, pending[k]) /\ entries[pending[k].ud.index].state # "Ready"
        BY <2>1 DEF DeadIn, WaitsIn
      <3>2. QED
        BY <1>4, <3>1, SameEntry DEF Alike
    <2>2. QED
      BY <2>1 DEF PendingStays
  <1>6. ASSUME NEW y \in AnySqe, HasIn(entries, y), entries[y.ud.index].state \in Within
        PROVE  HasIn(entries', y) /\ Alike(entries'[y.ud.index], entries[y.ud.index])
    <2>1. entries[y.ud.index].state # "Ready"
      BY <1>6 DEF Within
    <2>2. QED
      BY <1>4, <1>6, <2>1, SameEntry DEF Alike
  <1>7. QED
    BY <1>2, <1>3, <1>5, <1>6, TasksChange

\* OpFuture::poll finds its completion.
LEMMA ResolveStep ==
  ASSUME CoreInv, NEW c, Resolve(c)
  PROVE  CoreInv' /\ Ages /\ PendingStays
  <1>1. Removal(c) /\ entries[c.index].state = "Ready" /\ thread = "tasks"
        /\ UNCHANGED <<kernel, turn, thread, pending, serial>>
    BY DEF Resolve, Removal
  <1>2. QED
    BY <1>1, ReadyRemoval

\* What is pending stays pending in the Rust runtime.
LEMMA PendingHolds ==
  ASSUME ReactorInv, CoreInv', PendingStays, thread' = "dispatch" => pending' = <<>>
  PROVE  ReactorInv'
  BY PendingKept DEF ReactorInv, CoreInv, PendInv

\* Inner::abandon, of an operation the kernel never saw.
LEMMA DropQueuedStep ==
  ASSUME ReactorInv, NEW c, Names(c), DropQueued(c), thread = "tasks",
         UNCHANGED <<kernel, turn, thread, hands>>
  PROVE  ReactorInv'
  <1> DEFINE i == c.index
             l == Len(entries)
             e == [entries[i] EXCEPT !.state = "Dead", !.slot = NilSlot]
  <1>1. Types /\ SlabInv /\ FreeInv /\ SlotInv /\ CoreInv
    BY DEF ReactorInv, CoreInv, SlabInv
  <1>2. /\ entries \in Seq(AnyEntry) /\ i \in 1..l /\ entries[i] \in AnyEntry
        /\ entries[i].state = "Queued"
    BY <1>1, TypeFacts DEF Names, DropQueued
  <1>3. entries' = [entries EXCEPT ![i] = e]
    BY <1>2 DEF DropQueued
  <1>4. /\ e \in AnyEntry /\ e.state = "Dead" /\ e.slot = NilSlot
        /\ e.gen = entries[i].gen /\ e.serial = entries[i].serial
    BY <1>2 DEF AnyEntry, States
  <1>5. UNCHANGED <<free, pending, serial>>
    BY DEF DropQueued
  <1> HIDE DEF e, i, l
  <1>6. /\ entries' \in Seq(AnyEntry) /\ Len(entries') = l /\ entries'[i] = e
        /\ \A j \in 1..l : j # i => entries'[j] = entries[j]
    BY <1>2, <1>3, <1>4 DEF l
  <1>7. GivesBack(i)
    BY <1>2, <1>4, <1>6 DEF GivesBack, DropQueued, i, l
  <1>8. SlotInv' /\ pool' \subseteq Slots /\ hands' \subseteq Slots
    BY <1>1, <1>7, SlotGivenBack
  <1>9. FreeInv'
    BY <1>1, <1>2, <1>5, <1>6 DEF FreeInv, l
  <1>10. Types'
    BY <1>1, <1>5, <1>6, <1>8 DEF Types, kernel, ringVars
  <1>11. Ages
    <2>1. \A j \in 1..l : \/ entries'[j] = entries[j]
                          \/ /\ entries'[j].gen = entries[j].gen /\ entries'[j].state = "Dead"
                             /\ entries'[j].serial = entries[j].serial
                             /\ entries[j].state = "Queued"
      BY <1>2, <1>4, <1>6
    <2>2. l <= Len(entries')
      BY <1>1, <1>6, TypeFacts DEF l
    <2>3. QED
      BY <1>6, <2>1, <2>2 DEF Ages, l
  <1>12. ASSUME NEW y, HasIn(entries, y)
         PROVE  /\ HasIn(entries', y)
                /\ \/ Alike(entries'[y.ud.index], entries[y.ud.index])
                   \/ entries[y.ud.index].state = "Queued" /\ entries'[y.ud.index].state = "Dead"
    <2> DEFINE k == y.ud.index
    <2>1. k \in 1..l /\ entries[k].gen = y.ud.gen /\ entries[k].serial = y.serial
          /\ entries[k].state # "Free"
      BY <1>12 DEF HasIn, l
    <2> HIDE DEF k
    <2>2. k \in 1..Len(entries')
      BY <1>6, <2>1
    <2>3. CASE k = i
      BY <1>2, <1>4, <1>6, <2>1, <2>2, <2>3 DEF k, HasIn
    <2>4. CASE k # i
      <3>1. entries'[k] = entries[k]
        BY <1>6, <2>1, <2>4
      <3>2. QED
        BY <2>1, <2>2, <3>1 DEF k, HasIn, Alike
    <2>5. QED
      BY <2>3, <2>4
  <1>13. ASSUME NEW y \in AnySqe, PendsIn(entries, y)
         PROVE  PendsIn(entries', y)
    <2>1. HasIn(entries, y)
      BY <1>13 DEF PendsIn, WaitsIn, DeadIn
    <2>2. HasIn(entries', y) /\ y.ud.index \in 1..Len(entries')
      BY <1>12, <2>1 DEF HasIn
    <2>3. CASE Alike(entries'[y.ud.index], entries[y.ud.index])
      BY <1>13, <2>2, <2>3, SameEntry
    <2>4. CASE entries'[y.ud.index].state = "Dead"
      BY <2>2, <2>4 DEF PendsIn, DeadIn
    <2>5. QED
      BY <1>12, <2>1, <2>3, <2>4
  <1>14. ASSUME NEW y \in AnySqe, HasIn(entries, y), entries[y.ud.index].state \in Within
         PROVE  HasIn(entries', y) /\ Alike(entries'[y.ud.index], entries[y.ud.index])
    BY <1>12, <1>14 DEF Within
  <1>15. CoreInv'
    BY <1>1, <1>5, <1>8, <1>9, <1>10, <1>11, <1>14, TasksChange DEF SlabInv
  <1>16. \A k \in 1..Len(pending) : pending[k] \in AnySqe
    BY <1>1, TypeFacts
  <1>17. QED
    BY <1>5, <1>13, <1>15, <1>16 DEF ReactorInv, PendInv

\* OpFuture's drop, in each state of the entry.
LEMMA DropStep ==
  ASSUME ReactorInv, NEW c, c \in Cookie, Drop(c)
  PROVE  ReactorInv'
  <1>1. CoreInv /\ thread = "tasks" /\ Names(c) /\ UNCHANGED <<kernel, hands, thread, turn>>
    BY DEF Drop, ReactorInv
  <1>2. CASE DropQueued(c)
    BY <1>1, <1>2, DropQueuedStep
  <1>3. CASE DropLive(c)
    BY <1>1, <1>3, DropLiveStep, PendingHolds
  <1>4. CASE DropReady(c)
    BY <1>1, <1>4, ReadyRemoval, PendingHolds DEF DropReady, Removal
  <1>5. QED
    BY <1>2, <1>3, <1>4 DEF Drop

-----------------------------------------------------------------------------
(* The turn.                                                               *)

\* Operations that are out stay so when their entries do not change.
LEMMA OutKept ==
  ASSUME Types, OutInv, UNCHANGED <<owed, queue, consumed>>, turn'.cq = turn.cq, ~Sending,
         \A y \in AnySqe :
           HasIn(entries, y) /\ entries[y.ud.index].state \in Within =>
             HasIn(entries', y) /\ Alike(entries'[y.ud.index], entries[y.ud.index])
  PROVE  OutInv'
  <1>1. Out' = Out
    BY DEF Out, Queue, Taken
  <1>2. \A k \in 1..Len(consumed) : consumed[k] \in AnySqe
    BY TypeFacts
  <1>3. ASSUME NEW n \in Out
        PROVE  LET y == consumed[n] IN
               /\ n \in 1..Len(consumed)
               /\ HasIn(entries', y) /\ entries'[y.ud.index].slot = y.slot
               /\ entries'[y.ud.index].state \in {"Live", "Abandoned", "CancelProbe"}
    <2>1. LET y == consumed[n] IN
          /\ n \in 1..Len(consumed)
          /\ HasIn(entries, y) /\ entries[y.ud.index].slot = y.slot
          /\ entries[y.ud.index].state \in Within
      BY DEF OutInv, Within
    <2>2. QED
      BY <1>2, <2>1 DEF Alike, Within
  <1>4. QED
    BY <1>1, <1>3 DEF OutInv

\* The dead leave the slab.
LEMMA TakeBatchSlab ==
  ASSUME Types, SlabInv, PendInv, OrderInv, TakeBatch, UNCHANGED <<pool, hands>>
  PROVE  /\ SlabInv' /\ Ages /\ free' \in Seq(Nat)
         /\ Len(entries') = Len(entries)
         /\ \A i \in 1..Len(entries) : entries[i].state # "Dead" => entries'[i] = entries[i]
  <1> DEFINE l == Len(entries)
             f == Len(free)
             D == {sqe \in PendingSqes : IsDead(sqe)}
             dead == Retained(pending, D)
             d == Len(dead)
             new == [k \in 1..Len(dead) |-> dead[k].ud.index]
  <1>1. /\ l \in Nat /\ f \in Nat /\ free \in Seq(Nat) /\ pending \in Seq(AnySqe)
        /\ Len(pending) \in Nat
        /\ \A i \in 1..l : entries[i] \in AnyEntry
        /\ \A k \in 1..Len(pending) : pending[k] \in AnySqe
    BY TypeFacts
  <1>2. /\ entries' = [i \in 1..l |-> IF entries[i].state = "Dead" THEN Vacant(entries[i]) ELSE entries[i]]
        /\ free' = free \o new
    BY DEF TakeBatch
  <1>3. /\ dead \in Seq(AnySqe)
        /\ \E h : From(pending, D, Len(pending), dead, h)
    <2> HIDE DEF D
    <2>1. QED
      BY <1>1, RetainedIs
  <1>4. PICK h : From(pending, D, Len(pending), dead, h)
    BY <1>3
  <1>5. ASSUME NEW i \in 1..l
        PROVE  /\ Vacant(entries[i]) \in AnyEntry
               /\ Vacant(entries[i]).gen > entries[i].gen
               /\ Vacant(entries[i]).state = "Free" /\ Vacant(entries[i]).slot = NilSlot
    <2>1. entries[i].gen \in Nat
      BY <1>1, <1>5 DEF AnyEntry
    <2>2. QED
      BY <2>1 DEF Vacant, AnyEntry, States
  <1>6. /\ \A k \in 1..f : free[k] \in 1..l /\ entries[free[k]].state = "Free"
        /\ \A j, k \in 1..f : free[j] = free[k] => j = k
    BY DEF SlabInv, FreeInv
  <1>7. d \in Nat /\ new \in Seq(Nat) /\ Len(new) = d /\ \A k \in 1..d : new[k] = dead[k].ud.index
    <2>0. dead \in Seq(AnySqe)
      BY <1>3
    <2> HIDE DEF D, dead
    <2>1. d \in Nat /\ \A k \in 1..d : dead[k] \in AnySqe
      BY <2>0
    <2>2. \A k \in 1..d : dead[k].ud.index \in Nat
      BY <2>1 DEF AnySqe, Cookie
    <2>3. QED
      BY <2>1, <2>2
  <1>8. ASSUME NEW k \in 1..d
        PROVE  /\ h[k] \in 1..Len(pending) /\ dead[k] = pending[h[k]]
               /\ HasIn(entries, dead[k]) /\ entries[dead[k].ud.index].state = "Dead"
    <2>1. h[k] \in 1..Len(pending) /\ dead[k] = pending[h[k]] /\ dead[k] \in D
      BY <1>4, <1>8 DEF From
    <2>2. entries[dead[k].ud.index].state = "Dead"
      BY <2>1 DEF IsDead
    <2>3. HasIn(entries, dead[k])
      BY <2>1 DEF PendInv, PendsIn, WaitsIn, DeadIn
    <2>4. QED
      BY <2>1, <2>2, <2>3
  <1>9. \A j, k \in 1..d : j < k => h[j] < h[k]
    BY <1>4 DEF From
  <1> HIDE DEF l, f, D, dead, d, new
  <1>10. ASSUME NEW k \in 1..d
         PROVE  new[k] \in 1..l /\ entries[new[k]].state = "Dead" /\ entries[new[k]].serial = dead[k].serial
    BY <1>7, <1>8 DEF HasIn, l
  <1>11. \A j, k \in 1..d : new[j] = new[k] => j = k
    <2>1. ASSUME NEW j \in 1..d, NEW k \in 1..d, j < k
          PROVE  new[j] # new[k]
      <3>1. h[j] < h[k] /\ h[j] \in 1..Len(pending) /\ h[k] \in 1..Len(pending)
        BY <1>8, <1>9, <2>1
      <3>2. pending[h[j]].serial < pending[h[k]].serial
        BY <3>1 DEF OrderInv, Rising
      <3>3. pending[h[j]].serial \in Nat /\ pending[h[k]].serial \in Nat
        BY <1>1, <3>1 DEF AnySqe
      <3>4. dead[j].serial # dead[k].serial
        BY <1>8, <3>2, <3>3
      <3>5. QED
        BY <1>10, <3>4
    <2>2. \A j, k \in 1..d : j < k \/ k < j \/ j = k
      BY <1>7
    <2>3. QED
      BY <2>1, <2>2
  <1>12. /\ free' \in Seq(Nat) /\ Len(free') = f + d
         /\ \A k \in 1..(f + d) : free'[k] = IF k <= f THEN free[k] ELSE new[k - f]
    BY <1>1, <1>2, <1>7, ConcatProperties DEF f
  <1>13. /\ entries' \in Seq(AnyEntry) /\ Len(entries') = l
         /\ \A i \in 1..l : entries'[i] = IF entries[i].state = "Dead" THEN Vacant(entries[i]) ELSE entries[i]
    BY <1>1, <1>2, <1>5
  <1>14. FreeInv'
    <2>1. \A k \in 1..(f + d) : (k <= f /\ k \in 1..f) \/ (k > f /\ k - f \in 1..d)
      BY <1>1, <1>7
    <2>2. ASSUME NEW k \in 1..(f + d)
          PROVE  /\ free'[k] \in 1..l /\ entries'[free'[k]].state = "Free"
                 /\ k <= f => entries[free'[k]].state = "Free"
                 /\ k > f => entries[free'[k]].state = "Dead"
      <3>1. CASE k <= f
        <4> DEFINE i == free[k]
        <4>0. free'[k] = free[k] /\ k \in 1..f
          BY <1>12, <2>1, <3>1
        <4>1. free'[k] = i /\ i \in 1..l /\ entries[i].state = "Free"
          BY <1>6, <4>0
        <4> HIDE DEF i
        <4>2. entries'[i].state = "Free"
          BY <1>13, <4>1
        <4>3. QED
          BY <1>1, <3>1, <4>1, <4>2
      <3>2. CASE k > f
        <4> DEFINE i == new[k - f]
        <4>1. k - f \in 1..d /\ ~(k <= f)
          BY <1>1, <1>7, <2>1, <3>2
        <4>2. free'[k] = i /\ i \in 1..l /\ entries[i].state = "Dead"
          BY <1>10, <1>12, <4>1
        <4> HIDE DEF i
        <4>3. entries'[i].state = "Free"
          BY <1>5, <1>13, <4>2
        <4>4. QED
          BY <4>1, <4>2, <4>3
      <3>3. QED
        BY <1>1, <1>7, <3>1, <3>2
    <2>3. ASSUME NEW j \in 1..(f + d), NEW k \in 1..(f + d), free'[j] = free'[k]
          PROVE  j = k
      <3>1. CASE j <= f /\ k <= f
        BY <1>6, <1>12, <2>1, <2>3, <3>1
      <3>2. CASE j > f /\ k > f
        <4>1. j - f \in 1..d /\ k - f \in 1..d /\ ~(j <= f) /\ ~(k <= f)
          BY <1>1, <1>7, <2>1, <3>2
        <4>2. new[j - f] = new[k - f]
          BY <1>12, <2>3, <4>1
        <4>3. j - f = k - f
          BY <1>11, <4>1, <4>2
        <4>4. QED
          BY <1>1, <1>7, <4>3
      <3>3. (j <= f /\ k <= f) \/ (j > f /\ k > f)
        <4>1. (j <= f \/ j > f) /\ (k <= f \/ k > f)
          BY <2>1
        <4>2. QED
          BY <2>2, <2>3, <4>1
      <3>4. QED
        BY <3>1, <3>2, <3>3
    <2>4. QED
      BY <1>12, <1>13, <2>2, <2>3 DEF FreeInv
  <1>15. SlotInv'
    <2>1. /\ \A i \in 1..l :
               /\ entries[i].state \in {"Free", "Dead", "CancelProbe"} => entries[i].slot = NilSlot
               /\ entries[i].slot \notin pool \cup hands
          /\ \A i, j \in 1..l : entries[i].slot = entries[j].slot => i = j \/ entries[i].slot = NilSlot
          /\ pool \cap hands = {}
          /\ \A s \in Slots : s \in pool \cup hands \/ \E i \in 1..l : entries[i].slot = s
      BY DEF SlabInv, SlotInv, l
    <2>2. \A i \in 1..l : /\ entries'[i].slot = entries[i].slot
                          /\ \/ entries'[i].state = entries[i].state
                             \/ entries'[i].state = "Free" /\ entries'[i].slot = NilSlot
      BY <1>5, <1>13, <2>1
    <2>3. \A i \in 1..l :
               /\ entries'[i].state \in {"Free", "Dead", "CancelProbe"} => entries'[i].slot = NilSlot
               /\ entries'[i].slot \notin pool' \cup hands'
      BY <2>1, <2>2
    <2>4. \A i, j \in 1..l : entries'[i].slot = entries'[j].slot => i = j \/ entries'[i].slot = NilSlot
      BY <2>1, <2>2
    <2>5. \A s \in Slots : s \in pool' \cup hands' \/ \E i \in 1..l : entries'[i].slot = s
      BY <2>1, <2>2
    <2>6. pool' \cap hands' = {}
      BY <2>1
    <2>7. QED
      BY <1>13, <2>3, <2>4, <2>5, <2>6 DEF SlotInv
  <1>16. Ages
    <2>1. \A i \in 1..l : entries'[i].gen > entries[i].gen \/ entries'[i] = entries[i]
      BY <1>5, <1>13
    <2>2. l <= Len(entries')
      BY <1>1, <1>13
    <2>3. QED
      BY <1>13, <2>1, <2>2 DEF Ages, l
  <1>17. QED
    BY <1>12, <1>13, <1>14, <1>15, <1>16 DEF SlabInv, l

\* What is pending becomes the batch, as far as it is in A.
LEMMA BatchTaken ==
  ASSUME CoreInv, NEW wait \in BOOLEAN, NEW capped \in BOOLEAN, NEW A,
         thread = "tasks", thread' = "enter", pending' = <<>>,
         turn' = [batch |-> Retained(pending, A), off |-> 0, sent |-> 0, want |-> 0, woke |-> 0,
                  wait |-> wait, capped |-> capped, cq |-> <<>>],
         UNCHANGED <<accepted, owed, queue, consumed, pool, hands, serial>>,
         SlabInv', Ages, free' \in Seq(Nat),
         \A y \in AnySqe :
           HasIn(entries, y) /\ entries[y.ud.index].state \in Within =>
             HasIn(entries', y) /\ Alike(entries'[y.ud.index], entries[y.ud.index]),
         \A k \in 1..Len(pending) : pending[k] \in A => WaitsIn(entries', pending[k])
  PROVE  CoreInv'
  <1> DEFINE b == Retained(pending, A)
  <1>1. /\ Types /\ SlabInv /\ TurnInv /\ OutInv /\ OnceInv /\ OrderInv
    BY DEF CoreInv, TokenInv
  <1>2. /\ pending \in Seq(AnySqe) /\ consumed \in Seq(AnySqe)
        /\ Len(pending) \in Nat /\ Len(consumed) \in Nat
        /\ \A k \in 1..Len(pending) : pending[k] \in AnySqe
        /\ \A k \in 1..Len(consumed) : consumed[k] \in AnySqe
    BY <1>1, TypeFacts
  <1>5. b \in Seq(AnySqe) /\ \E h : From(pending, A, Len(pending), b, h)
    BY <1>2, RetainedIs
  <1>6. PICK h : From(pending, A, Len(pending), b, h)
    BY <1>5
  <1>7. /\ \A k \in 1..Len(b) : h[k] \in 1..Len(pending) /\ b[k] = pending[h[k]] /\ b[k] \in A
        /\ \A j, k \in 1..Len(b) : j < k => h[j] < h[k]
    BY <1>6 DEF From
  <1>8. turn.batch = <<>> /\ turn.cq = <<>> /\ turn.off = 0 /\ turn.sent = 0 /\ ~Sending /\ Gone = 0
    BY <1>1, AtTasks
  <1> HIDE DEF b
  <1>9. /\ turn'.batch = b /\ turn'.off = 0 /\ turn'.sent = 0 /\ turn'.cq = <<>>
        /\ turn' \in AnyTurn
    <2>1. turn' = [batch |-> b, off |-> 0, sent |-> 0, want |-> 0, woke |-> 0,
                   wait |-> wait, capped |-> capped, cq |-> <<>>]
      BY DEF b
    <2>2. b \in Seq(AnySqe) /\ <<>> \in Seq(Nat) /\ 0 \in Nat
      BY <1>5
    <2>3. QED
      BY <2>1, <2>2 DEF AnyTurn
  <1>10. Types'
    BY <1>1, <1>9 DEF Types, Ages
  <1>11. ~Sending' /\ Gone' = 0 /\ Len(b) \in Nat
    BY <1>5, <1>9 DEF Sending, Gone
  <1>12. TurnInv'
    BY <1>9, <1>11 DEF TurnInv, Threads
  <1>14. BatchInv'
    BY <1>7, <1>9 DEF BatchInv
  <1>15. OutInv'
    BY <1>1, <1>8, <1>9, OutKept
  <1>16. OnceInv'
    BY <1>1, <1>8, <1>9, OnceKept
  <1>17. OrderInv'
    <2>1. /\ Rising(consumed) /\ Rising(pending)
          /\ \A j \in 1..Len(consumed), k \in 1..Len(pending) : consumed[j].serial < pending[k].serial
          /\ \A j \in 1..Len(consumed) : consumed[j].serial <= serial
          /\ \A j \in 1..Len(pending) : pending[j].serial <= serial
      BY <1>1 DEF OrderInv
    <2>2. Rising(b)
      BY <1>7, <2>1 DEF Rising
    <2>3. /\ \A j \in 1..Len(b) : b[j].serial <= serial
          /\ \A j \in 1..Len(consumed), k \in 1..Len(b) : consumed[j].serial < b[k].serial
      BY <1>7, <2>1
    <2>4. Len(pending') = 0
      OBVIOUS
    <2>5. QED
      BY <1>9, <2>1, <2>2, <2>3, <2>4 DEF OrderInv, Rising
  <1>18. AimInv' /\ HistInv'
    <2>1. /\ \A n \in 1..Len(consumed) : AimedIn(entries, consumed[n])
          /\ \A n \in 1..Len(pending) : AimedIn(entries, pending[n])
          /\ \A n \in 1..Len(consumed) : WasIn(entries, consumed[n])
      BY DEF CoreInv, AimInv, HistInv
    <2>2. /\ \A n \in 1..Len(consumed) : AimedIn(entries', consumed[n])
          /\ \A n \in 1..Len(consumed) : WasIn(entries', consumed[n])
          /\ \A n \in 1..Len(pending) : AimedIn(entries', pending[n])
      BY <1>1, <1>2, <2>1, OldTokens
    <2>3. \A n \in 1..Len(b) : AimedIn(entries', b[n])
      BY <1>7, <2>2
    <2>4. Len(pending') = 0
      OBVIOUS
    <2>5. QED
      BY <1>9, <2>2, <2>3, <2>4 DEF AimInv, HistInv
  <1>19. QED
    BY <1>10, <1>12, <1>14, <1>15, <1>16, <1>17, <1>18 DEF CoreInv, TokenInv

\* take_batch: the pending SQEs become the batch, but for the dead.
LEMMA BeginTurnStep ==
  ASSUME ReactorInv, NEW wait \in BOOLEAN, NEW capped \in BOOLEAN, BeginTurn(wait, capped)
  PROVE  ReactorInv'
  <1> DEFINE A == {sqe \in PendingSqes : ~IsDead(sqe)}
  <1>1. CoreInv /\ Types /\ SlabInv /\ PendInv /\ OrderInv
    BY DEF ReactorInv, CoreInv, TokenInv
  <1>2. /\ pending' = <<>> /\ thread = "tasks" /\ thread' = "enter"
        /\ turn' = [batch |-> Retained(pending, A), off |-> 0, sent |-> 0, want |-> 0, woke |-> 0,
                    wait |-> wait, capped |-> capped, cq |-> <<>>]
        /\ TakeBatch /\ UNCHANGED <<accepted, owed, queue, consumed, pool, hands, serial>>
    BY DEF BeginTurn, TakeBatch, TakenBatch, Idle, kernel, ringVars, program
  <1>3. /\ SlabInv' /\ Ages /\ free' \in Seq(Nat) /\ Len(entries') = Len(entries)
        /\ \A i \in 1..Len(entries) : entries[i].state # "Dead" => entries'[i] = entries[i]
    BY <1>1, <1>2, TakeBatchSlab
  <1>4. \A y \in AnySqe :
          HasIn(entries, y) /\ entries[y.ud.index].state \in Within =>
            HasIn(entries', y) /\ Alike(entries'[y.ud.index], entries[y.ud.index])
    BY <1>3 DEF HasIn, Within, Alike
  <1>5. ASSUME NEW k \in 1..Len(pending), pending[k] \in A
        PROVE  WaitsIn(entries', pending[k])
    <2> DEFINE x == pending[k]
    <2>1. PendsIn(entries, x) /\ ~IsDead(x)
      BY <1>1, <1>5 DEF PendInv
    <2> HIDE DEF x
    <2>2. HasIn(entries, x)
      BY <2>1 DEF PendsIn, WaitsIn, DeadIn
    <2>3. Names(x.ud) /\ x.ud.index \in 1..Len(entries)
      BY <2>2 DEF HasIn, Names
    <2>4. entries[x.ud.index].state # "Dead"
      BY <2>1, <2>3 DEF IsDead
    <2>5. WaitsIn(entries, x)
      BY <2>1, <2>4 DEF PendsIn, DeadIn
    <2>6. QED
      BY <1>3, <2>3, <2>4, <2>5, SameEntry DEF Alike, x
  <1> HIDE DEF A
  <1>6. CoreInv'
    BY <1>1, <1>2, <1>3, <1>4, <1>5, BatchTaken
  <1>7. QED
    BY <1>2, <1>6 DEF ReactorInv, PendInv

\* A step that moves no SQE and leaves the slab alone.
LEMMA StillStep ==
  ASSUME CoreInv, UNCHANGED <<slab, pool, hands, serial, accepted, consumed, pending>>,
         turn'.batch = turn.batch, turn'.off = turn.off, Gone' = Gone,
         Types', TurnInv', OnceInv', Out' \subseteq Out,
         Sending => Sending' /\ turn'.sent = turn.sent
  PROVE  CoreInv' /\ Ages /\ PendingStays
  <1>1. UNCHANGED <<entries, free, pool, hands, serial, consumed, pending>>
    BY DEF slab
  <1>2. Types /\ FreeInv /\ SlotInv /\ BatchInv /\ OutInv /\ OrderInv
    BY DEF CoreInv, SlabInv, TokenInv
  <1>3. FreeInv'
    BY <1>1, <1>2 DEF FreeInv
  <1>4. SlotInv'
    BY <1>1, <1>2 DEF SlotInv
  <1>5. Ages /\ PendingStays
    BY <1>1, <1>2, SlabKept DEF PendingStays
  <1>6. BatchInv'
    BY <1>1, <1>2 DEF BatchInv
  <1>7. OutInv'
    <2>1. ASSUME NEW n \in Out'
          PROVE  LET x == consumed[n] IN
            /\ n \in 1..Len(consumed)
            /\ HasIn(entries, x) /\ entries[x.ud.index].slot = x.slot
            /\ \/ entries[x.ud.index].state \in {"Live", "Abandoned", "CancelProbe"}
               \/ /\ entries[x.ud.index].state = "Queued"
                  /\ Sending' /\ \E k \in 1..turn'.sent : turn'.batch[turn'.off + k] = x
      <3> DEFINE x == consumed[n]
      <3>1. /\ n \in 1..Len(consumed)
            /\ HasIn(entries, x) /\ entries[x.ud.index].slot = x.slot
            /\ \/ entries[x.ud.index].state \in {"Live", "Abandoned", "CancelProbe"}
               \/ /\ entries[x.ud.index].state = "Queued"
                  /\ Sending /\ \E k \in 1..turn.sent : turn.batch[turn.off + k] = x
        BY <1>2 DEF OutInv
      <3> HIDE DEF x
      <3>2. QED
        BY <3>1 DEF x
    <2>2. QED
      BY <1>1, <2>1 DEF OutInv
  <1>8. OrderInv'
    BY <1>1, <1>2 DEF OrderInv, Rising
  <1>9. AimInv' /\ HistInv'
    BY <1>1 DEF CoreInv, AimInv, HistInv
  <1>10. QED
    BY <1>3, <1>4, <1>5, <1>6, <1>7, <1>8, <1>9 DEF CoreInv, SlabInv, TokenInv

\* A turn begins an ENTER.
LEMMA EnterStep ==
  ASSUME CoreInv, thread = "enter", thread' = "submit",
         UNCHANGED <<kernel, slab, pending, program, serial>>,
         turn' \in AnyTurn, turn'.sent = 0, turn'.cq = <<>>,
         turn'.batch = turn.batch, turn'.off = turn.off
  PROVE  CoreInv' /\ Ages /\ PendingStays
  <1>1. /\ Types /\ TurnInv /\ OnceInv
        /\ UNCHANGED <<slab, pool, hands, serial, accepted, owed, queue, consumed, pending, entries, free>>
    BY DEF CoreInv, TokenInv, kernel, ringVars, program, slab
  <1>2. ~Sending /\ turn.off \in Nat
    BY <1>1, TypeFacts DEF Sending
  <1>3. Gone' = Gone
    BY <1>1, <1>2 DEF Gone, Sending
  <1>4. Types'
    BY <1>1 DEF Types
  <1>5. TurnInv'
    BY <1>1, <1>3 DEF TurnInv, Threads
  <1>6. Out' = owed \cup Queue /\ Queue' = Queue /\ Taken' = {}
    BY <1>1 DEF Out, Queue, Taken
  <1>7. OnceInv'
    <2>1. \A j, k \in 1..Len(turn'.cq) : turn'.cq[j] = turn'.cq[k] => j = k
      OBVIOUS
    <2>2. \A j, k \in 1..Len(queue') : queue'[j] = queue'[k] => j = k
      BY <1>1 DEF OnceInv
    <2>3. owed' \cap Queue' = {} /\ owed' \cap Taken' = {} /\ Queue' \cap Taken' = {}
      BY <1>1, <1>6 DEF OnceInv
    <2>4. QED
      BY <2>1, <2>2, <2>3 DEF OnceInv
  <1>8. QED
    BY <1>1, <1>2, <1>3, <1>4, <1>5, <1>6, <1>7, StillStep DEF Out

\* The thread goes on within ENTER, or to the next.
LEMMA GoStep ==
  ASSUME CoreInv, UNCHANGED <<kernel, slab, pending, program, serial, turn>>,
         \/ thread \in {"submit", "wait"} /\ thread' \in {"wait", "reap"}
         \/ thread = "dispatch" /\ pending = <<>> /\ thread' = "enter"
  PROVE  CoreInv' /\ Ages /\ PendingStays
  <1>1. /\ Types /\ TurnInv /\ OnceInv
        /\ UNCHANGED <<slab, pool, hands, serial, accepted, owed, queue, consumed, pending, turn,
                       entries, free>>
    BY DEF CoreInv, TokenInv, kernel, ringVars, program, slab
  <1>2. Sending' = Sending /\ Gone' = Gone
    BY <1>1 DEF Sending, Gone
  <1>3. Types'
    BY <1>1 DEF Types
  <1>4. TurnInv'
    BY <1>1, <1>2 DEF TurnInv, Threads
  <1>5. OnceInv' /\ Out' = Out
    BY <1>1, OnceKept DEF Out, Queue, Taken
  <1>6. QED
    BY <1>1, <1>2, <1>3, <1>4, <1>5, StillStep

\* The kernel completes an operation.
LEMMA KernelAnswersStep ==
  ASSUME CoreInv, NEW n, KernelAnswers(n)
  PROVE  CoreInv' /\ Ages /\ PendingStays
  <1>1. /\ Types /\ TurnInv /\ OnceInv
        /\ n \in owed /\ owed' = owed \ {n} /\ queue' = Append(queue, n)
        /\ UNCHANGED <<slab, pool, hands, serial, accepted, consumed, pending, turn, thread,
                       entries, free>>
    BY DEF CoreInv, TokenInv, KernelAnswers, Answer, program, slab
  <1> DEFINE q == Len(queue)
  <1>2. queue \in Seq(Nat) /\ n \in Nat /\ q \in Nat
    BY <1>1 DEF Types
  <1>3. /\ queue' \in Seq(Nat) /\ Len(queue') = q + 1 /\ queue'[q + 1] = n
        /\ \A k \in 1..q : queue'[k] = queue[k]
        /\ \A k \in 1..(q + 1) : k = q + 1 \/ k \in 1..q
        /\ \A k \in 1..q : k \in 1..(q + 1)
        /\ q + 1 \in 1..(q + 1)
    BY <1>1, <1>2
  <1>4. Queue = {queue[k] : k \in 1..q}
    BY DEF Queue
  <1> HIDE DEF q
  <1>5. Queue' = Queue \cup {n} /\ Taken' = Taken
    <2>1. Queue' = {queue'[k] : k \in 1..(q + 1)}
      BY <1>3 DEF Queue
    <2>2. QED
      BY <1>1, <1>3, <1>4, <2>1 DEF Taken
  <1>6. Out' = Out
    BY <1>1, <1>5 DEF Out
  <1>7. OnceInv'
    <2>1. /\ owed \cap Queue = {} /\ owed \cap Taken = {} /\ Queue \cap Taken = {}
          /\ \A j, k \in 1..q : queue[j] = queue[k] => j = k
          /\ \A j, k \in 1..Len(turn.cq) : turn.cq[j] = turn.cq[k] => j = k
      BY <1>1 DEF OnceInv, q
    <2>2. \A j \in 1..q : queue'[j] # n
      BY <1>1, <1>3, <1>4, <2>1
    <2>3. \A j, k \in 1..(q + 1) : queue'[j] = queue'[k] => j = k
      BY <1>3, <2>1, <2>2
    <2>4. owed' \cap Queue' = {} /\ owed' \cap Taken' = {} /\ Queue' \cap Taken' = {}
      BY <1>1, <1>5, <2>1
    <2>5. QED
      BY <1>1, <1>3, <2>1, <2>3, <2>4 DEF OnceInv
  <1>8. Sending' = Sending /\ Gone' = Gone
    BY <1>1 DEF Sending, Gone
  <1>9. TurnInv'
    BY <1>1, <1>8 DEF TurnInv
  <1>10. Types'
    BY <1>1, <1>3 DEF Types
  <1>11. QED
    BY <1>1, <1>6, <1>7, <1>8, <1>9, <1>10, StillStep

\* A completion leaves the ring for the turn.
Takes ==
  /\ thread = "reap" /\ Take
  /\ turn' = [turn EXCEPT !.cq = Append(@, Head(queue))]
  /\ UNCHANGED <<consumed, slab, pending, program, serial, thread>>

\* ENTER copies a completion to the reactor.
LEMMA TakeOneStep ==
  ASSUME CoreInv, Takes
  PROVE  /\ CoreInv' /\ Ages /\ PendingStays
         /\ turn'.batch = turn.batch /\ turn'.off = turn.off /\ turn'.sent = turn.sent
  <1> DEFINE q == Len(queue)
             t == Len(turn.cq)
             n == Head(queue)
  <1>1. /\ Types /\ TurnInv /\ OnceInv /\ thread = "reap"
        /\ queue # <<>> /\ queue' = Tail(queue)
        /\ turn' = [turn EXCEPT !.cq = Append(@, n)]
        /\ UNCHANGED <<slab, pool, hands, serial, accepted, owed, consumed, pending, thread,
                       entries, free>>
    BY DEF CoreInv, TokenInv, Takes, Take, program, slab
  <1>2. /\ queue \in Seq(Nat) /\ turn \in AnyTurn /\ turn.cq \in Seq(Nat)
        /\ q \in Nat /\ t \in Nat /\ q # 0
    <2>1. queue \in Seq(Nat) /\ turn \in AnyTurn
      BY <1>1 DEF Types
    <2>2. turn.cq \in Seq(Nat)
      BY <2>1 DEF AnyTurn
    <2>3. q # 0 /\ q \in Nat
      BY <1>1, <2>1
    <2>4. QED
      BY <2>1, <2>2, <2>3
  <1>3. n = queue[1] /\ n \in Nat /\ 1 \in 1..q
    BY <1>1, <1>2
  <1>4. /\ queue' \in Seq(Nat) /\ Len(queue') = q - 1
        /\ \A k \in 1..(q - 1) : queue'[k] = queue[k + 1]
    BY <1>1, <1>2, HeadTailProperties
  <1>5. turn' \in AnyTurn /\ turn'.cq = Append(turn.cq, n)
        /\ turn'.batch = turn.batch /\ turn'.off = turn.off /\ turn'.sent = turn.sent
    <2>1. Append(turn.cq, n) \in Seq(Nat)
      BY <1>2, <1>3
    <2>2. turn' = [turn EXCEPT !.cq = Append(turn.cq, n)]
      BY <1>1
    <2> DEFINE a == Append(turn.cq, n)
    <2> HIDE DEF a
    <2>3. QED
      BY <1>2, <2>1, <2>2 DEF AnyTurn, a
  <1>6. Queue = {queue[k] : k \in 1..q} /\ Taken = {turn.cq[k] : k \in 1..t}
    BY DEF Queue, Taken
  <1> HIDE DEF q, t, n
  <1>7. /\ Len(turn'.cq) = t + 1 /\ turn'.cq[t + 1] = n
        /\ \A k \in 1..t : turn'.cq[k] = turn.cq[k]
        /\ \A k \in 1..(t + 1) : k = t + 1 \/ k \in 1..t
        /\ \A k \in 1..t : k \in 1..(t + 1)
        /\ t + 1 \in 1..(t + 1)
    <2>1. /\ Len(turn'.cq) = t + 1 /\ turn'.cq[t + 1] = n
          /\ \A k \in 1..t : turn'.cq[k] = turn.cq[k]
      BY <1>2, <1>3, <1>5, AppendProperties DEF t
    <2>2. /\ \A k \in 1..(t + 1) : k = t + 1 \/ k \in 1..t
          /\ \A k \in 1..t : k \in 1..(t + 1)
          /\ t + 1 \in 1..(t + 1)
      BY <1>2
    <2>3. QED
      BY <2>1, <2>2
  <1>8. /\ \A k \in 1..(q - 1) : k + 1 \in 1..q /\ k + 1 # 1
        /\ \A k \in 1..q : k = 1 \/ (k - 1 \in 1..(q - 1) /\ k - 1 + 1 = k)
        /\ \A j, k \in 1..(q - 1) : j + 1 = k + 1 => j = k
    BY <1>2
  <1>9. /\ owed \cap Queue = {} /\ owed \cap Taken = {} /\ Queue \cap Taken = {}
        /\ \A j, k \in 1..q : queue[j] = queue[k] => j = k
        /\ \A j, k \in 1..t : turn.cq[j] = turn.cq[k] => j = k
    BY <1>1 DEF OnceInv, q, t
  <1>10. Queue' = Queue \ {n} /\ n \in Queue
    <2>1. Queue' = {queue'[k] : k \in 1..(q - 1)}
      BY <1>4 DEF Queue
    <2>2. ASSUME NEW z \in Queue'
          PROVE  z \in Queue \ {n}
      <3>1. PICK k \in 1..(q - 1) : z = queue'[k]
        BY <2>1
      <3>2. z = queue[k + 1] /\ k + 1 \in 1..q /\ k + 1 # 1
        BY <1>4, <1>8, <3>1
      <3>3. QED
        BY <1>3, <1>6, <1>9, <3>2
    <2>3. ASSUME NEW z \in Queue \ {n}
          PROVE  z \in Queue'
      <3>1. PICK k \in 1..q : z = queue[k]
        BY <1>6
      <3>2. k - 1 \in 1..(q - 1) /\ k - 1 + 1 = k
        BY <1>3, <1>8, <3>1
      <3>3. queue'[k - 1] = z
        BY <1>4, <3>1, <3>2
      <3>4. QED
        BY <2>1, <3>2, <3>3
    <2>4. n \in Queue
      BY <1>3, <1>6
    <2>5. QED
      BY <2>2, <2>3, <2>4
  <1>11. Taken' = Taken \cup {n}
    <2>1. Taken' = {turn'.cq[k] : k \in 1..(t + 1)}
      BY <1>7 DEF Taken
    <2>2. QED
      BY <1>6, <1>7, <2>1
  <1>12. Out' = Out
    BY <1>1, <1>10, <1>11 DEF Out
  <1>13. OnceInv'
    <2>1. \A j, k \in 1..(q - 1) : queue'[j] = queue'[k] => j = k
      <3> SUFFICES ASSUME NEW j \in 1..(q - 1), NEW k \in 1..(q - 1), queue'[j] = queue'[k]
                   PROVE  j = k
        OBVIOUS
      <3>1. queue[j + 1] = queue[k + 1] /\ j + 1 \in 1..q /\ k + 1 \in 1..q
        BY <1>4, <1>8
      <3>2. j + 1 = k + 1
        BY <1>9, <3>1
      <3>3. QED
        BY <1>8, <3>2
    <2>2. \A j \in 1..t : turn'.cq[j] # n
      <3> TAKE j \in 1..t
      <3>1. turn.cq[j] \in Taken /\ turn'.cq[j] = turn.cq[j]
        BY <1>6, <1>7
      <3>2. n \notin Taken
        BY <1>9, <1>10
      <3>3. QED
        BY <3>1, <3>2
    <2>3. \A j, k \in 1..(t + 1) : turn'.cq[j] = turn'.cq[k] => j = k
      BY <1>7, <1>9, <2>2
    <2>4. owed' \cap Queue' = {} /\ owed' \cap Taken' = {} /\ Queue' \cap Taken' = {}
      BY <1>1, <1>9, <1>10, <1>11
    <2>5. QED
      BY <1>4, <1>7, <2>1, <2>3, <2>4 DEF OnceInv
  <1>14. Sending' = Sending /\ Gone' = Gone
    BY <1>1, <1>5 DEF Sending, Gone
  <1>15. TurnInv'
    BY <1>1, <1>5, <1>14 DEF TurnInv
  <1>16. Types'
    BY <1>1, <1>4, <1>5 DEF Types
  <1>17. QED
    BY <1>1, <1>5, <1>12, <1>13, <1>14, <1>15, <1>16, StillStep

\* The chunk is what comes next in the batch.
LEMMA ChunkIs ==
  ASSUME Types, turn.off <= Len(turn.batch)
  PROVE  /\ Len(Chunk) \in Nat /\ turn.off + Len(Chunk) <= Len(turn.batch)
         /\ \A j \in 1..Len(Chunk) : Chunk[j] = turn.batch[turn.off + j]
  <1> DEFINE b == Len(turn.batch)
             o == turn.off
             n == IF b <= o + SqEntries THEN b ELSE o + SqEntries
  <1>1. b \in Nat /\ o \in Nat /\ SqEntries \in Nat /\ turn.batch \in Seq(AnySqe)
    BY TypeFacts, SqEntriesAssumption
  <1>2. Chunk = SubSeq(turn.batch, o + 1, n)
    BY DEF Chunk
  <1>3. o <= b
    OBVIOUS
  <1> HIDE DEF b, o
  <1>4. n \in Nat /\ n <= b /\ o <= n /\ o + 1 \in Nat \ {0}
    BY <1>1, <1>3
  <1> HIDE DEF n
  <1>5. /\ Len(Chunk) = IF o + 1 <= n THEN n - (o + 1) + 1 ELSE 0
        /\ \A i \in 1..(n - (o + 1) + 1) : Chunk[i] = turn.batch[o + 1 + i - 1]
    BY <1>1, <1>2, <1>4, PartOf DEF b
  <1>6. Len(Chunk) = n - o /\ n - (o + 1) + 1 = n - o
    BY <1>1, <1>4, <1>5
  <1>7. \A i \in 1..(n - o) : o + 1 + i - 1 = o + i
    BY <1>1, <1>4
  <1>8. n - o \in Nat /\ o + (n - o) = n
    BY <1>1, <1>4
  <1>9. QED
    BY <1>4, <1>5, <1>6, <1>7, <1>8 DEF b, o

\* ENTER consumes the next SQE of the chunk.
LEMMA SubmitStep ==
  ASSUME CoreInv, Submit
  PROVE  /\ CoreInv' /\ Ages /\ PendingStays /\ thread' = "submit"
         /\ turn'.batch = turn.batch /\ turn'.off = turn.off
  <1> DEFINE o == turn.off
             s == turn.sent
             b == Len(turn.batch)
             a == accepted
             x == turn.batch[o + (s + 1)]
  <1>1. /\ Types /\ FreeInv /\ SlotInv /\ TurnInv /\ BatchInv /\ OutInv /\ OnceInv
        /\ OrderInv /\ AimInv /\ HistInv /\ thread = "submit" /\ thread' = "submit"
    BY DEF CoreInv, SlabInv, TokenInv, Submit
  <1>2. /\ o \in Nat /\ s \in Nat /\ b \in Nat /\ a \in Nat /\ turn \in AnyTurn
        /\ consumed \in Seq(AnySqe) /\ Len(consumed) = a
        /\ \A k \in 1..b : turn.batch[k] \in AnySqe
    BY <1>1, TypeFacts DEF Types
  <1>3. /\ s < Len(Chunk) /\ accepted' = a + 1 /\ owed' = owed \cup {a + 1}
        /\ consumed' = Append(consumed, Chunk[s + 1])
        /\ turn' = [turn EXCEPT !.sent = s + 1]
        /\ UNCHANGED <<queue, entries, free, pending, pool, hands, serial>>
    BY DEF Submit, Accept, slab, program
  <1>4. Gone = o + s /\ Sending
    BY <1>1 DEF Gone, Sending
  <1>5. o <= b
    BY <1>1, <1>2, <1>4 DEF TurnInv
  <1>6. /\ Len(Chunk) \in Nat /\ o + Len(Chunk) <= b
        /\ \A j \in 1..Len(Chunk) : Chunk[j] = turn.batch[o + j]
    BY <1>1, <1>5, ChunkIs
  <1>7. Chunk[s + 1] = x /\ o + (s + 1) \in 1..b /\ o + (s + 1) > o /\ o + (s + 1) > Gone
        /\ o + (s + 1) = Gone + 1
    <2>1. s + 1 \in 1..Len(Chunk)
      BY <1>2, <1>3, <1>6
    <2>2. Chunk[s + 1] = x
      BY <1>6, <2>1
    <2> DEFINE c == Len(Chunk)
    <2>3. o \in Nat /\ s \in Nat /\ c \in Nat /\ b \in Nat /\ Gone = o + s /\ s + 1 \in 1..c /\ o + c <= b
      BY <1>2, <1>4, <1>6, <2>1
    <2> HIDE DEF c, o, s, b, x
    <2>4. o + (s + 1) \in 1..b /\ o + (s + 1) > o /\ o + (s + 1) > Gone /\ o + (s + 1) = Gone + 1
      BY <2>3
    <2>5. QED
      BY <2>2, <2>4
  <1>8. x \in AnySqe
    BY <1>2, <1>7
  <1>9. /\ turn' \in AnyTurn /\ turn'.sent = s + 1 /\ turn'.batch = turn.batch
        /\ turn'.off = turn.off /\ turn'.cq = turn.cq
    <2> DEFINE v == s + 1
    <2>1. v \in Nat /\ turn' = [turn EXCEPT !.sent = v]
      BY <1>2, <1>3
    <2> HIDE DEF v
    <2>2. turn' \in AnyTurn /\ turn'.sent = v /\ turn'.batch = turn.batch
          /\ turn'.off = turn.off /\ turn'.cq = turn.cq
      BY <1>2, <2>1 DEF AnyTurn
    <2>3. QED
      BY <2>2 DEF v
  <1>10. WaitsIn(entries, x)
    BY <1>1, <1>7 DEF BatchInv
  <1>11. AimedIn(entries, x)
    BY <1>1, <1>7 DEF AimInv
  <1>12. x.serial <= serial
    BY <1>1, <1>7 DEF OrderInv
  <1>13. \A k \in 1..b : o + (s + 1) < k => x.serial < turn.batch[k].serial
    BY <1>1, <1>7 DEF OrderInv, Rising
  <1>14. \A j \in 1..a : consumed[j].serial < x.serial
    BY <1>1, <1>2, <1>7 DEF OrderInv
  <1>15. Len(pending) = 0
    BY <1>1 DEF TurnInv
  <1>16. Gone' = Gone + 1 /\ Sending'
    BY <1>1, <1>2, <1>4, <1>9 DEF Gone, Sending
  <1> HIDE DEF x, o, s, b, a
  <1>17. /\ consumed' \in Seq(AnySqe) /\ Len(consumed') = a + 1 /\ consumed'[a + 1] = x
         /\ \A k \in 1..a : consumed'[k] = consumed[k]
         /\ \A k \in 1..(a + 1) : k = a + 1 \/ k \in 1..a
         /\ \A k \in 1..a : k \in 1..(a + 1) /\ k # a + 1
         /\ a + 1 \in 1..(a + 1)
    BY <1>2, <1>3, <1>7, <1>8
  <1>18. Types'
    BY <1>1, <1>2, <1>3, <1>9, <1>17 DEF Types
  <1>19. FreeInv' /\ SlotInv' /\ Ages /\ PendingStays
    <2>1. FreeInv' /\ SlotInv'
      BY <1>1, <1>3 DEF FreeInv, SlotInv
    <2>2. Ages /\ PendingStays
      BY <1>1, <1>3, SlabKept DEF PendingStays
    <2>3. QED
      BY <2>1, <2>2
  <1>20. TurnInv'
    <2>1. Gone' <= Len(turn'.batch)
      BY <1>2, <1>4, <1>7, <1>9, <1>16 DEF b
    <2>2. pending' = <<>>
      BY <1>1, <1>3 DEF TurnInv
    <2>3. QED
      BY <1>1, <2>1, <2>2 DEF TurnInv
  <1>21. BatchInv'
    BY <1>1, <1>3, <1>9 DEF BatchInv
  <1>22. Out' = Out \cup {a + 1}
    BY <1>3, <1>9 DEF Out, Queue, Taken
  <1>23. \A n \in Out : n \in 1..a
    BY <1>1, <1>2 DEF OutInv
  <1>24. OutInv'
    <2>1. ASSUME NEW n \in Out
          PROVE  LET y == consumed'[n] IN
            /\ n \in 1..(a + 1)
            /\ HasIn(entries, y) /\ entries[y.ud.index].slot = y.slot
            /\ \/ entries[y.ud.index].state \in {"Live", "Abandoned", "CancelProbe"}
               \/ /\ entries[y.ud.index].state = "Queued"
                  /\ \E k \in 1..turn'.sent : turn.batch[turn.off + k] = y
      <3> DEFINE y == consumed[n]
      <3>1. /\ HasIn(entries, y) /\ entries[y.ud.index].slot = y.slot
            /\ \/ entries[y.ud.index].state \in {"Live", "Abandoned", "CancelProbe"}
               \/ /\ entries[y.ud.index].state = "Queued"
                  /\ \E k \in 1..turn.sent : turn.batch[turn.off + k] = y
        BY <1>1 DEF OutInv
      <3>2. consumed'[n] = y /\ n \in 1..(a + 1)
        BY <1>17, <1>23
      <3>3. \A k \in 1..turn.sent : k \in 1..turn'.sent
        BY <1>2, <1>9 DEF s
      <3> HIDE DEF y
      <3>4. QED
        BY <3>1, <3>2, <3>3
    <2>2. /\ HasIn(entries, x) /\ entries[x.ud.index].slot = x.slot
          /\ entries[x.ud.index].state \in {"Queued", "CancelProbe"}
      BY <1>10 DEF WaitsIn
    <2>3. \E k \in 1..turn'.sent : turn.batch[turn.off + k] = x
      BY <1>2, <1>9 DEF x, o, s
    <2>4. ASSUME NEW n \in Out'
          PROVE  LET y == consumed'[n] IN
            /\ n \in 1..(a + 1)
            /\ HasIn(entries, y) /\ entries[y.ud.index].slot = y.slot
            /\ \/ entries[y.ud.index].state \in {"Live", "Abandoned", "CancelProbe"}
               \/ /\ entries[y.ud.index].state = "Queued"
                  /\ \E k \in 1..turn'.sent : turn.batch[turn.off + k] = y
      <3>1. CASE n \in Out
        BY <2>1, <3>1
      <3>2. CASE n = a + 1
        BY <1>17, <2>2, <2>3, <3>2
      <3>3. QED
        BY <1>22, <3>1, <3>2
    <2>5. QED
      BY <1>3, <1>9, <1>16, <1>17, <2>4 DEF OutInv
  <1>25. OnceInv'
    <2>1. Queue' = Queue /\ Taken' = Taken
      BY <1>3, <1>9 DEF Queue, Taken
    <2>2. a + 1 \notin Queue /\ a + 1 \notin Taken
      BY <1>2, <1>17, <1>23 DEF Out
    <2>3. owed' \cap Queue' = {} /\ owed' \cap Taken' = {} /\ Queue' \cap Taken' = {}
      BY <1>1, <1>3, <2>1, <2>2 DEF OnceInv
    <2>4. /\ \A j, k \in 1..Len(queue') : queue'[j] = queue'[k] => j = k
          /\ \A j, k \in 1..Len(turn'.cq) : turn'.cq[j] = turn'.cq[k] => j = k
      BY <1>1, <1>3, <1>9 DEF OnceInv
    <2>5. QED
      BY <2>3, <2>4 DEF OnceInv
  <1>26. OrderInv'
    <2>1. /\ Rising(consumed) /\ Rising(turn.batch) /\ Rising(pending)
          /\ \A j \in 1..a, k \in 1..b : k > Gone => consumed[j].serial < turn.batch[k].serial
          /\ \A j \in 1..a : consumed[j].serial <= serial
          /\ \A j \in 1..b : turn.batch[j].serial <= serial
      BY <1>1, <1>2 DEF OrderInv, b
    <2>2. Rising(consumed')
      <3>1. ASSUME NEW j \in 1..(a + 1), NEW k \in 1..(a + 1), j < k
            PROVE  consumed'[j].serial < consumed'[k].serial
        <4>1. j \in 1..a
          BY <1>2, <3>1
        <4>2. CASE k \in 1..a
          BY <1>2, <1>17, <2>1, <3>1, <4>1, <4>2 DEF Rising
        <4>3. CASE k = a + 1
          BY <1>14, <1>17, <4>1, <4>3
        <4>4. QED
          BY <1>17, <4>2, <4>3
      <3>2. QED
        BY <1>17, <3>1 DEF Rising
    <2>3. \A j \in 1..(a + 1), k \in 1..b : k > Gone' => consumed'[j].serial < turn.batch[k].serial
      <3> SUFFICES ASSUME NEW j \in 1..(a + 1), NEW k \in 1..b, k > Gone'
                   PROVE  consumed'[j].serial < turn.batch[k].serial
        OBVIOUS
      <3>1. k > Gone /\ k > o + (s + 1) /\ o + (s + 1) < k
        BY <1>2, <1>4, <1>7, <1>16
      <3>2. QED
        BY <1>13, <1>17, <2>1, <3>1
    <2>4. \A j \in 1..(a + 1) : consumed'[j].serial <= serial
      BY <1>12, <1>17, <2>1
    <2>5. Len(pending') = 0
      BY <1>3, <1>15
    <2>6. QED
      BY <1>3, <1>9, <1>17, <2>1, <2>2, <2>3, <2>4, <2>5 DEF OrderInv, Rising, b
  <1>27. AimInv' /\ HistInv'
    <2>1. WasIn(entries, x)
      BY <1>10 DEF WaitsIn, WasIn, HasIn
    <2>2. /\ \A n \in 1..a : AimedIn(entries, consumed[n]) /\ WasIn(entries, consumed[n])
          /\ \A n \in 1..Len(turn.batch) : AimedIn(entries, turn.batch[n])
          /\ \A n \in 1..Len(pending) : AimedIn(entries, pending[n])
      BY <1>1, <1>2 DEF AimInv, HistInv
    <2>3. \A n \in 1..(a + 1) : AimedIn(entries, consumed'[n]) /\ WasIn(entries, consumed'[n])
      BY <1>11, <1>17, <2>1, <2>2
    <2>4. QED
      BY <1>3, <1>9, <1>17, <2>2, <2>3 DEF AimInv, HistInv
  <1>28. QED
    BY <1>1, <1>9, <1>18, <1>19, <1>20, <1>21, <1>24, <1>25, <1>26, <1>27
       DEF CoreInv, SlabInv, TokenInv

\* r is what the kernel has not consumed of the batch.
Left(r) ==
  /\ r \in Seq(AnySqe) /\ Len(r) = Len(turn.batch) - Gone
  /\ \A k \in 1..Len(r) : r[k] = turn.batch[Gone + k]

\* It is as the invariant has the batch.
LEMMA LeftIs ==
  ASSUME CoreInv, NEW r, Left(r)
  PROVE  /\ \A k \in 1..Len(r) :
              /\ Gone + k \in 1..Len(turn.batch) /\ Gone + k > Gone /\ r[k] = turn.batch[Gone + k]
              /\ WaitsIn(entries, r[k]) /\ AimedIn(entries, r[k]) /\ r[k].serial <= serial
         /\ Rising(r)
         /\ \A j \in 1..Len(consumed), k \in 1..Len(r) : consumed[j].serial < r[k].serial
  <1> DEFINE b == Len(turn.batch)
             g == Gone
             l == Len(r)
  <1>1. Types /\ TurnInv /\ BatchInv /\ OrderInv /\ AimInv
    BY DEF CoreInv, TokenInv
  <1>2. b \in Nat /\ turn.off \in Nat /\ turn.sent \in Nat /\ l \in Nat /\ l = b - g
    BY <1>1, TypeFacts DEF Left
  <1>3. g \in Nat /\ g >= turn.off
    BY <1>2 DEF Gone
  <1>4. /\ Rising(turn.batch)
        /\ \A j \in 1..Len(consumed), k \in 1..b : k > g => consumed[j].serial < turn.batch[k].serial
        /\ \A j \in 1..b : turn.batch[j].serial <= serial
    BY <1>1 DEF OrderInv
  <1>5. \A k \in 1..l : r[k] = turn.batch[g + k]
    BY DEF Left
  <1> HIDE DEF b, g, l
  <1>6. \A k \in 1..l : g + k \in 1..b /\ g + k > g /\ g + k > turn.off
    BY <1>2, <1>3
  <1>7. \A k \in 1..l : WaitsIn(entries, r[k]) /\ AimedIn(entries, r[k]) /\ r[k].serial <= serial
    BY <1>1, <1>4, <1>5, <1>6 DEF BatchInv, AimInv, b
  <1>8. ASSUME NEW j \in 1..l, NEW k \in 1..l, j < k
        PROVE  r[j].serial < r[k].serial
    <2>1. g + j < g + k
      BY <1>3, <1>8
    <2>2. turn.batch[g + j].serial < turn.batch[g + k].serial
      BY <1>4, <1>6, <2>1 DEF Rising, b
    <2>3. QED
      BY <1>5, <2>2
  <1>9. \A j \in 1..Len(consumed), k \in 1..l : consumed[j].serial < r[k].serial
    BY <1>4, <1>5, <1>6
  <1>10. QED
    BY <1>5, <1>6, <1>7, <1>8, <1>9 DEF Rising, b, g, l

\* SubSeq gives it.
LEMMA SubSeqLeft ==
  ASSUME Types, TurnInv
  PROVE  Left(SubSeq(turn.batch, Gone + 1, Len(turn.batch)))
  <1> DEFINE b == Len(turn.batch)
             g == Gone
             r == SubSeq(turn.batch, g + 1, b)
  <1>1. /\ b \in Nat /\ turn.off \in Nat /\ turn.sent \in Nat /\ turn.batch \in Seq(AnySqe)
    BY TypeFacts
  <1>2. g \in Nat /\ g <= b
    BY <1>1 DEF Gone, TurnInv
  <1> HIDE DEF b, g
  <1>3. g + 1 \in Nat \ {0} /\ b <= b
    BY <1>1, <1>2
  <1>4. /\ r \in Seq(AnySqe)
        /\ Len(r) = IF g + 1 <= b THEN b - (g + 1) + 1 ELSE 0
        /\ \A i \in 1..(b - (g + 1) + 1) : r[i] = turn.batch[g + 1 + i - 1]
    BY <1>1, <1>3, PartOf DEF b
  <1>5. b - (g + 1) + 1 = b - g /\ \A i \in 1..(b - g) : g + 1 + i - 1 = g + i
    BY <1>1, <1>2
  <1>6. Len(r) = b - g
    BY <1>1, <1>2, <1>4
  <1> HIDE DEF r
  <1>7. \A i \in 1..(b - g) : r[i] = turn.batch[g + i]
    BY <1>4, <1>5
  <1>8. QED
    BY <1>4, <1>6, <1>7 DEF Left, r, b, g

\* A turn ends: what did not go out is pending again.
LEMMA TurnOver ==
  ASSUME CoreInv, ~Sending, turn.cq = <<>>, NEW r, Left(r),
         pending' = r, thread' = "tasks", turn' = Idle,
         UNCHANGED <<accepted, owed, queue, consumed, entries, free, pool, hands, serial>>
  PROVE  CoreInv' /\ \A k \in 1..Len(pending') : WaitsIn(entries', pending'[k])
  <1>1. /\ Types /\ FreeInv /\ SlotInv /\ TurnInv /\ BatchInv /\ OutInv /\ OnceInv
        /\ OrderInv /\ AimInv /\ HistInv
    BY DEF CoreInv, SlabInv, TokenInv
  <1>2. /\ r \in Seq(AnySqe)
        /\ \A k \in 1..Len(r) :
              WaitsIn(entries, r[k]) /\ AimedIn(entries, r[k]) /\ r[k].serial <= serial
        /\ Rising(r)
        /\ \A j \in 1..Len(consumed), k \in 1..Len(r) : consumed[j].serial < r[k].serial
    BY LeftIs DEF Left
  <1>3. turn' \in AnyTurn
    BY DEF Idle, AnyTurn
  <1>4. turn'.batch = <<>> /\ turn'.off = 0 /\ turn'.sent = 0 /\ turn'.cq = <<>> /\ ~Sending' /\ Gone' = 0
    BY DEF Idle, Sending, Gone
  <1>5. Types'
    BY <1>1, <1>2, <1>3 DEF Types
  <1>6. FreeInv' /\ SlotInv'
    BY <1>1 DEF FreeInv, SlotInv
  <1>7. TurnInv'
    BY <1>4 DEF TurnInv, Threads
  <1>8. BatchInv'
    BY <1>4 DEF BatchInv
  <1>9. OutInv' /\ OnceInv'
    <2>1. turn'.cq = turn.cq
      BY <1>4
    <2>2. Out' = Out
      BY <2>1 DEF Out, Queue, Taken
    <2>3. OutInv'
      BY <1>1, <2>2 DEF OutInv
    <2>4. QED
      BY <1>1, <2>1, <2>3, OnceKept
  <1>10. OrderInv'
    <2>1. Rising(consumed) /\ \A j \in 1..Len(consumed) : consumed[j].serial <= serial
      BY <1>1 DEF OrderInv
    <2>2. Len(turn'.batch) = 0
      BY <1>4
    <2>3. QED
      BY <1>2, <2>1, <2>2 DEF OrderInv, Rising
  <1>11. AimInv' /\ HistInv'
    <2>1. Len(turn'.batch) = 0
      BY <1>4
    <2>2. QED
      BY <1>1, <1>2, <2>1 DEF AimInv, HistInv
  <1>12. QED
    BY <1>2, <1>5, <1>6, <1>7, <1>8, <1>9, <1>10, <1>11 DEF CoreInv, SlabInv, TokenInv

\* `turn' comes back.
LEMMA EndTurnStep ==
  ASSUME ReactorInv, EndTurn
  PROVE  ReactorInv'
  <1> DEFINE r == SubSeq(turn.batch, turn.off + 1, Len(turn.batch))
  <1>1. /\ CoreInv /\ Types /\ TurnInv /\ thread = "dispatch" /\ turn.cq = <<>> /\ pending = <<>>
        /\ pending' = r \o pending /\ thread' = "tasks" /\ turn' = Idle
        /\ UNCHANGED <<accepted, owed, queue, consumed, entries, free, pool, hands, serial>>
    BY DEF ReactorInv, CoreInv, TokenInv, PendInv, EndTurn, Requeued, kernel, ringVars, slab, program
  <1>2. ~Sending /\ Gone = turn.off
    <2>1. turn.off \in Nat
      BY <1>1, TypeFacts
    <2>2. QED
      BY <1>1, <2>1 DEF Sending, Gone
  <1>3. Left(r)
    BY <1>1, <1>2, SubSeqLeft
  <1> HIDE DEF r
  <1>4. pending' = r
    BY <1>1, <1>3 DEF Left
  <1>5. CoreInv' /\ \A k \in 1..Len(pending') : WaitsIn(entries', pending'[k])
    BY <1>1, <1>2, <1>3, <1>4, TurnOver
  <1>6. QED
    BY <1>1, <1>5 DEF ReactorInv, PendInv, PendsIn

\* on_submitted: what the kernel has consumed is live.
LEMMA MarkLiveSlab ==
  ASSUME CoreInv, thread = "reap", entries' = MarkLive(entries), UNCHANGED <<free, pool, hands>>
  PROVE  /\ SlabInv' /\ Ages
         /\ \A k \in 1..Len(turn.batch) : k > Gone => WaitsIn(entries', turn.batch[k])
         /\ \A n \in Out :
              /\ n \in 1..Len(consumed)
              /\ HasIn(entries', consumed[n])
              /\ entries'[consumed[n].ud.index].slot = consumed[n].slot
              /\ entries'[consumed[n].ud.index].state \in Within
  <1> DEFINE o == turn.off
             s == turn.sent
             b == Len(turn.batch)
             l == Len(entries)
             Marked(i) == [entries[i] EXCEPT !.state = "Live"]
             Sent(i) == \E k \in 1..s : turn.batch[o + k].ud = [index |-> i, gen |-> entries[i].gen]
  <1>1. /\ Types /\ FreeInv /\ SlotInv /\ TurnInv /\ BatchInv /\ OutInv /\ OrderInv
    BY DEF CoreInv, SlabInv, TokenInv
  <1>2. entries' = MarkLive(entries) /\ UNCHANGED <<free, pool, hands>>
    OBVIOUS
  <1>3. /\ o \in Nat /\ s \in Nat /\ b \in Nat /\ l \in Nat /\ turn \in AnyTurn
        /\ turn.batch \in Seq(AnySqe)
        /\ \A i \in 1..l : entries[i] \in AnyEntry
        /\ \A k \in 1..b : turn.batch[k] \in AnySqe
        /\ \A k \in 1..Len(consumed) : consumed[k] \in AnySqe
        /\ consumed \in Seq(AnySqe)
    BY <1>1, TypeFacts DEF Types
  <1>4. Gone = o + s /\ Sending /\ o + s <= b
    BY <1>1 DEF Gone, Sending, TurnInv
  <1>5. entries' = [i \in 1..l |-> IF entries[i].state = "Queued" /\ Sent(i)
                                   THEN Marked(i) ELSE entries[i]]
    BY <1>2 DEF MarkLive
  <1>6. ASSUME NEW i \in 1..l
        PROVE  /\ Marked(i) \in AnyEntry /\ Marked(i).state = "Live"
               /\ Marked(i).gen = entries[i].gen
               /\ Marked(i).slot = entries[i].slot /\ Marked(i).serial = entries[i].serial
    <2>1. entries[i] \in AnyEntry
      BY <1>3
    <2>2. QED
      BY <2>1 DEF AnyEntry, States
  <1> HIDE DEF Sent, Marked, l
  <1>7. /\ entries' \in Seq(AnyEntry) /\ Len(entries') = l
        /\ \A i \in 1..l :
             /\ entries'[i].gen = entries[i].gen /\ entries'[i].slot = entries[i].slot
             /\ entries'[i].serial = entries[i].serial
             /\ \/ entries'[i].state = entries[i].state /\ ~(entries[i].state = "Queued" /\ Sent(i))
                \/ entries'[i].state = "Live" /\ entries[i].state = "Queued" /\ Sent(i)
    BY <1>3, <1>5, <1>6
  \* An operation keeps its entry.
  <1>8. ASSUME NEW y, HasIn(entries, y)
        PROVE  /\ HasIn(entries', y)
               /\ y.ud.index \in 1..l
               /\ entries'[y.ud.index].slot = entries[y.ud.index].slot
    <2> DEFINE i == y.ud.index
    <2>1. i \in 1..l /\ entries[i].gen = y.ud.gen /\ entries[i].state # "Free"
          /\ entries[i].serial = y.serial
      BY <1>8 DEF HasIn, l
    <2> HIDE DEF i
    <2>2. /\ entries'[i].gen = y.ud.gen /\ entries'[i].state # "Free"
          /\ entries'[i].serial = y.serial /\ entries'[i].slot = entries[i].slot
      BY <1>7, <2>1
    <2>3. QED
      BY <1>7, <2>1, <2>2 DEF i, HasIn
  <1>9. FreeInv'
    <2>1. /\ \A k \in 1..Len(free) : free[k] \in 1..l /\ entries[free[k]].state = "Free"
          /\ \A j, k \in 1..Len(free) : free[j] = free[k] => j = k
      BY <1>1 DEF FreeInv, l
    <2>2. ASSUME NEW k \in 1..Len(free)
          PROVE  free[k] \in 1..l /\ entries'[free[k]].state = "Free"
      <3> DEFINE i == free[k]
      <3>1. i \in 1..l /\ entries[i].state = "Free"
        BY <2>1
      <3> HIDE DEF i
      <3>2. QED
        BY <1>7, <3>1 DEF i
    <2>3. QED
      BY <1>2, <1>7, <2>1, <2>2 DEF FreeInv
  <1>10. SlotInv'
    <2>1. /\ \A i \in 1..l :
               /\ entries[i].state \in {"Free", "Dead", "CancelProbe"} => entries[i].slot = NilSlot
               /\ entries[i].slot \notin pool \cup hands
          /\ \A i, j \in 1..l : entries[i].slot = entries[j].slot => i = j \/ entries[i].slot = NilSlot
          /\ pool \cap hands = {}
          /\ \A t \in Slots : t \in pool \cup hands \/ \E i \in 1..l : entries[i].slot = t
      BY <1>1 DEF SlotInv, l
    <2>2. \A i \in 1..l :
               /\ entries'[i].state \in {"Free", "Dead", "CancelProbe"} => entries'[i].slot = NilSlot
               /\ entries'[i].slot \notin pool' \cup hands'
      BY <1>2, <1>7, <2>1
    <2>3. \A i, j \in 1..l : entries'[i].slot = entries'[j].slot => i = j \/ entries'[i].slot = NilSlot
      BY <1>7, <2>1
    <2>4. \A t \in Slots : t \in pool' \cup hands' \/ \E i \in 1..l : entries'[i].slot = t
      BY <1>2, <1>7, <2>1
    <2>5. pool' \cap hands' = {}
      BY <1>2, <2>1
    <2>6. QED
      BY <1>7, <2>2, <2>3, <2>4, <2>5 DEF SlotInv
  \* Two SQEs of the batch are of two operations.
  <1>11. \A k \in 1..b : k > Gone => WaitsIn(entries', turn.batch[k])
    <2>1. ASSUME NEW k \in 1..b, k > o + s
          PROVE  WaitsIn(entries', turn.batch[k])
      <3> DEFINE x == turn.batch[k]
                 i == x.ud.index
      <3>1. WaitsIn(entries, x) /\ HasIn(entries, x)
        <4>1. k > o
          BY <1>3, <2>1
        <4>2. QED
          BY <1>1, <4>1 DEF BatchInv, WaitsIn
      <3>2. /\ HasIn(entries', x) /\ i \in 1..l
            /\ entries'[i].slot = entries[i].slot
        BY <1>8, <3>1
      <3>3. ~Sent(i)
        <4> SUFFICES ASSUME NEW j \in 1..s,
                            turn.batch[o + j].ud = [index |-> i, gen |-> entries[i].gen]
                     PROVE  FALSE
          BY DEF Sent
        <4>1. o + j \in 1..b /\ o + j > o /\ o + j < k
          <5>1. /\ o \in Nat /\ s \in Nat /\ b \in Nat /\ o + s <= b
                /\ j \in 1..s /\ k \in 1..b /\ k > o + s
            BY <1>3, <1>4, <2>1
          <5> HIDE DEF o, s, b
          <5>2. QED
            BY <5>1
        <4>2. HasIn(entries, turn.batch[o + j])
          BY <1>1, <4>1 DEF BatchInv, WaitsIn
        <4>3. turn.batch[o + j].ud.index = i
          OBVIOUS
        <4>4. turn.batch[o + j].serial = entries[i].serial
          BY <4>2, <4>3 DEF HasIn
        <4>5. x.serial = entries[i].serial
          BY <3>1 DEF HasIn
        <4>6. turn.batch[o + j].serial < x.serial
          BY <1>1, <4>1 DEF OrderInv, Rising
        <4>7. x.serial \in Nat
          BY <1>3 DEF AnySqe
        <4>8. QED
          BY <4>4, <4>5, <4>6, <4>7
      <3>4. entries'[i].state = entries[i].state
        BY <1>7, <3>2, <3>3
      <3> HIDE DEF x
      <3>5. QED
        BY <3>1, <3>2, <3>4 DEF WaitsIn, x
    <2>2. QED
      BY <1>4, <2>1
  <1>12. ASSUME NEW n \in Out
         PROVE  /\ n \in 1..Len(consumed)
                /\ HasIn(entries', consumed[n])
                /\ entries'[consumed[n].ud.index].slot = consumed[n].slot
                /\ entries'[consumed[n].ud.index].state \in Within
    <2> DEFINE y == consumed[n]
               i == y.ud.index
    <2>1. /\ n \in 1..Len(consumed)
          /\ HasIn(entries, y) /\ entries[i].slot = y.slot
          /\ \/ entries[i].state \in {"Live", "Abandoned", "CancelProbe"}
             \/ /\ entries[i].state = "Queued"
                /\ \E k \in 1..s : turn.batch[o + k] = y
      BY <1>1 DEF OutInv
    <2>2. y \in AnySqe
      BY <1>3, <2>1
    <2>3. /\ HasIn(entries', y) /\ i \in 1..l
          /\ entries'[i].slot = entries[i].slot
      BY <1>8, <2>1
    <2>4. entries[i].gen = y.ud.gen
      BY <2>1 DEF HasIn
    <2>5. y.ud = [index |-> i, gen |-> entries[i].gen]
      <3>1. y.ud \in Cookie
        BY <2>2 DEF AnySqe
      <3> HIDE DEF y
      <3>2. y.ud = [index |-> y.ud.index, gen |-> y.ud.gen]
        BY <3>1 DEF Cookie
      <3>3. QED
        BY <2>4, <3>2
    <2> HIDE DEF y, i
    <2>6. (\E k \in 1..s : turn.batch[o + k] = y) => Sent(i)
      BY <2>5 DEF Sent
    <2>7. entries'[i].state \in {"Live", "Abandoned", "CancelProbe"}
      BY <1>7, <2>1, <2>3, <2>6
    <2>8. QED
      BY <2>1, <2>3, <2>7 DEF y, i, Within
  <1>13. Ages
    <2>1. l <= Len(entries')
      BY <1>3, <1>7
    <2>2. QED
      BY <1>7, <2>1 DEF Ages, l
  <1>14. QED
    BY <1>9, <1>10, <1>11, <1>12, <1>13 DEF SlabInv, b

\* The consumed ones are marked, and the rest is the batch still.
LEMMA EnterReturnsStep ==
  ASSUME ReactorInv, EnterReturns
  PROVE  ReactorInv'
  <1> DEFINE o == turn.off
             s == turn.sent
  <1>1. /\ CoreInv /\ Types /\ TurnInv /\ OutInv /\ OnceInv /\ OrderInv /\ AimInv /\ HistInv
        /\ thread = "reap" /\ thread' = "dispatch" /\ entries' = MarkLive(entries)
        /\ turn' = [turn EXCEPT !.off = o + s]
        /\ UNCHANGED <<accepted, owed, queue, consumed, free, pending, pool, hands, serial>>
    BY DEF ReactorInv, CoreInv, TokenInv, EnterReturns, kernel, ringVars, program
  <1>2. /\ SlabInv' /\ Ages
        /\ \A k \in 1..Len(turn.batch) : k > Gone => WaitsIn(entries', turn.batch[k])
        /\ \A n \in Out :
             /\ n \in 1..Len(consumed)
             /\ HasIn(entries', consumed[n])
             /\ entries'[consumed[n].ud.index].slot = consumed[n].slot
             /\ entries'[consumed[n].ud.index].state \in Within
    BY <1>1, MarkLiveSlab
  <1>3. /\ o \in Nat /\ s \in Nat /\ turn \in AnyTurn
        /\ turn.batch \in Seq(AnySqe) /\ consumed \in Seq(AnySqe)
    BY <1>1, TypeFacts DEF Types
  <1>4. Gone = o + s /\ pending = <<>> /\ Gone <= Len(turn.batch)
    BY <1>1 DEF Gone, Sending, TurnInv
  <1>5. /\ turn' \in AnyTurn /\ turn'.off = o + s /\ turn'.batch = turn.batch
        /\ turn'.cq = turn.cq
    <2> DEFINE v == o + s
    <2>1. v \in Nat /\ turn' = [turn EXCEPT !.off = v]
      BY <1>1, <1>3
    <2> HIDE DEF v
    <2>2. turn' \in AnyTurn /\ turn'.off = v /\ turn'.batch = turn.batch /\ turn'.cq = turn.cq
      BY <1>3, <2>1 DEF AnyTurn
    <2>3. QED
      BY <2>2 DEF v
  <1>6. Types'
    BY <1>1, <1>2, <1>5 DEF Types, Ages
  <1>7. ~Sending' /\ Gone' = Gone
    BY <1>1, <1>3, <1>4, <1>5 DEF Sending, Gone
  <1> HIDE DEF o, s
  <1>8. TurnInv'
    BY <1>1, <1>4, <1>5, <1>7 DEF TurnInv, Threads
  <1>9. BatchInv'
    BY <1>2, <1>4, <1>5 DEF BatchInv
  <1>10. OutInv' /\ OnceInv'
    <2>1. Out' = Out
      BY <1>1, <1>5 DEF Out, Queue, Taken
    <2>2. OutInv'
      BY <1>1, <1>2, <2>1 DEF OutInv, Within
    <2>3. QED
      BY <1>1, <1>5, <2>2, OnceKept
  <1>11. OrderInv'
    BY <1>1, <1>5, <1>7 DEF OrderInv, Rising
  <1>12. AimInv' /\ HistInv'
    <2>1. /\ \A n \in 1..Len(consumed) : AimedIn(entries', consumed[n])
          /\ \A n \in 1..Len(consumed) : WasIn(entries', consumed[n])
          /\ \A n \in 1..Len(turn.batch) : AimedIn(entries', turn.batch[n])
      BY <1>1, <1>2, <1>3, OldTokens DEF AimInv, HistInv
    <2>2. Len(pending') = 0
      BY <1>1, <1>4
    <2>3. QED
      BY <1>1, <1>5, <2>1, <2>2 DEF AimInv, HistInv
  <1>13. PendInv'
    BY <1>1, <1>4 DEF PendInv
  <1>14. QED
    BY <1>2, <1>6, <1>8, <1>9, <1>10, <1>11, <1>12, <1>13 DEF ReactorInv, CoreInv, TokenInv

\* The first completion of turn.cq is dispatched; its operation's entry is the
\* one that changes.
LEMMA DispatchTokens ==
  ASSUME CoreInv, thread = "dispatch", thread' = "dispatch", turn.cq # <<>>,
         UNCHANGED <<accepted, owed, queue, consumed, pending, serial>>,
         turn'.batch = turn.batch, turn'.off = turn.off, turn'.cq = Tail(turn.cq),
         Types', SlabInv', Ages, Len(entries') = Len(entries),
         \A i \in 1..Len(entries) :
           i # consumed[Head(turn.cq)].ud.index => entries'[i] = entries[i]
  PROVE  CoreInv' /\ PendingStays
  <1> DEFINE n == Head(turn.cq)
             z == consumed[n]
             l == Len(entries)
             t == Len(turn.cq)
             b == Len(turn.batch)
  <1>1. /\ Types /\ TurnInv /\ BatchInv /\ OutInv /\ OnceInv
        /\ OrderInv /\ AimInv /\ HistInv
    BY DEF CoreInv, SlabInv, TokenInv
  <1>2. /\ t \in Nat /\ turn.cq \in Seq(Nat) /\ turn.off \in Nat /\ b \in Nat
        /\ consumed \in Seq(AnySqe) /\ turn.batch \in Seq(AnySqe)
        /\ \A k \in 1..b : turn.batch[k] \in AnySqe
        /\ \A k \in 1..Len(consumed) : consumed[k] \in AnySqe
        /\ Len(consumed) \in Nat /\ pending \in Seq(AnySqe)
        /\ \A k \in 1..Len(pending) : pending[k] \in AnySqe
    BY <1>1, TypeFacts
  <1>3. n = turn.cq[1] /\ 1 \in 1..t /\ t # 0
    BY <1>2
  <1>4. /\ Len(turn'.cq) = t - 1
        /\ \A k \in 1..(t - 1) : turn'.cq[k] = turn.cq[k + 1]
    BY <1>2, HeadTailProperties
  <1>5. /\ \A k \in 1..(t - 1) : k + 1 \in 1..t /\ k + 1 # 1
        /\ \A j, k \in 1..(t - 1) : j + 1 = k + 1 => j = k
    BY <1>2
  <1>6. n \in Taken /\ n \in Out
    BY <1>3 DEF Taken, Out
  <1>7. ~Sending /\ ~Sending' /\ Gone = turn.off /\ Gone' = turn.off
    BY <1>2 DEF Sending, Gone
  <1>8. n \in 1..Len(consumed) /\ HasIn(entries, z)
    BY <1>1, <1>6 DEF OutInv
  <1>9. /\ owed \cap Queue = {} /\ owed \cap Taken = {} /\ Queue \cap Taken = {}
        /\ \A j, k \in 1..Len(queue) : queue[j] = queue[k] => j = k
        /\ \A j, k \in 1..t : turn.cq[j] = turn.cq[k] => j = k
    BY <1>1 DEF OnceInv
  <1> HIDE DEF n, z, l, t, b
  <1>10. ASSUME NEW m \in Taken'
         PROVE  m \in Taken /\ m # n
    <2>1. PICK k \in 1..(t - 1) : m = turn'.cq[k]
      BY <1>4 DEF Taken
    <2>2. m = turn.cq[k + 1] /\ k + 1 \in 1..t /\ k + 1 # 1
      BY <1>4, <1>5, <2>1
    <2>3. QED
      BY <1>3, <1>9, <2>2 DEF Taken, t
  <1>11. Queue' = Queue
    BY DEF Queue
  <1>12. \A m \in Out' : m \in Out /\ m # n
    BY <1>6, <1>9, <1>10, <1>11 DEF Out
  \* Whatever has another serial has another entry.
  <1>13. ASSUME NEW y, HasIn(entries, y), y.serial # z.serial
         PROVE  /\ y.ud.index \in 1..Len(entries')
                /\ entries'[y.ud.index] = entries[y.ud.index]
    <2>1. y.ud.index # z.ud.index
      BY <1>8, <1>13 DEF HasIn
    <2>2. y.ud.index \in 1..Len(entries)
      BY <1>13 DEF HasIn
    <2>3. QED
      BY <2>1, <2>2 DEF z, n
  <1>14. ASSUME NEW m \in 1..Len(consumed), m # n
         PROVE  consumed[m].serial # z.serial
    <2>1. consumed[m].serial \in Nat /\ z.serial \in Nat
      BY <1>2, <1>8 DEF AnySqe, z
    <2>2. m < n \/ n < m
      BY <1>2, <1>8, <1>14
    <2>3. consumed[m].serial < z.serial \/ z.serial < consumed[m].serial
      BY <1>1, <1>8, <2>2 DEF OrderInv, Rising, z
    <2>4. QED
      BY <2>1, <2>3
  <1>15. TurnInv'
    <2>1. Gone' <= Len(turn'.batch)
      BY <1>1, <1>7 DEF TurnInv
    <2>2. QED
      BY <2>1 DEF TurnInv, Threads
  <1>16. PendingStays
    <2>1. ASSUME NEW k \in 1..Len(pending), HasIn(entries, pending[k])
          PROVE  /\ WaitsIn(entries, pending[k]) => WaitsIn(entries', pending[k])
                 /\ DeadIn(entries, pending[k]) => DeadIn(entries', pending[k])
      <3> DEFINE x == pending[k]
      <3>1. x.serial # z.serial
        <4>1. z.serial < x.serial
          BY <1>1, <1>8 DEF OrderInv, z
        <4>2. x.serial \in Nat /\ z.serial \in Nat
          BY <1>2, <1>8 DEF AnySqe, z
        <4>3. QED
          BY <4>1, <4>2
      <3>2. HasIn(entries, x)
        BY <2>1
      <3> HIDE DEF x
      <3>3. x.ud.index \in 1..Len(entries') /\ entries'[x.ud.index] = entries[x.ud.index]
        BY <1>13, <3>1, <3>2
      <3>4. QED
        BY <3>3, SameEntry DEF Alike, x
    <2>2. QED
      BY <2>1 DEF PendingStays, WaitsIn, DeadIn
  <1>17. BatchInv'
    <2>1. ASSUME NEW k \in 1..b, k > turn.off
          PROVE  WaitsIn(entries', turn.batch[k])
      <3> DEFINE x == turn.batch[k]
      <3>1. WaitsIn(entries, x) /\ HasIn(entries, x)
        BY <1>1, <2>1 DEF BatchInv, WaitsIn, b
      <3>2. x.serial # z.serial
        <4>1. z.serial < x.serial
          BY <1>1, <1>7, <1>8, <2>1 DEF OrderInv, z, b
        <4>2. x.serial \in Nat
          BY <1>2 DEF AnySqe
        <4>3. QED
          BY <4>1, <4>2
      <3> HIDE DEF x
      <3>3. x.ud.index \in 1..Len(entries') /\ entries'[x.ud.index] = entries[x.ud.index]
        BY <1>13, <3>1, <3>2
      <3>4. QED
        BY <3>1, <3>3, SameEntry DEF Alike, x
    <2>2. QED
      BY <2>1 DEF BatchInv, b
  <1>18. OutInv'
    <2>1. ASSUME NEW m \in Out'
          PROVE  LET y == consumed[m] IN
            /\ m \in 1..Len(consumed)
            /\ HasIn(entries', y) /\ entries'[y.ud.index].slot = y.slot
            /\ entries'[y.ud.index].state \in {"Live", "Abandoned", "CancelProbe"}
      <3> DEFINE y == consumed[m]
      <3>1. m \in Out /\ m # n
        BY <1>12
      <3>2. /\ m \in 1..Len(consumed)
            /\ HasIn(entries, y) /\ entries[y.ud.index].slot = y.slot
            /\ entries[y.ud.index].state \in {"Live", "Abandoned", "CancelProbe"}
        BY <1>1, <1>7, <3>1 DEF OutInv
      <3>3. y.serial # z.serial
        BY <1>14, <3>1, <3>2
      <3> HIDE DEF y
      <3>4. y.ud.index \in 1..Len(entries') /\ entries'[y.ud.index] = entries[y.ud.index]
        BY <1>13, <3>2, <3>3
      <3>5. HasIn(entries', y)
        BY <3>2, <3>4, SameEntry DEF Alike
      <3>6. QED
        BY <3>2, <3>4, <3>5 DEF y
    <2>2. QED
      BY <2>1 DEF OutInv
  <1>19. OnceInv'
    <2>1. owed' \cap Queue' = {} /\ owed' \cap Taken' = {} /\ Queue' \cap Taken' = {}
      BY <1>9, <1>10, <1>11
    <2>2. ASSUME NEW j \in 1..(t - 1), NEW k \in 1..(t - 1), turn'.cq[j] = turn'.cq[k]
          PROVE  j = k
      <3>1. turn.cq[j + 1] = turn.cq[k + 1] /\ j + 1 \in 1..t /\ k + 1 \in 1..t
        BY <1>4, <1>5, <2>2
      <3>2. j + 1 = k + 1
        BY <1>9, <3>1
      <3>3. QED
        BY <1>5, <3>2
    <2>3. QED
      BY <1>4, <1>9, <2>1, <2>2 DEF OnceInv
  <1>20. OrderInv'
    BY <1>1, <1>7 DEF OrderInv, Rising
  <1>21. AimInv' /\ HistInv'
    <2>1. /\ \A k \in 1..Len(consumed) : AimedIn(entries, consumed[k])
          /\ \A k \in 1..Len(turn.batch) : AimedIn(entries, turn.batch[k])
          /\ \A k \in 1..Len(consumed) : WasIn(entries, consumed[k])
          /\ \A k \in 1..Len(pending) : AimedIn(entries, pending[k])
      BY <1>1 DEF AimInv, HistInv
    <2>2. /\ \A k \in 1..Len(consumed) : AimedIn(entries', consumed[k])
          /\ \A k \in 1..Len(consumed) : WasIn(entries', consumed[k])
          /\ \A k \in 1..Len(turn.batch) : AimedIn(entries', turn.batch[k])
          /\ \A k \in 1..Len(pending) : AimedIn(entries', pending[k])
      BY <1>1, <1>2, <2>1, OldTokens
    <2>3. QED
      BY <2>2 DEF AimInv, HistInv
  <1>22. QED
    BY <1>15, <1>16, <1>17, <1>18, <1>19, <1>20, <1>21 DEF CoreInv, TokenInv

\* A completion is routed, in either runtime.
Dispatches ==
  /\ thread = "dispatch" /\ turn.cq # <<>>
  /\ LET c == consumed[Head(turn.cq)].ud
     IN \/ Names(c) /\ (Wake(c) \/ Discard(c) \/ Impossible(c))
        \/ Stale(c)
  /\ UNCHANGED <<kernel, pending, hands, serial>>

\* The operation a completion is for is in the slab, and in the kernel: the
\* panic of `dispatch' and its stale completions do not come about.
LEMMA DispatchStep ==
  ASSUME CoreInv, Dispatches
  PROVE  /\ CoreInv' /\ Ages /\ PendingStays
         /\ thread' = "dispatch" /\ turn'.batch = turn.batch /\ turn'.off = turn.off
  <1> DEFINE n == Head(turn.cq)
             z == consumed[n]
             c == z.ud
             i == c.index
             l == Len(entries)
  <1>1. /\ Types /\ FreeInv /\ SlotInv /\ SlabInv /\ OutInv /\ thread = "dispatch" /\ turn.cq # <<>>
        /\ UNCHANGED <<accepted, owed, queue, consumed, pending, serial, hands>>
    BY DEF CoreInv, SlabInv, TokenInv, Dispatches, kernel, ringVars
  <1>2. /\ turn.cq \in Seq(Nat) /\ turn \in AnyTurn /\ Len(turn.cq) \in Nat /\ l \in Nat
        /\ entries \in Seq(AnyEntry)
    BY <1>1, TypeFacts DEF Types
  <1>3. n \in Out
    <2>1. n = turn.cq[1] /\ 1 \in 1..Len(turn.cq)
      BY <1>1, <1>2
    <2>2. QED
      BY <2>1 DEF Taken, Out
  <1>4. /\ HasIn(entries, z)
        /\ entries[i].state \in {"Live", "Abandoned", "CancelProbe"}
    BY <1>1, <1>3 DEF OutInv, Sending
  <1>5. /\ i \in 1..l /\ entries[i].gen = c.gen /\ entries[i] \in AnyEntry /\ Names(c)
    <2>1. i \in 1..l /\ entries[i].gen = c.gen /\ Names(c)
      BY <1>4 DEF HasIn, Names
    <2> HIDE DEF i
    <2>2. entries[i] \in AnyEntry
      BY <1>2, <2>1
    <2>3. QED
      BY <2>1, <2>2 DEF i
  <1>6. Tail(turn.cq) \in Seq(Nat) /\ turn.woke + 1 \in Nat
    BY <1>1, <1>2, HeadTailProperties DEF AnyTurn
  <1>7. Wake(c) \/ Discard(c)
    BY <1>4, <1>5 DEF Dispatches, Impossible, Stale
  <1>8. CASE Wake(c)
    <2> DEFINE e == [entries[i] EXCEPT !.state = "Ready"]
    <2>1. /\ entries[i].state = "Live" /\ entries' = [entries EXCEPT ![i] = e]
          /\ turn' = [turn EXCEPT !.cq = Tail(turn.cq), !.woke = turn.woke + 1]
          /\ UNCHANGED <<free, pool, thread>>
      BY <1>8 DEF Wake
    <2>2. /\ e \in AnyEntry /\ e.state = "Ready" /\ e.gen = entries[i].gen
          /\ e.slot = entries[i].slot /\ e.serial = entries[i].serial
      BY <1>5 DEF AnyEntry, States
    <2>3. /\ turn' \in AnyTurn /\ turn'.batch = turn.batch /\ turn'.off = turn.off
          /\ turn'.cq = Tail(turn.cq)
      <3> DEFINE v == turn.woke + 1
                 r == Tail(turn.cq)
      <3>1. turn' = [turn EXCEPT !.cq = r, !.woke = v] /\ v \in Nat /\ r \in Seq(Nat)
        BY <1>6, <2>1
      <3> HIDE DEF v, r
      <3>2. turn' \in AnyTurn /\ turn'.batch = turn.batch /\ turn'.off = turn.off /\ turn'.cq = r
        BY <1>2, <3>1 DEF AnyTurn
      <3>3. QED
        BY <3>2 DEF r
    <2> HIDE DEF e, i, l
    <2>4. /\ entries' \in Seq(AnyEntry) /\ Len(entries') = l
          /\ entries'[i] = e /\ \A j \in 1..l : j # i => entries'[j] = entries[j]
      BY <1>2, <1>5, <2>1, <2>2 DEF l
    <2>5. \A j \in 1..l : /\ entries'[j].gen = entries[j].gen /\ entries'[j].slot = entries[j].slot
                          /\ entries'[j].serial = entries[j].serial
                          /\ \/ entries'[j].state = entries[j].state
                             \/ entries'[j].state = "Ready" /\ entries[j].state = "Live"
      BY <2>1, <2>2, <2>4
    <2>6. FreeInv'
      <3>1. /\ \A k \in 1..Len(free) : free[k] \in 1..l /\ entries[free[k]].state = "Free"
            /\ \A j, k \in 1..Len(free) : free[j] = free[k] => j = k
        BY <1>1 DEF FreeInv, l
      <3>2. ASSUME NEW k \in 1..Len(free)
            PROVE  free[k] \in 1..l /\ entries'[free[k]].state = "Free"
        <4> DEFINE j == free[k]
        <4>1. j \in 1..l /\ entries[j].state = "Free"
          BY <3>1
        <4> HIDE DEF j
        <4>2. QED
          BY <2>5, <4>1 DEF j
      <3>3. QED
        BY <2>1, <2>4, <3>1, <3>2 DEF FreeInv
    <2>7. SlotInv'
      <3>1. /\ \A j \in 1..l :
                 /\ entries[j].state \in {"Free", "Dead", "CancelProbe"} => entries[j].slot = NilSlot
                 /\ entries[j].slot \notin pool \cup hands
            /\ \A j, k \in 1..l : entries[j].slot = entries[k].slot => j = k \/ entries[j].slot = NilSlot
            /\ pool \cap hands = {}
            /\ \A t \in Slots : t \in pool \cup hands \/ \E j \in 1..l : entries[j].slot = t
        BY <1>1 DEF SlotInv, l
      <3>2. \A j \in 1..l :
               /\ entries'[j].state \in {"Free", "Dead", "CancelProbe"} => entries'[j].slot = NilSlot
               /\ entries'[j].slot \notin pool' \cup hands'
        BY <1>1, <2>1, <2>5, <3>1
      <3>3. \A j, k \in 1..l : entries'[j].slot = entries'[k].slot => j = k \/ entries'[j].slot = NilSlot
        BY <2>5, <3>1
      <3>4. \A t \in Slots : t \in pool' \cup hands' \/ \E j \in 1..l : entries'[j].slot = t
        BY <1>1, <2>1, <2>5, <3>1
      <3>5. pool' \cap hands' = {}
        BY <1>1, <2>1, <3>1
      <3>6. QED
        BY <2>4, <3>2, <3>3, <3>4, <3>5 DEF SlotInv
    <2>8. Ages
      <3>1. l <= Len(entries')
        BY <1>2, <2>4
      <3>2. \A j \in 1..l : entries[j].state = "Abandoned" => entries'[j].state = "Abandoned"
        BY <2>5
      <3>3. \A j \in 1..l : entries[j].state # "Free" => entries'[j].state # "Free"
        BY <2>5
      <3>4. QED
        BY <2>4, <2>5, <3>1, <3>2, <3>3 DEF Ages, l
    <2>9. Types'
      BY <1>1, <2>1, <2>3, <2>4 DEF Types
    <2>10. QED
      BY <1>1, <2>1, <2>3, <2>4, <2>6, <2>7, <2>8, <2>9, DispatchTokens DEF SlabInv, i, l
  <1>9. CASE Discard(c)
    <2>1. /\ RemoveEntry(c) /\ pool' = pool \cup Freed(entries[c.index].slot)
          /\ turn' = [turn EXCEPT !.cq = Tail(turn.cq)] /\ thread' = thread
      BY <1>9 DEF Discard, Forget
    <2>2. Removal(c)
      BY <1>1, <1>5, <2>1 DEF Removal
    <2>3. /\ GivesBack(i) /\ SlabInv' /\ Ages /\ free' \in Seq(Nat)
          /\ pool' \subseteq Slots /\ hands' \subseteq Slots
      BY <1>1, <2>2, RemovalSlab
    <2>4. /\ turn' \in AnyTurn /\ turn'.batch = turn.batch /\ turn'.off = turn.off
          /\ turn'.cq = Tail(turn.cq)
      <3> DEFINE r == Tail(turn.cq)
      <3>1. turn' = [turn EXCEPT !.cq = r] /\ r \in Seq(Nat)
        BY <1>6, <2>1
      <3> HIDE DEF r
      <3>2. turn' \in AnyTurn /\ turn'.batch = turn.batch /\ turn'.off = turn.off /\ turn'.cq = r
        BY <1>2, <3>1 DEF AnyTurn
      <3>3. QED
        BY <3>2 DEF r
    <2>5. Types'
      BY <1>1, <2>3, <2>4 DEF Types, Ages
    <2>6. /\ Len(entries') = Len(entries)
          /\ \A j \in 1..Len(entries) : j # i => entries'[j] = entries[j]
      BY <2>3 DEF GivesBack
    <2>7. QED
      BY <1>1, <2>1, <2>3, <2>4, <2>5, <2>6, DispatchTokens
  <1>10. QED
    BY <1>7, <1>8, <1>9

-----------------------------------------------------------------------------
(* The invariant holds.                                                    *)

\* The invariant holds at first.
LEMMA ReactorStarts ==
  ASSUME Init
  PROVE  ReactorInv
  <1>1. /\ accepted = 0 /\ owed = {} /\ queue = <<>> /\ consumed = <<>> /\ entries = <<>>
        /\ free = <<>> /\ pending = <<>> /\ pool = Slots /\ hands = {} /\ serial = 0
        /\ thread = "tasks" /\ turn = Idle
    BY DEF Init, RingInit
  <1>2. /\ turn \in AnyTurn /\ turn.batch = <<>> /\ turn.cq = <<>> /\ turn.off = 0 /\ turn.sent = 0
    BY <1>1 DEF Idle, AnyTurn
  <1>3. Types
    BY <1>1, <1>2 DEF Types
  <1>4. Len(entries) = 0 /\ Len(free) = 0 /\ Len(pending) = 0 /\ Len(consumed) = 0
        /\ Len(queue) = 0 /\ Len(turn.batch) = 0 /\ Len(turn.cq) = 0
    BY <1>1, <1>2
  <1>5. FreeInv /\ SlotInv /\ PendInv /\ BatchInv /\ AimInv /\ HistInv
    BY <1>1, <1>4 DEF FreeInv, SlotInv, PendInv, BatchInv, AimInv, HistInv
  <1>6. Queue = {} /\ Taken = {} /\ Out = {}
    BY <1>1, <1>4 DEF Queue, Taken, Out
  <1>7. OutInv /\ OnceInv
    BY <1>1, <1>4, <1>6 DEF OutInv, OnceInv
  <1>8. TurnInv
    BY <1>1, <1>2, <1>4 DEF TurnInv, Threads, Gone, Sending
  <1>9. OrderInv
    BY <1>4 DEF OrderInv, Rising
  <1>10. QED
    BY <1>1, <1>3, <1>5, <1>7, <1>8, <1>9 DEF ReactorInv, CoreInv, SlabInv, TokenInv

\* A step of somebody else.
LEMMA NothingStep ==
  ASSUME CoreInv, UNCHANGED rvars
  PROVE  CoreInv' /\ Ages /\ PendingStays
  <1>1. UNCHANGED <<entries, free, pending, pool, hands, serial, thread, turn, consumed,
                    accepted, owed, queue>>
    BY DEF rvars, kernel, ringVars, slab, program
  <1>2. Sending' = Sending /\ Gone' = Gone
    BY <1>1 DEF Sending, Gone
  <1>3. Types'
    BY <1>1 DEF CoreInv, Types
  <1>4. TurnInv'
    BY <1>1, <1>2 DEF CoreInv, TokenInv, TurnInv
  <1>5. OnceInv' /\ Out' = Out
    BY <1>1, OnceKept DEF CoreInv, TokenInv, Out, Queue, Taken
  <1>6. QED
    BY <1>1, <1>2, <1>3, <1>4, <1>5, StillStep DEF slab

\* The entries' cookies are cookies.
LEMMA CookiesAre ==
  ASSUME Types, NEW c \in Cookies
  PROVE  c \in Cookie
  <1>1. PICK i \in 1..Len(entries) : c = [index |-> i, gen |-> entries[i].gen]
    BY DEF Cookies
  <1>2. entries[i] \in AnyEntry
    BY TypeFacts
  <1>3. i \in Nat
    BY TypeFacts
  <1>4. QED
    BY <1>1, <1>2, <1>3 DEF AnyEntry, Cookie

\* Every step keeps the invariant.
LEMMA ReactorSteps ==
  ASSUME ReactorInv, [Next]_rvars
  PROVE  ReactorInv'
  <1>1. CoreInv /\ Types /\ PendInv
    BY DEF ReactorInv, CoreInv
  <1>2. ASSUME NEW c \in Cookies, Resolve(c)
        PROVE  ReactorInv'
    BY <1>1, <1>2, ResolveStep, PendingHolds DEF Resolve
  <1>3. ASSUME NEW wait \in BOOLEAN, NEW capped \in BOOLEAN, BeginTurn(wait, capped)
        PROVE  ReactorInv'
    BY <1>3, BeginTurnStep
  <1>4. CASE Enter
    <2>1. /\ thread = "enter" /\ thread' = "submit"
          /\ UNCHANGED <<kernel, slab, pending, program, serial>>
          /\ turn' = [turn EXCEPT !.sent = 0, !.cq = <<>>, !.want = Want(Chunk)]
      BY <1>4 DEF Enter
    <2>2. /\ turn' \in AnyTurn /\ turn'.sent = 0 /\ turn'.cq = <<>>
          /\ turn'.batch = turn.batch /\ turn'.off = turn.off
      <3> DEFINE w == Want(Chunk)
      <3>1. turn \in AnyTurn /\ w \in Nat /\ <<>> \in Seq(Nat)
        BY <1>1 DEF Types, Want
      <3>2. turn' = [turn EXCEPT !.sent = 0, !.cq = <<>>, !.want = w]
        BY <2>1
      <3> HIDE DEF w
      <3>3. QED
        BY <3>1, <3>2 DEF AnyTurn
    <2>3. QED
      BY <1>1, <2>1, <2>2, EnterStep, PendingHolds
  <1>5. CASE Submit
    BY <1>1, <1>5, SubmitStep, PendingHolds
  <1>6. CASE SubmitDone \/ WaitEnds \/ Interrupted \/ GoRound
    <2>1. /\ UNCHANGED <<kernel, slab, pending, program, serial, turn>>
          /\ \/ thread \in {"submit", "wait"} /\ thread' \in {"wait", "reap"}
             \/ thread = "dispatch" /\ pending = <<>> /\ thread' = "enter"
      BY <1>1, <1>6 DEF PendInv, SubmitDone, WaitEnds, Interrupted, GoRound, GoReap
    <2>2. QED
      BY <1>1, <2>1, GoStep, PendingHolds
  <1>7. CASE TakeOne
    <2>1. Takes /\ thread' = "reap"
      BY <1>7 DEF Takes, TakeOne
    <2>2. QED
      BY <1>1, <2>1, TakeOneStep, PendingHolds
  <1>8. CASE EnterReturns
    BY <1>8, EnterReturnsStep
  <1>9. CASE Dispatch
    <2>1. Dispatches /\ pending' = pending /\ pending = <<>>
      BY <1>1, <1>9 DEF Dispatches, Dispatch, PendInv
    <2>2. QED
      BY <1>1, <2>1, DispatchStep, PendingHolds
  <1>10. CASE EndTurn
    BY <1>10, EndTurnStep
  <1>11. ASSUME NEW s \in Slots, Acquire(s) \/ Release(s)
         PROVE  ReactorInv'
    BY <1>1, <1>11, HandStep, PendingHolds DEF Acquire, Release
  <1>12. ASSUME NEW slot \in Slots \cup {NilSlot}, Register(slot)
         PROVE  ReactorInv'
    BY <1>1, <1>12, RegisterStep, PendingHolds DEF Register
  <1>13. ASSUME NEW c \in Cookies, Drop(c)
         PROVE  ReactorInv'
    BY <1>1, <1>13, CookiesAre, DropStep
  <1>14. ASSUME NEW n \in 1..MaxOps, KernelAnswers(n)
         PROVE  ReactorInv'
    <2>1. thread' = thread /\ pending' = pending
      BY <1>14 DEF KernelAnswers
    <2>2. QED
      BY <1>1, <1>14, <2>1, KernelAnswersStep, PendingHolds DEF PendInv
  <1>15. CASE UNCHANGED rvars
    BY <1>1, <1>15, NothingStep, PendingHolds DEF PendInv, rvars
  <1>16. QED
    BY <1>2, <1>3, <1>4, <1>5, <1>6, <1>7, <1>8, <1>9, <1>10, <1>11, <1>12, <1>13, <1>14, <1>15
       DEF Next, ThreadStep

\* The reactor's invariant, in every reachable state: an SQE is in one place, and
\* the slab has an entry for it until its completion is dispatched (reactor.rs,
\* slab.rs).
THEOREM ReactorInvariant == Spec => []ReactorInv
  <1>1. Init => ReactorInv
    BY ReactorStarts
  <1>2. ReactorInv /\ [Next]_rvars => ReactorInv'
    BY ReactorSteps
  <1>3. QED
    BY <1>1, <1>2, PTL DEF Spec

-----------------------------------------------------------------------------
(* What follows.                                                           *)

\* A slot has one place, and the kernel's is in the entry of its operation.
LEMMA EachSlotOnce ==
  ASSUME CoreInv
  PROVE  SlotsConserved
  <1>1. /\ \A i \in 1..Len(entries) : entries[i].slot \notin pool \cup hands
        /\ \A i, j \in 1..Len(entries) :
             entries[i].slot = entries[j].slot => i = j \/ entries[i].slot = NilSlot
        /\ pool \cap hands = {}
        /\ \A s \in Slots : s \in pool \cup hands \/ \E i \in 1..Len(entries) : entries[i].slot = s
    BY DEF CoreInv, SlabInv, SlotInv
  <1>2. ASSUME NEW s \in Slots
        PROVE  Cardinality(EntriesHolding(s)) + (IF s \in pool THEN 1 ELSE 0)
                                              + (IF s \in hands THEN 1 ELSE 0) = 1
    <2>1. CASE s \in pool \cup hands
      <3>1. EntriesHolding(s) = {}
        BY <1>1, <2>1 DEF EntriesHolding
      <3>2. Cardinality(EntriesHolding(s)) = 0
        BY <3>1, FS_EmptySet
      <3>3. QED
        BY <1>1, <2>1, <3>2
    <2>2. CASE s \notin pool \cup hands
      <3>1. PICK i \in 1..Len(entries) : entries[i].slot = s
        BY <1>1, <2>2
      <3>2. s # NilSlot
        BY SlotsAssumption
      <3>3. EntriesHolding(s) = {i}
        BY <1>1, <3>1, <3>2 DEF EntriesHolding
      <3>4. Cardinality(EntriesHolding(s)) = 1
        BY <3>3, FS_Singleton
      <3>5. QED
        BY <2>2, <3>4
    <2>3. QED
      BY <2>1, <2>2
  <1>3. KernelKeepsItsSlot
    <2>1. ASSUME NEW n \in owed
          PROVE  \E i \in EntriesHolding(consumed[n].slot) : entries[i].serial = consumed[n].serial
      <3> DEFINE y == consumed[n]
      <3>1. HasIn(entries, y) /\ entries[y.ud.index].slot = y.slot
        BY DEF CoreInv, TokenInv, OutInv, Out
      <3> HIDE DEF y
      <3>2. y.ud.index \in EntriesHolding(y.slot) /\ entries[y.ud.index].serial = y.serial
        BY <3>1 DEF HasIn, EntriesHolding
      <3>3. QED
        BY <3>2 DEF y
    <2>2. QED
      BY <2>1 DEF KernelKeepsItsSlot
  <1>4. QED
    BY <1>2, <1>3 DEF SlotsConserved

\* No slot is lost, none is in two places, and the kernel's are in the entries of
\* the operations it has them for: a future that is dropped takes no buffer from
\* under the kernel (Inner::abandon, BufSlot).
THEOREM ReactorConservesSlots == Spec => []SlotsConserved
  <1>1. ReactorInv => SlotsConserved
    BY EachSlotOnce DEF ReactorInv
  <1>2. QED
    BY <1>1, ReactorInvariant, PTL

\* An operation the kernel has is in the slab.
LEMMA EachHasItsOp ==
  ASSUME CoreInv
  PROVE  EveryCompletionHasItsOp
  <1>1. ASSUME NEW n \in owed \cup Queue
        PROVE  /\ Names(consumed[n].ud)
               /\ entries[consumed[n].ud.index].serial = consumed[n].serial
    BY DEF CoreInv, TokenInv, OutInv, Out, HasIn, Names
  <1>2. thread # "panicked"
    BY DEF CoreInv, TokenInv, TurnInv, Threads
  <1>3. QED
    BY <1>1, <1>2 DEF EveryCompletionHasItsOp, Queue

\* A CANCEL the kernel has is for an operation that was dropped.
LEMMA CookiesAreTheirs ==
  ASSUME CoreInv
  PROVE  CookiesNameTheirOps
  <1>1. ASSUME NEW n \in owed \cup Queue
        PROVE  n \in 1..Len(consumed) /\ HasIn(entries, consumed[n])
    BY DEF CoreInv, TokenInv, OutInv, Out
  <1>2. EveryCompletionHasItsOp
    BY EachHasItsOp
  <1>3. ASSUME NEW n \in owed, NEW m \in owed,
               consumed[n].aim # NoCookie, consumed[m].ud = consumed[n].aim
        PROVE  entries[consumed[m].ud.index].state = "Abandoned"
    <2> DEFINE a == consumed[n].aim
               i == a.index
    <2>1. n \in 1..Len(consumed) /\ HasIn(entries, consumed[m])
      BY <1>1
    <2>2. i \in 1..Len(entries) /\ entries[i].gen = a.gen
      BY <1>3, <2>1 DEF HasIn
    <2>3. entries[i].gen > a.gen \/ entries[i].state = "Abandoned"
      BY <1>3, <2>1 DEF CoreInv, AimInv, AimedIn
    <2>4. entries[i].gen \in Nat
      <3>1. entries[i] \in AnyEntry
        BY <2>2, TypeFacts DEF CoreInv
      <3>2. QED
        BY <3>1 DEF AnyEntry
    <2>5. QED
      BY <1>3, <2>2, <2>3, <2>4
  <1>4. QED
    BY <1>2, <1>3 DEF CookiesNameTheirOps, CancelsOnlyTheDropped

\* A cookie is of the operation it was made for as long as anybody has it: each
\* completion finds its entry, the panic in `dispatch' is not reached, and a
\* CANCEL, early or late, meets no operation but the one that was dropped.
THEOREM ReactorCookiesNameTheirOps == Spec => []CookiesNameTheirOps
  <1>1. ReactorInv => CookiesNameTheirOps
    BY CookiesAreTheirs DEF ReactorInv
  <1>2. QED
    BY <1>1, ReactorInvariant, PTL

\* What ENTER takes has not gone out before: a cookie that went is its operation's
\* still, or is no one's.
LEMMA NewSqeGoesOut ==
  ASSUME CoreInv, SubmittedOnce, Submit
  PROVE  SubmittedOnce'
  <1> DEFINE a == accepted
             x == Chunk[turn.sent + 1]
             k0 == turn.off + (turn.sent + 1)
  <1>1. /\ Types /\ TurnInv /\ BatchInv /\ OrderInv /\ HistInv /\ thread = "submit"
        /\ accepted' = a + 1 /\ consumed' = Append(consumed, x) /\ turn.sent < Len(Chunk)
    BY DEF CoreInv, TokenInv, Submit, Accept
  <1>2. /\ consumed \in Seq(AnySqe) /\ Len(consumed) = a /\ a \in Nat
        /\ turn.off \in Nat /\ turn.sent \in Nat /\ Len(turn.batch) \in Nat
        /\ \A k \in 1..Len(turn.batch) : turn.batch[k] \in AnySqe
        /\ \A k \in 1..a : consumed[k] \in AnySqe
        /\ \A i \in 1..Len(entries) : entries[i] \in AnyEntry
    BY <1>1, TypeFacts DEF Types
  <1>3. Gone = turn.off + turn.sent /\ turn.off <= Len(turn.batch)
    <2>1. Gone = turn.off + turn.sent
      BY <1>1 DEF Gone, Sending
    <2>2. QED
      BY <1>1, <1>2, <2>1 DEF TurnInv
  <1>4. /\ Len(Chunk) \in Nat /\ turn.off + Len(Chunk) <= Len(turn.batch)
        /\ \A j \in 1..Len(Chunk) : Chunk[j] = turn.batch[turn.off + j]
    BY <1>1, <1>3, ChunkIs
  <1>5. turn.sent + 1 \in 1..Len(Chunk)
    <2> DEFINE s == turn.sent
               c == Len(Chunk)
    <2>1. s \in Nat /\ c \in Nat /\ s < c
      BY <1>1, <1>2, <1>4
    <2> HIDE DEF s, c
    <2>2. s + 1 \in 1..c
      BY <2>1
    <2>3. QED
      BY <2>2 DEF s, c
  <1>6. x = turn.batch[k0]
    BY <1>4, <1>5
  <1>7. k0 \in 1..Len(turn.batch) /\ k0 > turn.off /\ k0 > Gone
    <2> DEFINE o == turn.off
               s == turn.sent
               b == Len(turn.batch)
               c == Len(Chunk)
    <2>1. o \in Nat /\ s \in Nat /\ c \in Nat /\ b \in Nat /\ Gone = o + s /\ s + 1 \in 1..c /\ o + c <= b
      BY <1>2, <1>3, <1>4, <1>5
    <2>2. k0 = o + (s + 1)
      OBVIOUS
    <2> HIDE DEF c, o, s, b, k0
    <2>3. k0 \in 1..b /\ k0 > o /\ k0 > Gone
      BY <2>1, <2>2
    <2>4. QED
      BY <2>3 DEF o, b
  <1> HIDE DEF k0
  <1>8. x \in AnySqe /\ HasIn(entries, x)
    BY <1>1, <1>2, <1>6, <1>7 DEF BatchInv, WaitsIn
  <1>9. \A j \in 1..a : consumed[j].serial < x.serial
    BY <1>1, <1>2, <1>6, <1>7 DEF OrderInv
  <1> HIDE DEF x
  <1>10. ASSUME NEW j \in 1..a
         PROVE  consumed[j].ud # x.ud
    <2> DEFINE y == consumed[j]
               i == y.ud.index
    <2> SUFFICES ASSUME y.ud = x.ud PROVE FALSE
      OBVIOUS
    <2>1. i \in 1..Len(entries) /\ (entries[i].gen > y.ud.gen \/ HasIn(entries, y))
      BY <1>1, <1>2 DEF HistInv, WasIn
    <2>2. entries[i].gen = x.ud.gen /\ entries[i].serial = x.serial
      BY <1>8 DEF HasIn
    <2>3. entries[i].gen \in Nat
      BY <1>2, <2>1 DEF AnyEntry
    <2>4. HasIn(entries, y)
      BY <2>1, <2>2, <2>3
    <2>5. y.serial = x.serial
      BY <2>2, <2>4 DEF HasIn
    <2>6. y.serial \in Nat /\ x.serial \in Nat
      BY <1>2, <1>8 DEF AnySqe
    <2>7. QED
      BY <1>9, <2>5, <2>6
  <1>11. /\ consumed'[a + 1] = x
         /\ \A k \in 1..a : consumed'[k] = consumed[k]
         /\ \A k \in 1..(a + 1) : k = a + 1 \/ k \in 1..a
    BY <1>1, <1>2, <1>8
  <1>12. ASSUME NEW m \in 1..accepted', NEW n \in 1..accepted', consumed'[m].ud = consumed'[n].ud
         PROVE  m = n
    <2>1. (m = a + 1 \/ m \in 1..a) /\ (n = a + 1 \/ n \in 1..a)
      BY <1>1, <1>11
    <2>2. CASE m \in 1..a /\ n \in 1..a
      BY <1>11, <1>12, <2>2 DEF SubmittedOnce
    <2>3. CASE m \in 1..a /\ n = a + 1
      BY <1>10, <1>11, <1>12, <2>3
    <2>4. CASE m = a + 1 /\ n \in 1..a
      BY <1>10, <1>11, <1>12, <2>4
    <2>5. QED
      BY <2>1, <2>2, <2>3, <2>4
  <1>13. QED
    BY <1>12 DEF SubmittedOnce

\* Whatever part of a batch an ENTER takes, no SQE is given to the kernel twice
\* (doc/Notes.md on EINTR: what was submitted must not be resubmitted).
THEOREM ReactorSubmitsOnce == Spec => []SubmittedOnce
  <1>1. Init => SubmittedOnce
    BY DEF Init, RingInit, SubmittedOnce
  <1>2. ReactorInv /\ SubmittedOnce /\ [Next]_rvars => SubmittedOnce'
    <2> SUFFICES ASSUME ReactorInv, SubmittedOnce, [Next]_rvars PROVE SubmittedOnce'
      OBVIOUS
    <2>1. CASE UNCHANGED <<accepted, consumed>>
      BY <2>1 DEF SubmittedOnce
    <2>2. CASE Submit
      BY <2>2, NewSqeGoesOut DEF ReactorInv
    <2>3. Submit \/ UNCHANGED <<accepted, consumed>>
      BY DEF Next, ThreadStep, Resolve, BeginTurn, Enter, SubmitDone, WaitEnds, GoReap, TakeOne,
             Take, EnterReturns, Dispatch, GoRound, EndTurn, Interrupted, Acquire, Release,
             Register, Drop, KernelAnswers, Answer, rvars, kernel, ringVars
    <2>4. QED
      BY <2>1, <2>2, <2>3
  <1>3. QED
    BY <1>1, <1>2, ReactorInvariant, PTL DEF Spec

\* The kernel, as the reactor's module has it, keeps the ring's contract: its
\* variables change only as RingContract lets them, and what is proved of the
\* contract holds here.
THEOREM ReactorUsesContract == Spec => RingSpec
  <1>1. Init => RingInit
    BY DEF Init
  <1>2. [Next]_rvars => [RingNext]_ringVars
    BY DEF Next, ThreadStep, Resolve, BeginTurn, Enter, Submit, SubmitDone, WaitEnds, GoReap,
           TakeOne, EnterReturns, Dispatch, GoRound, EndTurn, Interrupted, Acquire, Release,
           Register, Drop, KernelAnswers, rvars, kernel, RingNext
  <1>3. QED
    BY <1>1, <1>2, PTL DEF Spec, RingSpec

\* No operation the reactor submits is answered twice, or never answered and
\* forgotten: the contract's promise, on the ring the reactor uses.
THEOREM ReactorAnsweredOnce == Spec => []OneAnswerEach
  <1>1. RingSpec => []OneAnswerEach
    BY OneAnswerEachHolds
  <1>2. QED
    BY <1>1, ReactorUsesContract, PTL

-----------------------------------------------------------------------------
(* The C++ runtime's reactor, which shares the slab, the program's steps   *)
(* and ENTER with the Rust one.                                            *)

\* A step that what is pending stays through.
LEMMA CppPendingHolds ==
  ASSUME CppInv, CoreInv', Ages, PendingStays, turn'.off = 0,
         thread' = "enter" => turn'.sent = 0 /\ turn'.cq = <<>>,
         thread' = "dispatch" => turn'.batch = <<>>
  PROVE  CppInv'
  BY PendingKept DEF CppInv, CoreInv

\* The destructor of op_awaiter, on an operation the kernel never saw: its SQE,
\* wherever it is pending, names nothing from here on.
LEMMA CppDropQueuedStep ==
  ASSUME CppInv, NEW c, Names(c), CppDropQueued(c), thread = "tasks",
         UNCHANGED <<kernel, turn, thread, hands>>
  PROVE  CppInv'
  <1> DEFINE i == c.index
  <1>1. CoreInv /\ Types /\ SlabInv /\ \A k \in 1..Len(pending) : CppPendsIn(entries, pending[k])
    BY DEF CppInv, CoreInv
  <1>2. Removal(c) /\ UNCHANGED <<pending, serial>> /\ entries[i].state = "Queued"
    BY DEF Removal, CppDropQueued
  <1>3. /\ GivesBack(i) /\ SlabInv' /\ Ages /\ free' \in Seq(Nat)
        /\ pool' \subseteq Slots /\ hands' \subseteq Slots
        /\ entries'[i].gen = entries[i].gen + 1
    BY <1>1, <1>2, RemovalSlab
  <1>4. Types'
    BY <1>1, <1>2, <1>3 DEF Types, kernel, ringVars, Ages
  <1>5. ASSUME NEW y, HasIn(entries, y), y.ud.index # i
        PROVE  /\ y.ud.index \in 1..Len(entries')
               /\ entries'[y.ud.index] = entries[y.ud.index]
    BY <1>3, <1>5 DEF HasIn, GivesBack
  <1>6. ASSUME NEW y \in AnySqe, HasIn(entries, y), entries[y.ud.index].state \in Within
        PROVE  HasIn(entries', y) /\ Alike(entries'[y.ud.index], entries[y.ud.index])
    <2>1. y.ud.index # i
      BY <1>2, <1>6 DEF Within
    <2>2. QED
      BY <1>5, <1>6, <2>1, SameEntry DEF Alike
  <1>7. CoreInv'
    BY <1>1, <1>2, <1>3, <1>4, <1>6, TasksChange
  <1>8. ASSUME NEW k \in 1..Len(pending)
        PROVE  CppPendsIn(entries', pending[k])
    <2> DEFINE x == pending[k]
    <2>1. x \in AnySqe /\ CppPendsIn(entries, x)
      BY <1>1, TypeFacts
    <2> HIDE DEF x, i
    <2>2. CASE x.ud.index \in 1..Len(entries) /\ entries[x.ud.index].gen > x.ud.gen
      BY <1>1, <1>3, <2>1, <2>2, RetiredStays DEF CppPendsIn, x
    <2>3. CASE WaitsIn(entries, x) /\ x.ud.index # i
      <3>1. HasIn(entries, x)
        BY <2>3 DEF WaitsIn
      <3>2. x.ud.index \in 1..Len(entries') /\ entries'[x.ud.index] = entries[x.ud.index]
        BY <1>5, <2>3, <3>1
      <3>3. QED
        BY <2>3, <3>2, SameEntry DEF Alike, CppPendsIn, x
    <2>4. CASE WaitsIn(entries, x) /\ x.ud.index = i
      <3>1. i \in 1..Len(entries) /\ i \in 1..Len(entries') /\ entries[i].gen = x.ud.gen
        BY <1>3, <2>4 DEF WaitsIn, HasIn, GivesBack
      <3>2. x.ud.gen \in Nat
        BY <2>1 DEF AnySqe, Cookie
      <3>3. entries'[i].gen > x.ud.gen
        BY <1>3, <3>1, <3>2
      <3>4. QED
        BY <2>4, <3>1, <3>3 DEF CppPendsIn, x
    <2>5. QED
      BY <2>1, <2>2, <2>3, <2>4 DEF CppPendsIn
  <1>9. QED
    BY <1>2, <1>7, <1>8 DEF CppInv

\* ready_batch: what still has its entry goes out.
LEMMA CppBeginTurnStep ==
  ASSUME CppInv, NEW wait \in BOOLEAN, NEW capped \in BOOLEAN, CppBeginTurn(wait, capped)
  PROVE  CppInv'
  <1> DEFINE A == {sqe \in PendingSqes : Names(sqe.ud)}
  <1>1. /\ CoreInv /\ Types /\ SlabInv /\ FreeInv /\ SlotInv
        /\ \A k \in 1..Len(pending) : CppPendsIn(entries, pending[k])
    BY DEF CppInv, CoreInv, SlabInv
  <1>2. /\ pending' = <<>> /\ thread = "tasks" /\ thread' = "enter"
        /\ turn' = [batch |-> Retained(pending, A), off |-> 0, sent |-> 0, want |-> 0, woke |-> 0,
                    wait |-> wait, capped |-> capped, cq |-> <<>>]
        /\ UNCHANGED <<accepted, owed, queue, consumed, pool, hands, serial, entries, free>>
    BY DEF CppBeginTurn, CppBatch, Idle, kernel, ringVars, program, slab
  <1>3. SlabInv' /\ Ages /\ free' \in Seq(Nat)
    <2>1. FreeInv'
      BY <1>1, <1>2 DEF FreeInv
    <2>2. SlotInv'
      BY <1>1, <1>2 DEF SlotInv
    <2>3. Ages
      BY <1>1, <1>2, SlabKept
    <2>4. QED
      BY <1>1, <1>2, <2>1, <2>2, <2>3 DEF SlabInv, Types
  <1>4. \A y \in AnySqe :
          HasIn(entries, y) /\ entries[y.ud.index].state \in Within =>
            HasIn(entries', y) /\ Alike(entries'[y.ud.index], entries[y.ud.index])
    BY <1>2 DEF HasIn, Alike
  <1>5. ASSUME NEW k \in 1..Len(pending), pending[k] \in A
        PROVE  WaitsIn(entries', pending[k])
    <2> DEFINE x == pending[k]
    <2>1. CppPendsIn(entries, x) /\ Names(x.ud) /\ x \in AnySqe
      BY <1>1, <1>5, TypeFacts
    <2> HIDE DEF x
    <2>2. entries[x.ud.index].gen = x.ud.gen /\ x.ud.gen \in Nat
      BY <2>1 DEF Names, AnySqe, Cookie
    <2>3. WaitsIn(entries, x)
      BY <2>1, <2>2 DEF CppPendsIn
    <2>4. QED
      BY <1>2, <2>3 DEF WaitsIn, HasIn, x
  <1> HIDE DEF A
  <1>6. CoreInv'
    BY <1>1, <1>2, <1>3, <1>4, <1>5, BatchTaken
  <1>7. turn'.off = 0 /\ turn'.sent = 0 /\ turn'.cq = <<>> /\ Len(pending') = 0
    BY <1>2
  <1>8. QED
    BY <1>2, <1>6, <1>7 DEF CppInv

\* ENTER took nothing.
LEMMA CppRefusedStep ==
  ASSUME CppInv, CppRefused
  PROVE  CppInv'
  <1>1. /\ CoreInv /\ Types /\ thread = "enter" /\ turn.cq = <<>> /\ turn.off = 0
        /\ pending' = turn.batch /\ thread' = "tasks" /\ turn' = Idle
        /\ UNCHANGED <<accepted, owed, queue, consumed, entries, free, pool, hands, serial>>
    BY DEF CppInv, CoreInv, CppRefused, kernel, ringVars, slab, program
  <1>2. ~Sending /\ Gone = 0
    BY <1>1 DEF Sending, Gone
  <1>3. Left(turn.batch)
    <2>1. turn.batch \in Seq(AnySqe) /\ Len(turn.batch) \in Nat
      BY <1>1, TypeFacts
    <2>2. Len(turn.batch) = Len(turn.batch) - 0 /\ \A k \in 1..Len(turn.batch) : 0 + k = k
      BY <2>1
    <2>3. QED
      BY <1>2, <2>1, <2>2 DEF Left
  <1>4. CoreInv' /\ \A k \in 1..Len(pending') : WaitsIn(entries', pending'[k])
    BY <1>1, <1>2, <1>3, TurnOver
  <1>5. turn'.off = 0
    BY <1>1 DEF Idle
  <1>6. QED
    BY <1>1, <1>4, <1>5 DEF CppInv, CppPendsIn

\* ENTER comes back: what it left is for the next pump, and what it took is live.
LEMMA CppEnterReturnsStep ==
  ASSUME CppInv, CppEnterReturns
  PROVE  CppInv'
  <1> DEFINE r == SubSeq(turn.batch, turn.sent + 1, Len(turn.batch))
  <1>1. /\ CoreInv /\ Types /\ TurnInv /\ OutInv /\ OnceInv /\ OrderInv /\ AimInv /\ HistInv
        /\ thread = "reap" /\ thread' = "dispatch" /\ turn.off = 0
        /\ entries' = MarkLive(entries) /\ pending' = r
        /\ turn' = [turn EXCEPT !.batch = <<>>, !.sent = 0]
        /\ UNCHANGED <<accepted, owed, queue, consumed, free, pool, hands, serial>>
    BY DEF CppInv, CoreInv, TokenInv, CppEnterReturns, CppLeft, kernel, ringVars, program
  <1>2. /\ SlabInv' /\ Ages
        /\ \A k \in 1..Len(turn.batch) : k > Gone => WaitsIn(entries', turn.batch[k])
        /\ \A n \in Out :
             /\ n \in 1..Len(consumed)
             /\ HasIn(entries', consumed[n])
             /\ entries'[consumed[n].ud.index].slot = consumed[n].slot
             /\ entries'[consumed[n].ud.index].state \in Within
    BY <1>1, MarkLiveSlab
  <1>3. turn \in AnyTurn /\ turn.sent \in Nat /\ consumed \in Seq(AnySqe)
    BY <1>1, TypeFacts DEF Types
  <1>4. Gone = turn.sent
    BY <1>1, <1>3 DEF Gone, Sending
  <1>5. Left(r)
    BY <1>1, <1>4, SubSeqLeft
  <1>6. /\ r \in Seq(AnySqe)
        /\ \A k \in 1..Len(r) :
             /\ Gone + k \in 1..Len(turn.batch) /\ Gone + k > Gone /\ r[k] = turn.batch[Gone + k]
             /\ AimedIn(entries, r[k]) /\ r[k].serial <= serial
        /\ Rising(r)
        /\ \A j \in 1..Len(consumed), k \in 1..Len(r) : consumed[j].serial < r[k].serial
    BY <1>1, <1>5, LeftIs DEF Left
  <1> HIDE DEF r
  <1>7. \A k \in 1..Len(r) : WaitsIn(entries', r[k])
    BY <1>2, <1>6
  <1>8. /\ turn' \in AnyTurn /\ turn'.off = 0 /\ turn'.batch = <<>> /\ turn'.sent = 0
        /\ turn'.cq = turn.cq
    <2>1. <<>> \in Seq(AnySqe)
      OBVIOUS
    <2>2. QED
      BY <1>1, <1>3, <2>1 DEF AnyTurn
  <1>9. Types'
    BY <1>1, <1>2, <1>6, <1>8 DEF Types, Ages
  <1>10. ~Sending' /\ Gone' = 0 /\ Len(turn'.batch) = 0
    BY <1>1, <1>8 DEF Sending, Gone
  <1>11. TurnInv'
    BY <1>1, <1>8, <1>10 DEF TurnInv, Threads
  <1>12. BatchInv'
    BY <1>10 DEF BatchInv
  <1>13. OutInv' /\ OnceInv'
    <2>1. Out' = Out
      BY <1>1, <1>8 DEF Out, Queue, Taken
    <2>2. OutInv'
      BY <1>1, <1>2, <2>1 DEF OutInv, Within
    <2>3. QED
      BY <1>1, <1>8, <2>2, OnceKept
  <1>14. OrderInv'
    <2>1. Rising(consumed) /\ \A j \in 1..Len(consumed) : consumed[j].serial <= serial
      BY <1>1 DEF OrderInv
    <2>2. QED
      BY <1>1, <1>6, <1>10, <2>1 DEF OrderInv, Rising
  <1>15. AimInv' /\ HistInv'
    <2>1. /\ \A n \in 1..Len(consumed) : AimedIn(entries', consumed[n])
          /\ \A n \in 1..Len(consumed) : WasIn(entries', consumed[n])
          /\ \A n \in 1..Len(r) : AimedIn(entries', r[n])
      BY <1>1, <1>2, <1>3, <1>6, OldTokens DEF AimInv, HistInv
    <2>2. QED
      BY <1>1, <1>10, <2>1 DEF AimInv, HistInv
  <1>16. QED
    BY <1>1, <1>2, <1>7, <1>8, <1>9, <1>11, <1>12, <1>13, <1>14, <1>15
       DEF CppInv, CppPendsIn, CoreInv, TokenInv

\* The steps within the C++ pump.
LEMMA CppPumpSteps ==
  ASSUME CppInv,
         \/ CppEnter \/ Submit \/ SubmitDone \/ WaitEnds \/ CppTakeOne \/ CppDispatch \/ CppEndTurn
  PROVE  CppInv'
  <1>1. CoreInv /\ Types /\ TurnInv /\ turn.off = 0 /\ turn \in AnyTurn
    BY DEF CppInv, CoreInv, TokenInv, Types
  <1>2. CASE CppEnter
    <2>1. /\ thread = "enter" /\ thread' = "submit"
          /\ UNCHANGED <<kernel, slab, pending, program, serial>>
          /\ turn.sent = 0 /\ turn.cq = <<>>
          /\ turn' = [turn EXCEPT !.want = IF turn.wait THEN 1 ELSE 0]
      BY <1>2 DEF CppInv, CppEnter
    <2>2. /\ turn' \in AnyTurn /\ turn'.sent = 0 /\ turn'.cq = <<>>
          /\ turn'.batch = turn.batch /\ turn'.off = turn.off
      <3> DEFINE w == IF turn.wait THEN 1 ELSE 0
      <3>1. turn' = [turn EXCEPT !.want = w] /\ w \in Nat
        BY <2>1
      <3> HIDE DEF w
      <3>2. QED
        BY <1>1, <2>1, <3>1 DEF AnyTurn
    <2>3. QED
      BY <1>1, <2>1, <2>2, EnterStep, CppPendingHolds
  <1>3. CASE Submit
    BY <1>1, <1>3, SubmitStep, CppPendingHolds
  <1>4. CASE SubmitDone \/ WaitEnds
    <2>1. /\ UNCHANGED <<kernel, slab, pending, program, serial, turn>>
          /\ thread \in {"submit", "wait"} /\ thread' \in {"wait", "reap"}
      BY <1>4 DEF SubmitDone, WaitEnds, GoReap
    <2>2. QED
      BY <1>1, <2>1, GoStep, CppPendingHolds
  <1>5. CASE CppTakeOne
    <2>1. Takes /\ thread' = "reap"
      BY <1>1, <1>5 DEF Takes, CppTakeOne, TurnInv, Threads
    <2>2. QED
      BY <1>1, <2>1, TakeOneStep, CppPendingHolds
  <1>6. CASE CppDispatch
    <2>1. Dispatches /\ turn.batch = <<>>
      BY <1>6 DEF CppInv, Dispatches, CppDispatch
    <2>2. QED
      BY <1>1, <2>1, DispatchStep, CppPendingHolds
  <1>7. CASE CppEndTurn
    <2>1. /\ thread = "dispatch" /\ thread' = "tasks" /\ turn' = Idle
          /\ turn.cq = <<>> /\ turn.batch = <<>>
          /\ UNCHANGED <<slab, pool, hands, serial, accepted, owed, queue, consumed, pending,
                         entries, free>>
      BY <1>7 DEF CppInv, CppEndTurn, kernel, ringVars, slab, program
    <2>2. /\ turn' \in AnyTurn /\ turn'.batch = <<>> /\ turn'.off = 0 /\ turn'.cq = <<>>
      BY <2>1 DEF Idle, AnyTurn
    <2>3. ~Sending /\ ~Sending' /\ Gone' = Gone /\ Gone' = 0
      BY <1>1, <2>1, <2>2 DEF Sending, Gone
    <2>4. Types'
      BY <1>1, <2>1, <2>2 DEF Types
    <2>5. TurnInv'
      BY <2>1, <2>2, <2>3 DEF TurnInv, Threads
    <2>6. OnceInv' /\ Out' = Out
      BY <1>1, <2>1, <2>2, OnceKept DEF CoreInv, TokenInv, Out, Queue, Taken
    <2>7. CoreInv' /\ Ages /\ PendingStays
      BY <1>1, <2>1, <2>2, <2>3, <2>4, <2>5, <2>6, StillStep
    <2>8. QED
      BY <2>1, <2>2, <2>7, CppPendingHolds
  <1>8. QED
    BY <1>2, <1>3, <1>4, <1>5, <1>6, <1>7

\* Every step keeps the C++ reactor's invariant.
LEMMA CppSteps ==
  ASSUME CppInv, [CppNext]_rvars
  PROVE  CppInv'
  <1>1. CoreInv /\ Types /\ turn.off = 0
    BY DEF CppInv, CoreInv
  <1>2. ASSUME NEW s \in Slots, Acquire(s) \/ Release(s)
        PROVE  CppInv'
    <2>1. thread' = "tasks" /\ turn' = turn
      BY <1>2 DEF Acquire, Release
    <2>2. QED
      BY <1>1, <1>2, <2>1, HandStep, CppPendingHolds
  <1>3. ASSUME NEW slot \in Slots \cup {NilSlot}, Register(slot)
        PROVE  CppInv'
    <2>1. thread' = "tasks" /\ turn' = turn
      BY <1>3 DEF Register
    <2>2. QED
      BY <1>1, <1>3, <2>1, RegisterStep, CppPendingHolds
  <1>4. ASSUME NEW c \in Cookies, Resolve(c)
        PROVE  CppInv'
    <2>1. thread' = "tasks" /\ turn' = turn
      BY <1>4 DEF Resolve
    <2>2. QED
      BY <1>1, <1>4, <2>1, ResolveStep, CppPendingHolds
  <1>5. ASSUME NEW c \in Cookies, CppDrop(c)
        PROVE  CppInv'
    <2>1. thread = "tasks" /\ Names(c) /\ UNCHANGED <<kernel, hands, thread, turn>>
      BY <1>5 DEF CppDrop
    <2>2. CASE CppDropQueued(c)
      BY <2>1, <2>2, CppDropQueuedStep
    <2>3. CASE DropLive(c)
      <3>1. c \in Cookie
        BY <1>1, CookiesAre
      <3>2. CoreInv' /\ Ages /\ PendingStays
        BY <1>1, <2>1, <2>3, <3>1, DropLiveStep
      <3>3. QED
        BY <1>1, <2>1, <3>2, CppPendingHolds
    <2>4. QED
      BY <1>5, <2>2, <2>3 DEF CppDrop
  <1>6. ASSUME NEW wait \in BOOLEAN, NEW capped \in BOOLEAN, CppBeginTurn(wait, capped)
        PROVE  CppInv'
    BY <1>6, CppBeginTurnStep
  <1>7. CASE CppRefused
    BY <1>7, CppRefusedStep
  <1>8. CASE \/ CppEnter \/ Submit \/ SubmitDone \/ WaitEnds \/ CppTakeOne
             \/ CppDispatch \/ CppEndTurn
    BY <1>8, CppPumpSteps
  <1>9. CASE CppEnterReturns
    BY <1>9, CppEnterReturnsStep
  <1>10. ASSUME NEW n \in 1..MaxOps, KernelAnswers(n)
         PROVE  CppInv'
    <2>1. thread' = thread /\ turn' = turn
      BY <1>10 DEF KernelAnswers
    <2>2. CoreInv' /\ Ages /\ PendingStays
      BY <1>1, <1>10, KernelAnswersStep
    <2>3. QED
      BY <1>1, <2>1, <2>2, CppPendingHolds DEF CppInv
  <1>11. CASE UNCHANGED rvars
    <2>1. thread' = thread /\ turn' = turn
      BY <1>11 DEF rvars
    <2>2. CoreInv' /\ Ages /\ PendingStays
      BY <1>1, <1>11, NothingStep
    <2>3. QED
      BY <1>1, <2>1, <2>2, CppPendingHolds DEF CppInv
  <1>12. QED
    BY <1>2, <1>3, <1>4, <1>5, <1>6, <1>7, <1>8, <1>9, <1>10, <1>11 DEF CppNext

\* The C++ reactor's invariant, in every state of a process without signals
\* (reactor.cpp, exec.cpp).
THEOREM CppReactorInvariant == CppSpec => []CppInv
  <1>1. Init => CppInv
    <2> SUFFICES ASSUME Init PROVE CppInv
      OBVIOUS
    <2>1. ReactorInv /\ thread = "tasks" /\ pending = <<>> /\ turn = Idle
      BY ReactorStarts DEF Init
    <2>2. turn.off = 0 /\ Len(pending) = 0
      BY <2>1 DEF Idle
    <2>3. QED
      BY <2>1, <2>2 DEF ReactorInv, CppInv
  <1>2. CppInv /\ [CppNext]_rvars => CppInv'
    BY CppSteps
  <1>3. QED
    BY <1>1, <1>2, PTL DEF CppSpec

\* Whatever part of a batch an ENTER takes, and whatever is destroyed between,
\* no SQE goes to the kernel twice, and each completion finds the operation it
\* is for (reactor.cpp's pump and its dispatch).
THEOREM CppReactorOnceAndItsOwn == CppSpec => []OnceAndItsOwn
  <1>1. Init => SubmittedOnce
    BY DEF Init, RingInit, SubmittedOnce
  <1>2. CppInv /\ SubmittedOnce /\ [CppNext]_rvars => SubmittedOnce'
    <2> SUFFICES ASSUME CppInv, SubmittedOnce, [CppNext]_rvars PROVE SubmittedOnce'
      OBVIOUS
    <2>1. CASE UNCHANGED <<accepted, consumed>>
      BY <2>1 DEF SubmittedOnce
    <2>2. CASE Submit
      BY <2>2, NewSqeGoesOut DEF CppInv
    <2>3. Submit \/ UNCHANGED <<accepted, consumed>>
      BY DEF CppNext, Resolve, CppDrop, CppBeginTurn, CppRefused, CppEnter, SubmitDone, WaitEnds,
             GoReap, CppTakeOne, Take, CppEnterReturns, CppDispatch, CppEndTurn, Acquire, Release,
             Register, KernelAnswers, Answer, rvars, kernel, ringVars
    <2>4. QED
      BY <2>1, <2>2, <2>3
  <1>3. CppInv => EveryCompletionHasItsOp
    BY EachHasItsOp DEF CppInv
  <1>4. QED
    BY <1>1, <1>2, <1>3, CppReactorInvariant, PTL DEF CppSpec, OnceAndItsOwn

\* No slot is lost or in two places in the C++ runtime either, and a frame that
\* is destroyed takes no buffer from under the kernel (op_awaiter's destructor,
\* Reactor::abandon).
THEOREM CppReactorConservesSlots == CppSpec => []SlotsConserved
  <1>1. CppInv => SlotsConserved
    BY EachSlotOnce DEF CppInv
  <1>2. QED
    BY <1>1, CppReactorInvariant, PTL

\* A CANCEL of the C++ runtime, early or late, meets no operation but the one
\* that was dropped (Reactor::abandon).
THEOREM CppReactorCookiesNameTheirOps == CppSpec => []CookiesNameTheirOps
  <1>1. CppInv => CookiesNameTheirOps
    BY CookiesAreTheirs DEF CppInv
  <1>2. QED
    BY <1>1, CppReactorInvariant, PTL

\* The C++ reactor uses the kernel as the contract says, like the Rust one
\* (Ring::enter).
THEOREM CppReactorUsesContract == CppSpec => RingSpec
  <1>1. Init => RingInit
    BY DEF Init
  <1>2. [CppNext]_rvars => [RingNext]_ringVars
    BY DEF CppNext, Resolve, CppDrop, CppBeginTurn, CppRefused, CppEnter, Submit, SubmitDone, WaitEnds,
           GoReap, CppTakeOne, CppEnterReturns, CppDispatch, CppEndTurn, Acquire, Release,
           Register, KernelAnswers, rvars, kernel, RingNext
  <1>3. QED
    BY <1>1, <1>2, PTL DEF CppSpec, RingSpec

-----------------------------------------------------------------------------
(* What the library's calls leave open.  The steps that a call has still to *)
(* make are known one after the other (GoesOn): an open is followed by what *)
(* uses it and closes it, a step that wants nothing open (Loose) only by    *)
(* what closes, or opens for itself.  So whatever steps are put in place of *)
(* one, nothing is open when they are done (Block), and at each step the    *)
(* call has open what the step is for (Hands).  When a call fails, closes   *)
(* come first, one for each (Closes).                                       *)

IsList(t) == \E A : t \in Seq(A)

\* Steps that want nothing open, and those that have an open before them.
Loose == {"opendir", "open_src", "listed", "remove_entries", "copy_entries", "rmdir",
         "mkdir_some", "mkdir_over", "readlink_kind", "readlink_copy", "stat_kind",
         "symlink_over", "symlink", "return"} \cup Unlinks
Tied == {"readdir", "closedir", "stat_fd", "open_dst", "read", "write", "read_all", "keep"}
AfterStat == {"open_dst", "read_all", "keep"}

\* What a step has after it.
GoesOn(t, i) ==
  /\ t[i].do \in Loose \cup Tied \cup {"close"}
  /\ t[i].do = "opendir" => i + 1 <= Len(t) /\ t[i + 1].do = "readdir"
  /\ t[i].do = "readdir" => i + 1 <= Len(t) /\ t[i + 1].do = "closedir"
  /\ t[i].do = "open_src" => i + 2 <= Len(t) /\ t[i + 1].do = "stat_fd" /\ t[i + 2].do \in AfterStat
  /\ t[i].do = "stat_fd" => i + 1 <= Len(t) /\ t[i + 1].do \in AfterStat \cup {"read"}
  /\ t[i].do = "open_dst" => i + 2 <= Len(t) /\ t[i + 1].do = "stat_fd" /\ t[i + 2].do = "read"
  /\ t[i].do = "write" => i + 1 <= Len(t) /\ t[i + 1].do = "read"
  /\ t[i].do = "keep" => i + 1 <= Len(t) /\ t[i + 1].do = "return"
  /\ i < Len(t) /\ t[i].do \in (Loose \ {"opendir", "open_src"}) \cup {"closedir", "read", "read_all"}
       => t[i + 1].do \in Loose
  /\ i < Len(t) /\ t[i].do = "close" => t[i + 1].do \in Loose \cup {"close"}

Steps(t) == IsList(t) /\ \A i \in 1..Len(t) : GoesOn(t, i)

\* Steps that open what they need and close it.
Block(t) ==
  /\ Steps(t)
  /\ \A i \in 1..Len(t) : t[i].do # "close"
  /\ t # <<>> => t[1].do \in Loose

CallIs ==
  /\ call = [req |-> call.req, todo |-> call.todo, fds |-> call.fds, res |-> call.res,
             names |-> call.names, at |-> call.at, slot |-> call.slot, got |-> call.got]
  /\ Steps(call.todo) /\ IsList(call.names) /\ call.fds \in Seq(Nat)
  /\ \A i, j \in 1..Len(call.fds) : call.fds[i] = call.fds[j] => i = j

\* The closes there are come first, each of a handle of its own.
Closes ==
  /\ \A i \in 1..Len(call.todo) :
       call.todo[i].do = "close" => /\ call.todo[i].p[1] \in Nat
                                    /\ \A j \in 1..i : call.todo[j].do = "close"
  /\ \A i, j \in 1..Len(call.todo) :
       /\ call.todo[i].do = "close" /\ call.todo[j].do = "close"
       /\ call.todo[i].p[1] = call.todo[j].p[1]
       => i = j

\* What the call has open, at each of its steps.
Hands ==
  ~AtRest =>
    LET do == call.todo[1].do
        k == Len(call.fds)
        known(i) == call.fds[i] \in DOMAIN pos
    IN /\ do \in Loose => call.fds = <<>> \/ do = "return"
       /\ do = "close" => \/ call.fds = <<>>
                          \/ \A i \in 1..Len(call.todo) : call.todo[i].do \in {"close", "return"}
       /\ do \in {"readdir", "closedir"} => k = 1 /\ ~known(1)
       /\ do = "stat_fd" /\ call.todo[2].do # "read" => k = 1 /\ ~known(1)
       /\ do \in AfterStat => k = 1 /\ known(1)
       /\ do = "stat_fd" /\ call.todo[2].do = "read" => k = 2 /\ known(1) /\ ~known(2)
       /\ do \in {"read", "write"} => k = 2 /\ known(1) /\ known(2)

ToClose(t) == {t[i].p[1] : i \in {j \in 1..Len(t) : t[j].do = "close"}}
Mine ==
  IF AtRest \/ call.todo[1].do \in Loose THEN {}
  ELSE IF call.todo[1].do = "close" THEN ToClose(call.todo) ELSE ToSet(call.fds)

Uses(s, h) == Cardinality({i \in 1..Len(s) : s[i] = h})

\* The kernel's handles are the program's and the call's.
Handles(mine) ==
  /\ next \in Nat /\ held \in Seq(Nat)
  /\ DOMAIN open = ToSet(held) \cup mine /\ mine \cap ToSet(held) = {}
  /\ \A h \in DOMAIN open : h \in Nat /\ h < next
  /\ ToSet(held) \subseteq DOMAIN pos /\ DOMAIN pos \subseteq DOMAIN open
  /\ \A h \in DOMAIN pos :
       /\ pos[h] = [seekable |-> pos[h].seekable, off |-> pos[h].off, refs |-> pos[h].refs]
       /\ pos[h].refs = IF h \in mine THEN 1 ELSE Uses(held, h)

ScriptIs == script \in Seq([op : STRING, p : Seq(Nat), q : Seq(Nat)])

TreeInv == CallIs /\ Closes /\ Hands /\ Handles(Mine) /\ ScriptIs

-----------------------------------------------------------------------------
(* Lists of steps.                                                          *)

LEMMA ListIs ==
  ASSUME NEW t, IsList(t)
  PROVE  /\ Len(t) \in Nat /\ DOMAIN t = 1..Len(t) /\ (t = <<>> <=> Len(t) = 0)
         /\ t # <<>> => /\ Head(t) = t[1] /\ IsList(Tail(t)) /\ Len(Tail(t)) = Len(t) - 1
                        /\ \A i \in 1..(Len(t) - 1) : Tail(t)[i] = t[i + 1]
  <1>1. PICK A : t \in Seq(A)
    BY DEF IsList
  <1>2. Len(t) \in Nat /\ DOMAIN t = 1..Len(t) /\ (t = <<>> <=> Len(t) = 0)
    BY <1>1
  <1>3. ASSUME t # <<>>
        PROVE  /\ Head(t) = t[1] /\ Tail(t) \in Seq(A) /\ Len(Tail(t)) = Len(t) - 1
               /\ \A i \in 1..(Len(t) - 1) : Tail(t)[i] = t[i + 1]
    BY <1>1, <1>3
  <1>4. QED
    BY <1>2, <1>3 DEF IsList

LEMMA JoinIs ==
  ASSUME NEW s, IsList(s), NEW t, IsList(t)
  PROVE  /\ IsList(s \o t) /\ Len(s \o t) = Len(s) + Len(t)
         /\ \A i \in 1..Len(s) : (s \o t)[i] = s[i]
         /\ \A i \in 1..Len(t) : (s \o t)[Len(s) + i] = t[i]
         /\ (s = <<>> => s \o t = t) /\ (t = <<>> => s \o t = s)
  <1>1. PICK A : s \in Seq(A)
    BY DEF IsList
  <1>2. PICK C : t \in Seq(C)
    BY DEF IsList
  <1> DEFINE U == A \cup C
  <1>3. s \in Seq(U) /\ t \in Seq(U)
    BY <1>1, <1>2
  <1> HIDE DEF U
  <1>4. /\ s \o t \in Seq(U) /\ Len(s \o t) = Len(s) + Len(t)
        /\ \A i \in 1..Len(s) : (s \o t)[i] = s[i]
        /\ \A i \in 1..Len(t) : (s \o t)[Len(s) + i] = t[i]
        /\ (s = <<>> => s \o t = t) /\ (t = <<>> => s \o t = s)
    BY <1>3
  <1>5. QED
    BY <1>4 DEF IsList

\* What follows a step that leaves nothing open opens what it needs.
NoClose(t) == \A i \in 1..Len(t) : t[i].do # "close"
Last1 == (Loose \ {"opendir", "open_src"}) \cup {"closedir", "read", "read_all"}

LEMMA StepsTail ==
  ASSUME NEW t, Steps(t), t # <<>>
  PROVE  /\ Steps(Tail(t))
         /\ NoClose(t) => NoClose(Tail(t))
         /\ NoClose(t) /\ t[1].do \in Last1 => Block(Tail(t))
  <1> DEFINE u == Tail(t)
             n == Len(t)
  <1>0. IsList(t)
    BY DEF Steps
  <1>10. /\ n \in Nat /\ n # 0 /\ IsList(u) /\ Len(u) = n - 1
         /\ \A i \in 1..(n - 1) : u[i] = t[i + 1]
    BY <1>0, ListIs
  <1>11. u = <<>> <=> Len(u) = 0
    BY <1>10, ListIs
  <1>1. /\ n \in Nat \ {0} /\ IsList(u) /\ Len(u) = n - 1
        /\ \A i \in 1..(n - 1) : u[i] = t[i + 1]
        /\ (u = <<>> <=> Len(u) = 0)
    BY <1>10, <1>11
  <1>2. \A i \in 1..n : GoesOn(t, i)
    BY DEF Steps
  <1> HIDE DEF u
  <1>3. ASSUME NEW i \in 1..Len(u)
        PROVE  GoesOn(u, i)
    <2>1. i \in Nat /\ i + 1 \in 1..n /\ u[i] = t[i + 1] /\ Len(u) = n - 1
      BY <1>1
    <2>2. i + 1 <= Len(u) => u[i + 1] = t[(i + 1) + 1]
      BY <1>1, <2>1
    <2>3. i + 2 <= Len(u) => u[i + 2] = t[(i + 1) + 2]
      BY <1>1, <2>1
    <2>4. GoesOn(t, i + 1)
      BY <1>2, <2>1
    <2>5. \A x \in {i, 1, 2} : x \in Nat
      BY <2>1
    <2>6. (i + 1) + 1 <= Len(t) <=> i + 1 <= Len(u)
      BY <1>1, <2>1
    <2>7. (i + 1) + 2 <= Len(t) <=> i + 2 <= Len(u)
      BY <1>1, <2>1
    <2>8. i + 1 < Len(t) <=> i < Len(u)
      BY <1>1, <2>1
    <2>9. i < Len(u) => i + 1 <= Len(u)
      BY <1>1, <2>1
    <2>10. i + 2 <= Len(u) => i + 1 <= Len(u)
      BY <1>1, <2>1
    <2>11. QED
      BY <2>1, <2>2, <2>3, <2>4, <2>6, <2>7, <2>8, <2>9, <2>10, Zenon DEF GoesOn
  <1>4. Steps(u)
    BY <1>1, <1>3 DEF Steps
  <1>5. ASSUME NoClose(t)
        PROVE  NoClose(u)
    <2>1. \A i \in 1..Len(u) : i + 1 \in 1..n /\ u[i] = t[i + 1]
      BY <1>1
    <2>2. QED
      BY <1>5, <2>1 DEF NoClose
  <1>6. ASSUME t[1].do \in Last1, u # <<>>
        PROVE  u[1].do \in Loose
    <2>1. 1 < n /\ u[1] = t[1 + 1] /\ 1 \in 1..n
      BY <1>1, <1>6
    <2>2. QED
      BY <1>2, <1>6, <2>1 DEF GoesOn, Last1
  <1>7. QED
    BY <1>4, <1>5, <1>6 DEF Block, NoClose, u

LEMMA BlockJoins ==
  ASSUME NEW s, Block(s), NEW t, Steps(t), t # <<>> => t[1].do \in Loose
  PROVE  /\ Steps(s \o t)
         /\ s \o t # <<>> => (s \o t)[1].do \in Loose
         /\ NoClose(t) => Block(s \o t)
         /\ t # <<>> => s \o t # <<>>
  <1> DEFINE u == s \o t
             m == Len(s)
             n == Len(t)
  <1>0. IsList(s) /\ IsList(t)
    BY DEF Block, Steps
  <1>10. m \in Nat /\ n \in Nat /\ (s = <<>> <=> m = 0) /\ (t = <<>> <=> n = 0)
    BY <1>0, ListIs
  <1>11. /\ IsList(u) /\ Len(u) = m + n
         /\ \A i \in 1..m : u[i] = s[i]
         /\ \A i \in 1..n : u[m + i] = t[i]
    BY <1>0, JoinIs
  <1>12. u = <<>> <=> Len(u) = 0
    BY <1>11, ListIs
  <1>1. /\ m \in Nat /\ n \in Nat /\ IsList(u) /\ Len(u) = m + n
        /\ \A i \in 1..m : u[i] = s[i]
        /\ \A i \in 1..n : u[m + i] = t[i]
        /\ (s = <<>> <=> m = 0) /\ (t = <<>> <=> n = 0) /\ (u = <<>> <=> Len(u) = 0)
    BY <1>10, <1>11, <1>12
  <1>2. /\ \A i \in 1..m : GoesOn(s, i) /\ s[i].do # "close"
        /\ \A i \in 1..n : GoesOn(t, i)
        /\ s # <<>> => s[1].do \in Loose
    BY DEF Block, Steps
  <1> HIDE DEF u
  <1>3. ASSUME NEW i \in 1..Len(u)
        PROVE  GoesOn(u, i) /\ (NoClose(t) => u[i].do # "close")
    <2>1. CASE i \in 1..m
      <3>1. i \in Nat /\ u[i] = s[i] /\ GoesOn(s, i) /\ s[i].do # "close"
        BY <1>1, <1>2, <2>1
      <3>2. i + 1 <= m => u[i + 1] = s[i + 1] /\ i + 1 <= Len(u)
        BY <1>1, <3>1
      <3>3. i + 2 <= m => u[i + 2] = s[i + 2] /\ i + 2 <= Len(u)
        BY <1>1, <3>1
      <3>4. i < Len(u) => i < m \/ (i = m /\ u[i + 1].do \in Loose)
        <4>1. ASSUME i < Len(u), i = m
              PROVE  u[i + 1].do \in Loose
          <5>1. n # 0 /\ t # <<>> /\ 1 \in 1..n
            BY <1>1, <4>1
          <5>2. u[m + 1] = t[1]
            BY <1>1, <5>1
          <5>3. QED
            BY <4>1, <5>1, <5>2
        <4>2. QED
          BY <1>1, <2>1, <4>1
      <3>5. i < m => i + 1 <= m
        BY <1>1, <3>1
      <3>6. i + 2 <= m => i + 1 <= m
        BY <1>1, <3>1
      <3>7. QED
        BY <3>1, <3>2, <3>3, <3>4, <3>5, <3>6, Zenon DEF GoesOn
    <2>2. CASE i \notin 1..m
      <3> DEFINE j == i - m
      <3>1. j \in 1..n /\ j \in Nat /\ i = m + j
        BY <1>1, <2>2
      <3> HIDE DEF j
      <3>2. u[i] = t[j] /\ GoesOn(t, j)
        BY <1>1, <1>2, <3>1
      <3>3. j + 1 <= n => u[i + 1] = t[j + 1] /\ i + 1 <= Len(u)
        <4>1. ASSUME j + 1 <= n PROVE u[m + (j + 1)] = t[j + 1] /\ m + (j + 1) = i + 1
          BY <1>1, <3>1, <4>1
        <4>2. QED
          BY <1>1, <3>1, <4>1
      <3>4. j + 2 <= n => u[i + 2] = t[j + 2] /\ i + 2 <= Len(u)
        <4>1. ASSUME j + 2 <= n PROVE u[m + (j + 2)] = t[j + 2] /\ m + (j + 2) = i + 2
          BY <1>1, <3>1, <4>1
        <4>2. QED
          BY <1>1, <3>1, <4>1
      <3>5. (i < Len(u) <=> j < n) /\ (j < n => j + 1 <= n) /\ (j + 2 <= n => j + 1 <= n)
        BY <1>1, <3>1
      <3>6. NoClose(t) => t[j].do # "close"
        BY <3>1 DEF NoClose
      <3>7. QED
        BY <3>2, <3>3, <3>4, <3>5, <3>6, Zenon DEF GoesOn
    <2>3. QED
      BY <2>1, <2>2
  <1>4. ASSUME u # <<>>
        PROVE  u[1].do \in Loose
    <2>1. CASE m = 0
      BY <1>1, <1>4, <2>1
    <2>2. CASE m # 0
      BY <1>1, <1>2, <2>2
    <2>3. QED
      BY <2>1, <2>2
  <1>5. t # <<>> => u # <<>>
    BY <1>1
  <1>6. QED
    BY <1>1, <1>3, <1>4, <1>5 DEF Block, Steps, u

LEMMA EmptyBlock == Block(<<>>) /\ NoClose(<<>>)
  <1>1. <<>> \in Seq({}) /\ Len(<<>>) = 0
    OBVIOUS
  <1>2. QED
    BY <1>1 DEF Block, Steps, IsList, NoClose

\* The lists that FlattenSeq joins.
Joined(f, n, g) == g = [i \in 1..n |-> IF i = 1 THEN f[i] ELSE g[i - 1] \o f[i]]

LEMMA JoinedExists ==
  ASSUME NEW f, NEW n \in Nat
  PROVE  \E g : Joined(f, n, g)
  <1> DEFINE Good == {m \in Nat : \E g : Joined(f, m, g)}
  <1>1. 0 \in Good
    <2>1. Joined(f, 0, [i \in 1..0 |-> f[i]])
      BY DEF Joined
    <2>2. QED
      BY <2>1
  <1>2. ASSUME NEW m \in Good
        PROVE  m + 1 \in Good
    <2>1. PICK g : Joined(f, m, g)
      OBVIOUS
    <2>2. m \in Nat
      OBVIOUS
    <2> DEFINE h == [i \in 1..(m + 1) |-> IF i = m + 1 THEN IF m = 0 THEN f[1] ELSE g[m] \o f[m + 1]
                                         ELSE g[i]]
    <2>3. h = [i \in 1..(m + 1) |-> h[i]]
      OBVIOUS
    <2>4. \A i \in 1..m : i \in 1..(m + 1) /\ i # m + 1 /\ h[i] = g[i]
      BY <2>2
    <2>5. h[m + 1] = IF m = 0 THEN f[1] ELSE g[m] \o f[m + 1]
      BY <2>2
    <2>6. \A i \in 1..m : g[i] = IF i = 1 THEN f[i] ELSE g[i - 1] \o f[i]
      BY <2>1 DEF Joined
    <2> HIDE DEF h, Good
    <2>7. ASSUME NEW i \in 1..(m + 1)
          PROVE  h[i] = IF i = 1 THEN f[i] ELSE h[i - 1] \o f[i]
      <3>1. CASE i = m + 1 /\ m = 0
        BY <2>5, <3>1
      <3>2. CASE i = m + 1 /\ m # 0
        <4>1. i - 1 = m /\ m \in 1..m /\ i # 1
          BY <2>2, <3>2
        <4>2. h[m] = g[m] /\ h[i] = g[m] \o f[m + 1]
          BY <2>4, <2>5, <3>2, <4>1
        <4>3. QED
          BY <3>2, <4>1, <4>2
      <3>3. CASE i # m + 1
        <4>1. i \in 1..m
          BY <2>2, <3>3
        <4>2. i # 1 => i - 1 \in 1..m
          BY <2>2, <4>1
        <4>3. h[i] = g[i] /\ (i # 1 => h[i - 1] = g[i - 1])
          BY <2>4, <4>1, <4>2
        <4>4. QED
          BY <2>6, <4>1, <4>3
      <3>4. QED
        BY <3>1, <3>2, <3>3
    <2>8. Joined(f, m + 1, h)
      <3>1. [i \in 1..(m + 1) |-> h[i]] = [i \in 1..(m + 1) |-> IF i = 1 THEN f[i] ELSE h[i - 1] \o f[i]]
        BY <2>7
      <3>2. QED
        BY <2>3, <3>1, Zenon DEF Joined
    <2>9. m + 1 \in Nat
      BY <2>2
    <2>10. QED
      BY <2>8, <2>9 DEF Good
  <1>3. Good \subseteq Nat
    OBVIOUS
  <1> HIDE DEF Good
  <1>4. Good = Nat
    BY <1>1, <1>2, <1>3, NatSetInduction
  <1>5. QED
    BY <1>4 DEF Good

LEMMA FlatIsBlock ==
  ASSUME NEW n \in Nat, NEW f, f = [i \in 1..n |-> f[i]], \A i \in 1..n : Block(f[i])
  PROVE  Block(FlattenSeq(f))
  <1>1. f \in Seq({f[i] : i \in 1..n}) /\ Len(f) = n
    <2> DEFINE R == {f[i] : i \in 1..n}
    <2>1. \A i \in 1..n : f[i] \in R
      OBVIOUS
    <2> HIDE DEF R
    <2>2. f \in [1..n -> R]
      BY <2>1
    <2>3. f \in Seq(R) /\ Len(f) = n
      BY <2>2
    <2>4. QED
      BY <2>3 DEF R
  <1>2. CASE n = 0
    <2>1. FlattenSeq(f) = f /\ f = <<>>
      BY <1>1, <1>2 DEF FlattenSeq
    <2>2. QED
      BY <2>1, EmptyBlock
  <1>3. CASE n # 0
    <2> DEFINE g == CHOOSE h : Joined(f, n, h)
    <2>1. Joined(f, n, g)
      BY JoinedExists
    <2>2. FlattenSeq(f) = g[n]
      BY <1>1, <1>3 DEF FlattenSeq, Joined
    <2> HIDE DEF g
    <2>3. \A i \in 1..n : g[i] = IF i = 1 THEN f[i] ELSE g[i - 1] \o f[i]
      BY <2>1 DEF Joined
    <2> DEFINE Good == {m \in Nat : m + 1 \in 1..n => Block(g[m + 1])}
    <2>4. 0 \in Good
      BY <2>3
    <2>5. ASSUME NEW m \in Good
          PROVE  m + 1 \in Good
      <3>1. m \in Nat /\ (m + 1 \in 1..n => Block(g[m + 1]))
        OBVIOUS
      <3>2. ASSUME (m + 1) + 1 \in 1..n
            PROVE  Block(g[(m + 1) + 1])
        <4> DEFINE k == (m + 1) + 1
        <4>1. k \in 1..n /\ k # 1 /\ k - 1 = m + 1 /\ m + 1 \in 1..n
          BY <3>1, <3>2
        <4> HIDE DEF k
        <4>2. g[k] = g[m + 1] \o f[k]
          BY <2>3, <4>1
        <4>3. Block(g[m + 1]) /\ Block(f[k])
          BY <3>1, <4>1
        <4>4. Steps(f[k]) /\ NoClose(f[k]) /\ (f[k] # <<>> => f[k][1].do \in Loose)
          BY <4>3 DEF Block, NoClose
        <4>5. Block(g[m + 1] \o f[k])
          BY <4>3, <4>4, BlockJoins
        <4>6. QED
          BY <4>2, <4>5 DEF k
      <3>3. m + 1 \in Nat
        BY <3>1
      <3>4. QED
        BY <3>2, <3>3
    <2>6. Good \subseteq Nat
      OBVIOUS
    <2> HIDE DEF Good
    <2>7. Good = Nat
      BY <2>4, <2>5, <2>6, NatSetInduction
    <2>8. n - 1 \in Nat /\ (n - 1) + 1 = n /\ n \in 1..n
      BY <1>3
    <2>9. Block(g[n])
      BY <2>7, <2>8 DEF Good
    <2>10. QED
      BY <2>2, <2>9
  <1>4. QED
    BY <1>2, <1>3

\* Lists of one step, and those of list_dir and copy_file.
LEMMA OneStep ==
  ASSUME NEW e, e.do \in Loose \ {"opendir", "open_src"}
  PROVE  Block(<<e>>)
  <1>1. <<e>> \in Seq({e}) /\ Len(<<e>>) = 1 /\ <<e>>[1] = e
    OBVIOUS
  <1>2. e.do \notin Tied \cup {"close", "opendir", "open_src"}
    BY DEF Loose, Tied, Unlinks
  <1>3. \A i \in 1..1 : i = 1
    OBVIOUS
  <1>4. GoesOn(<<e>>, 1)
    BY <1>1, <1>2 DEF GoesOn, Tied
  <1>5. QED
    BY <1>1, <1>2, <1>3, <1>4 DEF Block, Steps, IsList

LEMMA TwoSteps ==
  ASSUME NEW a, NEW b, Block(<<a>>), Block(<<b>>)
  PROVE  Block(<<a, b>>)
  <1>1. <<a>> \o <<b>> = <<a, b>>
    <2> DEFINE A == {a, b}
               s == <<a>>
               e == <<b>>
               u == s \o e
               t == <<a, b>>
    <2>1. /\ s \in Seq(A) /\ e \in Seq(A) /\ t \in Seq(A)
          /\ Len(s) = 1 /\ Len(e) = 1 /\ Len(t) = 2 /\ e[1] = b /\ s[1] = a /\ t[1] = a /\ t[2] = b
      OBVIOUS
    <2> HIDE DEF s, t, e, A
    <2>2. /\ u \in Seq(A) /\ Len(u) = Len(s) + Len(e)
          /\ \A i \in 1..Len(s) + Len(e) : u[i] = IF i <= Len(s) THEN s[i] ELSE e[i - Len(s)]
      BY <2>1, ConcatProperties
    <2> HIDE DEF u
    <2>3. Len(u) = 2 /\ u[1] = s[1] /\ u[2] = e[1]
      BY <2>1, <2>2
    <2>4. \A i \in 1..2 : i = 1 \/ i = 2
      OBVIOUS
    <2>5. \A i \in 1..2 : u[i] = t[i]
      BY <2>1, <2>3, <2>4
    <2>6. u = t
      BY <2>1, <2>2, <2>3, <2>5, SeqEqual
    <2>7. QED
      BY <2>6 DEF s, t, u, e
  <1>2. Block(<<a>> \o <<b>>)
    BY BlockJoins DEF Block, NoClose
  <1>3. QED
    BY <1>1, <1>2

LEMMA ListBlock ==
  ASSUME NEW p, NEW q, NEW then \in {"listed", "remove_entries", "copy_entries"}
  PROVE  Block(List(p, then, q))
  <1> DEFINE t == List(p, then, q)
  <1>1. /\ IsList(t) /\ Len(t) = 4
        /\ t[1].do = "opendir" /\ t[2].do = "readdir" /\ t[3].do = "closedir" /\ t[4].do = then
    <2>1. t \in Seq({t[1], t[2], t[3], t[4]})
      BY DEF List
    <2>2. QED
      BY <2>1 DEF List, Do, IsList
  <1>2. \A i \in 1..4 : i = 1 \/ i = 2 \/ i = 3 \/ i = 4
    OBVIOUS
  <1> HIDE DEF t
  <1>3. GoesOn(t, 1) /\ GoesOn(t, 2)
    BY <1>1 DEF GoesOn, Loose, Tied, Unlinks
  <1>4. GoesOn(t, 3) /\ GoesOn(t, 4)
    BY <1>1 DEF GoesOn, Loose, Tied, Unlinks
  <1>5. Block(t)
    BY <1>1, <1>2, <1>3, <1>4 DEF Block, Steps, Loose
  <1>6. QED
    BY <1>5 DEF t

LEMMA CopyFileBlock ==
  ASSUME NEW p, NEW q
  PROVE  Block(CopyFile(p, q))
  <1> DEFINE t == CopyFile(p, q)
  <1>1. /\ IsList(t) /\ Len(t) = 5
        /\ t[1].do = "open_src" /\ t[2].do = "stat_fd" /\ t[3].do = "open_dst"
        /\ t[4].do = "stat_fd" /\ t[5].do = "read"
    <2>1. t \in Seq({t[1], t[2], t[3], t[4], t[5]})
      BY DEF CopyFile
    <2>2. QED
      BY <2>1 DEF CopyFile, Do, IsList
  <1>2. \A i \in 1..5 : i = 1 \/ i = 2 \/ i = 3 \/ i = 4 \/ i = 5
    OBVIOUS
  <1> HIDE DEF t
  <1>3. GoesOn(t, 1) /\ GoesOn(t, 2) /\ GoesOn(t, 3)
    BY <1>1 DEF GoesOn, Loose, Tied, Unlinks, AfterStat
  <1>4. GoesOn(t, 4) /\ GoesOn(t, 5)
    BY <1>1 DEF GoesOn, Loose, Tied, Unlinks, AfterStat
  <1>5. Block(t)
    BY <1>1, <1>2, <1>3, <1>4 DEF Block, Steps, Loose
  <1>6. QED
    BY <1>5 DEF t

LEMMA FinishBlock == Block(Finish)
  BY OneStep DEF Finish, Do, Loose

LEMMA ThreeAndOne ==
  ASSUME NEW a, NEW b, NEW c, NEW d
  PROVE  /\ <<a, b, c>> \o <<d>> = <<a, b, c, d>>
         /\ IsList(<<a, b, c>>) /\ Len(<<a, b, c>>) = 3
         /\ IsList(<<a, b, c, d>>) /\ Len(<<a, b, c, d>>) = 4
  <1>1. <<a, b, c>> \in Seq({a, b, c}) /\ <<a, b, c, d>> \in Seq({a, b, c, d})
    OBVIOUS
  <1>2. IsList(<<a, b, c>>) /\ IsList(<<a, b, c, d>>)
    BY <1>1, Zenon DEF IsList
  <1>3. <<a, b, c>> \o <<d>> = <<a, b, c, d>>
    <2> DEFINE A == {a, b, c, d}
               s == <<a, b, c>>
               e == <<d>>
               u == s \o e
               t == <<a, b, c, d>>
    <2>1. /\ s \in Seq(A) /\ e \in Seq(A) /\ t \in Seq(A)
          /\ Len(s) = 3 /\ Len(e) = 1 /\ Len(t) = 4 /\ e[1] = d
          /\ s[1] = t[1] /\ s[2] = t[2] /\ s[3] = t[3] /\ t[4] = d
      OBVIOUS
    <2> HIDE DEF s, t, e, A
    <2>0. /\ u \in Seq(A) /\ Len(u) = Len(s) + Len(e)
          /\ \A i \in 1..Len(s) + Len(e) : u[i] = IF i <= Len(s) THEN s[i] ELSE e[i - Len(s)]
      BY <2>1, ConcatProperties
    <2> HIDE DEF u
    <2>2. /\ u \in Seq(A) /\ Len(u) = 4
          /\ \A i \in 1..4 : u[i] = IF i <= 3 THEN s[i] ELSE e[i - 3]
      BY <2>0, <2>1
    <2>3. \A i \in 1..4 : i = 1 \/ i = 2 \/ i = 3 \/ i = 4
      OBVIOUS
    <2>4. u[1] = s[1] /\ u[2] = s[2] /\ u[3] = s[3] /\ u[4] = e[1]
      BY <2>2
    <2>5. \A i \in 1..4 : u[i] = t[i]
      BY <2>1, <2>3, <2>4
    <2>6. u = t
      BY <2>1, <2>2, <2>5, SeqEqual
    <2>7. QED
      BY <2>6 DEF s, t, u, e
  <1>4. QED
    BY <1>2, <1>3

\* Every call opens what it needs, and ends with `return'.
LEMMA PlanBlock ==
  ASSUME NEW r, r.p \in Seq(Nat)
  PROVE  Block(Plan(r) \o Finish)
  <1>1. Steps(Finish) /\ NoClose(Finish) /\ (Finish # <<>> => Finish[1].do \in Loose)
    BY FinishBlock DEF Block, NoClose
  <1>2. SUFFICES r.op # "open" => Block(Plan(r))
    <2>1. ASSUME r.op = "open"
          PROVE  Block(Plan(r) \o Finish)
      <3> DEFINE t == Plan(r) \o Finish
      <3>1. t = <<Do("open_src", r.p, r.q), Do("stat_fd", r.p, r.q), Do("keep", r.p, r.q),
                  Do("return", <<>>, <<>>)>>
        <4>1. Plan(r) = <<Do("open_src", r.p, r.q), Do("stat_fd", r.p, r.q), Do("keep", r.p, r.q)>>
          BY <2>1 DEF Plan
        <4>2. QED
          BY <4>1, ThreeAndOne DEF Finish
      <3>2. /\ IsList(t) /\ Len(t) = 4
            /\ t[1].do = "open_src" /\ t[2].do = "stat_fd" /\ t[3].do = "keep" /\ t[4].do = "return"
        <4>1. IsList(t) /\ Len(t) = 4
          BY <3>1, ThreeAndOne
        <4>2. /\ t[1] = Do("open_src", r.p, r.q) /\ t[2] = Do("stat_fd", r.p, r.q)
              /\ t[3] = Do("keep", r.p, r.q) /\ t[4] = Do("return", <<>>, <<>>)
          BY <3>1
        <4>3. QED
          BY <4>1, <4>2 DEF Do
      <3>3. \A i \in 1..4 : i = 1 \/ i = 2 \/ i = 3 \/ i = 4
        OBVIOUS
      <3> HIDE DEF t
      <3>4. GoesOn(t, 1) /\ GoesOn(t, 2)
        BY <3>2 DEF GoesOn, Loose, Tied, Unlinks, AfterStat
      <3>5. GoesOn(t, 3) /\ GoesOn(t, 4)
        BY <3>2 DEF GoesOn, Loose, Tied, Unlinks, AfterStat
      <3>6. Block(t)
        BY <3>2, <3>3, <3>4, <3>5 DEF Block, Steps, Loose
      <3>7. QED
        BY <3>6 DEF t
    <2>2. QED
      BY <1>1, <2>1, BlockJoins
  <1>3. HAVE r.op # "open"
  <1>4. CASE r.op = "list"
    BY <1>4, ListBlock DEF Plan
  <1>5. CASE r.op = "remove"
    BY <1>5, OneStep DEF Plan, Do, Loose, Unlinks
  <1>6. CASE r.op = "remove_all"
    BY <1>6, OneStep DEF Plan, Do, Loose, Unlinks
  <1>7. CASE r.op = "make_all"
    <2> DEFINE t == Plan(r)
    <2>1. t = [i \in 1..Len(r.p) |->
                 Do(IF i < Len(r.p) THEN "mkdir_some" ELSE "mkdir_over", SubSeq(r.p, 1, i), r.p)]
      BY <1>7 DEF Plan
    <2>2. Len(r.p) \in Nat
      OBVIOUS
    <2>3. t \in Seq({t[i] : i \in 1..Len(r.p)}) /\ Len(t) = Len(r.p)
      <3> DEFINE R == {t[i] : i \in 1..Len(r.p)}
      <3>1. \A i \in 1..Len(r.p) : t[i] \in R
        OBVIOUS
      <3>2. t = [i \in 1..Len(r.p) |-> t[i]]
        BY <2>1
      <3> HIDE DEF t, R
      <3>3. QED
        BY <2>2, <3>1, <3>2 DEF R
    <2>4. \A i \in 1..Len(r.p) : t[i].do \in {"mkdir_some", "mkdir_over"}
      BY <2>1 DEF Do
    <2> HIDE DEF t
    <2>5. ASSUME NEW i \in 1..Len(t)
          PROVE  GoesOn(t, i) /\ t[i].do # "close" /\ t[i].do \in Loose
      <3>1. i \in Nat /\ t[i].do \in {"mkdir_some", "mkdir_over"}
        BY <2>3, <2>4
      <3>2. i < Len(t) => t[i + 1].do \in {"mkdir_some", "mkdir_over"}
        BY <2>2, <2>3, <2>4, <3>1
      <3>3. QED
        BY <3>1, <3>2 DEF GoesOn, Loose, Tied, Unlinks
    <2>6. t # <<>> => 1 \in 1..Len(t)
      BY <2>2, <2>3
    <2>7. Block(t)
      BY <2>3, <2>5, <2>6 DEF Block, Steps, IsList
    <2>8. QED
      BY <2>7 DEF t
  <1>8. CASE r.op = "copy_tree"
    <2>1. Block(<<Do("mkdir_over", r.q, r.q)>>)
      BY OneStep DEF Do, Loose
    <2>2. Block(List(r.p, "copy_entries", r.q))
      BY ListBlock
    <2> DEFINE t == List(r.p, "copy_entries", r.q)
    <2>3. Steps(t) /\ NoClose(t) /\ (t # <<>> => t[1].do \in Loose)
      BY <2>2 DEF Block, NoClose
    <2>4. Plan(r) = <<Do("mkdir_over", r.q, r.q)>> \o t
      BY <1>8 DEF Plan
    <2> HIDE DEF t
    <2>5. QED
      BY <2>1, <2>3, <2>4, BlockJoins
  <1>9. CASE r.op = "copy_file"
    BY <1>9, CopyFileBlock DEF Plan
  <1>10. CASE r.op = "read_file"
    <2> DEFINE t == Plan(r)
    <2>1. t = <<Do("open_src", r.p, r.q), Do("stat_fd", r.p, r.q), Do("read_all", r.p, r.q)>>
      BY <1>10 DEF Plan
    <2>2. /\ IsList(t) /\ Len(t) = 3
          /\ t[1].do = "open_src" /\ t[2].do = "stat_fd" /\ t[3].do = "read_all"
      <3>1. IsList(t) /\ Len(t) = 3
        BY <2>1, ThreeAndOne
      <3>2. /\ t[1] = Do("open_src", r.p, r.q) /\ t[2] = Do("stat_fd", r.p, r.q)
            /\ t[3] = Do("read_all", r.p, r.q)
        BY <2>1
      <3>3. QED
        BY <3>1, <3>2 DEF Do
    <2>3. \A i \in 1..3 : i = 1 \/ i = 2 \/ i = 3
      OBVIOUS
    <2> HIDE DEF t
    <2>4. GoesOn(t, 1) /\ GoesOn(t, 2) /\ GoesOn(t, 3)
      BY <2>2 DEF GoesOn, Loose, Tied, Unlinks, AfterStat
    <2>5. Block(t)
      BY <2>2, <2>3, <2>4 DEF Block, Steps, Loose
    <2>6. QED
      BY <2>5 DEF t
  <1>11. QED
    <2>1. CASE r.op \notin {"list", "remove", "remove_all", "make_all", "copy_tree", "copy_file", "read_file"}
      <3>1. Plan(r) = <<>>
        BY <1>3, <2>1 DEF Plan
      <3>2. QED
        BY <3>1, EmptyBlock
    <2>2. QED
      BY <1>4, <1>5, <1>6, <1>7, <1>8, <1>9, <1>10, <2>1

-----------------------------------------------------------------------------
(* How often a handle is held.                                              *)

At(s, h) == {i \in 1..Len(s) : s[i] = h}

LEMMA UsesIs ==
  ASSUME NEW s \in Seq(Nat), NEW h
  PROVE  /\ IsFiniteSet(At(s, h)) /\ Uses(s, h) = Cardinality(At(s, h)) /\ Uses(s, h) \in Nat
         /\ Uses(s, h) = 0 <=> h \notin ToSet(s)
  <1>1. Len(s) \in Nat /\ DOMAIN s = 1..Len(s)
    OBVIOUS
  <1>2. IsFiniteSet(1..Len(s)) /\ At(s, h) \in SUBSET (1..Len(s))
    BY <1>1, FS_Interval DEF At
  <1>3. IsFiniteSet(At(s, h))
    BY <1>2, FS_Subset
  <1>4. Cardinality(At(s, h)) \in Nat /\ (Cardinality(At(s, h)) = 0 <=> At(s, h) = {})
    BY <1>3, FS_CardinalityType, FS_EmptySet
  <1>5. At(s, h) = {} <=> h \notin ToSet(s)
    BY <1>1 DEF At, ToSet
  <1>6. QED
    BY <1>3, <1>4, <1>5 DEF Uses, At

LEMMA UsesAppend ==
  ASSUME NEW s \in Seq(Nat), NEW e \in Nat, NEW h
  PROVE  /\ Append(s, e) \in Seq(Nat) /\ ToSet(Append(s, e)) = ToSet(s) \cup {e}
         /\ Uses(Append(s, e), h) = IF e = h THEN Uses(s, h) + 1 ELSE Uses(s, h)
  <1> DEFINE t == Append(s, e)
             n == Len(s)
  <1>1. /\ n \in Nat /\ t \in Seq(Nat) /\ Len(t) = n + 1 /\ t[n + 1] = e
        /\ \A i \in 1..n : t[i] = s[i] /\ i # n + 1
        /\ DOMAIN s = 1..n /\ DOMAIN t = 1..(n + 1)
    OBVIOUS
  <1> HIDE DEF t
  <1>2. 1..(n + 1) = 1..n \cup {n + 1} /\ n + 1 \notin 1..n
    BY <1>1
  <1>3. At(t, h) = IF e = h THEN At(s, h) \cup {n + 1} ELSE At(s, h)
    BY <1>1, <1>2 DEF At
  <1>4. n + 1 \notin At(s, h)
    BY <1>2 DEF At
  <1>5. ToSet(t) = ToSet(s) \cup {e}
    BY <1>1, <1>2 DEF ToSet
  <1>6. Cardinality(At(t, h)) = IF e = h THEN Cardinality(At(s, h)) + 1 ELSE Cardinality(At(s, h))
    <2>1. IsFiniteSet(At(s, h))
      BY UsesIs
    <2>2. Cardinality(At(s, h) \cup {n + 1}) = Cardinality(At(s, h)) + 1
      BY <1>4, <2>1, FS_AddElement
    <2>3. QED
      BY <1>3, <2>2
  <1>7. Uses(t, h) = Cardinality(At(t, h)) /\ Uses(s, h) = Cardinality(At(s, h))
    BY <1>1, UsesIs
  <1>8. QED
    BY <1>1, <1>5, <1>6, <1>7 DEF t

LEMMA UsesTail ==
  ASSUME NEW s \in Seq(Nat), s # <<>>, NEW h
  PROVE  /\ Tail(s) \in Seq(Nat) /\ ToSet(s) = ToSet(Tail(s)) \cup {s[1]} /\ s[1] \in Nat
         /\ Uses(s, h) = IF s[1] = h THEN Uses(Tail(s), h) + 1 ELSE Uses(Tail(s), h)
  <1> DEFINE t == Tail(s)
             n == Len(s)
  <1>1. /\ n \in Nat /\ n > 0 /\ t \in Seq(Nat) /\ Len(t) = n - 1 /\ s[1] \in Nat
        /\ \A i \in 1..(n - 1) : t[i] = s[i + 1]
        /\ DOMAIN s = 1..n /\ DOMAIN t = 1..(n - 1)
    OBVIOUS
  <1> HIDE DEF t
  <1>2. /\ 1 \in 1..n
        /\ \A i \in 1..(n - 1) : i + 1 \in 1..n /\ i + 1 # 1
        /\ \A j \in 1..n : j # 1 => j - 1 \in 1..(n - 1) /\ (j - 1) + 1 = j
    BY <1>1
  <1>3. ToSet(s) = ToSet(t) \cup {s[1]}
    <2>1. ASSUME NEW x \in ToSet(s)
          PROVE  x \in ToSet(t) \cup {s[1]}
      <3>1. PICK j \in 1..n : x = s[j]
        BY <1>1 DEF ToSet
      <3>2. CASE j = 1
        BY <3>1, <3>2
      <3>3. CASE j # 1
        <4>1. j - 1 \in 1..(n - 1) /\ (j - 1) + 1 = j
          BY <1>2, <3>3
        <4>2. t[j - 1] = x
          BY <1>1, <3>1, <4>1
        <4>3. QED
          BY <1>1, <4>1, <4>2 DEF ToSet
      <3>4. QED
        BY <3>2, <3>3
    <2>2. ASSUME NEW x \in ToSet(t)
          PROVE  x \in ToSet(s)
      <3>1. PICK i \in 1..(n - 1) : x = t[i]
        BY <1>1 DEF ToSet
      <3>2. x = s[i + 1] /\ i + 1 \in 1..n
        BY <1>1, <1>2, <3>1
      <3>3. QED
        BY <1>1, <3>2 DEF ToSet
    <2>3. s[1] \in ToSet(s)
      BY <1>1, <1>2 DEF ToSet
    <2>4. QED
      BY <2>1, <2>2, <2>3
  <1> DEFINE T == At(t, h)
             R == {j \in At(s, h) : j # 1}
             f == [i \in T |-> i + 1]
  <1>4. \A i \in T : i \in 1..(n - 1) /\ t[i] = h /\ f[i] = i + 1 /\ i + 1 \in R
    BY <1>1, <1>2 DEF At
  <1>5. \A j \in R : j - 1 \in T /\ f[j - 1] = j
    <2> SUFFICES ASSUME NEW j \in R PROVE j - 1 \in T /\ f[j - 1] = j
      OBVIOUS
    <2>1. j \in 1..n /\ j # 1 /\ s[j] = h
      BY DEF At
    <2>2. j - 1 \in 1..(n - 1) /\ (j - 1) + 1 = j
      BY <1>2, <2>1
    <2>3. t[j - 1] = h
      BY <1>1, <2>1, <2>2
    <2>4. QED
      BY <1>1, <2>2, <2>3 DEF At
  <1>6. f \in [T -> R]
    BY <1>4
  <1>7. \A a, b \in T : f[a] = f[b] => a = b
    BY <1>4
  <1> HIDE DEF T, R, f
  <1>8. f \in Bijection(T, R)
    BY <1>5, <1>6, <1>7 DEF Bijection, Injection, Surjection, IsInjective
  <1>9. IsFiniteSet(T) /\ Uses(t, h) = Cardinality(T) /\ Uses(t, h) \in Nat
    BY <1>1, UsesIs DEF T
  <1>10. IsFiniteSet(R) /\ Cardinality(R) = Uses(t, h)
    BY <1>8, <1>9, FS_Bijection DEF ExistsBijection
  <1>11. At(s, h) = IF s[1] = h THEN R \cup {1} ELSE R
    BY <1>2 DEF At, R
  <1>12. 1 \notin R
    BY DEF R
  <1>13. Cardinality(At(s, h)) = IF s[1] = h THEN Cardinality(R) + 1 ELSE Cardinality(R)
    BY <1>10, <1>11, <1>12, FS_AddElement
  <1>14. Uses(s, h) = Cardinality(At(s, h))
    BY UsesIs
  <1>15. QED
    BY <1>1, <1>3, <1>10, <1>13, <1>14 DEF t

-----------------------------------------------------------------------------
(* The step that a call is at.                                              *)

LEMMA NowIs ==
  ASSUME TreeInv, ~AtRest
  PROVE  /\ This = call.todo[1] /\ Steps(call.todo) /\ call.todo # <<>> /\ Steps(Tail(call.todo))
         /\ This.do \in Loose \cup Tied \cup {"close"} /\ GoesOn(call.todo, 1)
         /\ This.do # "close" => NoClose(call.todo) /\ NoClose(Tail(call.todo))
         /\ This.do \in Last1 => Block(Tail(call.todo))
  <1> DEFINE t == call.todo
  <1>1. Steps(t) /\ t # <<>> /\ IsList(t)
    BY DEF TreeInv, CallIs, AtRest, Steps
  <1>2. Len(t) \in Nat /\ Len(t) # 0 /\ 1 \in 1..Len(t) /\ This = t[1]
    <2>1. Len(t) \in Nat /\ Len(t) # 0 /\ Head(t) = t[1]
      BY <1>1, ListIs
    <2>2. QED
      BY <2>1 DEF This
  <1>3. GoesOn(t, 1)
    BY <1>1, <1>2 DEF Steps
  <1>4. This.do # "close" => NoClose(t)
    <2> SUFFICES ASSUME NEW i \in 1..Len(t), t[i].do = "close" PROVE t[1].do = "close"
      BY <1>2 DEF NoClose
    <2>1. 1 \in 1..i
      BY <1>2
    <2>2. QED
      BY <2>1 DEF TreeInv, Closes
  <1>5. Last1 \cap {"close"} = {}
    BY DEF Last1, Loose, Unlinks
  <1>6. QED
    BY <1>1, <1>2, <1>3, <1>4, <1>5, StepsTail DEF GoesOn

LEMMA Disjoint ==
  /\ Loose \cap Tied = {} /\ "close" \notin Loose \cup Tied
  /\ AfterStat \subseteq Tied /\ {"readdir", "closedir", "stat_fd", "read", "write"} \subseteq Tied
  /\ AfterStat \cap {"readdir", "closedir", "stat_fd", "read", "write"} = {}
  BY DEF Loose, Tied, AfterStat, Unlinks

-----------------------------------------------------------------------------
(* What the steps keep.                                                     *)

CallWith(t, fds) ==
  call' = [req |-> call'.req, todo |-> t, fds |-> fds, res |-> call'.res,
           names |-> call'.names, at |-> call'.at, slot |-> call'.slot, got |-> call'.got]

\* A call that has nothing open, and goes on with a step that wants nothing.
LEMMA ToLoose ==
  ASSUME NEW t, Block(t), CallWith(t, <<>>), IsList(call'.names), Handles({})', ScriptIs'
  PROVE  TreeInv'
  <1>1. call'.todo = t /\ call'.fds = <<>>
    BY DEF CallWith
  <1>2. /\ Steps(t) /\ NoClose(t) /\ (t # <<>> => t[1].do \in Loose)
    BY DEF Block, NoClose
  <1>3. CallIs'
    <2>1. <<>> \in Seq(Nat) /\ Len(<<>>) = 0
      OBVIOUS
    <2>2. \A i, j \in 1..Len(call'.fds) : call'.fds[i] = call'.fds[j] => i = j
      BY <1>1, <2>1
    <2>3. call' = [req |-> call'.req, todo |-> call'.todo, fds |-> call'.fds, res |-> call'.res,
                   names |-> call'.names, at |-> call'.at, slot |-> call'.slot, got |-> call'.got]
      BY <1>1, Zenon DEF CallWith
    <2>4. QED
      BY <1>1, <1>2, <2>1, <2>2, <2>3 DEF CallIs
  <1>4. Closes'
    BY <1>1, <1>2 DEF Closes, NoClose
  <1>5. Hands'
    BY <1>1, <1>2, Disjoint DEF Hands, AtRest
  <1>6. Mine' = {}
    BY <1>1, <1>2 DEF Mine, AtRest
  <1>7. QED
    BY <1>3, <1>4, <1>5, <1>6 DEF TreeInv

\* Nothing is open at a step that wants nothing.
LEMMA LooseHas ==
  ASSUME TreeInv, AtRest \/ This.do \in Loose
  PROVE  /\ Handles({}) /\ Mine = {} /\ IsList(call.names) /\ ScriptIs
         /\ ~AtRest /\ This.do # "return" => call.fds = <<>>
  <1>1. ~AtRest => This = call.todo[1]
    BY NowIs
  <1>2. Mine = {}
    BY <1>1 DEF Mine
  <1>3. QED
    BY <1>1, <1>2 DEF TreeInv, CallIs, Hands

LEMMA KeepHandles ==
  ASSUME NEW mine, Handles(mine), UNCHANGED <<open, next, pos, held>>
  PROVE  Handles(mine)'
  BY DEF Handles

LEMMA CallRecord ==
  ASSUME TreeInv
  PROVE  call = [req |-> call.req, todo |-> call.todo, fds |-> call.fds, res |-> call.res,
                 names |-> call.names, at |-> call.at, slot |-> call.slot, got |-> call.got]
  BY DEF TreeInv, CallIs

\* A step that opens nothing, and puts others in its place.
LEMMA LooseStep ==
  ASSUME TreeInv, ~AtRest, This.do \in Loose \ {"opendir", "open_src", "return"},
         NEW t, Block(t), CallWith(t \o Tail(call.todo), call.fds),
         IsList(call'.names), UNCHANGED <<open, next, pos, held, script>>
  PROVE  TreeInv'
  <1>1. Handles({}) /\ ScriptIs /\ call.fds = <<>>
    BY LooseHas
  <1>2. Block(Tail(call.todo))
    BY NowIs DEF Last1
  <1>3. Block(t \o Tail(call.todo))
    BY <1>2, BlockJoins DEF Block, NoClose
  <1>4. Handles({})' /\ ScriptIs'
    BY <1>1, KeepHandles DEF ScriptIs
  <1>5. QED
    BY <1>1, <1>3, <1>4, ToLoose

LEMMA ThenStep ==
  ASSUME TreeInv, ~AtRest, This.do \in Loose \ {"opendir", "open_src", "return"},
         NEW t, Block(t), Then(t), UNCHANGED <<open, next, pos, held, script>>
  PROVE  TreeInv'
  <1>1. CallWith(t \o Tail(call.todo), call.fds) /\ call'.names = call.names
    BY CallRecord DEF Then, CallWith
  <1>2. IsList(call'.names)
    BY <1>1, LooseHas
  <1>3. QED
    BY <1>1, <1>2, LooseStep

LEMMA ListedStep ==
  ASSUME TreeInv, ~AtRest, This.do \in Loose \ {"opendir", "open_src", "return"},
         NEW t, Block(t), Listed(t), UNCHANGED <<open, next, pos, held, script>>
  PROVE  TreeInv'
  <1>1. CallWith(t \o Tail(call.todo), call.fds) /\ call'.names = <<>>
    BY CallRecord DEF Listed, CallWith
  <1>2. IsList(call'.names)
    BY <1>1, EmptyBlock DEF Block, Steps
  <1>3. QED
    BY <1>1, <1>2, LooseStep

\* A step that stays where it is.
LEMMA SameStep ==
  ASSUME TreeInv, CallWith(call.todo, call.fds), IsList(call'.names),
         UNCHANGED <<open, next, held, script>>, DOMAIN pos' = DOMAIN pos,
         \A h \in DOMAIN pos :
           /\ pos'[h] = [seekable |-> pos'[h].seekable, off |-> pos'[h].off, refs |-> pos'[h].refs]
           /\ pos'[h].refs = pos[h].refs
  PROVE  TreeInv'
  <1>1. call'.todo = call.todo /\ call'.fds = call.fds
    BY DEF CallWith
  <1>2. CallIs'
    <2>1. call' = [req |-> call'.req, todo |-> call'.todo, fds |-> call'.fds, res |-> call'.res,
                   names |-> call'.names, at |-> call'.at, slot |-> call'.slot, got |-> call'.got]
      BY <1>1, Zenon DEF CallWith
    <2>2. QED
      BY <1>1, <2>1 DEF TreeInv, CallIs
  <1>3. Closes'
    BY <1>1 DEF TreeInv, Closes
  <1>4. Hands' /\ Mine' = Mine
    BY <1>1 DEF TreeInv, Hands, Mine, AtRest
  <1>5. Handles(Mine)'
    BY <1>4 DEF TreeInv, Handles
  <1>6. QED
    BY <1>2, <1>3, <1>4, <1>5 DEF TreeInv, ScriptIs

\* What a tied step has open.
LEMMA TiedHas ==
  ASSUME TreeInv, ~AtRest, This.do \in Tied
  PROVE  /\ call.fds \in Seq(Nat) /\ Len(call.fds) \in {1, 2} /\ call.fds # <<>>
         /\ Mine = ToSet(call.fds) /\ Handles(ToSet(call.fds))
  <1>1. /\ This = call.todo[1] /\ GoesOn(call.todo, 1)
    BY NowIs
  <1>2. Mine = ToSet(call.fds)
    BY <1>1, Disjoint DEF Mine
  <1>3. Len(call.fds) \in {1, 2}
    BY <1>1 DEF TreeInv, Hands, Tied, AfterStat
  <1>4. call.fds \in Seq(Nat) /\ Handles(ToSet(call.fds))
    BY <1>2 DEF TreeInv, CallIs
  <1>5. call.fds # <<>>
    BY <1>3, <1>4
  <1>6. QED
    BY <1>2, <1>3, <1>4, <1>5

\* Closes, and what comes after them.
LEMMA ClosesThen ==
  ASSUME NEW s, IsList(s), s # <<>>, \A i \in 1..Len(s) : s[i].do = "close",
         NEW t, Block(t)
  PROVE  /\ Steps(s \o t) /\ s \o t # <<>> /\ 1 \in 1..Len(s) /\ 1..Len(s) \subseteq 1..Len(s \o t)
         /\ \A i \in 1..Len(s) : (s \o t)[i] = s[i]
         /\ \A i \in 1..Len(s \o t) : (s \o t)[i].do = "close" <=> i \in 1..Len(s)
         /\ \A i \in 1..Len(s \o t) : i \notin 1..Len(s) => \E j \in 1..Len(t) : (s \o t)[i] = t[j]
  <1>1. IsList(t)
    BY DEF Block, Steps
  <1>2. /\ Len(t) \in Nat /\ (t = <<>> <=> Len(t) = 0)
        /\ Len(s) \in Nat /\ Len(s) # 0
    BY <1>1, ListIs
  <1>3. /\ \A i \in 1..Len(t) : GoesOn(t, i) /\ t[i].do # "close"
        /\ t # <<>> => t[1].do \in Loose
    BY DEF Block, Steps
  <1> DEFINE u == s \o t
             k == Len(s)
  <1>4. /\ IsList(u) /\ Len(u) = k + Len(t)
        /\ \A i \in 1..k : u[i] = s[i]
        /\ \A i \in 1..Len(t) : u[k + i] = t[i]
    BY <1>1, JoinIs
  <1>40. k \in Nat /\ k # 0 /\ \A i \in 1..k : s[i].do = "close"
    BY <1>2
  <1> HIDE DEF u, k
  <1>5. u = <<>> <=> Len(u) = 0
    BY <1>4, ListIs
  <1>6. u # <<>> /\ 1 \in 1..k /\ 1..k \subseteq 1..Len(u)
    BY <1>2, <1>40, <1>4, <1>5
  <1>7. ASSUME NEW i \in 1..Len(u), i \notin 1..k
        PROVE  /\ \E j \in 1..Len(t) : u[i] = t[j]
               /\ u[i].do # "close" /\ GoesOn(u, i)
    <2> DEFINE j == i - k
    <2>1. j \in 1..Len(t) /\ j \in Nat /\ i = k + j /\ i \in Nat
      BY <1>2, <1>40, <1>4, <1>7
    <2> HIDE DEF j
    <2>2. u[i] = t[j] /\ GoesOn(t, j) /\ t[j].do # "close"
      BY <1>3, <1>4, <2>1
    <2>3. ASSUME NEW e \in {1, 2}, j + e <= Len(t)
          PROVE  u[i + e] = t[j + e] /\ i + e <= Len(u)
      <3>1. j + e \in 1..Len(t) /\ k + (j + e) = i + e
        BY <1>2, <1>40, <2>1, <2>3
      <3>2. u[k + (j + e)] = t[j + e]
        BY <1>4, <3>1
      <3>3. i + e <= Len(u)
        BY <1>2, <1>40, <1>4, <2>1, <2>3
      <3>4. QED
        BY <3>1, <3>2, <3>3
    <2>4. (i < Len(u) <=> j < Len(t)) /\ (j < Len(t) => j + 1 <= Len(t)) /\ (j + 2 <= Len(t) => j + 1 <= Len(t))
      BY <1>2, <1>40, <1>4, <2>1
    <2>5. /\ j + 1 <= Len(t) => u[i + 1] = t[j + 1] /\ i + 1 <= Len(u)
          /\ j + 2 <= Len(t) => u[i + 2] = t[j + 2] /\ i + 2 <= Len(u)
      BY <2>3
    <2>6. GoesOn(u, i)
      BY <2>2, <2>4, <2>5, Zenon DEF GoesOn
    <2>7. QED
      BY <2>1, <2>2, <2>6
  <1>8. ASSUME NEW i \in 1..k, i < Len(u)
        PROVE  u[i + 1].do \in Loose \cup {"close"}
    <2>1. CASE i + 1 \in 1..k
      BY <1>4, <1>40, <2>1
    <2>2. CASE i + 1 \notin 1..k
      <3>1. i = k /\ 1 \in 1..Len(t) /\ t # <<>>
        BY <1>2, <1>40, <1>4, <1>8, <2>2
      <3>2. u[k + 1] = t[1]
        BY <1>4, <3>1
      <3>3. QED
        BY <1>3, <3>1, <3>2
    <2>3. QED
      BY <2>1, <2>2
  <1>9. ASSUME NEW i \in 1..Len(u)
        PROVE  GoesOn(u, i)
    <2>1. CASE i \in 1..k
      <3>1. u[i].do = "close"
        BY <1>4, <1>40, <2>1
      <3>2. QED
        BY <1>8, <2>1, <3>1 DEF GoesOn, Loose, Tied, Unlinks
    <2>2. QED
      BY <1>7, <2>1
  <1>10. Steps(u)
    BY <1>4, <1>9 DEF Steps
  <1>11. QED
    <2>1. /\ Steps(u) /\ u # <<>> /\ 1 \in 1..k /\ 1..k \subseteq 1..Len(u)
          /\ \A i \in 1..k : u[i] = s[i]
          /\ \A i \in 1..Len(u) : u[i].do = "close" <=> i \in 1..k
          /\ \A i \in 1..Len(u) : i \notin 1..k => \E j \in 1..Len(t) : u[i] = t[j]
      BY <1>4, <1>40, <1>6, <1>7, <1>10
    <2>2. QED
      BY <2>1 DEF u, k

\* A tied step that gives everything up closes it first.
LEMMA ClosingStep ==
  ASSUME TreeInv, ~AtRest, This.do \in Tied, NEW t, Block(t), NEW fds,
         fds = <<>> \/ (fds = call.fds /\ t = Finish),
         CallWith(Closing \o t, fds), IsList(call'.names),
         UNCHANGED <<open, next, pos, held, script>>
  PROVE  TreeInv'
  <1>1. PICK s, k, u, m, c : s = call.fds /\ k = Len(s) /\ c = Closing /\ u = c \o t /\ m = ToSet(s)
    OBVIOUS
  <1>2. /\ s \in Seq(Nat) /\ k \in Nat /\ k # 0 /\ DOMAIN s = 1..k
        /\ Handles(m) /\ \A i \in 1..k : s[i] \in Nat
    BY <1>1, TiedHas
  <1>3. \A i, j \in 1..k : s[i] = s[j] => i = j
    BY <1>1 DEF TreeInv, CallIs
  <1>4. /\ IsList(c) /\ Len(c) = k
        /\ \A i \in 1..k : c[i].do = "close" /\ c[i].p[1] = s[i]
    <2>1. c = [i \in 1..k |-> Do("close", <<s[i]>>, <<>>)]
      BY <1>1, <1>2 DEF Closing
    <2> DEFINE R == {Do("close", <<s[i]>>, <<>>) : i \in 1..k}
    <2>2. c \in [1..k -> R]
      BY <2>1
    <2> HIDE DEF R
    <2>3. c \in Seq(R) /\ Len(c) = k
      BY <1>2, <2>2
    <2>4. \A i \in 1..k : <<s[i]>>[1] = s[i]
      OBVIOUS
    <2>5. QED
      BY <2>1, <2>3, <2>4 DEF IsList, Do
  <1>5. /\ Steps(u) /\ u # <<>> /\ 1 \in 1..k /\ 1..k \subseteq 1..Len(u)
        /\ \A i \in 1..k : u[i] = c[i]
        /\ \A i \in 1..Len(u) : u[i].do = "close" <=> i \in 1..k
        /\ \A i \in 1..Len(u) : i \notin 1..k => \E j \in 1..Len(t) : u[i] = t[j]
    <2>1. IsList(c) /\ Len(c) = k /\ c # <<>> /\ \A i \in 1..Len(c) : c[i].do = "close"
      BY <1>2, <1>4, ListIs
    <2>2. /\ Steps(c \o t) /\ c \o t # <<>> /\ 1 \in 1..Len(c) /\ 1..Len(c) \subseteq 1..Len(c \o t)
          /\ \A i \in 1..Len(c) : (c \o t)[i] = c[i]
          /\ \A i \in 1..Len(c \o t) : (c \o t)[i].do = "close" <=> i \in 1..Len(c)
          /\ \A i \in 1..Len(c \o t) : i \notin 1..Len(c) => \E j \in 1..Len(t) : (c \o t)[i] = t[j]
      BY <2>1, ClosesThen
    <2>3. u = c \o t
      BY <1>1
    <2>4. QED
      BY <2>1, <2>2, <2>3
  <1>6. \A i \in 1..k : u[i].do = "close" /\ u[i].p[1] = s[i]
    BY <1>4, <1>5
  <1>7. call'.todo = u /\ call'.fds = fds
    BY <1>1 DEF CallWith
  <1>8. CallIs'
    <2>1. call' = [req |-> call'.req, todo |-> call'.todo, fds |-> call'.fds, res |-> call'.res,
                   names |-> call'.names, at |-> call'.at, slot |-> call'.slot, got |-> call'.got]
      BY <1>1, <1>7, Zenon DEF CallWith
    <2>2. CASE fds = <<>>
      <3>1. fds \in Seq(Nat) /\ Len(fds) = 0
        BY <2>2
      <3>2. QED
        BY <1>5, <1>7, <2>1, <3>1 DEF CallIs
    <2>3. CASE fds = s
      BY <1>1, <1>2, <1>3, <1>5, <1>7, <2>1, <2>3 DEF CallIs
    <2>4. QED
      BY <1>1, <2>2, <2>3
  <1>9. Closes'
    <2>1. ASSUME NEW i \in 1..k
          PROVE  u[i].p[1] \in Nat /\ \A j \in 1..i : u[j].do = "close"
      <3>1. \A j \in 1..i : j \in 1..k
        BY <1>2
      <3>2. QED
        BY <1>2, <1>6, <3>1
    <2>2. QED
      BY <1>3, <1>5, <1>6, <1>7, <2>1 DEF Closes
  <1>10. u[1].do = "close"
    BY <1>5, <1>6
  <1>11. Hands'
    <2>1. ASSUME t = Finish, NEW i \in 1..Len(u)
          PROVE  u[i].do \in {"close", "return"}
      <3>1. CASE i \in 1..k
        BY <1>6, <3>1
      <3>2. CASE i \notin 1..k
        <4>1. PICK j \in 1..Len(t) : u[i] = t[j]
          BY <1>5, <3>2
        <4>2. t[1].do = "return" /\ Len(t) = 1
          BY <2>1 DEF Finish, Do
        <4>3. j = 1
          BY <4>2
        <4>4. QED
          BY <4>1, <4>2, <4>3
      <3>3. QED
        BY <3>1, <3>2
    <2>2. fds = <<>> \/ \A i \in 1..Len(u) : u[i].do \in {"close", "return"}
      BY <2>1
    <2>3. QED
      BY <1>7, <1>10, <2>2, Disjoint DEF Hands, AtRest
  <1>12. Mine' = m
    <2>1. ToClose(u) = {u[i].p[1] : i \in 1..k}
      BY <1>5 DEF ToClose
    <2>2. m = {s[i] : i \in 1..k}
      BY <1>1, <1>2 DEF ToSet
    <2>3. ToClose(u) = m
      BY <1>6, <2>1, <2>2
    <2>4. QED
      BY <1>5, <1>7, <1>10, <2>3, Disjoint DEF Mine, AtRest
  <1>13. Handles(m)'
    BY <1>2, KeepHandles
  <1>14. QED
    BY <1>8, <1>9, <1>11, <1>12, <1>13 DEF TreeInv, ScriptIs

LEMMA FailsStep ==
  ASSUME TreeInv, ~AtRest, This.do \notin {"close", "return"}, NEW e, Fails(e),
         UNCHANGED <<open, next, pos, held, script>>
  PROVE  TreeInv'
  <1>1. CallWith(Closing \o Finish, call.fds) /\ call'.names = call.names
    BY CallRecord DEF Fails, CallWith
  <1>2. IsList(call'.names) /\ ScriptIs
    BY <1>1 DEF TreeInv, CallIs
  <1>3. CASE This.do \in Loose
    <2>1. call.fds = <<>> /\ Handles({})
      BY <1>3, LooseHas
    <2>2. Closing = <<>>
      BY <2>1 DEF Closing
    <2>3. Closing \o Finish = Finish
      BY <2>2, FinishBlock, EmptyBlock, JoinIs DEF Block, Steps
    <2>4. Handles({})' /\ ScriptIs'
      BY <1>2, <2>1, KeepHandles DEF ScriptIs
    <2>5. QED
      BY <1>1, <1>2, <2>1, <2>3, <2>4, FinishBlock, ToLoose
  <1>4. CASE This.do \in Tied
    BY <1>1, <1>2, <1>4, FinishBlock, ClosingStep
  <1>5. QED
    BY <1>3, <1>4, NowIs

-----------------------------------------------------------------------------
(* The steps.                                                               *)

\* A step before which nothing is closed, and what is open after it.
LEMMA TiedStep ==
  ASSUME TreeInv, ~AtRest, This.do # "close",
         NEW fds, fds \in Seq(Nat), \A i, j \in 1..Len(fds) : fds[i] = fds[j] => i = j,
         NEW t, Steps(t), NoClose(t), t # <<>>, t[1].do \in Tied,
         CallWith(t, fds), IsList(call'.names), Handles(ToSet(fds))', ScriptIs', Hands'
  PROVE  TreeInv'
  <1>1. call'.todo = t /\ call'.fds = fds
    BY DEF CallWith
  <1>2. CallIs'
    <2>1. call' = [req |-> call'.req, todo |-> call'.todo, fds |-> call'.fds, res |-> call'.res,
                   names |-> call'.names, at |-> call'.at, slot |-> call'.slot, got |-> call'.got]
      BY <1>1, Zenon DEF CallWith
    <2>2. QED
      BY <1>1, <2>1 DEF CallIs
  <1>3. Closes'
    BY <1>1 DEF Closes, NoClose
  <1>4. Mine' = ToSet(fds)
    BY <1>1, Disjoint DEF Mine, AtRest
  <1>5. QED
    BY <1>2, <1>3, <1>4 DEF TreeInv

\* An open's handle is new.
LEMMA OpenedStep ==
  ASSUME TreeInv, ~AtRest, This.do \in {"opendir", "open_src", "open_dst"},
         NEW what, Opened(what), UNCHANGED <<pos, held, script>>
  PROVE  TreeInv'
  <1>1. PICK s, m, n, t : s = call.fds /\ m = ToSet(s) /\ n = next /\ t = Tail(call.todo)
    OBVIOUS
  <1>2. /\ s \in Seq(Nat) /\ Handles(m) /\ Len(s) = IF This.do = "open_dst" THEN 1 ELSE 0
        /\ This.do = "open_dst" => s[1] \in DOMAIN pos
        /\ \A i, j \in 1..Len(s) : s[i] = s[j] => i = j
    <2>1. This = call.todo[1]
      BY NowIs
    <2>2. CASE This.do = "open_dst"
      <3>1. This.do \in Tied /\ This.do \in AfterStat
        BY <2>2 DEF Tied, AfterStat
      <3>2. Len(s) = 1 /\ s[1] \in DOMAIN pos
        BY <1>1, <2>1, <3>1 DEF TreeInv, Hands
      <3>3. QED
        BY <1>1, <2>2, <3>1, <3>2, TiedHas DEF TreeInv, CallIs
    <2>3. CASE This.do # "open_dst"
      <3>1. call.fds = <<>> /\ Handles({})
        BY <2>3, LooseHas DEF Loose
      <3>2. s = <<>> /\ Len(s) = 0 /\ m = {} /\ s \in Seq(Nat)
        BY <1>1, <3>1 DEF ToSet
      <3>3. QED
        BY <2>3, <3>1, <3>2
    <2>4. QED
      BY <2>2, <2>3
  <1>3. /\ Steps(t) /\ NoClose(t) /\ IsList(t)
        /\ This = call.todo[1] /\ GoesOn(call.todo, 1) /\ IsList(call.todo) /\ call.todo # <<>>
    BY <1>1, NowIs DEF Steps
  <1>4. /\ Len(call.todo) \in Nat /\ Len(t) = Len(call.todo) - 1
        /\ \A i \in 1..(Len(call.todo) - 1) : t[i] = call.todo[i + 1]
        /\ (t = <<>> <=> Len(t) = 0)
    <2>1. /\ Len(call.todo) \in Nat /\ Len(t) = Len(call.todo) - 1
          /\ \A i \in 1..(Len(call.todo) - 1) : t[i] = call.todo[i + 1]
      BY <1>1, <1>3, ListIs
    <2>2. QED
      BY <1>3, <2>1, ListIs
  <1>5. /\ t # <<>>
        /\ This.do = "opendir" => t[1].do = "readdir"
        /\ This.do = "open_src" => t[1].do = "stat_fd" /\ t[2].do \in AfterStat
        /\ This.do = "open_dst" => t[1].do = "stat_fd" /\ t[2].do = "read"
    <2>1. /\ This.do = "opendir" => 1 + 1 <= Len(call.todo) /\ call.todo[1 + 1].do = "readdir"
          /\ This.do = "open_src" => /\ 1 + 2 <= Len(call.todo) /\ call.todo[1 + 1].do = "stat_fd"
                                     /\ call.todo[1 + 2].do \in AfterStat
          /\ This.do = "open_dst" => /\ 1 + 2 <= Len(call.todo) /\ call.todo[1 + 1].do = "stat_fd"
                                     /\ call.todo[1 + 2].do = "read"
      BY <1>3 DEF GoesOn
    <2>2. Len(t) # 0 /\ t[1] = call.todo[1 + 1] /\ (1 + 2 <= Len(call.todo) => t[2] = call.todo[1 + 2])
      BY <1>4, <2>1
    <2>3. QED
      BY <1>4, <2>1, <2>2
  <1>6. n \in Nat /\ n \notin DOMAIN open /\ n \notin DOMAIN pos /\ n \notin m /\ n \notin ToSet(held)
    BY <1>1, <1>2 DEF Handles
  <1>7. PICK u : u = Append(s, n)
    OBVIOUS
  <1>8. /\ u \in Seq(Nat) /\ Len(u) = Len(s) + 1 /\ u[Len(s) + 1] = n
        /\ \A i \in 1..Len(s) : u[i] = s[i]
        /\ ToSet(u) = m \cup {n}
    <2>1. s \in Seq(Nat) /\ n \in Nat
      BY <1>2, <1>6
    <2>2. /\ Append(s, n) \in Seq(Nat) /\ Len(Append(s, n)) = Len(s) + 1 /\ Append(s, n)[Len(s) + 1] = n
          /\ \A i \in 1..Len(s) : Append(s, n)[i] = s[i]
      BY <2>1
    <2>3. ToSet(Append(s, n)) = ToSet(s) \cup {n}
      BY <2>1, UsesAppend
    <2>4. m = ToSet(s)
      BY <1>1
    <2>5. QED
      BY <1>7, <2>2, <2>3, <2>4
  <1>9. \A i, j \in 1..Len(u) : u[i] = u[j] => i = j
    <2>1. CASE Len(s) = 0
      BY <1>8, <2>1
    <2>2. CASE Len(s) = 1
      <3>1. 1 \in DOMAIN s /\ s[1] \in m
        BY <1>1, <1>2, <2>2 DEF ToSet
      <3>2. u[1] = s[1] /\ u[2] = n /\ u[1] # u[2]
        BY <1>6, <1>8, <2>2, <3>1
      <3>3. \A i \in 1..Len(u) : i = 1 \/ i = 2
        BY <1>8, <2>2
      <3>4. QED
        BY <3>2, <3>3
    <2>3. QED
      BY <1>2, <2>1, <2>2
  <1>10. CallWith(t, u) /\ call'.names = call.names /\ call'.todo = t /\ call'.fds = u
    BY <1>1, <1>7, CallRecord DEF Opened, CallWith
  <1>11. IsList(call'.names) /\ ScriptIs'
    BY <1>10 DEF TreeInv, CallIs, ScriptIs
  <1>12. Handles(ToSet(u))'
    <2>1. open' = With(open, n, what) /\ next' = n + 1
      BY <1>1 DEF Opened
    <2>2. DOMAIN open' = DOMAIN open \cup {n}
      BY <2>1 DEF With
    <2>3. \A h \in DOMAIN open' : h \in Nat /\ h < next'
      BY <1>1, <1>2, <1>6, <2>1, <2>2 DEF Handles
    <2>4. \A h \in DOMAIN pos : h \in m <=> h \in ToSet(u)
      BY <1>6, <1>8
    <2>5. QED
      BY <1>2, <1>6, <1>8, <2>1, <2>2, <2>3, <2>4 DEF Handles
  <1>13. Hands'
    BY <1>2, <1>5, <1>6, <1>8, <1>10, Disjoint DEF Hands, AtRest
  <1>14. t[1].do \in Tied
    BY <1>5, Disjoint
  <1>15. QED
    BY <1>3, <1>5, <1>8, <1>9, <1>10, <1>11, <1>12, <1>13, <1>14, Disjoint, TiedStep DEF Loose

\* The handle the call opened last.
LEMMA LastIs ==
  ASSUME TreeInv, ~AtRest, This.do \in Tied
  PROVE  /\ Last(call.fds) = call.fds[Len(call.fds)] /\ Last(call.fds) \in Nat
         /\ Last(call.fds) \in ToSet(call.fds) /\ Last(call.fds) \in DOMAIN open
  <1>1. call.fds \in Seq(Nat) /\ Len(call.fds) \in {1, 2} /\ Handles(ToSet(call.fds))
    BY TiedHas
  <1>2. Len(call.fds) \in DOMAIN call.fds /\ call.fds[Len(call.fds)] \in Nat
    <2>1. PICK s : s = call.fds
      OBVIOUS
    <2>2. s \in Seq(Nat) /\ Len(s) \in {1, 2}
      BY <1>1, <2>1
    <2>3. Len(s) \in DOMAIN s /\ s[Len(s)] \in Nat
      <3>1. DOMAIN s = 1..Len(s) /\ \A i \in 1..Len(s) : s[i] \in Nat
        BY <2>2
      <3>2. Len(s) \in 1..Len(s)
        BY <2>2
      <3>3. QED
        BY <3>1, <3>2
    <2>4. QED
      BY <2>1, <2>3
  <1>3. QED
    BY <1>1, <1>2 DEF Last, ToSet, Handles

LEMMA StatFdStep ==
  ASSUME TreeInv, StatFd
  PROVE  TreeInv'
  <1>1. PICK s, m, h, t : s = call.fds /\ m = ToSet(s) /\ h = Last(call.fds) /\ t = Tail(call.todo)
    OBVIOUS
  <1>2. ~AtRest /\ This.do = "stat_fd" /\ This.do \in Tied /\ This.do # "close"
    BY DEF StatFd, Doing, Tied
  <1>3. /\ This = call.todo[1] /\ GoesOn(call.todo, 1) /\ IsList(call.todo) /\ call.todo # <<>>
        /\ Steps(t) /\ NoClose(t) /\ IsList(t)
    BY <1>1, <1>2, NowIs DEF Steps
  <1>4. t # <<>> /\ t[1] = call.todo[2] /\ t[1].do \in AfterStat \cup {"read"} /\ t[1].do \in Tied
    <2>1. 1 + 1 <= Len(call.todo) /\ call.todo[1 + 1].do \in AfterStat \cup {"read"}
      BY <1>2, <1>3 DEF GoesOn
    <2>2. /\ Len(call.todo) \in Nat /\ Len(t) = Len(call.todo) - 1
          /\ \A i \in 1..(Len(call.todo) - 1) : t[i] = call.todo[i + 1]
      BY <1>1, <1>3, ListIs
    <2>3. t # <<>> /\ t[1] = call.todo[1 + 1]
      BY <1>3, <2>1, <2>2, ListIs
    <2>4. 1 + 1 = 2
      OBVIOUS
    <2>5. QED
      BY <2>1, <2>3, <2>4, Disjoint
  <1>5. /\ s \in Seq(Nat) /\ Handles(m) /\ h = s[Len(s)] /\ h \in m /\ h \in DOMAIN open
        /\ \A i, j \in 1..Len(s) : s[i] = s[j] => i = j
    BY <1>1, <1>2, TiedHas, LastIs DEF TreeInv, CallIs
  <1>6. /\ t[1].do # "read" => Len(s) = 1
        /\ t[1].do = "read" => Len(s) = 2 /\ s[1] \in DOMAIN pos
    BY <1>1, <1>2, <1>3, <1>4 DEF TreeInv, Hands
  <1>7. \E known \in BOOLEAN :
          pos' = With(pos, h, [seekable |-> known /\ "ino" \in DOMAIN open[h], off |-> 0, refs |-> 1])
    BY <1>1 DEF StatFd
  <1>8. /\ UNCHANGED <<open, next, held, script>>
        /\ call' = [call EXCEPT !.todo = <<>> \o Tail(@)]
    BY DEF StatFd, Then, fixed
  <1>9. <<>> \o Tail(call.todo) = t
    BY <1>1, <1>3, EmptyBlock, JoinIs DEF Block, Steps
  <1>10. CallWith(t, s) /\ call'.names = call.names /\ call'.todo = t /\ call'.fds = s
    BY <1>1, <1>8, <1>9, CallRecord DEF CallWith
  <1>11. IsList(call'.names) /\ ScriptIs'
    BY <1>8, <1>10 DEF TreeInv, CallIs, ScriptIs
  <1>12. PICK known : pos' = With(pos, h, [seekable |-> known, off |-> 0, refs |-> 1])
    BY <1>7
  <1>13. /\ DOMAIN pos' = DOMAIN pos \cup {h}
         /\ pos'[h] = [seekable |-> known, off |-> 0, refs |-> 1]
         /\ \A x \in DOMAIN pos : x # h => pos'[x] = pos[x]
    BY <1>12 DEF With
  <1>14. Handles(m)'
    BY <1>5, <1>8, <1>13 DEF Handles
  <1>15. Hands'
    BY <1>4, <1>5, <1>6, <1>10, <1>13, Disjoint DEF Hands, AtRest
  <1>16. QED
    BY <1>1, <1>2, <1>3, <1>4, <1>5, <1>10, <1>11, <1>14, <1>15, TiedStep

LEMMA KeepStep ==
  ASSUME TreeInv, Keep
  PROVE  TreeInv'
  <1>1. PICK s, m, h, t : s = call.fds /\ m = ToSet(s) /\ h = Last(call.fds) /\ t = Tail(call.todo)
    OBVIOUS
  <1>2. ~AtRest /\ This.do = "keep" /\ This.do \in Tied /\ This.do \in AfterStat /\ This.do # "close"
    BY DEF Keep, Doing, Tied, AfterStat
  <1>3. /\ This = call.todo[1] /\ GoesOn(call.todo, 1) /\ IsList(call.todo) /\ call.todo # <<>>
        /\ Steps(t) /\ NoClose(t) /\ IsList(t)
    BY <1>1, <1>2, NowIs DEF Steps
  <1>4. t # <<>> /\ t[1].do = "return"
    <2>1. 1 + 1 <= Len(call.todo) /\ call.todo[1 + 1].do = "return"
      BY <1>2, <1>3 DEF GoesOn
    <2>2. /\ Len(call.todo) \in Nat /\ Len(t) = Len(call.todo) - 1
          /\ \A i \in 1..(Len(call.todo) - 1) : t[i] = call.todo[i + 1]
      BY <1>1, <1>3, ListIs
    <2>3. t # <<>> /\ t[1] = call.todo[1 + 1]
      BY <1>3, <2>1, <2>2, ListIs
    <2>4. QED
      BY <2>1, <2>3
  <1>5. /\ s \in Seq(Nat) /\ Handles(m) /\ h = s[Len(s)] /\ h \in m /\ h \in DOMAIN open /\ h \in Nat
        /\ Len(s) = 1 /\ s[1] \in DOMAIN pos
        /\ \A i, j \in 1..Len(s) : s[i] = s[j] => i = j
    BY <1>1, <1>2, <1>3, TiedHas, LastIs DEF TreeInv, CallIs, Hands
  <1>6. h = s[1] /\ m = {h} /\ h \in DOMAIN pos
    <2>1. DOMAIN s = {1}
      BY <1>5
    <2>2. m = {s[1]}
      BY <1>1, <2>1 DEF ToSet
    <2>3. QED
      BY <1>5, <2>2
  <1>7. /\ UNCHANGED <<open, next, pos, script>> /\ held' = Append(held, h)
        /\ call' = [call EXCEPT !.todo = <<>> \o Tail(@)]
    BY <1>1 DEF Keep, Then, fixed
  <1>8. <<>> \o Tail(call.todo) = t
    BY <1>1, <1>3, EmptyBlock, JoinIs DEF Block, Steps
  <1>9. CallWith(t, s) /\ call'.names = call.names /\ call'.todo = t /\ call'.fds = s
    BY <1>1, <1>7, <1>8, CallRecord DEF CallWith
  <1>10. CallIs'
    <2>1. call' = [req |-> call'.req, todo |-> call'.todo, fds |-> call'.fds, res |-> call'.res,
                   names |-> call'.names, at |-> call'.at, slot |-> call'.slot, got |-> call'.got]
      BY <1>9, Zenon DEF CallWith
    <2>2. IsList(call'.names)
      BY <1>9 DEF TreeInv, CallIs
    <2>3. QED
      BY <1>3, <1>5, <1>9, <2>1, <2>2 DEF CallIs
  <1>11. Closes'
    BY <1>3, <1>9 DEF Closes, NoClose
  <1>12. Hands' /\ Mine' = {}
    BY <1>4, <1>9, Disjoint DEF Hands, Mine, AtRest, Loose
  <1>13. Handles({})'
    <2>1. /\ held \in Seq(Nat) /\ h \in Nat /\ h \notin ToSet(held)
      BY <1>5 DEF Handles
    <2>2. /\ held' \in Seq(Nat) /\ ToSet(held') = ToSet(held) \cup {h}
          /\ \A x : Uses(held', x) = IF h = x THEN Uses(held, x) + 1 ELSE Uses(held, x)
      BY <1>7, <2>1, UsesAppend
    <2>3. Uses(held, h) = 0
      BY <2>1, UsesIs
    <2>4. Uses(held', h) = 1 /\ \A x : x # h => Uses(held', x) = Uses(held, x)
      BY <2>2, <2>3
    <2>5. QED
      BY <1>5, <1>6, <1>7, <2>2, <2>4 DEF Handles
  <1>14. QED
    BY <1>7, <1>10, <1>11, <1>12, <1>13 DEF TreeInv, ScriptIs

LEMMA ClosedirStep ==
  ASSUME TreeInv, Closedir
  PROVE  TreeInv'
  <1>1. PICK s, m, h, t : s = call.fds /\ m = ToSet(s) /\ h = Last(call.fds) /\ t = Tail(call.todo)
    OBVIOUS
  <1>2. ~AtRest /\ This.do = "closedir" /\ This.do \in Tied /\ This.do \in Last1
    BY DEF Closedir, Doing, Tied, Last1
  <1>3. This = call.todo[1] /\ Block(t)
    BY <1>1, <1>2, NowIs
  <1>4. /\ s \in Seq(Nat) /\ Handles(m) /\ h = s[Len(s)] /\ h \in DOMAIN open
        /\ Len(s) = 1 /\ s[1] \notin DOMAIN pos
    BY <1>1, <1>2, <1>3, TiedHas, LastIs DEF TreeInv, Hands
  <1>5. h = s[1] /\ m = {h} /\ h \notin DOMAIN pos /\ Front(s) = <<>>
    <2>1. DOMAIN s = {1}
      BY <1>4
    <2>2. m = {s[1]}
      BY <1>1, <2>1 DEF ToSet
    <2>3. Front(s) = <<>>
      BY <1>4 DEF Front
    <2>4. QED
      BY <1>4, <2>2, <2>3
  <1>6. /\ open' = Less(open, h) /\ UNCHANGED <<next, pos, held, script>>
        /\ call' = [call EXCEPT !.fds = Front(@), !.at = 0, !.todo = Tail(@)]
    BY <1>1 DEF Closedir, fixed
  <1>7. CallWith(t, <<>>) /\ call'.names = call.names
    BY <1>1, <1>5, <1>6, CallRecord DEF CallWith
  <1>8. IsList(call'.names) /\ ScriptIs'
    BY <1>6, <1>7 DEF TreeInv, CallIs, ScriptIs
  <1>9. Handles({})'
    <2>1. DOMAIN open' = DOMAIN open \ {h}
      BY <1>6 DEF Less
    <2>2. QED
      BY <1>4, <1>5, <1>6, <2>1 DEF Handles
  <1>10. QED
    BY <1>3, <1>7, <1>8, <1>9, ToLoose

\* A handle with one name is closed.
LEMMA ClosedHandles ==
  ASSUME NEW m, NEW h \in m, Handles(m), open' = Less(open, h), pos' = Less(pos, h),
         UNCHANGED <<next, held>>
  PROVE  Handles(m \ {h})'
  <1>1. DOMAIN open' = DOMAIN open \ {h} /\ DOMAIN pos' = DOMAIN pos \ {h}
        /\ \A x \in DOMAIN pos' : pos'[x] = pos[x]
    BY DEF Less
  <1>2. QED
    BY <1>1 DEF Handles

LEMMA CloseStep ==
  ASSUME TreeInv, Close
  PROVE  TreeInv'
  <1>1. PICK c, t, h, m : c = call.todo /\ t = Tail(c) /\ h = This.p[1] /\ m = ToClose(c)
    OBVIOUS
  <1>2. ~AtRest /\ This.do = "close" /\ This.do \notin Loose \cup Tied
    BY Disjoint DEF Close, Doing
  <1>3. /\ This = c[1] /\ GoesOn(c, 1) /\ IsList(c) /\ c # <<>> /\ Steps(t) /\ IsList(t)
    BY <1>1, <1>2, NowIs DEF Steps
  <1>4. /\ Len(c) \in Nat /\ Len(c) # 0 /\ Len(t) = Len(c) - 1 /\ Len(t) \in Nat
        /\ \A i \in 1..(Len(c) - 1) : t[i] = c[i + 1]
        /\ (t = <<>> <=> Len(t) = 0)
    <2>1. /\ Len(c) \in Nat /\ Len(t) = Len(c) - 1 /\ Len(c) # 0
          /\ \A i \in 1..(Len(c) - 1) : t[i] = c[i + 1]
      BY <1>1, <1>3, ListIs
    <2>2. QED
      BY <1>3, <2>1, ListIs
  <1>5. Handles(m) /\ Mine = m
    BY <1>1, <1>2, <1>3, NowIs DEF TreeInv, Mine
  <1>6. /\ \A i \in 1..Len(c) :
             c[i].do = "close" => c[i].p[1] \in Nat /\ \A j \in 1..i : c[j].do = "close"
        /\ \A i, j \in 1..Len(c) :
             c[i].do = "close" /\ c[j].do = "close" /\ c[i].p[1] = c[j].p[1] => i = j
        /\ call.fds = <<>> \/ \A i \in 1..Len(c) : c[i].do \in {"close", "return"}
    BY <1>1, <1>2, <1>3 DEF TreeInv, Closes, Hands
  <1>7. h \in m
    BY <1>1, <1>2, <1>3, <1>4 DEF ToClose
  <1>8. pos' = Less(pos, h) /\ open' = Less(open, h)
    <2>1. h \in DOMAIN pos => ~(pos[h].refs > 1)
      BY <1>5, <1>7 DEF Handles
    <2>2. QED
      BY <1>1, <2>1 DEF Close, CloseFd
  <1>9. /\ UNCHANGED <<next, held, script>> /\ call' = [call EXCEPT !.todo = <<>> \o Tail(@)]
    BY DEF Close, Then, fixed
  <1>10. <<>> \o Tail(call.todo) = t
    BY <1>1, <1>3, EmptyBlock, JoinIs DEF Block, Steps
  <1>11. CallWith(t, call.fds) /\ call'.names = call.names /\ call'.todo = t /\ call'.fds = call.fds
    BY <1>1, <1>9, <1>10, CallRecord DEF CallWith
  <1>12. CallIs'
    <2>1. call' = [req |-> call'.req, todo |-> call'.todo, fds |-> call'.fds, res |-> call'.res,
                   names |-> call'.names, at |-> call'.at, slot |-> call'.slot, got |-> call'.got]
      BY <1>11, Zenon DEF CallWith
    <2>2. QED
      BY <1>3, <1>11, <2>1 DEF TreeInv, CallIs
  <1>13. \A i \in 1..Len(t) : i + 1 \in 1..Len(c) /\ t[i] = c[i + 1] /\ i + 1 # 1
    BY <1>4
  <1>14. Closes'
    <2>1. ASSUME NEW i \in 1..Len(t), t[i].do = "close"
          PROVE  t[i].p[1] \in Nat /\ \A j \in 1..i : t[j].do = "close"
      <3>1. /\ i + 1 \in 1..Len(c) /\ c[i + 1].do = "close" /\ c[i + 1].p[1] = t[i].p[1]
        BY <1>13, <2>1
      <3>2. \A j \in 1..i : j \in 1..Len(t) /\ j + 1 \in 1..(i + 1)
        BY <1>4
      <3>3. t[i].p[1] \in Nat /\ \A j \in 1..(i + 1) : c[j].do = "close"
        BY <1>6, <3>1
      <3>4. \A j \in 1..i : t[j].do = "close"
        BY <1>13, <3>2, <3>3
      <3>5. QED
        BY <3>3, <3>4
    <2>2. ASSUME NEW i \in 1..Len(t), NEW j \in 1..Len(t), t[i].do = "close", t[j].do = "close",
                 t[i].p[1] = t[j].p[1]
          PROVE  i = j
      <3>1. i + 1 = j + 1
        BY <1>6, <1>13, <2>2
      <3>2. QED
        BY <3>1
    <2>3. QED
      BY <1>11, <2>1, <2>2 DEF Closes
  <1>15. t # <<>> => 1 \in 1..Len(t) /\ t[1].do \in Loose \cup {"close"}
    <2>1. t # <<>> => 1 < Len(c) /\ 1 \in 1..Len(t) /\ t[1] = c[1 + 1]
      BY <1>4
    <2>2. QED
      BY <1>2, <1>3, <2>1 DEF GoesOn
  <1>16. call.fds = <<>> \/ \A i \in 1..Len(t) : t[i].do \in {"close", "return"}
    BY <1>6, <1>13
  <1>17. Hands'
    BY <1>11, <1>15, <1>16, Disjoint DEF Hands, AtRest
  <1>18. ToClose(t) = m \ {h}
    <2>1. ASSUME NEW x \in ToClose(t)
          PROVE  x \in m /\ x # h
      <3>1. PICK i \in 1..Len(t) : t[i].do = "close" /\ x = t[i].p[1]
        BY DEF ToClose
      <3>2. /\ i + 1 \in 1..Len(c) /\ 1 \in 1..Len(c) /\ i + 1 # 1
            /\ c[i + 1].do = "close" /\ c[i + 1].p[1] = x /\ c[1].do = "close"
        BY <1>2, <1>3, <1>4, <1>13, <3>1
      <3>3. x # h
        BY <1>1, <1>3, <1>6, <3>2
      <3>4. QED
        BY <1>1, <3>2, <3>3 DEF ToClose
    <2>2. ASSUME NEW x \in m, x # h
          PROVE  x \in ToClose(t)
      <3>1. PICK j \in 1..Len(c) : c[j].do = "close" /\ x = c[j].p[1]
        BY <1>1 DEF ToClose
      <3>2. j # 1
        BY <1>1, <1>3, <2>2, <3>1
      <3>3. j - 1 \in 1..Len(t) /\ (j - 1) + 1 = j
        BY <1>4, <3>2
      <3>4. t[j - 1] = c[j]
        BY <1>13, <3>3
      <3>5. QED
        BY <3>1, <3>3, <3>4 DEF ToClose
    <2>3. QED
      BY <2>1, <2>2
  <1>19. Mine' = m \ {h}
    <2>1. CASE t # <<>> /\ t[1].do = "close"
      BY <1>11, <1>18, <2>1, Disjoint DEF Mine, AtRest
    <2>2. CASE ~(t # <<>> /\ t[1].do = "close")
      <3>1. Mine' = {}
        BY <1>11, <1>15, <2>2 DEF Mine, AtRest
      <3>2. \A i \in 1..Len(t) : 1 \in 1..i /\ t # <<>> /\ t[i].do # "close"
        <4>1. ASSUME NEW i \in 1..Len(t)
              PROVE  1 \in 1..i /\ t # <<>>
          BY <1>4
        <4>2. QED
          BY <1>11, <1>14, <2>2, <4>1 DEF Closes
      <3>3. ToClose(t) = {}
        BY <3>2 DEF ToClose
      <3>4. QED
        BY <1>18, <3>1, <3>3
    <2>3. QED
      BY <2>1, <2>2
  <1>20. Handles(m \ {h})'
    BY <1>5, <1>7, <1>8, <1>9, ClosedHandles
  <1>21. QED
    BY <1>9, <1>12, <1>14, <1>17, <1>19, <1>20 DEF TreeInv, ScriptIs

\* Calls begin and end with nothing open.
LEMMA BeginStep ==
  ASSUME TreeInv, Begin
  PROVE  TreeInv'
  <1>1. Handles({}) /\ ScriptIs
    BY LooseHas DEF Begin
  <1>2. PICK r : r = Head(script)
    OBVIOUS
  <1>3. r.p \in Seq(Nat) /\ Tail(script) \in Seq([op : STRING, p : Seq(Nat), q : Seq(Nat)])
    <2>1. script \in Seq([op : STRING, p : Seq(Nat), q : Seq(Nat)]) /\ script # <<>>
      BY <1>1 DEF ScriptIs, Begin
    <2>2. r \in [op : STRING, p : Seq(Nat), q : Seq(Nat)]
      <3>1. PICK R : R = [op : STRING, p : Seq(Nat), q : Seq(Nat)]
        OBVIOUS
      <3>2. script \in Seq(R)
        BY <2>1, <3>1
      <3>3. Head(script) \in R
        BY <2>1, <3>2
      <3>4. QED
        BY <1>2, <3>1, <3>3
    <2>3. r.p \in Seq(Nat)
      BY <2>2
    <2>4. QED
      BY <2>1, <2>3
  <1>4. Block(Plan(r) \o Finish)
    BY <1>3, PlanBlock
  <1>5. CallWith(Plan(r) \o Finish, <<>>) /\ call'.names = <<>>
    BY <1>2 DEF Begin, NoCall, CallWith
  <1>6. IsList(call'.names)
    BY <1>5, EmptyBlock DEF Block, Steps
  <1>7. Handles({})' /\ ScriptIs'
    BY <1>1, <1>3, KeepHandles DEF Begin, ScriptIs
  <1>8. QED
    BY <1>4, <1>5, <1>6, <1>7, ToLoose

LEMMA ReturnStep ==
  ASSUME TreeInv, Return
  PROVE  TreeInv'
  <1>1. Handles({}) /\ ScriptIs
    BY LooseHas DEF Return, Doing, Loose
  <1>2. CallWith(<<>>, <<>>) /\ call'.names = <<>>
    BY DEF Return, NoCall, CallWith
  <1>3. IsList(call'.names)
    BY <1>2, EmptyBlock DEF Block, Steps
  <1>4. Handles({})' /\ ScriptIs'
    BY <1>1, KeepHandles DEF Return, ScriptIs, fixed
  <1>5. QED
    BY <1>2, <1>3, <1>4, EmptyBlock, ToLoose

\* Names of the program's own handles.
LEMMA OwnStep ==
  ASSUME TreeInv, AtRest, UNCHANGED call, script # <<>>, script' = Tail(script), Handles({})'
  PROVE  TreeInv'
  <1>1. ScriptIs'
    <2>1. script \in Seq([op : STRING, p : Seq(Nat), q : Seq(Nat)])
      BY DEF TreeInv, ScriptIs
    <2>2. Tail(script) \in Seq([op : STRING, p : Seq(Nat), q : Seq(Nat)])
      BY <2>1
    <2>3. QED
      BY <2>2 DEF ScriptIs
  <1>2. CallIs' /\ Closes' /\ Hands' /\ Mine' = {}
    BY DEF TreeInv, CallIs, Closes, Hands, Mine, AtRest
  <1>3. QED
    BY <1>1, <1>2 DEF TreeInv

LEMMA DupFdStep ==
  ASSUME TreeInv, DupFd
  PROVE  TreeInv'
  <1>1. /\ AtRest /\ UNCHANGED <<call, open, next>> /\ script # <<>> /\ script' = Tail(script)
        /\ Handles({})
    BY LooseHas DEF DupFd, Own
  <1>2. CASE held = <<>>
    <2>1. UNCHANGED <<pos, held>>
      BY <1>2 DEF DupFd
    <2>2. QED
      BY <1>1, <2>1, KeepHandles, OwnStep
  <1>3. CASE held # <<>>
    <2>1. PICK h : h = held[1]
      OBVIOUS
    <2>2. held \in Seq(Nat) /\ h \in Nat /\ h \in ToSet(held) /\ h \in DOMAIN pos
      <3>1. held \in Seq(Nat)
        BY <1>1 DEF Handles
      <3>2. h \in Nat /\ h \in ToSet(held)
        BY <1>3, <2>1, <3>1, UsesTail
      <3>3. QED
        BY <1>1, <3>1, <3>2 DEF Handles
    <2>3. pos' = [pos EXCEPT ![h].refs = @ + 1] /\ held' = Append(held, h)
      BY <1>3, <2>1 DEF DupFd
    <2>4. /\ held' \in Seq(Nat) /\ ToSet(held') = ToSet(held)
          /\ \A x : Uses(held', x) = IF h = x THEN Uses(held, x) + 1 ELSE Uses(held, x)
      <3>1. held' \in Seq(Nat) /\ ToSet(held') = ToSet(held) \cup {h}
        BY <2>2, <2>3, UsesAppend
      <3>2. \A x : Uses(Append(held, h), x) = IF h = x THEN Uses(held, x) + 1 ELSE Uses(held, x)
        BY <2>2, UsesAppend
      <3>3. QED
        BY <2>2, <2>3, <3>1, <3>2
    <2>5. /\ DOMAIN pos' = DOMAIN pos /\ pos'[h] = [pos[h] EXCEPT !.refs = @ + 1]
          /\ \A x \in DOMAIN pos : x # h => pos'[x] = pos[x]
      BY <2>2, <2>3
    <2>6. /\ pos[h] = [seekable |-> pos[h].seekable, off |-> pos[h].off, refs |-> pos[h].refs]
          /\ pos[h].refs = Uses(held, h)
      BY <1>1, <2>2 DEF Handles
    <2>7. /\ pos'[h] = [seekable |-> pos[h].seekable, off |-> pos[h].off, refs |-> Uses(held, h) + 1]
      BY <2>5, <2>6
    <2>8. Handles({})'
      BY <1>1, <2>2, <2>4, <2>5, <2>7 DEF Handles
    <2>9. QED
      BY <1>1, <2>8, OwnStep
  <1>4. QED
    BY <1>2, <1>3

LEMMA CloseOwnStep ==
  ASSUME TreeInv, CloseOwn
  PROVE  TreeInv'
  <1>1. /\ AtRest /\ UNCHANGED <<call, next>> /\ script # <<>> /\ script' = Tail(script)
        /\ Handles({})
    BY LooseHas DEF CloseOwn, Own
  <1>2. CASE held = <<>>
    <2>1. UNCHANGED <<open, pos, held>>
      BY <1>2 DEF CloseOwn
    <2>2. QED
      BY <1>1, <2>1, KeepHandles, OwnStep
  <1>3. CASE held # <<>>
    <2>1. PICK h : h = held[1]
      OBVIOUS
    <2>2. held \in Seq(Nat)
      BY <1>1 DEF Handles
    <2>3. CloseFd(h) /\ held' = Tail(held)
      BY <1>3, <2>1 DEF CloseOwn
    <2>4. /\ held' \in Seq(Nat) /\ ToSet(held) = ToSet(held') \cup {h} /\ h \in Nat
          /\ \A x : Uses(held, x) = IF h = x THEN Uses(held', x) + 1 ELSE Uses(held', x)
      BY <1>3, <2>1, <2>2, <2>3, UsesTail
    <2>5. h \in DOMAIN pos /\ pos[h].refs = Uses(held, h)
          /\ pos[h] = [seekable |-> pos[h].seekable, off |-> pos[h].off, refs |-> pos[h].refs]
      BY <1>1, <2>4 DEF Handles
    <2>6. Uses(held', h) \in Nat /\ (Uses(held', h) = 0 <=> h \notin ToSet(held'))
      BY <2>4, UsesIs
    <2>7. CASE pos[h].refs > 1
      <3>1. pos' = [pos EXCEPT ![h].refs = @ - 1] /\ UNCHANGED open
        BY <2>3, <2>5, <2>7 DEF CloseFd
      <3>2. h \in ToSet(held')
        BY <2>4, <2>5, <2>6, <2>7
      <3>3. /\ DOMAIN pos' = DOMAIN pos /\ pos'[h] = [pos[h] EXCEPT !.refs = @ - 1]
            /\ \A x \in DOMAIN pos : x # h => pos'[x] = pos[x]
        BY <2>5, <3>1
      <3>4. Uses(held, h) = Uses(held', h) + 1
        BY <2>4
      <3>5. Uses(held, h) - 1 = Uses(held', h)
        BY <2>6, <3>4
      <3>6. pos'[h] = [seekable |-> pos[h].seekable, off |-> pos[h].off, refs |-> Uses(held', h)]
        BY <2>5, <3>3, <3>5
      <3>7. ToSet(held') = ToSet(held)
        BY <2>4, <3>2
      <3>8. Handles({})'
        BY <1>1, <2>4, <3>1, <3>3, <3>6, <3>7 DEF Handles
      <3>9. QED
        BY <1>1, <3>8, OwnStep
    <2>8. CASE ~(pos[h].refs > 1)
      <3>1. pos' = Less(pos, h) /\ open' = Less(open, h)
        BY <2>3, <2>8 DEF CloseFd
      <3>2. h \notin ToSet(held')
        BY <2>4, <2>5, <2>6, <2>8
      <3>3. /\ DOMAIN open' = DOMAIN open \ {h} /\ DOMAIN pos' = DOMAIN pos \ {h}
            /\ \A x \in DOMAIN pos' : pos'[x] = pos[x]
        BY <3>1 DEF Less
      <3>4. Handles({})'
        BY <1>1, <2>4, <3>2, <3>3 DEF Handles
      <3>5. QED
        BY <1>1, <3>4, OwnStep
    <2>9. QED
      BY <2>7, <2>8
  <1>4. QED
    BY <1>2, <1>3

\* The entries of a listing.
LEMMA ReverseIs ==
  ASSUME NEW s, IsList(s)
  PROVE  Len(s) \in Nat /\ Len(Reverse(s)) = Len(s)
  <1>1. PICK A : s \in Seq(A)
    BY DEF IsList
  <1>2. Len(s) \in Nat /\ \A i \in 1..Len(s) : (Len(s) - i) + 1 \in 1..Len(s)
    BY <1>1
  <1>3. Reverse(s) \in [1..Len(s) -> A]
    BY <1>1, <1>2 DEF Reverse
  <1>4. QED
    BY <1>2, <1>3

LEMMA BlockThen ==
  ASSUME NEW a, Block(a), NEW b, Block(b)
  PROVE  Block(a \o b)
  BY BlockJoins DEF Block, NoClose

LEMMA RemoveEntriesStep ==
  ASSUME TreeInv, RemoveEntries
  PROVE  TreeInv'
  <1>1. ~AtRest /\ This.do = "remove_entries"
    BY DEF RemoveEntries, Doing
  <1>2. This.do \in Loose \ {"opendir", "open_src", "return"}
    BY <1>1 DEF Loose
  <1>3. PICK p, es, rs : p = This.p /\ es = call.names /\ rs = Reverse(call.names)
    OBVIOUS
  <1>4. Len(es) \in Nat /\ Len(rs) \in Nat
    BY <1>3, ReverseIs DEF TreeInv, CallIs
  <1> DEFINE Wiped(n) == <<Do("unlink", Append(p, n), p)>>
             Down(n) == List(Append(p, n), "remove_entries", Append(p, n))
             f == [i \in 1..Len(es) |-> IF es[i].kind \in {"file", "link"} THEN Wiped(es[i].name) ELSE <<>>]
             g == [i \in 1..Len(rs) |-> IF rs[i].kind \in {"dir"} THEN Down(rs[i].name) ELSE <<>>]
             last == <<Do("rmdir", p, p)>>
  <1>5. \A n : Block(Wiped(n))
    BY OneStep DEF Do, Loose, Unlinks
  <1>6. \A n : Block(Down(n))
    BY ListBlock
  <1>7. Block(last)
    BY OneStep DEF Do, Loose
  <1>8. Listed(FlattenSeq(f) \o FlattenSeq(g) \o last)
    BY <1>3 DEF RemoveEntries, Each
  <1>9. Block(FlattenSeq(f))
    <2> HIDE DEF Wiped
    <2>1. \A i \in 1..Len(es) : Block(f[i])
      BY <1>5, EmptyBlock
    <2>2. f = [i \in 1..Len(es) |-> f[i]]
      OBVIOUS
    <2> HIDE DEF f
    <2>3. QED
      BY <1>4, <2>1, <2>2, FlatIsBlock
  <1>10. Block(FlattenSeq(g))
    <2> HIDE DEF Down
    <2>1. \A i \in 1..Len(rs) : Block(g[i])
      BY <1>6, EmptyBlock
    <2>2. g = [i \in 1..Len(rs) |-> g[i]]
      OBVIOUS
    <2> HIDE DEF g
    <2>3. QED
      BY <1>4, <2>1, <2>2, FlatIsBlock
  <1> HIDE DEF f, g, last
  <1>11. Block(FlattenSeq(f) \o FlattenSeq(g) \o last)
    BY <1>7, <1>9, <1>10, BlockThen
  <1>12. UNCHANGED <<open, next, pos, held, script>>
    BY DEF RemoveEntries, fixed
  <1>13. QED
    BY <1>1, <1>2, <1>8, <1>11, <1>12, ListedStep

LEMMA CopyEntriesStep ==
  ASSUME TreeInv, CopyEntries
  PROVE  TreeInv'
  <1>1. ~AtRest /\ This.do = "copy_entries"
    BY DEF CopyEntries, Doing
  <1>2. This.do \in Loose \ {"opendir", "open_src", "return"}
    BY <1>1 DEF Loose
  <1>3. PICK p, q, es, rs : p = This.p /\ q = This.q /\ es = call.names /\ rs = Reverse(call.names)
    OBVIOUS
  <1>4. Len(es) \in Nat /\ Len(rs) \in Nat
    BY <1>3, ReverseIs DEF TreeInv, CallIs
  <1> DEFINE Now(e) == CASE e.kind = "dir" -> <<Do("mkdir_over", Append(q, e.name), q)>>
                         [] e.kind = "link" -> <<Do("readlink_copy", Append(p, e.name), Append(q, e.name))>>
                         [] OTHER -> CopyFile(Append(p, e.name), Append(q, e.name))
             Down(n) == List(Append(p, n), "copy_entries", Append(q, n))
             f == [i \in 1..Len(es) |-> Now(es[i])]
             g == [i \in 1..Len(rs) |-> IF rs[i].kind \in {"dir"} THEN Down(rs[i].name) ELSE <<>>]
  <1>5. \A e : Block(Now(e))
    <2>1. ASSUME NEW e
          PROVE  /\ Block(<<Do("mkdir_over", Append(q, e.name), q)>>)
                 /\ Block(<<Do("readlink_copy", Append(p, e.name), Append(q, e.name))>>)
                 /\ Block(CopyFile(Append(p, e.name), Append(q, e.name)))
      BY OneStep, CopyFileBlock DEF Do, Loose
    <2>2. QED
      BY <2>1, Zenon
  <1>6. \A n : Block(Down(n))
    BY ListBlock
  <1>7. Listed(FlattenSeq(f) \o FlattenSeq(g))
    BY <1>3 DEF CopyEntries, Each
  <1>8. Block(FlattenSeq(f))
    <2> HIDE DEF Now
    <2>1. \A i \in 1..Len(es) : Block(f[i])
      BY <1>5
    <2>2. f = [i \in 1..Len(es) |-> f[i]]
      OBVIOUS
    <2> HIDE DEF f
    <2>3. QED
      BY <1>4, <2>1, <2>2, FlatIsBlock
  <1>9. Block(FlattenSeq(g))
    <2> HIDE DEF Down
    <2>1. \A i \in 1..Len(rs) : Block(g[i])
      BY <1>6, EmptyBlock
    <2>2. g = [i \in 1..Len(rs) |-> g[i]]
      OBVIOUS
    <2> HIDE DEF g
    <2>3. QED
      BY <1>4, <2>1, <2>2, FlatIsBlock
  <1> HIDE DEF f, g
  <1>10. Block(FlattenSeq(f) \o FlattenSeq(g))
    BY <1>8, <1>9, BlockThen
  <1>11. UNCHANGED <<open, next, pos, held, script>>
    BY DEF CopyEntries, fixed
  <1>12. QED
    BY <1>1, <1>2, <1>7, <1>10, <1>11, ListedStep

LEMMA ReaddirStep ==
  ASSUME TreeInv, Readdir
  PROVE  TreeInv'
  <1>0. PICK k \in 1..Page :
          \E page :
            call' = [call EXCEPT
              !.names = @ \o [i \in 1..k |->
                                [name |-> page[i], kind |-> tree[Append(Directory, page[i])].kind]],
              !.at = page[k]]
    BY DEF Readdir
  <1>1. PICK page :
          call' = [call EXCEPT
            !.names = @ \o [i \in 1..k |->
                              [name |-> page[i], kind |-> tree[Append(Directory, page[i])].kind]],
            !.at = page[k]]
    BY <1>0
  <1> DEFINE f == [i \in 1..k |-> [name |-> page[i], kind |-> tree[Append(Directory, page[i])].kind]]
  <1>2. CallWith(call.todo, call.fds) /\ call'.names = call.names \o f
    BY <1>1, CallRecord DEF CallWith
  <1>3. IsList(f)
    <2> DEFINE R == {f[i] : i \in 1..k}
    <2>1. f \in [1..k -> R] /\ k \in Nat
      OBVIOUS
    <2> HIDE DEF f, R
    <2>2. f \in Seq(R)
      BY <2>1
    <2>3. QED
      BY <2>2 DEF IsList
  <1> HIDE DEF f
  <1>4. IsList(call'.names)
    BY <1>2, <1>3, JoinIs DEF TreeInv, CallIs
  <1>5. UNCHANGED <<open, next, pos, held, script>>
    BY DEF Readdir, fixed
  <1>6. \A h \in DOMAIN pos :
          pos[h] = [seekable |-> pos[h].seekable, off |-> pos[h].off, refs |-> pos[h].refs]
    BY DEF TreeInv, Handles
  <1>7. QED
    BY <1>2, <1>4, <1>5, <1>6, SameStep

LEMMA ReaddirEndStep ==
  ASSUME TreeInv, ReaddirEnd
  PROVE  TreeInv'
  <1>1. ~AtRest /\ This.do = "readdir" /\ This.do \in Tied /\ This.do \notin {"close", "return"}
    BY DEF ReaddirEnd, Doing, Tied
  <1>2. UNCHANGED <<open, next, pos, held, script>>
    BY DEF ReaddirEnd, fixed
  <1>3. CASE Then(<<>>)
    <2>1. PICK s, t : s = call.fds /\ t = Tail(call.todo)
      OBVIOUS
    <2>2. /\ This = call.todo[1] /\ GoesOn(call.todo, 1) /\ IsList(call.todo) /\ call.todo # <<>>
          /\ Steps(t) /\ NoClose(t) /\ IsList(t)
      BY <1>1, <2>1, NowIs DEF Steps
    <2>3. t # <<>> /\ t[1].do = "closedir"
      <3>1. 1 + 1 <= Len(call.todo) /\ call.todo[1 + 1].do = "closedir"
        BY <1>1, <2>2 DEF GoesOn
      <3>2. /\ Len(call.todo) \in Nat /\ Len(t) = Len(call.todo) - 1
            /\ \A i \in 1..(Len(call.todo) - 1) : t[i] = call.todo[i + 1]
        BY <2>1, <2>2, ListIs
      <3>3. t # <<>> /\ t[1] = call.todo[1 + 1]
        BY <2>2, <3>1, <3>2, ListIs
      <3>4. QED
        BY <3>1, <3>3
    <2>4. <<>> \o Tail(call.todo) = t
      BY <2>1, <2>2, EmptyBlock, JoinIs DEF Block, Steps
    <2>5. CallWith(t, s) /\ call'.names = call.names /\ call'.todo = t /\ call'.fds = s
      BY <1>3, <2>1, <2>4, CallRecord DEF Then, CallWith
    <2>6. /\ s \in Seq(Nat) /\ Handles(ToSet(s)) /\ IsList(call'.names) /\ ScriptIs
          /\ \A i, j \in 1..Len(s) : s[i] = s[j] => i = j
      BY <1>1, <2>1, <2>5, TiedHas DEF TreeInv, CallIs
    <2>7. Len(s) = 1 /\ s[1] \notin DOMAIN pos
      BY <1>1, <2>1, <2>2 DEF TreeInv, Hands
    <2>8. Handles(ToSet(s))' /\ ScriptIs'
      BY <1>2, <2>6, KeepHandles DEF ScriptIs
    <2>9. Hands'
      BY <1>2, <2>3, <2>5, <2>7, Disjoint DEF Hands, AtRest
    <2>10. QED
      BY <1>1, <2>2, <2>3, <2>5, <2>6, <2>8, <2>9, Disjoint, TiedStep
  <1>4. CASE Fails("ENOENT")
    BY <1>1, <1>2, <1>4, FailsStep
  <1>5. QED
    BY <1>3, <1>4 DEF ReaddirEnd

LEMMA ReadStep ==
  ASSUME TreeInv, Read
  PROVE  TreeInv'
  <1>1. ~AtRest /\ This.do = "read" /\ This.do \in Tied /\ This.do # "close"
    BY DEF Read, Doing, Tied
  <1>2. UNCHANGED <<open, next, pos, held, script>>
    BY DEF Read, fixed
  <1>3. PICK s, w, t, u : /\ s = call.fds /\ w = <<Do("write", This.p, This.q)>> /\ t = call.todo
                          /\ u = w \o t
    OBVIOUS
  <1>4. /\ This = t[1] /\ IsList(t) /\ t # <<>> /\ Steps(t) /\ NoClose(t)
    BY <1>1, <1>3, NowIs DEF Steps
  <1>5. Len(t) \in Nat /\ Len(t) # 0 /\ IsList(w) /\ Len(w) = 1 /\ w[1].do = "write"
    <2>1. w \in Seq({w[1]}) /\ Len(w) = 1 /\ w[1] = Do("write", This.p, This.q)
      BY <1>3
    <2>2. QED
      BY <1>4, <2>1, ListIs DEF IsList, Do
  <1>6. /\ IsList(u) /\ Len(u) = 1 + Len(t) /\ u[1].do = "write" /\ u # <<>>
        /\ \A i \in 1..Len(t) : u[1 + i] = t[i]
    <2>1. /\ IsList(w \o t) /\ Len(w \o t) = Len(w) + Len(t)
          /\ \A i \in 1..Len(w) : (w \o t)[i] = w[i]
          /\ \A i \in 1..Len(t) : (w \o t)[Len(w) + i] = t[i]
      <3>1. IsList(w) /\ IsList(t)
        BY <1>4, <1>5
      <3>2. QED
        BY <3>1, JoinIs
    <2>2. u = w \o t
      BY <1>3
    <2>3. /\ IsList(u) /\ Len(u) = 1 + Len(t) /\ u[1].do = "write"
          /\ \A i \in 1..Len(t) : u[1 + i] = t[i]
      BY <1>5, <2>1, <2>2
    <2>4. u # <<>>
      BY <1>5, <2>3, ListIs
    <2>5. QED
      BY <2>3, <2>4
  <1>7. ASSUME NEW i \in 1..Len(u)
        PROVE  GoesOn(u, i) /\ u[i].do # "close"
    <2>1. CASE i = 1
      <3>1. 1 + 1 <= Len(u) /\ u[1 + 1] = t[1]
        BY <1>5, <1>6
      <3>2. QED
        BY <1>1, <1>4, <1>6, <2>1, <3>1 DEF GoesOn, Loose, Tied, Unlinks
    <2>2. CASE i # 1
      <3> DEFINE j == i - 1
      <3>1. j \in 1..Len(t) /\ j \in Nat /\ i = 1 + j /\ i \in Nat
        BY <1>5, <1>6, <2>2
      <3> HIDE DEF j
      <3>2. u[i] = t[j] /\ GoesOn(t, j) /\ t[j].do # "close"
        BY <1>4, <1>6, <3>1 DEF Steps, NoClose
      <3>3. ASSUME NEW e \in {1, 2}, j + e <= Len(t)
            PROVE  u[i + e] = t[j + e] /\ i + e <= Len(u)
        <4>1. j + e \in 1..Len(t) /\ 1 + (j + e) = i + e
          BY <1>5, <3>1, <3>3
        <4>2. u[1 + (j + e)] = t[j + e]
          BY <1>6, <4>1
        <4>3. i + e <= Len(u)
          BY <1>5, <1>6, <3>1, <3>3
        <4>4. QED
          BY <4>1, <4>2, <4>3
      <3>4. /\ i < Len(u) <=> j < Len(t)
            /\ j < Len(t) => j + 1 <= Len(t)
            /\ j + 2 <= Len(t) => j + 1 <= Len(t)
        BY <1>5, <1>6, <3>1
      <3>5. /\ j + 1 <= Len(t) => u[i + 1] = t[j + 1] /\ i + 1 <= Len(u)
            /\ j + 2 <= Len(t) => u[i + 2] = t[j + 2] /\ i + 2 <= Len(u)
        BY <3>3
      <3>6. GoesOn(u, i)
        BY <3>2, <3>4, <3>5, Zenon DEF GoesOn
      <3>7. QED
        BY <3>2, <3>6
    <2>3. QED
      BY <2>1, <2>2
  <1>8. Steps(u) /\ NoClose(u)
    BY <1>6, <1>7 DEF Steps, NoClose
  <1>9. CallWith(u, s) /\ call'.names = call.names /\ call'.todo = u /\ call'.fds = s
    BY <1>3, CallRecord DEF Read, CallWith
  <1>10. /\ s \in Seq(Nat) /\ Handles(ToSet(s)) /\ IsList(call'.names) /\ ScriptIs
         /\ \A i, j \in 1..Len(s) : s[i] = s[j] => i = j
    BY <1>1, <1>3, <1>9, TiedHas DEF TreeInv, CallIs
  <1>11. Len(s) = 2 /\ s[1] \in DOMAIN pos /\ s[2] \in DOMAIN pos
    BY <1>1, <1>3, <1>4 DEF TreeInv, Hands
  <1>12. Handles(ToSet(s))' /\ ScriptIs'
    BY <1>2, <1>10, KeepHandles DEF ScriptIs
  <1>13. Hands'
    BY <1>2, <1>6, <1>9, <1>11, Disjoint DEF Hands, AtRest
  <1>14. QED
    BY <1>1, <1>6, <1>8, <1>9, <1>10, <1>12, <1>13, Disjoint, TiedStep

LEMMA WriteStep ==
  ASSUME TreeInv, Write
  PROVE  TreeInv'
  <1>1. ~AtRest /\ This.do = "write" /\ This.do \in Tied /\ This.do # "close"
    BY DEF Write, Doing, Tied
  <1>2. UNCHANGED <<open, next, pos, held, script>>
    BY DEF Write, fixed
  <1>3. PICK s, t, n, left :
          /\ s = call.fds /\ t = Tail(call.todo)
          /\ call' = [call EXCEPT !.at = @ + n, !.slot = left,
                                  !.todo = IF left = <<>> THEN Tail(@) ELSE @]
    <2>1. PICK n : WriteOf(n, SubSeq(call.slot, n + 1, Len(call.slot)))
      BY DEF Write
    <2>2. PICK left : left = SubSeq(call.slot, n + 1, Len(call.slot))
      OBVIOUS
    <2>3. call' = [call EXCEPT !.at = @ + n, !.slot = left,
                               !.todo = IF left = <<>> THEN Tail(@) ELSE @]
      BY <2>1, <2>2 DEF WriteOf
    <2>4. QED
      BY <2>3
  <1>4. CASE left # <<>>
    <2>1. CallWith(call.todo, call.fds) /\ call'.names = call.names
      BY <1>3, <1>4, CallRecord DEF CallWith
    <2>2. IsList(call'.names)
      BY <2>1 DEF TreeInv, CallIs
    <2>3. \A h \in DOMAIN pos :
            pos[h] = [seekable |-> pos[h].seekable, off |-> pos[h].off, refs |-> pos[h].refs]
      BY DEF TreeInv, Handles
    <2>4. QED
      BY <1>2, <2>1, <2>2, <2>3, SameStep
  <1>5. CASE left = <<>>
    <2>1. CallWith(t, s) /\ call'.names = call.names /\ call'.todo = t /\ call'.fds = s
      BY <1>3, <1>5, CallRecord DEF CallWith
    <2>2. /\ This = call.todo[1] /\ GoesOn(call.todo, 1) /\ IsList(call.todo) /\ call.todo # <<>>
          /\ Steps(t) /\ NoClose(t) /\ IsList(t)
      BY <1>1, <1>3, NowIs DEF Steps
    <2>3. t # <<>> /\ t[1].do = "read"
      <3>1. 1 + 1 <= Len(call.todo) /\ call.todo[1 + 1].do = "read"
        BY <1>1, <2>2 DEF GoesOn
      <3>2. /\ Len(call.todo) \in Nat /\ Len(t) = Len(call.todo) - 1
            /\ \A i \in 1..(Len(call.todo) - 1) : t[i] = call.todo[i + 1]
        BY <1>3, <2>2, ListIs
      <3>3. t # <<>> /\ t[1] = call.todo[1 + 1]
        BY <2>2, <3>1, <3>2, ListIs
      <3>4. QED
        BY <3>1, <3>3
    <2>4. /\ s \in Seq(Nat) /\ Handles(ToSet(s)) /\ IsList(call'.names) /\ ScriptIs
          /\ \A i, j \in 1..Len(s) : s[i] = s[j] => i = j
      BY <1>1, <1>3, <2>1, TiedHas DEF TreeInv, CallIs
    <2>5. Len(s) = 2 /\ s[1] \in DOMAIN pos /\ s[2] \in DOMAIN pos
      BY <1>1, <1>3, <2>2 DEF TreeInv, Hands
    <2>6. Handles(ToSet(s))' /\ ScriptIs'
      BY <1>2, <2>4, KeepHandles DEF ScriptIs
    <2>7. Hands'
      BY <1>2, <2>1, <2>3, <2>5, Disjoint DEF Hands, AtRest
    <2>8. QED
      BY <1>1, <2>1, <2>2, <2>3, <2>4, <2>6, <2>7, Disjoint, TiedStep
  <1>6. QED
    BY <1>4, <1>5

LEMMA ReadAllStep ==
  ASSUME TreeInv, ReadAll
  PROVE  TreeInv'
  <1>1. ~AtRest /\ This.do = "read_all" /\ This.do \in AfterStat
    BY DEF ReadAll, Doing, AfterStat
  <1>2. CallWith(call.todo, call.fds) /\ call'.names = call.names
    BY CallRecord DEF ReadAll, CallWith
  <1>3. IsList(call'.names)
    BY <1>2 DEF TreeInv, CallIs
  <1>4. Fd \in DOMAIN pos
    BY <1>1, NowIs DEF TreeInv, Hands, Fd
  <1>5. PICK off : pos' = [pos EXCEPT ![Fd].off = off]
    <2>1. PICK n : pos' = [pos EXCEPT ![Fd].off = IF pos[Fd].seekable THEN @ + n ELSE @]
      BY DEF ReadAll
    <2>2. pos' = [pos EXCEPT ![Fd].off = IF pos[Fd].seekable THEN pos[Fd].off + n ELSE pos[Fd].off]
      BY <1>4, <2>1
    <2>3. QED
      BY <2>2
  <1>6. \A h \in DOMAIN pos :
          pos[h] = [seekable |-> pos[h].seekable, off |-> pos[h].off, refs |-> pos[h].refs]
    BY DEF TreeInv, Handles
  <1>7. /\ DOMAIN pos' = DOMAIN pos /\ pos'[Fd] = [pos[Fd] EXCEPT !.off = off]
        /\ \A h \in DOMAIN pos : h # Fd => pos'[h] = pos[h]
    BY <1>4, <1>5
  <1>8. pos'[Fd] = [seekable |-> pos[Fd].seekable, off |-> off, refs |-> pos[Fd].refs]
    BY <1>4, <1>6, <1>7
  <1>9. \A h \in DOMAIN pos :
          /\ pos'[h] = [seekable |-> pos'[h].seekable, off |-> pos'[h].off, refs |-> pos'[h].refs]
          /\ pos'[h].refs = pos[h].refs
    BY <1>6, <1>7, <1>8
  <1>10. UNCHANGED <<open, next, held, script>>
    BY DEF ReadAll, fixed
  <1>11. QED
    BY <1>2, <1>3, <1>7, <1>9, <1>10, SameStep

\* Both are closed at the end.
LEMMA ReadEndStep ==
  ASSUME TreeInv, ReadEnd \/ ReadAllEnd
  PROVE  TreeInv'
  <1>1. ~AtRest /\ This.do \in {"read", "read_all"}
    BY DEF ReadEnd, ReadAllEnd, Doing
  <1>2. This.do \in Tied /\ This.do \in Last1
    BY <1>1 DEF Tied, Last1
  <1>3. Block(Tail(call.todo))
    BY <1>1, <1>2, NowIs
  <1>4. CallWith(Closing \o Tail(call.todo), <<>>) /\ call'.names = call.names
    BY CallRecord DEF ReadEnd, ReadAllEnd, CallWith
  <1>5. IsList(call'.names)
    BY <1>4 DEF TreeInv, CallIs
  <1>6. UNCHANGED <<open, next, pos, held, script>>
    BY DEF ReadEnd, ReadAllEnd, fixed
  <1>7. QED
    BY <1>1, <1>2, <1>3, <1>4, <1>5, <1>6, ClosingStep

\* One step of TreeNext.
LEMMA TreeSteps ==
  ASSUME TreeInv, TreeNext
  PROVE  TreeInv'
  <1>1. CASE Begin
    BY <1>1, BeginStep
  <1>2. CASE Return
    BY <1>2, ReturnStep
  <1>3. CASE Opendir
    <2>1. /\ ~AtRest /\ This.do = "opendir" /\ UNCHANGED <<pos, held, script>>
      BY <1>3 DEF Opendir, Doing, fixed
    <2>2. \/ \E what : Opened(what)
          \/ UNCHANGED <<open, next>> /\ \E e : Fails(e)
      BY <1>3 DEF Opendir
    <2>3. QED
      BY <2>1, <2>2, OpenedStep, FailsStep
  <1>4. CASE OpenSrc
    <2>1. /\ ~AtRest /\ This.do = "open_src" /\ UNCHANGED <<pos, held, script>>
      BY <1>4 DEF OpenSrc, Doing, fixed
    <2>2. \/ \E what : Opened(what)
          \/ UNCHANGED <<open, next>> /\ \E e : Fails(e)
      BY <1>4 DEF OpenSrc
    <2>3. QED
      BY <2>1, <2>2, OpenedStep, FailsStep
  <1>5. CASE OpenDst
    <2>1. /\ ~AtRest /\ This.do = "open_dst" /\ UNCHANGED <<pos, held, script>>
      BY <1>5 DEF OpenDst, Doing, fixed
    <2>2. \E what : Opened(what)
      BY <1>5 DEF OpenDst
    <2>3. QED
      BY <2>1, <2>2, OpenedStep
  <1>6. CASE OpenDstFails
    BY <1>6, FailsStep DEF OpenDstFails, Doing, fixed
  <1>7. CASE StatFd
    BY <1>7, StatFdStep
  <1>8. CASE Keep
    BY <1>8, KeepStep
  <1>9. CASE Close
    BY <1>9, CloseStep
  <1>10. CASE DupFd
    BY <1>10, DupFdStep
  <1>11. CASE CloseOwn
    BY <1>11, CloseOwnStep
  <1>12. CASE Readdir
    BY <1>12, ReaddirStep
  <1>13. CASE ReaddirEnd
    BY <1>13, ReaddirEndStep
  <1>14. CASE Closedir
    BY <1>14, ClosedirStep
  <1>15. CASE ListDone
    <2>1. ~AtRest /\ This.do = "listed" /\ UNCHANGED <<open, next, pos, held, script>>
      BY <1>15 DEF ListDone, Doing, fixed
    <2>2. CallWith(Tail(call.todo), call.fds) /\ call'.names = <<>>
      BY <1>15, CallRecord DEF ListDone, CallWith
    <2>3. <<>> \o Tail(call.todo) = Tail(call.todo)
      BY <2>1, NowIs, EmptyBlock, JoinIs DEF Block, Steps
    <2>4. This.do \in Loose \ {"opendir", "open_src", "return"} /\ IsList(call'.names)
      BY <2>1, <2>2, EmptyBlock DEF Loose, Block, Steps
    <2>5. CallWith(<<>> \o Tail(call.todo), call.fds)
      BY <2>2, <2>3
    <2>6. QED
      BY <2>1, <2>4, <2>5, EmptyBlock, LooseStep
  <1>16. CASE RemoveEntries
    BY <1>16, RemoveEntriesStep
  <1>17. CASE Unlink
    <2>1. /\ ~AtRest /\ This.do \in Loose \ {"opendir", "open_src", "return"}
          /\ UNCHANGED <<open, next, pos, held, script>> /\ Then(<<>>)
      BY <1>17 DEF Unlink, Doing, fixed, Loose, Unlinks
    <2>2. QED
      BY <2>1, EmptyBlock, ThenStep
  <1>18. CASE UnlinkDir
    <2>1. /\ ~AtRest /\ This.do \in Loose \ {"opendir", "open_src", "return"}
          /\ UNCHANGED <<open, next, pos, held, script>>
      BY <1>18 DEF UnlinkDir, Doing, fixed, Loose, Unlinks
    <2>2. \/ Then(<<Do("rmdir", This.p, This.p)>>)
          \/ Then(List(This.p, "remove_entries", This.p))
      BY <1>18 DEF UnlinkDir
    <2>3. Block(<<Do("rmdir", This.p, This.p)>>) /\ Block(List(This.p, "remove_entries", This.p))
      BY OneStep, ListBlock DEF Do, Loose
    <2>4. QED
      BY <2>1, <2>2, <2>3, ThenStep
  <1>19. CASE UnlinkFails
    BY <1>19, FailsStep DEF UnlinkFails, Doing, fixed, Unlinks
  <1>20. CASE Rmdir
    <2>1. /\ ~AtRest /\ This.do \in Loose \ {"opendir", "open_src", "return"} /\ This.do = "rmdir"
          /\ UNCHANGED <<open, next, pos, held, script>>
      BY <1>20 DEF Rmdir, Doing, fixed, Loose
    <2>2. Then(<<>>) \/ Fails("ENOTEMPTY")
      BY <1>20 DEF Rmdir
    <2>3. QED
      BY <2>1, <2>2, EmptyBlock, ThenStep, FailsStep
  <1>21. CASE Mkdir
    <2>1. /\ ~AtRest /\ This.do \in Loose \ {"opendir", "open_src", "return"}
          /\ UNCHANGED <<open, next, pos, held, script>> /\ Then(<<>>)
      BY <1>21 DEF Mkdir, Doing, fixed, Loose
    <2>2. QED
      BY <2>1, EmptyBlock, ThenStep
  <1>22. CASE MkdirStands
    <2>1. /\ ~AtRest /\ This.do \in Loose \ {"opendir", "open_src", "return"}
          /\ UNCHANGED <<open, next, pos, held, script>>
      BY <1>22 DEF MkdirStands, Doing, fixed, Loose
    <2>2. PICK a, b : a = Do("readlink_kind", This.p, This.p) /\ b = Do("stat_kind", This.p, This.p)
      OBVIOUS
    <2>3. Then(<<a, b>>) \/ Then(<<>>)
      BY <1>22, <2>2 DEF MkdirStands
    <2>4. Block(<<a, b>>)
      <3>1. Block(<<a>>) /\ Block(<<b>>)
        BY <2>2, OneStep DEF Do, Loose
      <3>2. QED
        BY <3>1, TwoSteps
    <2>5. QED
      BY <2>1, <2>3, <2>4, EmptyBlock, ThenStep
  <1>23. CASE Readlink
    <2>1. /\ ~AtRest /\ This.do \in Loose \ {"opendir", "open_src", "return"}
          /\ This.do \in {"readlink_kind", "readlink_copy"}
          /\ UNCHANGED <<open, next, pos, held, script>>
      BY <1>23 DEF Readlink, Doing, fixed, Loose
    <2>2. \/ \E e : Fails(e)
          \/ Then(<<>>)
          \/ Then(<<Do("symlink_over", tree[Here(This.p)].target, This.q)>>)
      BY <1>23, Zenon DEF Readlink
    <2>3. Block(<<Do("symlink_over", tree[Here(This.p)].target, This.q)>>)
      BY OneStep DEF Do, Loose
    <2>4. QED
      BY <2>1, <2>2, <2>3, EmptyBlock, ThenStep, FailsStep
  <1>24. CASE StatKind
    <2>1. /\ ~AtRest /\ This.do \in Loose \ {"opendir", "open_src", "return"} /\ This.do = "stat_kind"
          /\ UNCHANGED <<open, next, pos, held, script>>
      BY <1>24 DEF StatKind, Doing, fixed, Loose
    <2>2. Then(<<>>) \/ Fails("EEXIST")
      BY <1>24 DEF StatKind
    <2>3. QED
      BY <2>1, <2>2, EmptyBlock, ThenStep, FailsStep
  <1>25. CASE Symlink
    <2>1. /\ ~AtRest /\ This.do \in Loose \ {"opendir", "open_src", "return"}
          /\ UNCHANGED <<open, next, pos, held, script>> /\ Then(<<>>)
      BY <1>25 DEF Symlink, Doing, fixed, Loose
    <2>2. QED
      BY <2>1, EmptyBlock, ThenStep
  <1>26. CASE SymlinkOver
    <2>1. /\ ~AtRest /\ This.do \in Loose \ {"opendir", "open_src", "return"}
          /\ UNCHANGED <<open, next, pos, held, script>>
      BY <1>26 DEF SymlinkOver, Doing, fixed, Loose
    <2>2. PICK a, b : a = Do("unlink_all", This.q, This.q) /\ b = Do("symlink", This.p, This.q)
      OBVIOUS
    <2>3. Then(<<a, b>>)
      BY <1>26, <2>2 DEF SymlinkOver
    <2>4. Block(<<a, b>>)
      <3>1. Block(<<a>>) /\ Block(<<b>>)
        BY <2>2, OneStep DEF Do, Loose, Unlinks
      <3>2. QED
        BY <3>1, TwoSteps
    <2>5. QED
      BY <2>1, <2>3, <2>4, ThenStep
  <1>27. CASE MakeFails
    BY <1>27, FailsStep DEF MakeFails, Doing, fixed
  <1>28. CASE CopyEntries
    BY <1>28, CopyEntriesStep
  <1>29. CASE ReadOfDir
    BY <1>29, FailsStep DEF ReadOfDir, Doing, fixed
  <1>30. CASE Read
    BY <1>30, ReadStep
  <1>31. CASE ReadEnd \/ ReadAllEnd
    BY <1>31, ReadEndStep
  <1>32. CASE Write
    BY <1>32, WriteStep
  <1>33. CASE ReadAll
    BY <1>33, ReadAllStep
  <1>34. CASE Fault
    BY <1>34, FailsStep DEF Fault, fixed
  <1>35. CASE Other
    <2>1. UNCHANGED <<open, next, pos, held, script, call>>
      BY <1>35 DEF Other
    <2>2. CallWith(call.todo, call.fds) /\ IsList(call'.names)
      BY <2>1, CallRecord DEF CallWith, TreeInv, CallIs
    <2>3. \A h \in DOMAIN pos :
            pos[h] = [seekable |-> pos[h].seekable, off |-> pos[h].off, refs |-> pos[h].refs]
      BY DEF TreeInv, Handles
    <2>4. QED
      BY <2>1, <2>2, <2>3, SameStep
  <1>36. QED
    BY <1>1, <1>2, <1>3, <1>4, <1>5, <1>6, <1>7, <1>8, <1>9, <1>10, <1>11, <1>12, <1>13, <1>14,
       <1>15, <1>16, <1>17, <1>18, <1>19, <1>20, <1>21, <1>22, <1>23, <1>24, <1>25, <1>26, <1>27,
       <1>28, <1>29, <1>30, <1>31, <1>32, <1>33, <1>34, <1>35, Zenon DEF TreeNext, Step

LEMMA TreeStarts == TreeInit => TreeInv
  <1> SUFFICES ASSUME TreeInit PROVE TreeInv
    OBVIOUS
  <1>1. call = NoCall /\ open = <<>> /\ pos = <<>> /\ held = <<>> /\ next = 1 /\ script \in Scripts
    BY DEF TreeInit
  <1>2. call.todo = <<>> /\ call.fds = <<>> /\ call.names = <<>> /\ AtRest
    BY <1>1 DEF NoCall, AtRest
  <1>3. IsList(<<>>) /\ Steps(<<>>) /\ Len(<<>>) = 0 /\ <<>> \in Seq(Nat)
    BY EmptyBlock DEF Block, Steps
  <1>4. CallIs
    BY <1>1, <1>2, <1>3 DEF CallIs, NoCall
  <1>5. Closes /\ Hands /\ Mine = {}
    BY <1>2, <1>3 DEF Closes, Hands, Mine
  <1>6. DOMAIN open = {} /\ DOMAIN pos = {} /\ ToSet(held) = {}
    BY <1>1 DEF ToSet
  <1>7. Handles({})
    BY <1>1, <1>3, <1>6 DEF Handles
  <1>8. ScriptIs
    BY <1>1, ScriptsAssumption DEF ScriptIs
  <1>9. QED
    BY <1>4, <1>5, <1>7, <1>8 DEF TreeInv

\* What the library's calls have open: the steps that a call has still to make
\* open what they need and close it, whatever they put in their place, and at
\* each of them the kernel's handles are the program's and those of the step.
THEOREM TreeInvariant == TreeSpec => []TreeInv
  <1>1. TreeInv /\ [TreeNext]_treeVars => TreeInv'
    <2>1. TreeInv /\ UNCHANGED treeVars => TreeInv'
      <3> SUFFICES ASSUME TreeInv, UNCHANGED treeVars PROVE TreeInv'
        OBVIOUS
      <3>1. UNCHANGED <<open, next, pos, held, script, call>>
        BY DEF treeVars
      <3>2. CallWith(call.todo, call.fds) /\ IsList(call'.names)
        BY <3>1, CallRecord DEF CallWith, TreeInv, CallIs
      <3>3. \A h \in DOMAIN pos :
              pos[h] = [seekable |-> pos[h].seekable, off |-> pos[h].off, refs |-> pos[h].refs]
        BY DEF TreeInv, Handles
      <3>4. QED
        BY <3>1, <3>2, <3>3, SameStep
    <2>2. QED
      BY <2>1, TreeSteps
  <1>2. QED
    BY <1>1, TreeStarts, PTL DEF TreeSpec

\* When no call of the library is in progress, whatever it found and whichever
\* of its operations failed, the kernel has open what the program has names
\* for, and each record counts its names: for any tree, any calls, any sizes of
\* pages and slots.
THEOREM TreeLeavesNothingOpen == TreeSpec => []NothingLeftOpen
  <1>1. TreeInv => NothingLeftOpen
    <2> SUFFICES ASSUME TreeInv, AtRest PROVE NothingLeftOpen
      BY DEF NothingLeftOpen
    <2>1. Handles({}) /\ held \in Seq(Nat)
      BY LooseHas DEF Handles
    <2>2. DOMAIN held = 1..Len(held)
      BY <2>1
    <2>3. QED
      BY <2>1, <2>2 DEF NothingLeftOpen, Handles, Uses
  <1>2. QED
    BY <1>1, TreeInvariant, PTL
=============================================================================
