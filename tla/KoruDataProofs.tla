-------------------------- MODULE KoruDataProofs --------------------------
(***************************************************************************)
(* Proofs about the arena and the data path (KoruArena), for any number of *)
(* tasks and workers, any sizes and any operations, and about the timeout  *)
(* of ENTER (KoruWait), for every tick and every width of the integers.    *)
(*                                                                         *)
(* The data path: at every moment each byte of a slot that an operation    *)
(* has is known, from how far the operation is (Content, Holds).  A chunk  *)
(* is stored within one page, where the operation is (StoreIs), and slots  *)
(* do not overlap (SlotsApart), so that no other operation sees it.        *)
(***************************************************************************)
EXTENDS KoruWait, KoruArena, SequenceTheorems, TLAPS

-----------------------------------------------------------------------------
(* The invariant of the arena.                                             *)

Bytes == {"zero", "user", "file", "stat", "dir"} \X Int
Page == [0..(PageSize - 1) -> Bytes]
Record == [entry : Nat, cookie : Nat]
Config == [slot_size : Nat, slot_count : Nat]
Job == [at : {"vfs", "copy", "iterate", "done"}, sqe : Sqes, done : Nat, chunk : Seq(Bytes),
        res : Int, pos : Nat, out : Seq(Bytes), dir : Nat, used : Nat, recs : Seq(Record),
        full : BOOLEAN, skipped : BOOLEAN]

Calls == {Resting} \cup [at : {"install"}, req : Config] \cup [at : {"mmap", "insert"}, n : Nat]
                \cup [at : {"fault"}]

Types ==
  /\ config \in Config /\ pages \in Seq(Page) /\ mapped \in BOOLEAN
  /\ task \in [Threads -> Calls]
  /\ job \in [Workers -> {Resting} \cup Job]
  /\ vma \in [Threads -> Nat] /\ made \in Nat
  /\ written \in [Workers -> Seq(Bytes)]
  /\ arenaLock \in Threads \cup Workers \cup {Nobody}

\* The configuration is there whole, or not at all.
ConfigInv ==
  /\ config = NoConfig => pages = <<>> /\ ~mapped
  /\ config # NoConfig => config.slot_size > 0 /\ ArenaSize(config) = Len(pages) * PageSize
  /\ \A t \in Threads : task[t].at = "install" =>
       /\ task[t].req.slot_size > 0
       /\ task[t].req.slot_size % PageSize = 0

\* Who inserts pages has the arena to himself, and it is not mapped.
MapInv ==
  /\ MappedOnceWhole
  /\ \A t \in Threads :
       /\ task[t].at \in {"mmap", "insert"} => config # NoConfig
       /\ task[t].at = "insert" => arenaLock = t /\ ~mapped /\ task[t].n <= Len(pages)
       /\ task[t].at = "mmap" => task[t].n = 0

\* Where an operation's slot begins, and where in it the operation's bytes do.
SlotAt(c, s) == s.slot * c.slot_size
Start(s) == IF s.kind \in {"gather", "answer"} THEN s.off ELSE 0

\* An operation keeps to its slot, and as long as it is not done it is where
\* its bytes are up to.
JobOk(c, o) ==
  /\ c # NoConfig /\ o.sqe.slot < c.slot_count
  /\ Start(o.sqe) + o.sqe.len <= c.slot_size
  /\ o.done <= o.sqe.len
  /\ o.at # "done" => o.pos = SlotAt(c, o.sqe) + Start(o.sqe) + o.done
  /\ o.sqe.kind \in {"read", "write"} => o.at # "iterate" /\ (o.at # "done" => o.done < o.sqe.len)
  /\ o.sqe.kind \in {"gather", "answer"} => o.at \in {"copy", "done"}
  /\ o.sqe.kind \in {"answer", "readdir"} => o.done <= Len(o.out) /\ Len(o.out) <= o.sqe.len
  /\ o.sqe.kind = "readdir" => o.at \in {"iterate", "copy", "done"}
  /\ o.at = "iterate" => o.done = 0

\* The bytes it has in hand are the ones that come next.
ChunkOk(c, o) ==
  /\ o.sqe.kind = "read" /\ o.at = "copy" =>
       /\ Len(o.chunk) \in 1..InPage(o.pos, o.sqe.len - o.done)
       /\ \A i \in 1..Len(o.chunk) : o.chunk[i] = FileByte(o.sqe.off + o.done + i - 1)
  /\ o.sqe.kind = "write" /\ o.at = "vfs" =>
       /\ Len(o.chunk) <= o.sqe.len - o.done
       /\ \A i \in 1..Len(o.chunk) : o.chunk[i] = UserByte(o.pos + i - 1)
  /\ o.sqe.kind = "gather" =>
       /\ Len(o.out) = o.done /\ (o.at = "done" => o.done = o.sqe.len)
       /\ \A i \in 1..Len(o.out) :
            o.out[i] = UserByte(SlotAt(c, o.sqe) + Start(o.sqe) + i - 1)

\* What it has given to its file.
WroteOk(c, o, bytes) ==
  o.sqe.kind = "write" =>
    /\ o.done = Len(bytes)
    /\ \A i \in 1..Len(bytes) : bytes[i] = UserByte(SlotAt(c, o.sqe) + i - 1)

\* The byte at position a of the arena, and what is at offset a of a slot.
At(ps, a) == ps[(a \div PageSize) + 1][a % PageSize]

Content(c, o, a) ==
  IF o.sqe.kind = "read" /\ a < o.done THEN FileByte(o.sqe.off + a)
  ELSE IF o.sqe.kind \in {"answer", "readdir"} /\ a \in Start(o.sqe)..(Start(o.sqe) + o.done - 1)
  THEN o.out[a - Start(o.sqe) + 1]
  ELSE UserByte(SlotAt(c, o.sqe) + a)

Holds(c, ps, o) ==
  \A a \in 0..(c.slot_size - 1) : At(ps, SlotAt(c, o.sqe) + a) = Content(c, o, a)

\* A READDIR has recorded what is named up to where it is, and each record but
\* the last has the cookie that goes on after it.
Recorded(o) == {o.recs[i].entry : i \in 1..Len(o.recs)}

DirOk(o) ==
  o.sqe.kind = "readdir" =>
    \/ o.at = "done" /\ o.res = Errno
    \/ /\ Recorded(o) = NamedAfter(o.sqe.off) \ NamedAfter(o.dir)
       /\ \A i \in 1..Len(o.recs) :
            NamedAfter(IF i = Len(o.recs) /\ o.at = "iterate" THEN o.dir ELSE o.recs[i].cookie)
              = NamedAfter(o.recs[i].entry)
       /\ o.skipped <=> \E k \in (o.sqe.off + 1)..o.dir : ~Directory[k].named
       /\ o.sqe.off <= o.dir
       /\ o.used = Len(o.out) /\ (o.used = 0 <=> o.recs = <<>>)
       /\ o.at = "iterate" => o.used <= o.sqe.len
       /\ o.at # "iterate" /\ o.used = 0 => NamedAfter(o.sqe.off) = {}
       /\ o.at = "done" => o.res = o.used

\* An operation that a worker has in hand.
JobInv(c, ps, o, bytes) ==
  JobOk(c, o) /\ ChunkOk(c, o) /\ WroteOk(c, o, bytes) /\ Holds(c, ps, o) /\ DirOk(o)

SlotsApart ==
  \A v, w \in Workers :
    v # w /\ job[v] # Resting /\ job[w] # Resting => job[v].sqe.slot # job[w].sqe.slot

WorkInv ==
  /\ \A w \in Workers : job[w] # Resting => JobInv(config, pages, job[w], written[w])
  /\ SlotsApart

ArenaInv == Types /\ ConfigInv /\ MapInv /\ WorkInv

USE DEF Errno

-----------------------------------------------------------------------------
(* Positions, pages and slots.                                             *)

LEMMA TimesGrows ==
  ASSUME NEW a \in Nat, NEW b \in Nat, NEW c \in Nat, a <= b
  PROVE  a * c \in Nat /\ b * c \in Nat /\ a * c <= b * c
  <1>1. b - a \in Nat /\ b = a + (b - a)
    OBVIOUS
  <1>2. (b - a) * c \in Nat /\ a * c \in Nat
    BY <1>1
  <1>3. b * c = (a * c) + ((b - a) * c)
    BY <1>1, <1>2
  <1> QED
    BY <1>2, <1>3

\* A position is a page and a place in it, and in one way only.
LEMMA PositionIs ==
  ASSUME NEW a \in Nat
  PROVE  /\ a \div PageSize \in Nat /\ a % PageSize \in 0..(PageSize - 1)
         /\ (a \div PageSize) * PageSize \in Nat
         /\ a = (a \div PageSize) * PageSize + (a % PageSize)
  <1>1. PageSize \in Nat \ {0}
    BY SizesAssumption
  <1> QED
    BY <1>1

LEMMA PositionOf ==
  ASSUME NEW q \in Nat, NEW r \in 0..(PageSize - 1), NEW a \in Nat, a = q * PageSize + r
  PROVE  a \div PageSize = q /\ a % PageSize = r
  <1> DEFINE p == a \div PageSize
             s == a % PageSize
  <1>1. PageSize \in Nat \ {0}
    BY SizesAssumption
  <1>2. p \in Nat /\ s \in 0..(PageSize - 1) /\ a = p * PageSize + s
    BY PositionIs
  <1>3. p * PageSize \in Nat /\ q * PageSize \in Nat
    BY <1>1, <1>2
  <1> HIDE DEF p, s
  <1>4. ASSUME p < q PROVE FALSE
    <2>1. (p + 1) * PageSize <= q * PageSize /\ (p + 1) * PageSize = p * PageSize + PageSize
      BY <1>1, <1>2, <1>4, TimesGrows
    <2> QED
      BY <1>1, <1>2, <1>3, <2>1
  <1>5. ASSUME q < p PROVE FALSE
    <2>1. (q + 1) * PageSize <= p * PageSize /\ (q + 1) * PageSize = q * PageSize + PageSize
      BY <1>1, <1>2, <1>5, TimesGrows
    <2> QED
      BY <1>1, <1>2, <1>3, <2>1
  <1>6. p = q
    BY <1>2, <1>4, <1>5
  <1>7. s = r
    BY <1>1, <1>2, <1>3, <1>6
  <1> QED
    BY <1>6, <1>7 DEF p, s

\* What is before the end of the last page is in a page.
LEMMA InSomePage ==
  ASSUME NEW a \in Nat, NEW n \in Nat, a < n * PageSize
  PROVE  (a \div PageSize) + 1 \in 1..n
  <1> DEFINE q == a \div PageSize
  <1>1. PageSize \in Nat \ {0}
    BY SizesAssumption
  <1>2. q \in Nat /\ q * PageSize \in Nat /\ q * PageSize <= a
    BY PositionIs, <1>1
  <1> HIDE DEF q
  <1>3. CASE n <= q
    <2>1. n * PageSize <= q * PageSize /\ n * PageSize \in Nat
      BY <1>1, <1>2, <1>3, TimesGrows
    <2> QED
      BY <1>2, <2>1
  <1> QED
    BY <1>2, <1>3 DEF q

\* The positions of a chunk that starts at pos and stays in its page.
LEMMA SamePage ==
  ASSUME NEW pos \in Nat, NEW n \in Nat, n <= PageSize - (pos % PageSize),
         NEW a \in Nat
  PROVE  a \in pos..(pos + n - 1) <=>
           /\ a \div PageSize = pos \div PageSize
           /\ a % PageSize \in (pos % PageSize)..((pos % PageSize) + n - 1)
  <1> DEFINE q == pos \div PageSize
             r == pos % PageSize
  <1>1. PageSize \in Nat \ {0}
    BY SizesAssumption
  <1>2. q \in Nat /\ r \in 0..(PageSize - 1) /\ q * PageSize \in Nat /\ pos = q * PageSize + r
    BY PositionIs
  <1>3. a % PageSize \in Nat /\ a = (a \div PageSize) * PageSize + (a % PageSize)
    BY <1>1, PositionIs
  <1>4. ASSUME a \in pos..(pos + n - 1)
        PROVE  a \div PageSize = q /\ a % PageSize \in r..(r + n - 1)
    <2> DEFINE s == r + (a - pos)
    <2>1. s \in 0..(PageSize - 1) /\ a = q * PageSize + s /\ s \in r..(r + n - 1)
      <3> HIDE DEF q, r
      <3> QED
        BY <1>1, <1>2, <1>4
    <2> HIDE DEF q, r, s
    <2> QED
      BY <1>2, <2>1, PositionOf
  <1>5. ASSUME a \div PageSize = q, a % PageSize \in r..(r + n - 1)
        PROVE  a \in pos..(pos + n - 1)
    <2> DEFINE s == a % PageSize
    <2>1. a = q * PageSize + s /\ s \in r..(r + n - 1)
      BY <1>3, <1>5
    <2> HIDE DEF q, r, s
    <2> QED
      BY <1>2, <2>1
  <1> QED
    BY <1>4, <1>5

\* A slot is in the arena, and no other slot has any of it.
LEMMA SlotInArena ==
  ASSUME NEW c \in Config, NEW s \in Nat, s < c.slot_count, NEW a \in 0..(c.slot_size - 1)
  PROVE  s * c.slot_size \in Nat /\ s * c.slot_size + a < ArenaSize(c)
  <1> DEFINE size == c.slot_size
             count == c.slot_count
  <1>1. size \in Nat /\ count \in Nat
    BY DEF Config
  <1>2. ArenaSize(c) = count * size
    BY <1>1 DEF ArenaSize
  <1> HIDE DEF size, count
  <1>3. (s + 1) * size <= count * size /\ (s + 1) * size = s * size + size /\ s * size \in Nat
        /\ count * size \in Nat
    BY <1>1, TimesGrows DEF count
  <1>4. a \in Nat /\ a < size
    BY <1>1 DEF size
  <1>5. s * size \in Nat /\ s * size + a < count * size
    BY <1>1, <1>3, <1>4
  <1> QED
    BY <1>2, <1>5 DEF size

LEMMA SlotsDisjoint ==
  ASSUME NEW c \in Config, NEW s \in Nat, NEW t \in Nat, s # t,
         NEW a \in 0..(c.slot_size - 1), NEW b \in 0..(c.slot_size - 1)
  PROVE  s * c.slot_size + a # t * c.slot_size + b
  <1> DEFINE size == c.slot_size
  <1>1. size \in Nat
    BY DEF Config
  <1>2. a \in Nat /\ a < size /\ b \in Nat /\ b < size
    BY <1>1
  <1> HIDE DEF size
  <1>3. s * size \in Nat /\ t * size \in Nat
    BY <1>1
  <1>4. CASE s < t
    <2>1. (s + 1) * size <= t * size /\ (s + 1) * size = s * size + size
      BY <1>1, <1>4, TimesGrows
    <2> QED
      BY <1>1, <1>2, <1>3, <2>1 DEF size
  <1>5. CASE t < s
    <2>1. (t + 1) * size <= s * size /\ (t + 1) * size = t * size + size
      BY <1>1, <1>5, TimesGrows
    <2> QED
      BY <1>1, <1>2, <1>3, <2>1 DEF size
  <1> QED
    BY <1>4, <1>5

\* The arena after a chunk is stored, position by position.
LEMMA StoreIs ==
  ASSUME pages \in Seq(Page), NEW pos \in Nat, NEW n \in Nat,
         n <= PageSize - (pos % PageSize), (pos \div PageSize) + 1 \in 1..Len(pages),
         NEW bytes, \A i \in 1..n : bytes[i] \in Bytes
  PROVE  /\ Store(pos, bytes, n) \in Seq(Page)
         /\ Len(Store(pos, bytes, n)) = Len(pages)
         /\ \A a \in Nat : a < Len(pages) * PageSize =>
              At(Store(pos, bytes, n), a) =
                IF a \in pos..(pos + n - 1) THEN bytes[a - pos + 1] ELSE At(pages, a)
  <1> DEFINE q == pos \div PageSize
             r == pos % PageSize
             page == [i \in 0..(PageSize - 1) |->
                        IF i \in r..(r + n - 1) THEN bytes[i - r + 1] ELSE pages[q + 1][i]]
             new == Store(pos, bytes, n)
  <1>1. PageSize \in Nat \ {0} /\ q \in Nat /\ r \in 0..(PageSize - 1)
        /\ q * PageSize \in Nat /\ pos = q * PageSize + r
    BY SizesAssumption, PositionIs
  <1>2. new = [pages EXCEPT ![q + 1] = page]
    BY DEF Store
  <1>3. pages[q + 1] \in Page
    BY ElementOfSeq
  <1>4. page \in Page
    <2>1. \A i \in 0..(PageSize - 1) :
            (IF i \in r..(r + n - 1) THEN bytes[i - r + 1] ELSE pages[q + 1][i]) \in Bytes
      <3> HIDE DEF q, r
      <3> QED
        BY <1>1, <1>3 DEF Page
    <2> QED
      BY <2>1 DEF Page
  <1>5. new \in Seq(Page) /\ Len(new) = Len(pages)
        /\ \A i \in 1..Len(pages) : new[i] = IF i = q + 1 THEN page ELSE pages[i]
    <2>1. q + 1 \in 1..Len(pages)
      OBVIOUS
    <2> HIDE DEF page, q, new
    <2> QED
      BY <1>2, <1>4, <2>1, ExceptSeq
  <1>6. ASSUME NEW a \in Nat, a < Len(pages) * PageSize
        PROVE  At(new, a) = IF a \in pos..(pos + n - 1) THEN bytes[a - pos + 1] ELSE At(pages, a)
    <2> DEFINE qa == a \div PageSize
               ra == a % PageSize
    <2>1. qa \in Nat /\ ra \in 0..(PageSize - 1) /\ qa * PageSize \in Nat /\ a = qa * PageSize + ra
      BY PositionIs
    <2>2. qa + 1 \in 1..Len(pages)
      BY <1>6, InSomePage, LenProperties
    <2>3. a \in pos..(pos + n - 1) <=> qa = q /\ ra \in r..(r + n - 1)
      BY SamePage
    <2>4. At(new, a) = new[qa + 1][ra] /\ At(pages, a) = pages[qa + 1][ra]
      BY DEF At
    <2>5. page[ra] = IF ra \in r..(r + n - 1) THEN bytes[ra - r + 1] ELSE pages[q + 1][ra]
      BY <2>1
    <2> HIDE DEF q, r, qa, ra, page, new
    <2>6. CASE qa = q
      <3>1. a - pos = ra - r
        BY <1>1, <2>1, <2>6
      <3>2. At(new, a) = page[ra]
        BY <1>5, <2>2, <2>4, <2>6
      <3> QED
        BY <2>3, <2>4, <2>5, <2>6, <3>1, <3>2
    <2>7. CASE qa # q
      BY <1>1, <1>5, <2>1, <2>2, <2>3, <2>4, <2>7
    <2> QED
      BY <2>6, <2>7
  <1> QED
    BY <1>5, <1>6

-----------------------------------------------------------------------------
(* Steps of workers.                                                       *)

LEMMA SqeFacts ==
  ASSUME NEW s \in Sqes
  PROVE  /\ s.kind \in {"read", "write", "gather", "answer", "readdir"}
         /\ s.slot \in Nat /\ s.off \in Nat /\ s.len \in Nat /\ Start(s) \in Nat
  BY SqesAssumption DEF Start

LEMMA JobFacts ==
  ASSUME NEW o \in Job
  PROVE  /\ o # Resting
         /\ o.at \in {"vfs", "copy", "iterate", "done"} /\ o.sqe \in Sqes
         /\ o.done \in Nat /\ o.chunk \in Seq(Bytes) /\ o.res \in Int /\ o.pos \in Nat
         /\ o.out \in Seq(Bytes) /\ o.dir \in Nat /\ o.used \in Nat /\ o.recs \in Seq(Record)
         /\ o.full \in BOOLEAN /\ o.skipped \in BOOLEAN
  BY DEF Job, Resting

\* A worker that has an operation in hand.
LEMMA Working ==
  ASSUME ArenaInv, NEW w \in Workers, job[w].at # "idle"
  PROVE  job[w] # Resting /\ job[w] \in Job /\ JobInv(config, pages, job[w], written[w])
  BY DEF ArenaInv, Types, WorkInv, Resting

LEMMA ConfigFacts ==
  ASSUME ArenaInv, config # NoConfig
  PROVE  /\ config \in Config /\ config.slot_size \in Nat \ {0} /\ config.slot_count \in Nat
         /\ ArenaSize(config) = Len(pages) * PageSize
         /\ pages \in Seq(Page) /\ Len(pages) \in Nat
  BY LenProperties DEF ArenaInv, Types, ConfigInv, Config

\* What it takes for a step that gives a worker an operation, or takes one
\* further, to keep the invariant.
LEMMA JobStep ==
  ASSUME ArenaInv, NEW w \in Workers, config # NoConfig,
         NEW o \in Job, job' = [job EXCEPT ![w] = o],
         \A v \in Workers \ {w} : job[v] # Resting => job[v].sqe.slot # o.sqe.slot,
         JobInv(config, pages', o, written'[w]),
         pages' \in Seq(Page), Len(pages') = Len(pages),
         \A v \in Workers \ {w} : job[v] # Resting => Holds(config, pages', job[v]),
         written' \in [Workers -> Seq(Bytes)],
         \A v \in Workers \ {w} : written'[v] = written[v],
         UNCHANGED <<config, mapped, task, vma, made>>,
         arenaLock' = arenaLock \/ (arenaLock \in {Nobody, w} /\ arenaLock' \in {Nobody, w})
  PROVE  ArenaInv'
  <1>1. Types'
    BY DEF ArenaInv, Types
  <1>2. ConfigInv'
    BY DEF ArenaInv, ConfigInv
  <1>3. MapInv'
    <2>1. \A t \in Threads : t # w /\ t # Nobody
      BY NobodyAssumption
    <2> QED
      BY <2>1 DEF ArenaInv, MapInv, MappedOnceWhole
  <1>4. \A v \in Workers : job'[v] = IF v = w THEN o ELSE job[v]
    BY DEF ArenaInv, Types
  <1>5. WorkInv'
    <2>1. ASSUME NEW v \in Workers, job'[v] # Resting
          PROVE  JobInv(config, pages', job'[v], written'[v])
      <3>1. CASE v = w
        BY <1>4, <3>1
      <3>2. CASE v # w
        <4>1. job'[v] = job[v] /\ written'[v] = written[v] /\ Holds(config, pages', job[v])
          BY <1>4, <2>1, <3>2
        <4>2. JobInv(config, pages, job[v], written[v])
          BY <2>1, <4>1 DEF ArenaInv, WorkInv
        <4> QED
          BY <4>1, <4>2 DEF JobInv
      <3> QED
        BY <3>1, <3>2
    <2>2. SlotsApart'
      BY <1>4 DEF ArenaInv, WorkInv, SlotsApart
    <2> QED
      BY <2>1, <2>2 DEF WorkInv
  <1> QED
    BY <1>1, <1>2, <1>3, <1>5 DEF ArenaInv

LEMMA WorkStep ==
  ASSUME ArenaInv, NEW w \in Workers, job[w] # Resting,
         NEW o \in Job, job' = [job EXCEPT ![w] = o], o.sqe = job[w].sqe,
         JobInv(config, pages', o, written'[w]),
         pages' \in Seq(Page), Len(pages') = Len(pages),
         \A v \in Workers \ {w} : job[v] # Resting => Holds(config, pages', job[v]),
         written' \in [Workers -> Seq(Bytes)],
         \A v \in Workers \ {w} : written'[v] = written[v],
         UNCHANGED <<config, mapped, task, vma, made>>,
         arenaLock' = arenaLock \/ (arenaLock \in {Nobody, w} /\ arenaLock' \in {Nobody, w})
  PROVE  ArenaInv'
  <1>1. config # NoConfig
    BY DEF ArenaInv, WorkInv, JobInv, JobOk
  <1>2. \A v \in Workers \ {w} : job[v] # Resting => job[v].sqe.slot # o.sqe.slot
    BY DEF ArenaInv, WorkInv, SlotsApart
  <1> QED
    BY <1>1, <1>2, JobStep

\* A step that leaves the arena's bytes and the files alone.
LEMMA QuietStep ==
  ASSUME ArenaInv, NEW w \in Workers, job[w] # Resting,
         NEW o \in Job, job' = [job EXCEPT ![w] = o], o.sqe = job[w].sqe,
         JobOk(config, o), ChunkOk(config, o), DirOk(o),
         WroteOk(config, o, written[w]), Holds(config, pages, o),
         UNCHANGED <<config, pages, mapped, task, vma, made, written>>,
         arenaLock' = arenaLock \/ (arenaLock \in {Nobody, w} /\ arenaLock' \in {Nobody, w})
  PROVE  ArenaInv'
  <1>1. JobInv(config, pages', o, written'[w])
    BY DEF JobInv
  <1>2. \A v \in Workers \ {w} : job[v] # Resting => Holds(config, pages', job[v])
    BY DEF ArenaInv, WorkInv, JobInv
  <1>3. pages' \in Seq(Page) /\ Len(pages') = Len(pages) /\ written' \in [Workers -> Seq(Bytes)]
        /\ \A v \in Workers \ {w} : written'[v] = written[v]
    BY DEF ArenaInv, Types
  <1>4. UNCHANGED <<config, mapped, task, vma, made>>
    OBVIOUS
  <1> QED
    BY <1>1, <1>2, <1>3, <1>4, WorkStep

\* An operation that ends where it is.
LEMMA FinishedOk ==
  ASSUME ArenaInv, NEW w \in Workers, job[w].at # "idle", NEW r \in Int,
         job[w].sqe.kind \in {"read", "write"} \/ (job[w].at = "iterate" /\ r = Errno)
  PROVE  LET o == Finished(w, r) IN
         /\ o \in Job /\ o.sqe = job[w].sqe /\ o.at = "done" /\ o.done = job[w].done
         /\ JobOk(config, o) /\ ChunkOk(config, o) /\ DirOk(o)
         /\ WroteOk(config, o, written[w]) /\ Holds(config, pages, o)
  <1> DEFINE o == Finished(w, r)
             p == job[w]
  <1>1. p \in Job /\ JobInv(config, pages, p, written[w])
    BY Working
  <1>2. p.sqe \in Sqes /\ p.at \in {"vfs", "copy", "iterate", "done"}
    BY <1>1, JobFacts
  <1>3. p.sqe.kind \in {"read", "write", "gather", "answer", "readdir"}
    BY <1>2, SqeFacts
  <1>4. o = [p EXCEPT !.at = "done", !.res = r, !.chunk = <<>>]
    BY DEF Finished
  <1>5. p.sqe.kind \in {"read", "write", "readdir"}
    BY <1>1, <1>3 DEF JobInv, JobOk
  <1> HIDE DEF o, p
  <1>6. o \in Job /\ o.sqe = p.sqe /\ o.at = "done" /\ o.done = p.done /\ o.res = r
        /\ o.out = p.out
    <2>1. <<>> \in Seq(Bytes)
      OBVIOUS
    <2>2. o.sqe = p.sqe /\ o.at = "done" /\ o.done = p.done /\ o.res = r /\ o.out = p.out
      BY <1>1, <1>4 DEF Job
    <2>3. o \in Job
      BY <1>1, <1>4, <2>1 DEF Job
    <2> QED
      BY <2>2, <2>3
  <1>7. JobOk(config, o)
    BY <1>1, <1>6 DEF JobInv, JobOk
  <1>8. ChunkOk(config, o)
    BY <1>5, <1>6 DEF ChunkOk
  <1>9. DirOk(o)
    BY <1>1, <1>5, <1>6 DEF DirOk, JobInv, JobOk, p
  <1>10. WroteOk(config, o, written[w])
    BY <1>1, <1>6 DEF JobInv, WroteOk
  <1>11. Holds(config, pages, o)
    BY <1>1, <1>6 DEF JobInv, Holds, Content
  <1> QED
    BY <1>6, <1>7, <1>8, <1>9, <1>10, <1>11 DEF o, p

LEMMA FinishStep ==
  ASSUME ArenaInv, NEW w \in Workers, job[w].at # "idle", NEW r \in Int,
         job[w].sqe.kind \in {"read", "write"} \/ (job[w].at = "iterate" /\ r = Errno),
         job' = [job EXCEPT ![w] = Finished(w, r)],
         UNCHANGED <<config, pages, mapped, task, vma, made, written, arenaLock>>
  PROVE  ArenaInv'
  <1> DEFINE o == Finished(w, r)
  <1>1. /\ o \in Job /\ o.sqe = job[w].sqe
        /\ JobOk(config, o) /\ ChunkOk(config, o) /\ DirOk(o)
        /\ WroteOk(config, o, written[w]) /\ Holds(config, pages, o)
    BY FinishedOk
  <1>2. job[w] # Resting
    BY Working
  <1>3. job' = [job EXCEPT ![w] = o]
    OBVIOUS
  <1> HIDE DEF o
  <1> QED
    BY <1>1, <1>2, <1>3, QuietStep

\* A chunk of n bytes that starts at pos does not go on in the next page.
InOnePage(pos, n) == n <= PageSize - (pos % PageSize)

LEMMA InPageIs ==
  ASSUME NEW pos \in Nat, NEW left \in Nat
  PROVE  /\ InPage(pos, left) \in Nat
         /\ InPage(pos, left) <= left
         /\ InOnePage(pos, InPage(pos, left))
         /\ left > 0 => InPage(pos, left) > 0
  <1>1. PageSize \in Nat \ {0} /\ pos % PageSize \in 0..(PageSize - 1)
    BY SizesAssumption, PositionIs
  <1> QED
    BY <1>1 DEF InPage, Least, InOnePage

\* Where an operation is, is in its slot and in the arena.
LEMMA InSlot ==
  ASSUME ArenaInv, NEW w \in Workers, job[w].at # "idle", job[w].at # "done",
         NEW i \in Nat, Start(job[w].sqe) + job[w].done + i < config.slot_size
  PROVE  /\ SlotAt(config, job[w].sqe) \in Nat
         /\ job[w].pos + i = SlotAt(config, job[w].sqe) + Start(job[w].sqe) + job[w].done + i
         /\ job[w].pos + i < Len(pages) * PageSize
         /\ ((job[w].pos + i) \div PageSize) + 1 \in 1..Len(pages)
  <1> DEFINE p == job[w]
             s == Start(p.sqe) + p.done + i
  <1>1. p \in Job /\ JobOk(config, p)
    BY Working DEF JobInv
  <1>2. p.sqe \in Sqes /\ p.done \in Nat /\ p.pos \in Nat
    BY <1>1, JobFacts
  <1>3. p.sqe.slot \in Nat /\ Start(p.sqe) \in Nat
    BY <1>2, SqeFacts
  <1>4. config # NoConfig /\ p.sqe.slot < config.slot_count
        /\ p.pos = SlotAt(config, p.sqe) + Start(p.sqe) + p.done
    BY <1>1 DEF JobOk
  <1>5. config \in Config /\ config.slot_size \in Nat /\ ArenaSize(config) = Len(pages) * PageSize
        /\ Len(pages) \in Nat
    BY <1>4, ConfigFacts
  <1>6. s \in 0..(config.slot_size - 1)
    BY <1>2, <1>3, <1>5
  <1>7. SlotAt(config, p.sqe) \in Nat /\ SlotAt(config, p.sqe) + s < Len(pages) * PageSize
    BY <1>3, <1>4, <1>5, <1>6, SlotInArena DEF SlotAt
  <1> HIDE DEF p
  <1>8. p.pos + i = SlotAt(config, p.sqe) + s /\ p.pos + i \in Nat
    BY <1>2, <1>3, <1>4, <1>7
  <1>9. ((p.pos + i) \div PageSize) + 1 \in 1..Len(pages)
    BY <1>5, <1>7, <1>8, InSomePage
  <1>10. p.pos + i = SlotAt(config, p.sqe) + Start(p.sqe) + p.done + i
    BY <1>2, <1>3, <1>4, <1>7
  <1> QED
    BY <1>7, <1>8, <1>9, <1>10 DEF p

\* What a chunk that an operation stores does to its slot, and to the others'.
LEMMA Put ==
  ASSUME ArenaInv, NEW w \in Workers, job[w].at # "idle", job[w].at # "done",
         NEW n \in Nat, n > 0, InOnePage(job[w].pos, n),
         Start(job[w].sqe) + job[w].done + n <= config.slot_size,
         NEW bytes, \A i \in 1..n : bytes[i] \in Bytes,
         NEW new, new = Store(job[w].pos, bytes, n)
  PROVE  /\ new \in Seq(Page) /\ Len(new) = Len(pages)
         /\ \A a \in 0..(config.slot_size - 1) :
              At(new, SlotAt(config, job[w].sqe) + a) =
                LET from == Start(job[w].sqe) + job[w].done IN
                IF a \in from..(from + n - 1) THEN bytes[a - from + 1]
                ELSE At(pages, SlotAt(config, job[w].sqe) + a)
         /\ \A v \in Workers \ {w} : job[v] # Resting => Holds(config, new, job[v])
  <1> DEFINE p == job[w]
             from == Start(p.sqe) + p.done
             size == config.slot_size
             slot == SlotAt(config, p.sqe)
             end == Len(pages) * PageSize
  <1>1. p \in Job /\ JobOk(config, p)
    BY Working DEF JobInv
  <1>2. p.sqe \in Sqes /\ p.done \in Nat /\ p.pos \in Nat
    BY <1>1, JobFacts
  <1>3. p.sqe.slot \in Nat /\ Start(p.sqe) \in Nat /\ from \in Nat
    BY <1>2, SqeFacts
  <1>4. config # NoConfig /\ p.sqe.slot < config.slot_count
    BY <1>1 DEF JobOk
  <1>5. config \in Config /\ size \in Nat /\ ArenaSize(config) = Len(pages) * PageSize
        /\ pages \in Seq(Page) /\ Len(pages) \in Nat
    BY <1>4, ConfigFacts
  <1>6. slot \in Nat /\ p.pos = slot + from /\ (p.pos \div PageSize) + 1 \in 1..Len(pages)
    <2>1. Start(p.sqe) + p.done + 0 < config.slot_size
      BY <1>2, <1>3, <1>5
    <2>2. /\ slot \in Nat
          /\ p.pos + 0 = slot + Start(p.sqe) + p.done + 0
          /\ ((p.pos + 0) \div PageSize) + 1 \in 1..Len(pages)
      BY <2>1, InSlot
    <2> HIDE DEF p, slot
    <2> QED
      BY <1>2, <1>3, <2>2
  <1>11. slot \in Nat /\ p.pos = slot + from
    BY <1>6
  <1>12. end \in Nat
    BY <1>5, SizesAssumption
  <1>10. from = Start(p.sqe) + p.done /\ from + n <= size /\ size = config.slot_size
         /\ slot = p.sqe.slot * config.slot_size
    BY <1>2, <1>3 DEF SlotAt
  <1>7. /\ new \in Seq(Page) /\ Len(new) = Len(pages)
        /\ \A a \in Nat : a < end =>
             At(new, a) = IF a \in p.pos..(p.pos + n - 1) THEN bytes[a - p.pos + 1] ELSE At(pages, a)
    BY <1>2, <1>5, <1>6, StoreIs DEF InOnePage
  <1>8. ASSUME NEW a \in 0..(size - 1)
        PROVE  At(new, slot + a) = IF a \in from..(from + n - 1) THEN bytes[a - from + 1]
                                   ELSE At(pages, slot + a)
    <2> DEFINE b == slot + a
    <2>1. b \in Nat /\ b < end
      <3>1. slot \in Nat /\ slot + a < ArenaSize(config)
        BY <1>3, <1>4, <1>5, <1>10, SlotInArena
      <3>2. ArenaSize(config) = end
        BY <1>5
      <3> HIDE DEF slot, size, end
      <3> QED
        BY <1>5, <1>12, <3>1, <3>2
    <2>2. b \in p.pos..(p.pos + n - 1) <=> a \in from..(from + n - 1)
      <3> HIDE DEF p, slot, from
      <3> QED
        BY <1>3, <1>5, <1>11
    <2>3. b - p.pos + 1 = a - from + 1
      <3> HIDE DEF p, slot, from
      <3> QED
        BY <1>3, <1>5, <1>11
    <2> HIDE DEF b, end, from, p, size
    <2>4. At(new, b) = IF b \in p.pos..(p.pos + n - 1) THEN bytes[b - p.pos + 1] ELSE At(pages, b)
      BY <1>7, <2>1
    <2>5. At(new, b) = IF a \in from..(from + n - 1) THEN bytes[a - from + 1] ELSE At(pages, b)
      BY <2>2, <2>3, <2>4
    <2> QED
      BY <2>5 DEF b
  <1>9. ASSUME NEW v \in Workers \ {w}, job[v] # Resting
        PROVE  Holds(config, new, job[v])
    <2> DEFINE o == job[v]
    <2>1. o.sqe.slot # p.sqe.slot /\ o \in Job /\ JobOk(config, o) /\ Holds(config, pages, o)
      BY <1>1, <1>9, JobFacts DEF ArenaInv, Types, WorkInv, SlotsApart, JobInv
    <2>2. o.sqe \in Sqes
      BY <2>1, JobFacts
    <2>3. o.sqe.slot \in Nat /\ o.sqe.slot < config.slot_count
      BY <2>1, <2>2, SqeFacts DEF JobOk
    <2>4. ASSUME NEW a \in 0..(size - 1)
          PROVE  At(new, SlotAt(config, o.sqe) + a) = At(pages, SlotAt(config, o.sqe) + a)
      <3> DEFINE b == SlotAt(config, o.sqe) + a
      <3>1. b \in Nat /\ b < end
        BY <1>5, <2>3, SlotInArena DEF SlotAt
      <3>2. ASSUME b \in p.pos..(p.pos + n - 1) PROVE FALSE
        <4> DEFINE c == b - slot
        <4>1. c \in 0..(size - 1) /\ b = slot + c
          <5> HIDE DEF b, slot, from, p, size
          <5>1. from + n <= size /\ from \in Nat /\ size \in Nat
            BY <1>3, <1>5, <1>10
          <5> QED
            BY <1>11, <3>1, <3>2, <5>1
        <4> QED
          BY <1>3, <1>5, <2>1, <2>3, <4>1, SlotsDisjoint DEF SlotAt
      <3>3. At(new, b) = IF b \in p.pos..(p.pos + n - 1) THEN bytes[b - p.pos + 1] ELSE At(pages, b)
        <4> HIDE DEF b, end
        <4> QED
          BY <1>7, <3>1
      <3> HIDE DEF b
      <3> QED
        BY <3>2, <3>3 DEF b
    <2> QED
      BY <2>1, <2>4 DEF Holds
  <1> QED
    BY <1>7, <1>8, <1>9

\* The bytes that an operation which only looks finds where it is.
LEMMA LoadIs ==
  ASSUME ArenaInv, NEW w \in Workers, job[w].at # "idle", job[w].at # "done",
         job[w].sqe.kind \in {"write", "gather"},
         NEW n \in Nat, InOnePage(job[w].pos, n), job[w].done + n <= job[w].sqe.len
  PROVE  /\ Load(job[w].pos, n) \in Seq(Bytes) /\ Len(Load(job[w].pos, n)) = n
         /\ \A i \in 1..n : Load(job[w].pos, n)[i] = UserByte(job[w].pos + i - 1)
  <1> DEFINE p == job[w]
             from == Start(p.sqe) + p.done
             size == config.slot_size
             slot == SlotAt(config, p.sqe)
             q == p.pos \div PageSize
             r == p.pos % PageSize
             f(i) == pages[q + 1][r + i - 1]
  <1>1. p \in Job /\ JobOk(config, p) /\ Holds(config, pages, p)
    BY Working DEF JobInv
  <1>2. p.sqe \in Sqes /\ p.done \in Nat /\ p.pos \in Nat
    BY <1>1, JobFacts
  <1>3. p.sqe.slot \in Nat /\ p.sqe.len \in Nat /\ Start(p.sqe) \in Nat /\ from \in Nat
    BY <1>2, SqeFacts
  <1>4. config # NoConfig /\ Start(p.sqe) + p.sqe.len <= size
    BY <1>1 DEF JobOk
  <1>5. config \in Config /\ size \in Nat /\ pages \in Seq(Page) /\ Len(pages) \in Nat
    BY <1>4, ConfigFacts
  <1>6. PageSize \in Nat \ {0} /\ q \in Nat /\ r \in 0..(PageSize - 1)
        /\ q * PageSize \in Nat /\ p.pos = q * PageSize + r
    BY <1>2, SizesAssumption, PositionIs
  <1>10. n <= PageSize - r
    BY DEF InOnePage
  <1>11. from = Start(p.sqe) + p.done /\ p.done + n <= p.sqe.len
    OBVIOUS
  <1>7. ASSUME NEW i \in 1..n
        PROVE  f(i) \in Bytes /\ f(i) = UserByte(p.pos + i - 1)
    <2> DEFINE a == from + (i - 1)
    <2>1. a \in 0..(size - 1)
      <3> DEFINE st == Start(p.sqe)
                 len0 == p.sqe.len
                 d == p.done
      <3>1. /\ st \in Nat /\ len0 \in Nat /\ d \in Nat /\ size \in Nat
            /\ from = st + d /\ d + n <= len0 /\ st + len0 <= size
        BY <1>2, <1>3, <1>4, <1>5, <1>11
      <3> HIDE DEF st, len0, d, size, from
      <3> QED
        BY <3>1
    <2>2. /\ slot \in Nat
          /\ p.pos + (i - 1) = slot + Start(p.sqe) + p.done + (i - 1)
          /\ ((p.pos + (i - 1)) \div PageSize) + 1 \in 1..Len(pages)
      <3>1. i - 1 \in Nat /\ Start(job[w].sqe) + job[w].done + (i - 1) < config.slot_size
        <4> DEFINE st == Start(p.sqe)
                   d == p.done
        <4>1. st \in Nat /\ d \in Nat /\ a = st + d + (i - 1) /\ i - 1 \in Nat
          BY <1>2, <1>3
        <4> HIDE DEF st, d, a, size
        <4>2. st + d + (i - 1) < size
          BY <1>5, <2>1, <4>1
        <4> QED
          BY <4>1, <4>2 DEF st, d, size
      <3> QED
        BY <3>1, InSlot
    <2> DEFINE b == p.pos + (i - 1)
    <2>3. b = slot + a /\ b \in Nat /\ p.pos + i - 1 = b
      <3>1. slot \in Nat /\ p.pos + (i - 1) = slot + Start(p.sqe) + p.done + (i - 1)
        BY <2>2
      <3> HIDE DEF p, slot, from
      <3> QED
        BY <1>2, <1>3, <1>11, <3>1
    <2>4. b \div PageSize = q /\ b % PageSize = r + (i - 1)
      <3>1. r + (i - 1) \in 0..(PageSize - 1) /\ b = q * PageSize + (r + (i - 1))
        <4> HIDE DEF q, r, p
        <4> QED
          BY <1>6, <1>10
      <3> DEFINE s == r + (i - 1)
      <3>2. s \in 0..(PageSize - 1) /\ b = q * PageSize + s
        BY <3>1
      <3> HIDE DEF q, r, b, s
      <3>3. b \div PageSize = q /\ b % PageSize = s
        BY <1>6, <2>3, <3>2, PositionOf
      <3> QED
        BY <3>3 DEF s
    <2>5. At(pages, b) = f(i) /\ q + 1 \in 1..Len(pages)
      <3>1. r + (i - 1) = r + i - 1
        <4> HIDE DEF r
        <4> QED
          BY <1>6
      <3> HIDE DEF r, q, b
      <3> QED
        BY <2>2, <2>4, <3>1 DEF At, b
    <2>6. f(i) \in Bytes
      <3>1. pages[q + 1] \in Page
        BY <1>5, <2>5, ElementOfSeq
      <3>2. r + i - 1 \in 0..(PageSize - 1)
        <4> HIDE DEF r
        <4> QED
          BY <1>6, <1>10
      <3> QED
        BY <3>1, <3>2 DEF Page
    <2>7. At(pages, slot + a) = Content(config, p, a)
      BY <1>1, <2>1 DEF Holds
    <2>8. Content(config, p, a) = UserByte(slot + a)
      BY DEF Content
    <2> HIDE DEF f, a, b, slot, p
    <2> QED
      BY <2>3, <2>5, <2>6, <2>7, <2>8
  <1>8. Load(p.pos, n) = [i \in 1..n |-> f(i)]
    BY DEF Load
  <1>9. [i \in 1..n |-> f(i)] \in Seq(Bytes) /\ Len([i \in 1..n |-> f(i)]) = n
        /\ \A i \in 1..n : [j \in 1..n |-> f(j)][i] = f(i)
    <2> HIDE DEF f
    <2> QED
      BY <1>7, IsASeq
  <1> HIDE DEF f, p
  <1> QED
    BY <1>7, <1>8, <1>9 DEF p

\* Bytes told apart by where they come from are bytes.
LEMMA BytesAre ==
  ASSUME NEW i \in Int
  PROVE  /\ UserByte(i) \in Bytes /\ FileByte(i) \in Bytes
         /\ StatByte(i) \in Bytes /\ DirByte(i) \in Bytes
  BY DEF Bytes, UserByte, FileByte, StatByte, DirByte

LEMMA VfsReadKeeps ==
  ASSUME ArenaInv, NEW w \in Workers, VfsRead(w)
  PROVE  ArenaInv'
  <1> DEFINE p == job[w]
             fpos == p.sqe.off + p.done
             want == InPage(p.pos, Left(w))
  <1>1. p.at = "vfs" /\ p.sqe.kind = "read" /\ UNCHANGED <<ring, task, vma, made, written, locks>>
    BY DEF VfsRead
  <1>2. p # Resting /\ p \in Job /\ JobInv(config, pages, p, written[w])
    BY <1>1, Working
  <1>3. p.sqe \in Sqes /\ p.done \in Nat /\ p.pos \in Nat /\ p.sqe.off \in Nat /\ p.sqe.len \in Nat
    BY <1>2, JobFacts, SqeFacts
  <1>4. p.done < p.sqe.len
    BY <1>1, <1>2 DEF JobInv, JobOk
  <1>5. UNCHANGED <<config, pages, mapped, task, vma, made, written, arenaLock>>
    BY <1>1 DEF ring, locks
  <1>7. CASE job' = [job EXCEPT ![w] = Finished(w, p.done)]
    <2> DEFINE r == p.done
    <2>1. r \in Int /\ job' = [job EXCEPT ![w] = Finished(w, r)]
      BY <1>3, <1>7
    <2> HIDE DEF r
    <2> QED
      BY <1>1, <1>5, <2>1, FinishStep
  <1>8. CASE job' = [job EXCEPT ![w] = Failed(w)]
    <2> DEFINE r == IF p.done = 0 THEN Errno ELSE p.done
    <2>1. r \in Int /\ Failed(w) = Finished(w, r)
      BY <1>3 DEF Failed
    <2> HIDE DEF r
    <2> QED
      BY <1>1, <1>5, <1>8, <2>1, FinishStep
  <1>9. ASSUME NEW n \in 1..want,
               job' = [job EXCEPT ![w].at = "copy",
                                    ![w].chunk = [i \in 1..n |-> FileByte(fpos + i - 1)]]
        PROVE  ArenaInv'
    <2> DEFINE c == [i \in 1..n |-> FileByte(fpos + i - 1)]
               o == [p EXCEPT !.at = "copy", !.chunk = c]
    <2>1. want \in Nat /\ Left(w) = p.sqe.len - p.done
      BY <1>3, <1>4, InPageIs DEF Left
    <2>2. n \in Nat /\ \A i \in 1..n : FileByte(fpos + i - 1) \in Bytes
      <3>1. \A i \in 1..n : fpos + i - 1 \in Int
        BY <1>3, <2>1
      <3> QED
        BY <2>1, <3>1, BytesAre
    <2>3. c \in Seq(Bytes) /\ Len(c) = n /\ \A i \in 1..n : c[i] = FileByte(fpos + i - 1)
      BY <2>2, IsASeq
    <2> HIDE DEF c, want
    <2>4. o \in Job /\ o.at = "copy" /\ o.chunk = c /\ o.sqe = p.sqe /\ o.done = p.done
          /\ o.pos = p.pos
      BY <1>2, <2>3 DEF Job
    <2>5. job' = [job EXCEPT ![w] = o]
      BY <1>9 DEF c
    <2> HIDE DEF o, p
    <2>6. JobOk(config, o)
      BY <1>1, <1>2, <2>4 DEF JobInv, JobOk
    <2>7. ChunkOk(config, o)
      BY <1>1, <2>1, <2>3, <2>4 DEF ChunkOk, want
    <2>8. DirOk(o) /\ WroteOk(config, o, written[w])
      BY <1>1, <2>4 DEF DirOk, WroteOk
    <2>9. Holds(config, pages, o)
      BY <1>1, <1>2, <2>4 DEF JobInv, Holds, Content
    <2> QED
      BY <1>2, <1>5, <2>4, <2>5, <2>6, <2>7, <2>8, <2>9, QuietStep DEF p
  <1> QED
    BY <1>7, <1>8, <1>9 DEF VfsRead

LEMMA CopyInKeeps ==
  ASSUME ArenaInv, NEW w \in Workers, CopyIn(w)
  PROVE  ArenaInv'
  <1> DEFINE p == job[w]
             n == Len(p.chunk)
             done == p.done + n
             o == IF done < p.sqe.len
                  THEN [p EXCEPT !.at = "vfs", !.done = done, !.pos = p.pos + n]
                  ELSE [Finished(w, done) EXCEPT !.done = done]
  <1>1. p.at = "copy" /\ p.sqe.kind = "read" /\ pages' = Store(p.pos, p.chunk, n)
        /\ job' = [job EXCEPT ![w] = o]
        /\ UNCHANGED <<config, mapped, task, vma, made, written, arenaLock>>
    BY DEF CopyIn, locks
  <1>2. p # Resting /\ p \in Job /\ JobInv(config, pages, p, written[w])
    BY <1>1, Working
  <1>3. p.sqe \in Sqes /\ p.done \in Nat /\ p.pos \in Nat /\ p.sqe.off \in Nat /\ p.sqe.len \in Nat
        /\ p.chunk \in Seq(Bytes)
    BY <1>2, JobFacts, SqeFacts
  <1>4. Start(p.sqe) = 0 /\ p.done < p.sqe.len /\ p.sqe.len <= config.slot_size
        /\ p.pos = SlotAt(config, p.sqe) + p.done /\ config # NoConfig
    <2>1. Start(p.sqe) = 0
      BY <1>1 DEF Start
    <2>2. SlotAt(config, p.sqe) \in Int
      BY <1>2, <1>3, SqeFacts, ConfigFacts DEF SlotAt, JobInv, JobOk
    <2> QED
      BY <1>1, <1>2, <1>3, <2>1, <2>2 DEF JobInv, JobOk
  <1>5. config.slot_size \in Nat
    BY <1>4, ConfigFacts
  <1>6. n \in Nat /\ n > 0 /\ InOnePage(p.pos, n) /\ done <= p.sqe.len
        /\ \A i \in 1..n : p.chunk[i] = FileByte(p.sqe.off + p.done + i - 1)
    <2> DEFINE left == p.sqe.len - p.done
               most == InPage(p.pos, left)
    <2>1. n \in 1..most /\ \A i \in 1..n : p.chunk[i] = FileByte(p.sqe.off + p.done + i - 1)
      BY <1>1, <1>2 DEF JobInv, ChunkOk
    <2>2. left \in Nat
      BY <1>3, <1>4
    <2>3. most \in Nat /\ most <= left /\ InOnePage(p.pos, most)
      <3> HIDE DEF left
      <3> QED
        BY <1>3, <2>2, InPageIs
    <2> HIDE DEF most, n
    <2>4. n \in Nat /\ n > 0 /\ n <= most
      BY <2>1, <2>3
    <2>5. InOnePage(p.pos, n)
      <3> DEFINE room == PageSize - (p.pos % PageSize)
      <3>1. room \in Int /\ most <= room
        <4>1. PageSize \in Int
          BY SizesAssumption
        <4>2. p.pos % PageSize \in 0..(PageSize - 1)
          BY <1>3, PositionIs
        <4>3. room \in Int
          BY <4>1, <4>2
        <4> QED
          BY <2>3, <4>3 DEF InOnePage
      <3>2. n <= room
        <4> HIDE DEF room
        <4> QED
          BY <2>3, <2>4, <3>1
      <3> QED
        BY <3>2 DEF InOnePage
    <2>6. p.done + n <= p.sqe.len
      <3> HIDE DEF p
      <3> QED
        BY <1>3, <2>2, <2>3, <2>4
    <2> QED
      BY <2>1, <2>4, <2>5, <2>6
  <1>7. /\ pages' \in Seq(Page) /\ Len(pages') = Len(pages)
        /\ \A a \in 0..(config.slot_size - 1) :
             At(pages', SlotAt(config, p.sqe) + a) =
               LET from == Start(p.sqe) + p.done IN
               IF a \in from..(from + n - 1) THEN p.chunk[a - from + 1]
               ELSE At(pages, SlotAt(config, p.sqe) + a)
        /\ \A v \in Workers \ {w} : job[v] # Resting => Holds(config, pages', job[v])
    <2>1. \A i \in 1..n : p.chunk[i] \in Bytes
      BY <1>3, ElementOfSeq
    <2>2. Start(p.sqe) + p.done + n <= config.slot_size
      BY <1>3, <1>4, <1>5, <1>6
    <2> HIDE DEF n
    <2> QED
      BY <1>1, <1>6, <2>1, <2>2, Put
  <1>8. done \in Nat /\ p.pos + n \in Nat
    <2> HIDE DEF p, n
    <2> QED
      BY <1>3, <1>6
  <1> HIDE DEF n, done
  <1>9. o \in Job /\ o.sqe = p.sqe /\ o.done = done
        /\ \/ o.at = "vfs" /\ o.pos = p.pos + n /\ done < p.sqe.len
           \/ o.at = "done" /\ ~(done < p.sqe.len)
    <2>1. CASE done < p.sqe.len
      BY <1>2, <1>8, <2>1 DEF Job
    <2>2. CASE ~(done < p.sqe.len)
      <3>1. Finished(w, done) \in Job /\ Finished(w, done).sqe = p.sqe
            /\ Finished(w, done).at = "done"
        BY <1>1, <1>8, FinishedOk
      <3> HIDE DEF p
      <3>2. o = [Finished(w, done) EXCEPT !.done = done]
        BY <2>2
      <3> QED
        BY <1>8, <2>2, <3>1, <3>2 DEF Job
    <2> QED
      BY <2>1, <2>2
  <1> HIDE DEF o, p
  <1>10. JobOk(config, o)
    <2>1. o.at # "done" => o.pos = SlotAt(config, o.sqe) + Start(o.sqe) + o.done
      <3> DEFINE at == SlotAt(config, p.sqe)
                 start == Start(p.sqe)
      <3>1. at \in Nat /\ start \in Nat
        BY <1>3, <1>4, <1>6, SqeFacts, ConfigFacts DEF SlotAt
      <3>2. o.at # "done" => o.pos = p.pos + n
        BY <1>9
      <3>3. start = 0 /\ p.pos = at + p.done
        BY <1>4
      <3> HIDE DEF at, start
      <3>4. p.pos + n = at + start + done
        BY <1>3, <1>6, <3>1, <3>3 DEF done
      <3> QED
        BY <1>9, <3>2, <3>4 DEF at, start
    <2> QED
      BY <1>1, <1>2, <1>6, <1>9, <2>1 DEF JobInv, JobOk
  <1>11. ChunkOk(config, o) /\ DirOk(o) /\ WroteOk(config, o, written'[w])
    BY <1>1, <1>9 DEF ChunkOk, DirOk, WroteOk
  <1>12. Holds(config, pages', o)
    <2> SUFFICES ASSUME NEW a \in 0..(config.slot_size - 1)
                 PROVE  At(pages', SlotAt(config, p.sqe) + a) = IF a < done THEN FileByte(p.sqe.off + a)
                                                                ELSE UserByte(SlotAt(config, p.sqe) + a)
      BY <1>1, <1>9 DEF Holds, Content
    <2>1. At(pages, SlotAt(config, p.sqe) + a) = IF a < p.done THEN FileByte(p.sqe.off + a)
                                                 ELSE UserByte(SlotAt(config, p.sqe) + a)
      BY <1>1, <1>2 DEF JobInv, Holds, Content
    <2>2. At(pages', SlotAt(config, p.sqe) + a) =
            IF a \in p.done..(p.done + n - 1) THEN p.chunk[a - p.done + 1]
            ELSE At(pages, SlotAt(config, p.sqe) + a)
      <3>1. Start(p.sqe) + p.done = p.done
        BY <1>3, <1>4
      <3> QED
        BY <1>7, <3>1
    <2>3. a \in Nat
      BY <1>5
    <2>4. CASE a \in p.done..(p.done + n - 1)
      <3>1. a - p.done + 1 \in 1..n /\ p.sqe.off + p.done + (a - p.done + 1) - 1 = p.sqe.off + a
        <4> DEFINE d == p.done
                   f == p.sqe.off
        <4>1. d \in Nat /\ f \in Nat /\ n \in Nat /\ a \in d..(d + n - 1)
          BY <1>3, <1>6, <2>4
        <4> HIDE DEF d, f
        <4>2. a - d + 1 \in 1..n /\ f + d + (a - d + 1) - 1 = f + a
          BY <2>3, <4>1
        <4> QED
          BY <4>2 DEF d, f
      <3>2. p.chunk[a - p.done + 1] = FileByte(p.sqe.off + a)
        BY <1>6, <3>1
      <3>3. a < done
        BY <1>3, <1>6, <2>3, <2>4 DEF done
      <3> QED
        BY <2>2, <2>4, <3>2, <3>3
    <2>5. CASE a \notin p.done..(p.done + n - 1)
      <3>1. a < done <=> a < p.done
        BY <1>3, <1>6, <2>3, <2>5 DEF done
      <3> QED
        BY <2>1, <2>2, <2>5, <3>1
    <2> QED
      BY <2>4, <2>5
  <1>13. JobInv(config, pages', o, written'[w])
    BY <1>10, <1>11, <1>12 DEF JobInv
  <1>14. written' \in [Workers -> Seq(Bytes)] /\ \A v \in Workers \ {w} : written'[v] = written[v]
    BY <1>1 DEF ArenaInv, Types
  <1>15. job[w] # Resting /\ job' = [job EXCEPT ![w] = o] /\ o.sqe = job[w].sqe
         /\ UNCHANGED <<config, mapped, task, vma, made>> /\ arenaLock' = arenaLock
    BY <1>1, <1>2, <1>9 DEF p
  <1> QED
    BY <1>7, <1>9, <1>13, <1>14, <1>15, WorkStep

\* Less than fits in a page fits in it too.
LEMMA LessInPage ==
  ASSUME NEW pos \in Nat, NEW m \in Nat, InOnePage(pos, m), NEW n \in Nat, n <= m
  PROVE  InOnePage(pos, n)
  <1> DEFINE room == PageSize - (pos % PageSize)
  <1>1. PageSize \in Int
    BY SizesAssumption
  <1>2. pos % PageSize \in 0..(PageSize - 1)
    BY PositionIs
  <1>3. room \in Int
    BY <1>1, <1>2
  <1>4. m <= room
    BY DEF InOnePage
  <1>5. n <= room
    <2> HIDE DEF room
    <2> QED
      BY <1>3, <1>4
  <1> QED
    BY <1>5 DEF InOnePage

\* The n bytes of the user from position a on; and the ones that come after.
Users(s, n, a) == s \in Seq(Bytes) /\ Len(s) = n /\ \A i \in 1..n : s[i] = UserByte(a + i - 1)

LEMMA MoreBytes ==
  ASSUME NEW a \in Nat, NEW d \in Nat, NEW n \in Nat, NEW s, NEW t,
         Users(s, d, a), Users(t, n, a + d)
  PROVE  Users(s \o t, d + n, a)
  <1>1. /\ s \in Seq(Bytes) /\ Len(s) = d /\ \A i \in 1..d : s[i] = UserByte(a + i - 1)
        /\ t \in Seq(Bytes) /\ Len(t) = n /\ \A i \in 1..n : t[i] = UserByte(a + d + i - 1)
    BY DEF Users
  <1>2. /\ s \o t \in Seq(Bytes) /\ Len(s \o t) = d + n
        /\ \A i \in 1..(d + n) : (s \o t)[i] = IF i <= d THEN s[i] ELSE t[i - d]
    BY <1>1, ConcatProperties
  <1>3. ASSUME NEW i \in 1..(d + n) PROVE (s \o t)[i] = UserByte(a + i - 1)
    <2>1. CASE i <= d
      BY <1>1, <1>2, <2>1
    <2>2. CASE ~(i <= d)
      <3> DEFINE j == i - d
      <3>1. j \in 1..n /\ a + d + j - 1 = a + i - 1
        BY <2>2
      <3> HIDE DEF j
      <3>2. t[j] = UserByte(a + i - 1)
        BY <1>1, <3>1
      <3> QED
        BY <1>2, <2>2, <3>2 DEF j
    <2> QED
      BY <2>1, <2>2
  <1> QED
    BY <1>2, <1>3 DEF Users

LEMMA CopyOutKeeps ==
  ASSUME ArenaInv, NEW w \in Workers, CopyOut(w)
  PROVE  ArenaInv'
  <1> DEFINE p == job[w]
             left == p.sqe.len - p.done
             n == InPage(p.pos, left)
             c == Load(p.pos, n)
             o == [p EXCEPT !.at = "vfs", !.chunk = c]
  <1>1. p.at = "copy" /\ p.sqe.kind = "write"
        /\ job' = [job EXCEPT ![w].at = "vfs", ![w].chunk = Load(p.pos, InPage(p.pos, Left(w)))]
        /\ UNCHANGED <<config, pages, mapped, task, vma, made, written, arenaLock>>
    BY DEF CopyOut, ring, locks
  <1>2. p # Resting /\ p \in Job /\ JobInv(config, pages, p, written[w])
    BY <1>1, Working
  <1>3. p.sqe \in Sqes /\ p.done \in Nat /\ p.pos \in Nat /\ p.sqe.len \in Nat
    BY <1>2, JobFacts, SqeFacts
  <1>4. p.done < p.sqe.len /\ left \in Nat
    BY <1>1, <1>2, <1>3 DEF JobInv, JobOk
  <1>5. n \in Nat /\ n <= left /\ InOnePage(p.pos, n)
    <2> HIDE DEF left
    <2> QED
      BY <1>3, <1>4, InPageIs
  <1>6. c \in Seq(Bytes) /\ Len(c) = n /\ \A i \in 1..n : c[i] = UserByte(p.pos + i - 1)
    <2>1. p.done + n <= p.sqe.len
      <3> HIDE DEF n
      <3> QED
        BY <1>3, <1>4, <1>5
    <2> HIDE DEF n
    <2> QED
      BY <1>1, <1>5, <2>1, LoadIs
  <1>7. job' = [job EXCEPT ![w] = o]
    BY <1>1 DEF Left
  <1> HIDE DEF n, c
  <1>8. o \in Job /\ o.at = "vfs" /\ o.chunk = c /\ o.sqe = p.sqe /\ o.done = p.done /\ o.pos = p.pos
    BY <1>2, <1>6 DEF Job
  <1> HIDE DEF o, p
  <1>9. JobOk(config, o)
    BY <1>1, <1>2, <1>8 DEF JobInv, JobOk
  <1>10. ChunkOk(config, o)
    BY <1>1, <1>5, <1>6, <1>8 DEF ChunkOk
  <1>11. DirOk(o) /\ WroteOk(config, o, written[w])
    BY <1>1, <1>2, <1>8 DEF DirOk, JobInv, WroteOk
  <1>12. Holds(config, pages, o)
    BY <1>1, <1>2, <1>8 DEF JobInv, Holds, Content
  <1> QED
    BY <1>1, <1>2, <1>7, <1>8, <1>9, <1>10, <1>11, <1>12, QuietStep DEF p

LEMMA VfsWriteKeeps ==
  ASSUME ArenaInv, NEW w \in Workers, VfsWrite(w)
  PROVE  ArenaInv'
  <1> DEFINE p == job[w]
  <1>1. p.at = "vfs" /\ p.sqe.kind = "write"
        /\ UNCHANGED <<config, pages, mapped, task, vma, made, arenaLock>>
    BY DEF VfsWrite, ring, locks
  <1>2. p # Resting /\ p \in Job /\ JobInv(config, pages, p, written[w])
    BY <1>1, Working
  <1>3. p.sqe \in Sqes /\ p.done \in Nat /\ p.pos \in Nat /\ p.sqe.len \in Nat
        /\ p.chunk \in Seq(Bytes)
    BY <1>2, JobFacts, SqeFacts
  <1>4. p.done < p.sqe.len /\ config # NoConfig
    BY <1>1, <1>2, <1>3 DEF JobInv, JobOk
  <1>5. CASE job' = [job EXCEPT ![w] = Finished(w, p.done)] /\ UNCHANGED written
    <2> DEFINE r == p.done
    <2>1. r \in Int /\ job' = [job EXCEPT ![w] = Finished(w, r)]
      BY <1>3, <1>5
    <2> HIDE DEF r
    <2> QED
      BY <1>1, <1>5, <2>1, FinishStep
  <1>6. CASE job' = [job EXCEPT ![w] = Failed(w)] /\ UNCHANGED written
    <2> DEFINE r == IF p.done = 0 THEN Errno ELSE p.done
    <2>1. r \in Int /\ Failed(w) = Finished(w, r)
      BY <1>3 DEF Failed
    <2> HIDE DEF r
    <2> QED
      BY <1>1, <1>6, <2>1, FinishStep
  <1>7. ASSUME NEW n \in 1..Len(p.chunk),
               written' = [written EXCEPT ![w] = @ \o SubSeq(p.chunk, 1, n)],
               job' = [job EXCEPT ![w] =
                 IF p.done + n < p.sqe.len
                 THEN [p EXCEPT !.at = "copy", !.done = p.done + n, !.pos = p.pos + n]
                 ELSE [Finished(w, p.done + n) EXCEPT !.done = p.done + n]]
        PROVE  ArenaInv'
    <2> DEFINE done == p.done + n
               part == SubSeq(p.chunk, 1, n)
               bytes == written[w] \o part
               slot == SlotAt(config, p.sqe)
               o == IF done < p.sqe.len
                    THEN [p EXCEPT !.at = "copy", !.done = done, !.pos = p.pos + n]
                    ELSE [Finished(w, done) EXCEPT !.done = done]
    <2>1. n \in Nat /\ n > 0 /\ Len(p.chunk) <= p.sqe.len - p.done /\ n <= Len(p.chunk)
          /\ \A i \in 1..Len(p.chunk) : p.chunk[i] = UserByte(p.pos + i - 1)
      BY <1>1, <1>2, <1>3, LenProperties DEF JobInv, ChunkOk
    <2>2. done \in Nat /\ p.pos + n \in Nat /\ done <= p.sqe.len
      <3>1. Len(p.chunk) \in Nat
        BY <1>3, LenProperties
      <3> HIDE DEF p
      <3> QED
        BY <1>3, <1>4, <2>1, <3>1
    <2>3. slot \in Nat /\ p.pos = slot + p.done /\ Start(p.sqe) = 0
      <3>1. Start(p.sqe) = 0
        BY <1>1 DEF Start
      <3>2. slot \in Nat
        BY <1>3, <1>4, SqeFacts, ConfigFacts DEF SlotAt
      <3>3. p.pos = slot + Start(p.sqe) + p.done
        BY <1>1, <1>2 DEF JobInv, JobOk
      <3> HIDE DEF p, slot
      <3> QED
        BY <1>3, <3>1, <3>2, <3>3
    <2>4. part \in Seq(Bytes) /\ Len(part) = n /\ \A i \in 1..n : part[i] = UserByte(p.pos + i - 1)
      <3>1. part \in Seq(Bytes) /\ Len(part) = n /\ \A i \in 1..n : part[i] = p.chunk[i]
        <4> HIDE DEF p
        <4> QED
          BY <1>3, <2>1, LenProperties
      <3> QED
        BY <2>1, <3>1
    <2>5. written[w] \in Seq(Bytes) /\ p.done = Len(written[w])
          /\ \A i \in 1..Len(written[w]) : written[w][i] = UserByte(slot + i - 1)
      BY <1>1, <1>2 DEF JobInv, WroteOk, ArenaInv, Types
    <2>6. bytes \in Seq(Bytes) /\ Len(bytes) = done
          /\ \A i \in 1..done : bytes[i] = UserByte(slot + i - 1)
      <3> HIDE DEF p, part, slot
      <3>1. \A i \in 1..n : part[i] = UserByte(slot + p.done + i - 1)
        BY <2>3, <2>4
      <3>2. Users(written[w], p.done, slot) /\ Users(part, n, slot + p.done)
        BY <2>3, <2>4, <2>5, <3>1 DEF Users
      <3>3. p.done \in Nat /\ slot \in Nat /\ n \in Nat
        BY <1>3, <2>1, <2>3
      <3> HIDE DEF bytes, done
      <3>4. Users(written[w] \o part, p.done + n, slot)
        BY <3>2, <3>3, MoreBytes
      <3> QED
        BY <3>4 DEF Users, bytes, done
    <2>7. job' = [job EXCEPT ![w] = o] /\ written' = [written EXCEPT ![w] = bytes]
      BY <1>7
    <2> HIDE DEF done, part, bytes
    <2>8. o \in Job /\ o.sqe = p.sqe /\ o.done = done
          /\ \/ o.at = "copy" /\ o.pos = p.pos + n /\ done < p.sqe.len
             \/ o.at = "done" /\ ~(done < p.sqe.len)
      <3>1. CASE done < p.sqe.len
        BY <1>2, <2>2, <3>1 DEF Job
      <3>2. CASE ~(done < p.sqe.len)
        <4>1. Finished(w, done) \in Job /\ Finished(w, done).sqe = p.sqe
              /\ Finished(w, done).at = "done"
          BY <1>1, <2>2, FinishedOk
        <4> HIDE DEF p
        <4>2. o = [Finished(w, done) EXCEPT !.done = done]
          BY <3>2
        <4> QED
          BY <2>2, <3>2, <4>1, <4>2 DEF Job
      <3> QED
        BY <3>1, <3>2
    <2> HIDE DEF o, p, slot
    <2>9. JobOk(config, o)
      <3>1. o.at # "done" => o.pos = slot + Start(p.sqe) + o.done
        BY <1>3, <2>1, <2>2, <2>3, <2>8 DEF done
      <3> QED
        BY <1>1, <1>2, <2>2, <2>8, <3>1 DEF JobInv, JobOk, slot
    <2>10. ChunkOk(config, o) /\ DirOk(o)
      BY <1>1, <2>8 DEF ChunkOk, DirOk
    <2>11. Holds(config, pages, o)
      BY <1>1, <1>2, <2>8 DEF JobInv, Holds, Content
    <2>12. written' \in [Workers -> Seq(Bytes)] /\ written'[w] = bytes
           /\ \A v \in Workers \ {w} : written'[v] = written[v]
      BY <2>6, <2>7 DEF ArenaInv, Types
    <2>13. WroteOk(config, o, written'[w])
      BY <2>6, <2>8, <2>12 DEF WroteOk, slot
    <2>14. pages' \in Seq(Page) /\ Len(pages') = Len(pages)
           /\ \A v \in Workers \ {w} : job[v] # Resting => Holds(config, pages', job[v])
      BY <1>1 DEF ArenaInv, Types, WorkInv, JobInv
    <2>15. JobInv(config, pages', o, written'[w])
      BY <1>1, <2>9, <2>10, <2>11, <2>13 DEF JobInv
    <2>16. job[w] # Resting /\ o.sqe = job[w].sqe
           /\ UNCHANGED <<config, mapped, task, vma, made>> /\ arenaLock' = arenaLock
      BY <1>1, <1>2, <2>8 DEF p
    <2> QED
      BY <2>7, <2>8, <2>12, <2>14, <2>15, <2>16, WorkStep
  <1> QED
    BY <1>5, <1>6, <1>7 DEF VfsWrite


LEMMA GatherKeeps ==
  ASSUME ArenaInv, NEW w \in Workers, Gather(w)
  PROVE  ArenaInv'
  <1> DEFINE p == job[w]
             left == p.sqe.len - p.done
             most == InPage(p.pos, left)
             n == Least(most, BufLen)
             done == p.done + n
             c == Load(p.pos, n)
             s == [p EXCEPT !.out = p.out \o c, !.done = done, !.pos = p.pos + n]
             o == IF done < p.sqe.len THEN s ELSE [s EXCEPT !.at = "done", !.res = done]
             first == SlotAt(config, p.sqe) + Start(p.sqe)
  <1>1. p.at = "copy" /\ p.sqe.kind = "gather" /\ job' = [job EXCEPT ![w] = o]
        /\ arenaLock \in {Nobody, w} /\ arenaLock' \in {Nobody, w}
        /\ UNCHANGED <<config, pages, mapped, task, vma, made, written>>
    BY DEF Gather, ring, Left
  <1>2. p # Resting /\ p \in Job /\ JobInv(config, pages, p, written[w])
    BY <1>1, Working
  <1>3. p.sqe \in Sqes /\ p.done \in Nat /\ p.pos \in Nat /\ p.sqe.len \in Nat
        /\ Start(p.sqe) \in Nat /\ p.out \in Seq(Bytes)
    BY <1>2, JobFacts, SqeFacts
  <1>4. p.done <= p.sqe.len /\ config # NoConfig /\ p.pos = first + p.done
    BY <1>1, <1>2 DEF JobInv, JobOk
  <1>5. left \in Nat
    BY <1>3, <1>4
  <1>6. n \in Nat /\ n <= left /\ InOnePage(p.pos, n)
    <2>1. most \in Nat /\ most <= left /\ InOnePage(p.pos, most)
      <3> HIDE DEF left
      <3> QED
        BY <1>3, <1>5, InPageIs
    <2>2. BufLen \in Nat
      BY SizesAssumption
    <2>3. n \in Nat /\ n <= most
      <3> HIDE DEF most
      <3> QED
        BY <2>1, <2>2 DEF Least
    <2> HIDE DEF most, n, left
    <2>4. InOnePage(p.pos, n)
      BY <1>3, <2>1, <2>3, LessInPage
    <2> QED
      BY <1>5, <2>1, <2>3, <2>4
  <1> HIDE DEF most, n
  <1>7. done \in Nat /\ done <= p.sqe.len /\ p.pos + n \in Nat
    BY <1>3, <1>4, <1>6
  <1>8. Users(c, n, p.pos)
    <2>1. p.done + n <= p.sqe.len
      BY <1>7
    <2> QED
      BY <1>1, <1>6, <2>1, LoadIs DEF Users
  <1>9. first \in Nat
    <2>1. SlotAt(config, p.sqe) \in Nat
      BY <1>3, <1>4, SqeFacts, ConfigFacts DEF SlotAt
    <2> QED
      BY <1>3, <2>1
  <1>10. Users(p.out, p.done, first)
    BY <1>1, <1>2, <1>3 DEF JobInv, ChunkOk, Users
  <1>11. Users(p.out \o c, done, first)
    <2> HIDE DEF c, first, p
    <2>1. Users(c, n, first + p.done)
      BY <1>4, <1>8
    <2> QED
      BY <1>3, <1>6, <1>9, <1>10, <2>1, MoreBytes
  <1> HIDE DEF done, c
  <1>12. o \in Job /\ o.sqe = p.sqe /\ o.done = done /\ o.out = p.out \o c
         /\ \/ o.at = "copy" /\ o.pos = p.pos + n /\ done < p.sqe.len
            \/ o.at = "done" /\ ~(done < p.sqe.len)
    <2>1. p.out \o c \in Seq(Bytes)
      BY <1>11 DEF Users
    <2>2. s \in Job /\ s.sqe = p.sqe /\ s.done = done /\ s.out = p.out \o c
          /\ s.at = "copy" /\ s.pos = p.pos + n
      BY <1>1, <1>2, <1>7, <2>1 DEF Job
    <2>3. o = IF done < p.sqe.len THEN s ELSE [s EXCEPT !.at = "done", !.res = done]
      OBVIOUS
    <2> HIDE DEF s, p, o
    <2>4. CASE done < p.sqe.len
      BY <2>2, <2>3, <2>4
    <2>5. CASE ~(done < p.sqe.len)
      <3>1. o = [s EXCEPT !.at = "done", !.res = done]
        BY <2>3, <2>5
      <3> HIDE DEF first
      <3>2. o.sqe = s.sqe /\ o.done = s.done /\ o.out = s.out /\ o.at = "done"
        BY <2>2, <3>1 DEF Job
      <3>3. o \in Job
        <4>1. done \in Int /\ s \in Job
          BY <1>7, <2>2
        <4> QED
          BY <3>1, <4>1 DEF Job
      <3> QED
        BY <2>2, <2>5, <3>2, <3>3
    <2> QED
      BY <2>4, <2>5
  <1> HIDE DEF o, s, p
  <1>13. JobOk(config, o)
    <2>1. o.at # "done" => o.pos = SlotAt(config, o.sqe) + Start(o.sqe) + o.done
      BY <1>3, <1>4, <1>6, <1>9, <1>12 DEF done
    <2> QED
      BY <1>1, <1>2, <1>7, <1>12, <2>1 DEF JobInv, JobOk
  <1>14. ChunkOk(config, o)
    <2>1. o.at = "done" => o.done = o.sqe.len
      BY <1>3, <1>7, <1>12
    <2>2. Len(o.out) = o.done /\ \A i \in 1..Len(o.out) : o.out[i] = UserByte(first + i - 1)
      BY <1>11, <1>12 DEF Users
    <2> QED
      BY <1>1, <1>12, <2>1, <2>2 DEF ChunkOk
  <1>15. DirOk(o) /\ WroteOk(config, o, written[w])
    BY <1>1, <1>12 DEF DirOk, WroteOk
  <1>16. Holds(config, pages, o)
    BY <1>1, <1>2, <1>12 DEF JobInv, Holds, Content
  <1>17. o.sqe = job[w].sqe /\ job[w] # Resting /\ job' = [job EXCEPT ![w] = o]
    BY <1>1, <1>2, <1>12 DEF p
  <1> QED
    BY <1>1, <1>12, <1>13, <1>14, <1>15, <1>16, <1>17, QuietStep

LEMMA ScatterKeeps ==
  ASSUME ArenaInv, NEW w \in Workers, Scatter(w)
  PROVE  ArenaInv'
  <1> DEFINE p == job[w]
             total == Len(p.out)
             left == total - p.done
             n == InPage(p.pos, left)
             done == p.done + n
             part == SubSeq(p.out, p.done + 1, done)
             s == [p EXCEPT !.done = done, !.pos = p.pos + n]
             o == IF done < total THEN s ELSE [s EXCEPT !.at = "done", !.res = done]
             slot == SlotAt(config, p.sqe)
             start == Start(p.sqe)
  <1>1. p.at = "copy" /\ p.sqe.kind \in {"answer", "readdir"} /\ job' = [job EXCEPT ![w] = o]
        /\ (IF n = 0 THEN UNCHANGED pages ELSE pages' = Store(p.pos, part, n))
        /\ arenaLock \in {Nobody, w} /\ arenaLock' \in {Nobody, w}
        /\ UNCHANGED <<config, mapped, task, vma, made, written>>
    BY DEF Scatter
  <1>2. p # Resting /\ p \in Job /\ JobInv(config, pages, p, written[w])
    BY <1>1, Working
  <1>3. p.sqe \in Sqes /\ p.done \in Nat /\ p.pos \in Nat /\ p.sqe.len \in Nat
        /\ start \in Nat /\ p.out \in Seq(Bytes) /\ total \in Nat
    BY <1>2, JobFacts, SqeFacts, LenProperties
  <1>4. p.done <= total /\ total <= p.sqe.len /\ config # NoConfig /\ p.pos = slot + start + p.done
        /\ start + p.sqe.len <= config.slot_size
    BY <1>1, <1>2 DEF JobInv, JobOk
  <1>5. config.slot_size \in Nat /\ pages \in Seq(Page) /\ slot \in Nat
    BY <1>3, <1>4, SqeFacts, ConfigFacts DEF SlotAt
  <1>6. n \in Nat /\ n <= left /\ InOnePage(p.pos, n)
    <2>1. left \in Nat
      BY <1>3, <1>4
    <2> HIDE DEF left
    <2> QED
      BY <1>3, <2>1, InPageIs
  <1> HIDE DEF n
  <1>7. done \in Nat /\ done <= total /\ p.pos + n \in Nat /\ done = p.done + n
    BY <1>3, <1>4, <1>6
  <1>8. Len(part) = n /\ \A i \in 1..n : part[i] = p.out[p.done + i] /\ part[i] \in Bytes
    <2>1. Len(part) = n /\ \A i \in 1..n : part[i] = p.out[p.done + i]
      <3> DEFINE x == p.out
                 d == p.done
      <3>1. x \in Seq(Bytes) /\ d \in Nat /\ d + n <= Len(x) /\ part = SubSeq(x, d + 1, d + n)
        BY <1>3, <1>7
      <3> HIDE DEF x, d, part
      <3>2. Len(part) = n /\ \A i \in 1..n : part[i] = x[d + i]
        BY <1>6, <3>1, LenProperties
      <3> QED
        BY <3>2 DEF x, d
    <2>2. \A i \in 1..n : p.out[p.done + i] \in Bytes
      <3>1. \A i \in 1..n : p.done + i \in 1..total
        <4> HIDE DEF p, total
        <4> QED
          BY <1>3, <1>6, <1>7
      <3> QED
        BY <1>3, <3>1, ElementOfSeq
    <2> HIDE DEF part
    <2> QED
      BY <2>1, <2>2
  <1> HIDE DEF part, done
  <1>9. /\ pages' \in Seq(Page) /\ Len(pages') = Len(pages)
        /\ \A a \in 0..(config.slot_size - 1) :
             At(pages', slot + a) = IF a \in (start + p.done)..(start + p.done + n - 1)
                                    THEN part[a - (start + p.done) + 1]
                                    ELSE At(pages, slot + a)
        /\ \A v \in Workers \ {w} : job[v] # Resting => Holds(config, pages', job[v])
    <2>1. CASE n = 0
      <3>1. pages' = pages
        BY <1>1, <2>1
      <3>2. ~ \E a \in 0..(config.slot_size - 1) : a \in (start + p.done)..(start + p.done + n - 1)
        <4> HIDE DEF p, start
        <4> QED
          BY <1>3, <2>1
      <3> QED
        BY <1>5, <3>1, <3>2 DEF ArenaInv, WorkInv, JobInv
    <2>2. CASE n # 0
      <3>1. start + p.done + n <= config.slot_size
        <4> DEFINE d == p.done
                   room == p.sqe.len
                   size == config.slot_size
        <4>1. d + n <= total /\ total <= room /\ start + room <= size
              /\ {d, n, total, room, start, size} \subseteq Nat
          BY <1>3, <1>4, <1>5, <1>6, <1>7 DEF done
        <4> HIDE DEF d, room, size, start, total
        <4>2. start + d + n <= size
          BY <4>1
        <4> QED
          BY <4>2 DEF d, size
      <3>2. n > 0 /\ pages' = Store(p.pos, part, n) /\ \A i \in 1..n : part[i] \in Bytes
        BY <1>1, <1>6, <1>8, <2>2
      <3> QED
        BY <1>1, <1>6, <3>1, <3>2, Put
    <2> QED
      BY <2>1, <2>2
  <1>10. o \in Job /\ o.sqe = p.sqe /\ o.done = done /\ o.out = p.out /\ o.dir = p.dir
         /\ o.used = p.used /\ o.recs = p.recs /\ o.skipped = p.skipped
         /\ \/ o.at = "copy" /\ o.pos = p.pos + n /\ done < total
            \/ o.at = "done" /\ ~(done < total) /\ o.res = done
    <2>2. s \in Job /\ s.sqe = p.sqe /\ s.done = done /\ s.out = p.out /\ s.dir = p.dir
          /\ s.used = p.used /\ s.recs = p.recs /\ s.skipped = p.skipped
          /\ s.at = "copy" /\ s.pos = p.pos + n
      BY <1>1, <1>2, <1>7 DEF Job
    <2>3. o = IF done < total THEN s ELSE [s EXCEPT !.at = "done", !.res = done]
      OBVIOUS
    <2>4. done \in Int
      BY <1>7
    <2> HIDE DEF s, p, o
    <2>5. CASE done < total
      BY <2>2, <2>3, <2>5
    <2>6. CASE ~(done < total)
      <3>1. o = [s EXCEPT !.at = "done", !.res = done] /\ s \in Job
        BY <2>2, <2>3, <2>6
      <3> HIDE DEF start, slot
      <3>2. o.sqe = s.sqe /\ o.done = s.done /\ o.out = s.out /\ o.at = "done" /\ o.res = done
            /\ o.dir = s.dir /\ o.used = s.used /\ o.recs = s.recs /\ o.skipped = s.skipped
        BY <3>1 DEF Job
      <3>3. o \in Job
        BY <2>4, <3>1 DEF Job
      <3> QED
        BY <2>2, <2>6, <3>2, <3>3
    <2> QED
      BY <2>5, <2>6
  <1> HIDE DEF o, s, p
  <1>11. JobOk(config, o)
    <2>1. ASSUME o.at # "done" PROVE o.pos = SlotAt(config, o.sqe) + Start(o.sqe) + o.done
      <3>1. o.pos = p.pos + n /\ o.sqe = p.sqe /\ o.done = done
        BY <1>10, <2>1
      <3>2. p.pos = slot + start + p.done /\ done = p.done + n
            /\ {slot, start, p.done, n} \subseteq Nat
        BY <1>3, <1>4, <1>5, <1>6, <1>7
      <3>3. o.pos = slot + start + o.done
        <4> HIDE DEF slot, start
        <4> QED
          BY <3>1, <3>2
      <3> QED
        BY <3>1, <3>3
    <2>2. o.done <= o.sqe.len
      BY <1>3, <1>4, <1>7, <1>10
    <2> QED
      BY <1>1, <1>2, <1>4, <1>7, <1>10, <2>1, <2>2 DEF JobInv, JobOk
  <1>12. ChunkOk(config, o) /\ WroteOk(config, o, written'[w])
    BY <1>1, <1>10 DEF ChunkOk, WroteOk
  <1>13. DirOk(o)
    <2>1. CASE p.sqe.kind = "readdir"
      <3>1. DirOk(p) /\ p.at # "done" /\ p.at # "iterate"
        BY <1>1, <1>2 DEF JobInv
      <3>2. o.at = "done" => o.res = total
        BY <1>3, <1>7, <1>10
      <3>3. o.at # "iterate"
        BY <1>10
      <3> QED
        BY <1>10, <2>1, <3>1, <3>2, <3>3 DEF DirOk, Recorded
    <2>2. CASE p.sqe.kind # "readdir"
      BY <1>10, <2>2 DEF DirOk
    <2> QED
      BY <2>1, <2>2
  <1>14. Holds(config, pages', o)
    <2> SUFFICES ASSUME NEW a \in 0..(config.slot_size - 1)
                 PROVE  At(pages', slot + a) = IF a \in start..(start + done - 1) THEN p.out[a - start + 1]
                                               ELSE UserByte(slot + a)
      BY <1>1, <1>10 DEF Holds, Content
    <2>1. At(pages, slot + a) = IF a \in start..(start + p.done - 1) THEN p.out[a - start + 1]
                                ELSE UserByte(slot + a)
      BY <1>1, <1>2 DEF JobInv, Holds, Content
    <2>2. At(pages', slot + a) = IF a \in (start + p.done)..(start + p.done + n - 1)
                                 THEN part[a - (start + p.done) + 1] ELSE At(pages, slot + a)
      BY <1>9
    <2>3. a \in Nat
      BY <1>5
    <2>6. {start, p.done, n} \subseteq Nat /\ done = p.done + n
      BY <1>3, <1>6, <1>7
    <2> HIDE DEF start, slot, total
    <2>4. CASE a \in (start + p.done)..(start + p.done + n - 1)
      <3> DEFINE i == a - (start + p.done) + 1
      <3>1. i \in 1..n /\ p.done + i = a - start + 1 /\ a \in start..(start + done - 1)
        BY <2>3, <2>4, <2>6
      <3> HIDE DEF i
      <3>2. part[i] = p.out[a - start + 1]
        BY <1>8, <3>1
      <3> QED
        BY <2>2, <2>4, <3>1, <3>2 DEF i
    <2>5. CASE a \notin (start + p.done)..(start + p.done + n - 1)
      <3>1. a \in start..(start + done - 1) <=> a \in start..(start + p.done - 1)
        BY <2>3, <2>5, <2>6
      <3> QED
        BY <2>1, <2>2, <2>5, <3>1
    <2> QED
      BY <2>4, <2>5
  <1>15. JobInv(config, pages', o, written'[w])
    BY <1>11, <1>12, <1>13, <1>14 DEF JobInv
  <1>16. written' \in [Workers -> Seq(Bytes)] /\ \A v \in Workers \ {w} : written'[v] = written[v]
    BY <1>1 DEF ArenaInv, Types
  <1>17. o.sqe = job[w].sqe /\ job[w] # Resting /\ job' = [job EXCEPT ![w] = o]
         /\ UNCHANGED <<config, mapped, task, vma, made>>
    BY <1>1, <1>2, <1>10 DEF p
  <1> QED
    BY <1>1, <1>9, <1>10, <1>15, <1>16, <1>17, WorkStep

-----------------------------------------------------------------------------
(* READDIR.                                                                *)

LEMMA DirectoryIs ==
  /\ DOMAIN Directory = 1..Len(Directory) /\ Len(Directory) \in Nat
  /\ \A k \in DOMAIN Directory : Directory[k].reclen \in Nat \ {0} /\ Directory[k].named \in BOOLEAN
  <1>1. Directory \in Seq([reclen : Nat \ {0}, named : BOOLEAN])
    BY DirectoryAssumption
  <1>2. DOMAIN Directory = 1..Len(Directory) /\ Len(Directory) \in Nat
    BY <1>1, LenProperties
  <1>3. \A k \in 1..Len(Directory) : Directory[k] \in [reclen : Nat \ {0}, named : BOOLEAN]
    BY <1>1, ElementOfSeq
  <1> QED
    BY <1>2, <1>3

\* One entry further.
LEMMA NamedNext ==
  ASSUME NEW d \in Nat, d + 1 \in DOMAIN Directory
  PROVE  /\ Directory[d + 1].named => NamedAfter(d) = NamedAfter(d + 1) \cup {d + 1}
         /\ ~Directory[d + 1].named => NamedAfter(d) = NamedAfter(d + 1)
         /\ d + 1 \notin NamedAfter(d + 1)
  BY DirectoryIs DEF NamedAfter

LEMMA NamedFewer ==
  ASSUME NEW d \in Nat, NEW n \in Nat, n <= d
  PROVE  /\ NamedAfter(d) \subseteq NamedAfter(n)
         /\ d >= Len(Directory) => NamedAfter(d) = {}
         /\ d + 1 \in DOMAIN Directory /\ Directory[d + 1].named => d + 1 \in NamedAfter(n)
  BY DirectoryIs DEF NamedAfter

\* The last record gets its cookie.
LEMMA PatchedIs ==
  ASSUME NEW recs \in Seq(Record), NEW c \in Nat
  PROVE  /\ Patched(recs, c) \in Seq(Record) /\ Len(Patched(recs, c)) = Len(recs)
         /\ \A i \in 1..Len(recs) :
              /\ Patched(recs, c)[i].entry = recs[i].entry
              /\ Patched(recs, c)[i].cookie = IF i = Len(recs) THEN c ELSE recs[i].cookie
  <1> DEFINE n == Len(recs)
             e(i) == IF i = n THEN [recs[i] EXCEPT !.cookie = c] ELSE recs[i]
  <1>1. n \in Nat /\ DOMAIN recs = 1..n /\ \A i \in 1..n : recs[i] \in Record
    BY LenProperties, ElementOfSeq
  <1>2. \A i \in 1..n : /\ e(i) \in Record /\ e(i).entry = recs[i].entry
                        /\ e(i).cookie = IF i = n THEN c ELSE recs[i].cookie
    BY <1>1 DEF Record
  <1>3. Patched(recs, c) = [i \in 1..n |-> e(i)]
    BY <1>1 DEF Patched
  <1> HIDE DEF n, e
  <1>4. /\ [i \in 1..n |-> e(i)] \in Seq(Record) /\ Len([i \in 1..n |-> e(i)]) = n
        /\ \A i \in 1..n : [j \in 1..n |-> e(j)][i] = e(i)
    BY <1>1, <1>2, IsASeq
  <1> QED
    BY <1>2, <1>3, <1>4 DEF n

\* An operation that iterates is a READDIR, and has put nothing yet.
LEMMA Iterating ==
  ASSUME ArenaInv, NEW w \in Workers, job[w].at = "iterate"
  PROVE  LET p == job[w] IN
         /\ p # Resting /\ p \in Job /\ JobInv(config, pages, p, written[w])
         /\ p.sqe.kind = "readdir" /\ p.done = 0 /\ p.sqe.off \in Nat /\ p.sqe.len \in Nat
         /\ p.dir \in Nat /\ p.used \in Nat /\ p.recs \in Seq(Record) /\ p.out \in Seq(Bytes)
         /\ Recorded(p) = NamedAfter(p.sqe.off) \ NamedAfter(p.dir)
         /\ \A i \in 1..Len(p.recs) :
              NamedAfter(IF i = Len(p.recs) THEN p.dir ELSE p.recs[i].cookie)
                = NamedAfter(p.recs[i].entry)
         /\ p.skipped <=> \E k \in (p.sqe.off + 1)..p.dir : ~Directory[k].named
         /\ p.sqe.off <= p.dir /\ p.used = Len(p.out) /\ (p.used = 0 <=> p.recs = <<>>)
         /\ p.used <= p.sqe.len
  <1> DEFINE p == job[w]
  <1>1. p # Resting /\ p \in Job /\ JobInv(config, pages, p, written[w])
    BY Working
  <1>2. p.sqe \in Sqes /\ p.dir \in Nat /\ p.used \in Nat /\ p.recs \in Seq(Record)
        /\ p.out \in Seq(Bytes)
    BY <1>1, JobFacts
  <1>3. p.sqe.off \in Nat /\ p.sqe.len \in Nat
        /\ p.sqe.kind \in {"read", "write", "gather", "answer", "readdir"}
    BY <1>2, SqeFacts
  <1>4. p.sqe.kind = "readdir" /\ p.done = 0
    BY <1>1, <1>3 DEF JobInv, JobOk
  <1>5. DirOk(p) /\ p.at = "iterate"
    BY <1>1 DEF JobInv
  <1> HIDE DEF p
  <1>6. /\ Recorded(p) = NamedAfter(p.sqe.off) \ NamedAfter(p.dir)
        /\ \A i \in 1..Len(p.recs) :
             NamedAfter(IF i = Len(p.recs) THEN p.dir ELSE p.recs[i].cookie)
               = NamedAfter(p.recs[i].entry)
        /\ p.skipped <=> \E k \in (p.sqe.off + 1)..p.dir : ~Directory[k].named
        /\ p.sqe.off <= p.dir /\ p.used = Len(p.out) /\ (p.used = 0 <=> p.recs = <<>>)
        /\ p.used <= p.sqe.len
    BY <1>4, <1>5 DEF DirOk
  <1> QED
    BY <1>1, <1>2, <1>3, <1>4, <1>6 DEF p

\* What a READDIR that goes on must keep.
LEMMA IterateStep ==
  ASSUME ArenaInv, NEW w \in Workers, job[w].at = "iterate",
         NEW o \in Job, job' = [job EXCEPT ![w] = o],
         o.sqe = job[w].sqe, o.done = job[w].done, o.pos = job[w].pos,
         o.at \in {"iterate", "copy"}, Len(o.out) <= o.sqe.len, DirOk(o),
         UNCHANGED <<config, pages, mapped, task, vma, made, written, arenaLock>>
  PROVE  ArenaInv'
  <1> DEFINE p == job[w]
  <1>1. p # Resting /\ p \in Job /\ JobInv(config, pages, p, written[w])
        /\ p.sqe.kind = "readdir" /\ p.done = 0
    BY Iterating
  <1>2. Len(o.out) \in Nat /\ 0 <= Len(o.out)
    BY JobFacts, LenProperties
  <1> HIDE DEF p
  <1>3. o.sqe = p.sqe /\ o.done = p.done /\ o.pos = p.pos /\ p.at = "iterate" /\ p = job[w]
    BY DEF p
  <1>4. JobOk(config, o)
    BY <1>1, <1>2, <1>3 DEF JobInv, JobOk
  <1>5. ChunkOk(config, o) /\ WroteOk(config, o, written[w])
    BY <1>1, <1>3 DEF ChunkOk, WroteOk
  <1>6. Holds(config, pages, o)
    <2>2. Start(p.sqe) = 0
      BY <1>1 DEF Start
    <2>3. \A a \in Int : Content(config, o, a) = UserByte(SlotAt(config, p.sqe) + a)
                         /\ Content(config, p, a) = UserByte(SlotAt(config, p.sqe) + a)
      BY <1>1, <1>3, <2>2 DEF Content
    <2>4. Holds(config, pages, p)
      BY <1>1 DEF JobInv
    <2>5. \A a \in 0..(config.slot_size - 1) : a \in Int
      OBVIOUS
    <2> QED
      BY <1>3, <2>3, <2>4, <2>5 DEF Holds
  <1> QED
    BY <1>1, <1>3, <1>4, <1>5, <1>6, QuietStep

LEMMA FilldirKeeps ==
  ASSUME ArenaInv, NEW w \in Workers, Filldir(w)
  PROVE  ArenaInv'
  <1> DEFINE p == job[w]
             k == p.dir + 1
             size == Directory[k].reclen
  <1>1. p.at = "iterate" /\ k \in DOMAIN Directory /\ ~p.full
        /\ UNCHANGED <<config, pages, mapped, task, vma, made, written, arenaLock>>
    BY DEF Filldir, ring
  <1>2. /\ p # Resting /\ p \in Job /\ JobInv(config, pages, p, written[w])
        /\ p.sqe.kind = "readdir" /\ p.done = 0 /\ p.sqe.off \in Nat /\ p.sqe.len \in Nat
        /\ p.dir \in Nat /\ p.used \in Nat /\ p.recs \in Seq(Record) /\ p.out \in Seq(Bytes)
    BY <1>1, Iterating
  <1>3. /\ Recorded(p) = NamedAfter(p.sqe.off) \ NamedAfter(p.dir)
        /\ \A i \in 1..Len(p.recs) :
             NamedAfter(IF i = Len(p.recs) THEN p.dir ELSE p.recs[i].cookie)
               = NamedAfter(p.recs[i].entry)
        /\ p.skipped <=> \E j \in (p.sqe.off + 1)..p.dir : ~Directory[j].named
        /\ p.sqe.off <= p.dir /\ p.used = Len(p.out) /\ (p.used = 0 <=> p.recs = <<>>)
        /\ p.used <= p.sqe.len
    BY <1>1, Iterating
  <1>4. size \in Nat \ {0} /\ k \in Nat /\ Directory[k].named \in BOOLEAN
    BY <1>1, <1>2, DirectoryIs
  <1>5. /\ Directory[k].named => NamedAfter(p.dir) = NamedAfter(k) \cup {k} /\ k \in NamedAfter(p.sqe.off)
        /\ ~Directory[k].named => NamedAfter(p.dir) = NamedAfter(k)
        /\ k \notin NamedAfter(k)
    <2> DEFINE d == p.dir
               off == p.sqe.off
    <2>1. d \in Nat /\ off \in Nat /\ off <= d /\ d + 1 \in DOMAIN Directory
      BY <1>1, <1>2, <1>3
    <2> HIDE DEF d, off
    <2>2. /\ Directory[d + 1].named => NamedAfter(d) = NamedAfter(d + 1) \cup {d + 1}
          /\ ~Directory[d + 1].named => NamedAfter(d) = NamedAfter(d + 1)
          /\ d + 1 \notin NamedAfter(d + 1)
          /\ Directory[d + 1].named => d + 1 \in NamedAfter(off)
      BY <2>1, NamedNext, NamedFewer
    <2> QED
      BY <2>2 DEF d, off
  <1>6. Len(p.out) <= p.sqe.len
    BY <1>3
  <1>7. CASE ~Directory[k].named
    <2> DEFINE o == [p EXCEPT !.skipped = TRUE, !.dir = k]
    <2>1. job' = [job EXCEPT ![w] = o]
      BY <1>7 DEF Filldir
    <2>2. o \in Job /\ o.sqe = p.sqe /\ o.done = p.done /\ o.pos = p.pos /\ o.at = p.at
          /\ o.out = p.out /\ o.recs = p.recs /\ o.used = p.used /\ o.skipped = TRUE /\ o.dir = k
      BY <1>2, <1>4 DEF Job
    <2> HIDE DEF o, p, k
    <2>3. \E j \in (p.sqe.off + 1)..k : ~Directory[j].named
      BY <1>2, <1>3, <1>4, <1>7 DEF k
    <2>4. p.sqe.off <= k
      BY <1>2, <1>3 DEF k
    <2>5. DirOk(o)
      BY <1>1, <1>3, <1>5, <1>7, <2>2, <2>3, <2>4 DEF DirOk, Recorded
    <2> QED
      BY <1>1, <1>6, <2>1, <2>2, <2>5, IterateStep DEF p
  <1>8. CASE Directory[k].named /\ p.used + size > p.sqe.len
    <2> DEFINE o == [p EXCEPT !.full = TRUE]
    <2>1. job' = [job EXCEPT ![w] = o]
      BY <1>8 DEF Filldir
    <2>2. o \in Job /\ o.sqe = p.sqe /\ o.done = p.done /\ o.pos = p.pos /\ o.at = p.at
          /\ o.out = p.out /\ o.recs = p.recs /\ o.used = p.used /\ o.skipped = p.skipped
          /\ o.dir = p.dir
      BY <1>2 DEF Job
    <2> HIDE DEF o, p, k, size
    <2>5. DirOk(o)
      BY <1>1, <1>3, <2>2 DEF DirOk, Recorded
    <2> QED
      BY <1>1, <1>6, <2>1, <2>2, <2>5, IterateStep DEF p
  <1>9. CASE Directory[k].named /\ p.used + size <= p.sqe.len
    <2> DEFINE f(i) == DirByte(k)
               more == [i \in 1..size |-> f(i)]
               old == Patched(p.recs, k - 1)
               new == [entry |-> k, cookie |-> 0]
               recs == Append(old, new)
               n == Len(p.recs)
               o == [p EXCEPT !.recs = recs, !.used = p.used + size, !.dir = k,
                              !.out = p.out \o more]
    <2>1. job' = [job EXCEPT ![w] = o]
      <3>1. ~(p.used + size > p.sqe.len)
        <4> HIDE DEF p, k, size
        <4> QED
          BY <1>2, <1>4, <1>9
      <3> QED
        BY <1>9, <3>1 DEF Filldir, Filled
    <2>2. more \in Seq(Bytes) /\ Len(more) = size
      <3>1. \A i \in 1..size : f(i) \in Bytes
        BY <1>4, BytesAre
      <3> HIDE DEF f
      <3> QED
        BY <1>4, <3>1, IsASeq
    <2>3. k - 1 = p.dir /\ n \in Nat
      BY <1>2, LenProperties
    <2>4. /\ old \in Seq(Record) /\ Len(old) = n
          /\ \A i \in 1..n : /\ old[i].entry = p.recs[i].entry
                             /\ old[i].cookie = IF i = n THEN p.dir ELSE p.recs[i].cookie
      BY <1>2, <2>3, PatchedIs
    <2>5. new \in Record /\ new.entry = k
      BY <1>4 DEF Record
    <2> HIDE DEF more, old, new, n, k, size, p
    <2>6. /\ recs \in Seq(Record) /\ Len(recs) = n + 1 /\ recs # <<>>
          /\ \A i \in 1..n : recs[i] = old[i]
          /\ recs[n + 1] = new
      BY <2>3, <2>4, <2>5, AppendProperties
    <2>7. p.out \o more \in Seq(Bytes) /\ Len(p.out \o more) = p.used + size
          /\ p.used + size \in Nat /\ p.used + size # 0
      <3> DEFINE out == p.out
      <3>1. out \in Seq(Bytes) /\ Len(out) = p.used
        BY <1>2, <1>3
      <3> HIDE DEF out, recs, o
      <3>2. out \o more \in Seq(Bytes) /\ Len(out \o more) = Len(out) + Len(more)
        BY <2>2, <3>1, ConcatProperties
      <3>3. p.used + size \in Nat /\ p.used + size # 0
        BY <1>2, <1>4
      <3> QED
        BY <2>2, <3>1, <3>2, <3>3 DEF out
    <2>8. o \in Job /\ o.sqe = p.sqe /\ o.done = p.done /\ o.pos = p.pos /\ o.at = p.at
          /\ o.out = p.out \o more /\ o.recs = recs /\ o.used = p.used + size
          /\ o.skipped = p.skipped /\ o.dir = k
      <3> HIDE DEF recs
      <3> QED
        BY <1>2, <1>4, <2>6, <2>7 DEF Job
    <2> HIDE DEF o, recs
    <2>9. Recorded(o) = Recorded(p) \cup {k}
      <3>1. {recs[i].entry : i \in 1..(n + 1)} = {recs[i].entry : i \in 1..n} \cup {k}
        <4>1. 1..(n + 1) = 1..n \cup {n + 1}
          BY <2>3
        <4> QED
          BY <2>5, <2>6, <4>1
      <3>2. {recs[i].entry : i \in 1..n} = Recorded(p)
        BY <2>4, <2>6 DEF Recorded, n
      <3>3. Recorded(o) = {recs[i].entry : i \in 1..(n + 1)}
        <4>1. o.recs = recs /\ Len(recs) = n + 1
          BY <2>6, <2>8
        <4> QED
          BY <4>1 DEF Recorded
      <3> QED
        BY <3>1, <3>2, <3>3
    <2>10. Recorded(o) = NamedAfter(o.sqe.off) \ NamedAfter(o.dir)
      BY <1>3, <1>5, <1>9, <2>8, <2>9
    <2>11. ASSUME NEW i \in 1..Len(o.recs)
           PROVE  NamedAfter(IF i = Len(o.recs) THEN o.dir ELSE o.recs[i].cookie)
                    = NamedAfter(o.recs[i].entry)
      <3>1. CASE i = n + 1
        BY <2>5, <2>6, <2>8, <3>1
      <3>2. CASE i # n + 1
        <4>1. i \in 1..n
          BY <2>3, <2>6, <2>8, <3>2
        <4>2. o.recs[i].entry = p.recs[i].entry
              /\ o.recs[i].cookie = IF i = n THEN p.dir ELSE p.recs[i].cookie
          BY <2>4, <2>6, <2>8, <4>1
        <4>3. i # Len(o.recs)
          BY <2>6, <2>8, <3>2
        <4> QED
          BY <1>3, <4>1, <4>2, <4>3 DEF n
      <3> QED
        BY <3>1, <3>2
    <2>12. o.skipped <=> \E j \in (o.sqe.off + 1)..o.dir : ~Directory[j].named
      <3>1. \A j \in Int : j \in (p.sqe.off + 1)..k <=> j \in (p.sqe.off + 1)..p.dir \/ j = k
        BY <1>2, <1>3, <2>3, <1>4
      <3> QED
        BY <1>3, <1>9, <2>8, <3>1
    <2>13. o.sqe.off <= o.dir
      BY <1>2, <1>3, <1>4, <2>3, <2>8
    <2>14. Len(o.out) <= o.sqe.len /\ o.used <= o.sqe.len
      BY <1>9, <2>7, <2>8
    <2>15. DirOk(o)
      BY <1>1, <2>6, <2>7, <2>8, <2>10, <2>11, <2>12, <2>13, <2>14 DEF DirOk
    <2> QED
      BY <1>1, <2>1, <2>8, <2>14, <2>15, IterateStep DEF p
  <1>10. p.used + size > p.sqe.len \/ p.used + size <= p.sqe.len
    <2> HIDE DEF p, k, size
    <2> QED
      BY <1>2, <1>4
  <1> QED
    BY <1>4, <1>7, <1>8, <1>9, <1>10

LEMMA IteratedKeeps ==
  ASSUME ArenaInv, NEW w \in Workers, Iterated(w)
  PROVE  ArenaInv'
  <1> DEFINE p == job[w]
  <1>1. p.at = "iterate"
        /\ UNCHANGED <<config, pages, mapped, task, vma, made, written, arenaLock>>
    BY DEF Iterated, ring
  <1>2. CASE job' = [job EXCEPT ![w] = Finished(w, Errno)]
    <2> DEFINE r == Errno
    <2>1. r \in Int /\ r = Errno /\ job' = [job EXCEPT ![w] = Finished(w, r)]
      BY <1>2
    <2>2. job[w].at # "idle"
      BY <1>1
    <2> HIDE DEF r
    <2> QED
      BY <1>1, <2>1, <2>2, FinishStep
  <1>3. CASE /\ p.full \/ p.dir >= Len(Directory)
             /\ ~(p.used = 0 /\ p.full)
             /\ job' = [job EXCEPT ![w] = [p EXCEPT !.at = "copy", !.recs = Patched(p.recs, p.dir)]]
    <2> DEFINE recs == Patched(p.recs, p.dir)
               o == [p EXCEPT !.at = "copy", !.recs = recs]
               n == Len(p.recs)
    <2>1. /\ p # Resting /\ p \in Job /\ JobInv(config, pages, p, written[w])
          /\ p.sqe.kind = "readdir" /\ p.done = 0 /\ p.sqe.off \in Nat /\ p.sqe.len \in Nat
          /\ p.dir \in Nat /\ p.used \in Nat /\ p.recs \in Seq(Record) /\ p.out \in Seq(Bytes)
      BY <1>1, Iterating
    <2>2. /\ Recorded(p) = NamedAfter(p.sqe.off) \ NamedAfter(p.dir)
          /\ \A i \in 1..Len(p.recs) :
               NamedAfter(IF i = Len(p.recs) THEN p.dir ELSE p.recs[i].cookie)
                 = NamedAfter(p.recs[i].entry)
          /\ p.skipped <=> \E k \in (p.sqe.off + 1)..p.dir : ~Directory[k].named
          /\ p.sqe.off <= p.dir /\ p.used = Len(p.out) /\ (p.used = 0 <=> p.recs = <<>>)
          /\ p.used <= p.sqe.len
      BY <1>1, Iterating
    <2>3. /\ recs \in Seq(Record) /\ Len(recs) = n
          /\ \A i \in 1..n : /\ recs[i].entry = p.recs[i].entry
                             /\ recs[i].cookie = IF i = n THEN p.dir ELSE p.recs[i].cookie
      BY <2>1, PatchedIs
    <2>4. recs = <<>> <=> p.recs = <<>>
      <3> HIDE DEF recs
      <3> QED
        BY <2>1, <2>3, EmptySeq, LenProperties
    <2> HIDE DEF recs
    <2>5. o \in Job /\ o.sqe = p.sqe /\ o.done = p.done /\ o.pos = p.pos /\ o.at = "copy"
          /\ o.out = p.out /\ o.recs = recs /\ o.used = p.used /\ o.skipped = p.skipped
          /\ o.dir = p.dir
      BY <2>1, <2>3 DEF Job
    <2>6. job' = [job EXCEPT ![w] = o]
      BY <1>3 DEF recs
    <2>7. p.used = 0 => NamedAfter(p.sqe.off) = {}
      <3> SUFFICES ASSUME p.used = 0 PROVE NamedAfter(p.sqe.off) = {}
        OBVIOUS
      <3>1. NamedAfter(p.dir) = {}
        <4> DEFINE d == p.dir
        <4>1. d \in Nat /\ d <= d /\ d >= Len(Directory)
          BY <1>3, <2>1
        <4> HIDE DEF d
        <4>2. NamedAfter(d) = {}
          BY <4>1, NamedFewer
        <4> QED
          BY <4>2 DEF d
      <3>2. Recorded(p) = {}
        <4>1. Len(p.recs) = 0
          BY <2>2
        <4> QED
          BY <4>1 DEF Recorded
      <3> QED
        BY <2>2, <3>1, <3>2
    <2> HIDE DEF o, p
    <2>8. Recorded(o) = Recorded(p)
      BY <2>3, <2>5 DEF Recorded, n
    <2>9. \A i \in 1..Len(o.recs) : NamedAfter(o.recs[i].cookie) = NamedAfter(o.recs[i].entry)
      BY <2>2, <2>3, <2>5 DEF n
    <2>10. DirOk(o)
      BY <2>2, <2>4, <2>5, <2>7, <2>8, <2>9 DEF DirOk
    <2> QED
      BY <1>1, <2>2, <2>5, <2>6, <2>10, IterateStep DEF p
  <1> QED
    BY <1>2, <1>3 DEF Iterated

-----------------------------------------------------------------------------
(* Operations begin and end.                                               *)

\* The arena when its user has filled a slot.
UserFills(base, size) ==
  [i \in DOMAIN pages |-> [j \in 0..(PageSize - 1) |->
     LET a == (i - 1) * PageSize + j IN
     IF a \in base..(base + size - 1) THEN UserByte(a) ELSE pages[i][j]]]

InArena(a) == a \in Nat /\ a < Len(pages) * PageSize
FilledAt(new, base, size, a) ==
  At(new, a) = IF a \in base..(base + size - 1) THEN UserByte(a) ELSE At(pages, a)

LEMMA FillIs ==
  ASSUME pages \in Seq(Page), NEW base \in Nat, NEW size \in Nat,
         NEW new, new = UserFills(base, size)
  PROVE  /\ new \in Seq(Page) /\ Len(new) = Len(pages)
         /\ \A a : InArena(a) => FilledAt(new, base, size, a)
  <1> DEFINE byte(i, j) == LET a == (i - 1) * PageSize + j IN
                           IF a \in base..(base + size - 1) THEN UserByte(a) ELSE pages[i][j]
             page(i) == [j \in 0..(PageSize - 1) |-> byte(i, j)]
             n == Len(pages)
  <1>1. PageSize \in Nat \ {0} /\ n \in Nat /\ DOMAIN pages = 1..n
    BY SizesAssumption, LenProperties
  <1>2. ASSUME NEW i \in 1..n, NEW j \in 0..(PageSize - 1)
        PROVE  byte(i, j) \in Bytes
    <2> DEFINE b == (i - 1) * PageSize
    <2>1. b \in Int
      BY <1>1
    <2>2. b + j \in Int
      BY <1>1, <2>1
    <2>3. pages[i][j] \in Bytes
      <3>1. pages[i] \in Page
        BY ElementOfSeq
      <3> QED
        BY <3>1 DEF Page
    <2> HIDE DEF b
    <2>4. byte(i, j) = IF b + j \in base..(base + size - 1) THEN UserByte(b + j) ELSE pages[i][j]
      BY DEF b
    <2> HIDE DEF byte
    <2> QED
      BY <2>2, <2>3, <2>4, BytesAre
  <1>3. \A i \in 1..n : page(i) \in Page
    <2> HIDE DEF byte
    <2> QED
      BY <1>2 DEF Page
  <1>4. new = [i \in 1..n |-> page(i)]
    BY <1>1 DEF UserFills
  <1>5. new \in Seq(Page) /\ Len(new) = n /\ \A i \in 1..n : new[i] = page(i)
    <2> HIDE DEF page, n
    <2>1. [i \in 1..n |-> page(i)] \in Seq(Page) /\ Len([i \in 1..n |-> page(i)]) = n
          /\ \A i \in 1..n : [j \in 1..n |-> page(j)][i] = page(i)
      BY <1>1, <1>3, IsASeq
    <2> QED
      BY <1>4, <2>1
  <1>6. ASSUME NEW a, InArena(a)
        PROVE  At(new, a) = IF a \in base..(base + size - 1) THEN UserByte(a) ELSE At(pages, a)
    <2> DEFINE q == a \div PageSize
               r == a % PageSize
               i == q + 1
    <2>0. a \in Nat /\ a < n * PageSize
      BY <1>6 DEF InArena
    <2>1. q \in Nat /\ r \in 0..(PageSize - 1) /\ q * PageSize \in Nat /\ a = q * PageSize + r
      BY <2>0, PositionIs
    <2>2. i \in 1..n
      BY <1>1, <2>0, InSomePage
    <2>3. At(new, a) = new[i][r] /\ At(pages, a) = pages[i][r]
      BY DEF At
    <2> HIDE DEF page, n, q, r
    <2>4. At(new, a) = page(i)[r]
      BY <1>5, <2>2, <2>3
    <2>5. page(i)[r] = byte(i, r)
      <3> HIDE DEF byte
      <3> QED
        BY <2>1 DEF page
    <2>6. (i - 1) * PageSize + r = a
      <3>1. i - 1 = q
        BY <2>1
      <3> QED
        BY <2>1, <3>1
    <2> QED
      BY <2>3, <2>4, <2>5, <2>6
  <1> QED
    BY <1>5, <1>6 DEF FilledAt

\* An operation that has just been accepted.
Begun(s) ==
  [at |-> CASE s.kind = "read" -> "vfs" [] s.kind = "readdir" -> "iterate" [] OTHER -> "copy",
   sqe |-> s, done |-> 0, chunk |-> <<>>, res |-> 0,
   pos |-> IF s.kind \in {"gather", "answer"} THEN Base(s) + s.off ELSE Base(s),
   out |-> IF s.kind = "answer" THEN Attributes(s) ELSE <<>>,
   dir |-> s.off, used |-> 0, recs |-> <<>>, full |-> FALSE, skipped |-> FALSE]

LEMMA BegunOk ==
  ASSUME NEW c \in Config, c # NoConfig, c = config, NEW s \in Sqes, Accepted(s),
         NEW o, o = Begun(s)
  PROVE  /\ o \in Job /\ o.sqe = s /\ JobOk(c, o) /\ ChunkOk(c, o) /\ DirOk(o)
         /\ \A a \in Nat : Content(c, o, a) = UserByte(SlotAt(c, s) + a)
  <1>1. /\ s.kind \in {"read", "write", "gather", "answer", "readdir"}
        /\ s.slot \in Nat /\ s.off \in Nat /\ s.len \in Nat /\ Start(s) \in Nat
    BY SqeFacts
  <1>2. c.slot_size \in Nat
    BY DEF Config
  <1>3. s.slot < c.slot_count /\ Start(s) + s.len <= c.slot_size
        /\ (s.kind \notin {"gather", "answer"} => s.len > 0)
    BY <1>1, <1>2 DEF Accepted, InRange, StatValid, Fits, Start
  <1>4. SlotAt(c, s) \in Nat /\ Base(s) = SlotAt(c, s)
    BY <1>1, <1>2 DEF SlotAt, Base
  <1>5. Attributes(s) \in Seq(Bytes) /\ Len(Attributes(s)) \in Nat /\ Len(Attributes(s)) <= s.len
    <2> DEFINE n == Least(s.len, AnswerLen)
               f(i) == StatByte(i)
    <2>1. n \in Nat /\ n <= s.len
      BY <1>1, SizesAssumption DEF Least
    <2>2. \A i \in 1..n : f(i) \in Bytes
      BY <2>1, BytesAre
    <2>3. Attributes(s) = [i \in 1..n |-> f(i)]
      BY DEF Attributes
    <2> HIDE DEF n, f
    <2> QED
      BY <2>1, <2>2, <2>3, IsASeq
  <1> DEFINE out == IF s.kind = "answer" THEN Attributes(s) ELSE <<>>
             pos == IF s.kind \in {"gather", "answer"} THEN Base(s) + s.off ELSE Base(s)
             at == CASE s.kind = "read" -> "vfs" [] s.kind = "readdir" -> "iterate" [] OTHER -> "copy"
  <1>6. out \in Seq(Bytes) /\ Len(out) \in Nat /\ Len(out) <= s.len
        /\ (s.kind # "answer" => out = <<>>)
    BY <1>1, <1>5
  <1>7. pos \in Nat /\ pos = SlotAt(c, s) + Start(s) + 0
    BY <1>1, <1>4 DEF Start
  <1>8. at \in {"vfs", "copy", "iterate"} /\ (at = "iterate" <=> s.kind = "readdir")
        /\ (at = "vfs" <=> s.kind = "read")
    BY <1>1
  <1>9. o = [at |-> at, sqe |-> s, done |-> 0, chunk |-> <<>>, res |-> 0, pos |-> pos, out |-> out,
             dir |-> s.off, used |-> 0, recs |-> <<>>, full |-> FALSE, skipped |-> FALSE]
    BY DEF Begun
  <1> HIDE DEF out, pos, at
  <1>10. /\ o.at = at /\ o.sqe = s /\ o.done = 0 /\ o.pos = pos /\ o.out = out
         /\ o.dir = s.off /\ o.used = 0 /\ o.recs = <<>> /\ o.skipped = FALSE
    BY <1>9
  <1>11. o \in Job
    <2>1. <<>> \in Seq(Bytes) /\ <<>> \in Seq(Record)
      OBVIOUS
    <2> QED
      BY <1>1, <1>6, <1>7, <1>8, <1>9, <2>1 DEF Job
  <1>12. JobOk(c, o)
    BY <1>1, <1>3, <1>6, <1>7, <1>8, <1>10 DEF JobOk
  <1>13. ChunkOk(c, o)
    BY <1>6, <1>8, <1>10 DEF ChunkOk
  <1>14. DirOk(o)
    <2>1. Recorded(o) = {} /\ Len(o.recs) = 0
      BY <1>10 DEF Recorded
    <2>2. ~ \E k \in (s.off + 1)..s.off : ~Directory[k].named
      BY <1>1
    <2>3. s.kind = "readdir" => at = "iterate" /\ Len(out) = 0
      BY <1>6, <1>8
    <2> HIDE DEF Recorded
    <2> QED
      BY <1>1, <1>10, <2>1, <2>2, <2>3 DEF DirOk
  <1>15. \A a \in Nat : Content(c, o, a) = UserByte(SlotAt(c, s) + a)
    BY <1>1, <1>10 DEF Content
  <1> QED
    BY <1>10, <1>11, <1>12, <1>13, <1>14, <1>15

LEMMA SubmitKeeps ==
  ASSUME ArenaInv, NEW w \in Workers, SubmitSlot(w)
  PROVE  ArenaInv'
  <1>13. PICK s \in Sqes :
        /\ Accepted(s)
        /\ \A v \in Workers : job[v] # Resting => job[v].sqe.slot # s.slot
        /\ pages' = UserFills(Base(s), config.slot_size)
        /\ job' = [job EXCEPT ![w] = Begun(s)]
        /\ IF s.kind = "write" THEN written' = [written EXCEPT ![w] = <<>>] ELSE UNCHANGED written
    BY DEF SubmitSlot, UserFills, Begun
  <1>1. UNCHANGED <<config, mapped, task, vma, made, arenaLock>>
    BY DEF SubmitSlot, locks
  <1>2. config # NoConfig /\ s.slot < config.slot_count
    BY <1>13 DEF Accepted
  <1>3. /\ config \in Config /\ config.slot_size \in Nat /\ config.slot_count \in Nat
        /\ ArenaSize(config) = Len(pages) * PageSize
        /\ pages \in Seq(Page) /\ Len(pages) \in Nat
    BY <1>2, ConfigFacts
  <1> DEFINE o == Begun(s)
             size == config.slot_size
             end == Len(pages) * PageSize
             slot == SlotAt(config, s)
  <1>4. o \in Job /\ o.sqe = s /\ JobOk(config, o) /\ ChunkOk(config, o) /\ DirOk(o)
        /\ \A a \in Nat : Content(config, o, a) = UserByte(slot + a)
    BY <1>2, <1>3, <1>13, BegunOk
  <1>5. s.slot \in Nat /\ slot \in Nat /\ Base(s) = slot
    BY <1>2, <1>3, SqeFacts DEF SlotAt, Base
  <1>6. /\ pages' \in Seq(Page) /\ Len(pages') = Len(pages)
        /\ \A a \in Nat : a < end =>
             At(pages', a) = IF a \in slot..(slot + size - 1) THEN UserByte(a) ELSE At(pages, a)
    <2> DEFINE new == pages'
    <2>1. new = UserFills(slot, size) /\ slot \in Nat /\ size \in Nat /\ pages \in Seq(Page)
      BY <1>3, <1>5, <1>13
    <2> HIDE DEF new, slot, size, o
    <2>2. /\ new \in Seq(Page) /\ Len(new) = Len(pages)
          /\ \A a : InArena(a) => FilledAt(new, slot, size, a)
      BY <2>1, FillIs
    <2> QED
      BY <2>2 DEF new, InArena, FilledAt
  <1>7. ASSUME NEW v \in Workers \ {w}, job[v] # Resting
        PROVE  Holds(config, pages', job[v])
    <2> DEFINE p == job[v]
               other == SlotAt(config, p.sqe)
    <2>1. p.sqe.slot # s.slot /\ p \in Job /\ JobOk(config, p) /\ Holds(config, pages, p)
      BY <1>7, <1>13 DEF ArenaInv, Types, WorkInv, JobInv
    <2>2. p.sqe.slot \in Nat /\ p.sqe.slot < config.slot_count
      BY <2>1, JobFacts, SqeFacts DEF JobOk
    <2>3. ASSUME NEW a \in 0..(size - 1)
          PROVE  At(pages', other + a) = At(pages, other + a)
      <3> DEFINE b == other + a
      <3>1. b \in Nat /\ b < end
        BY <1>3, <2>2, SlotInArena DEF SlotAt
      <3>2. ASSUME b \in slot..(slot + size - 1) PROVE FALSE
        <4> DEFINE c == b - slot
        <4>1. c \in 0..(size - 1) /\ b = slot + c
          <5> HIDE DEF b, slot, size
          <5> QED
            BY <1>3, <1>5, <3>1, <3>2 DEF size
        <4> QED
          BY <1>3, <1>5, <2>1, <2>2, <4>1, SlotsDisjoint DEF SlotAt
      <3> HIDE DEF b, end, slot
      <3>3. At(pages', b) = At(pages, b)
        BY <1>6, <3>1, <3>2
      <3> QED
        BY <3>3 DEF b
    <2> QED
      BY <2>1, <2>3 DEF Holds
  <1>8. Holds(config, pages', o)
    <2> SUFFICES ASSUME NEW a \in 0..(size - 1)
                 PROVE  At(pages', slot + a) = Content(config, o, a)
      BY <1>4 DEF Holds
    <2>1. a \in Nat /\ a < size
      BY <1>3
    <2>2. slot + a < end
      BY <1>2, <1>3, <1>5, SlotInArena DEF SlotAt
    <2> HIDE DEF o, slot, size, end
    <2>3. slot + a \in Nat /\ slot + a \in slot..(slot + size - 1)
      BY <1>3, <1>5, <2>1 DEF size
    <2>4. At(pages', slot + a) = UserByte(slot + a)
      BY <1>6, <2>2, <2>3
    <2> QED
      BY <1>4, <2>1, <2>4
  <1>9. written' \in [Workers -> Seq(Bytes)] /\ \A v \in Workers \ {w} : written'[v] = written[v]
    <2>1. written \in [Workers -> Seq(Bytes)] /\ <<>> \in Seq(Bytes)
      BY DEF ArenaInv, Types
    <2> QED
      BY <1>13, <2>1
  <1>10. WroteOk(config, o, written'[w])
    <2>1. ASSUME s.kind = "write" PROVE o.done = 0 /\ written'[w] = <<>>
      <3>1. written \in [Workers -> Seq(Bytes)]
        BY DEF ArenaInv, Types
      <3> QED
        BY <1>13, <2>1, <3>1 DEF Begun
    <2> HIDE DEF o
    <2> QED
      BY <1>4, <2>1 DEF WroteOk
  <1>11. job' = [job EXCEPT ![w] = o]
         /\ \A v \in Workers \ {w} : job[v] # Resting => job[v].sqe.slot # o.sqe.slot
    BY <1>4, <1>13
  <1> HIDE DEF o
  <1>12. JobInv(config, pages', o, written'[w])
    BY <1>4, <1>8, <1>10 DEF JobInv
  <1> QED
    BY <1>1, <1>2, <1>4, <1>6, <1>7, <1>9, <1>11, <1>12, JobStep

LEMMA ReapKeeps ==
  ASSUME ArenaInv, NEW w \in Workers, Reap(w)
  PROVE  ArenaInv'
  <1>1. job' = [job EXCEPT ![w] = Resting]
        /\ UNCHANGED <<config, pages, mapped, task, vma, made, written, arenaLock>>
    BY DEF Reap, ring, locks
  <1>2. job \in [Workers -> {Resting} \cup Job]
    BY DEF ArenaInv, Types
  <1>3. \A v \in Workers : job'[v] # Resting => v # w /\ job[v] = job'[v]
    BY <1>1, <1>2
  <1>4. Types'
    BY <1>1, <1>2 DEF ArenaInv, Types
  <1>5. ConfigInv' /\ MapInv'
    BY <1>1 DEF ArenaInv, ConfigInv, MapInv, MappedOnceWhole
  <1>6. WorkInv'
    BY <1>1, <1>3 DEF ArenaInv, WorkInv, SlotsApart
  <1> QED
    BY <1>4, <1>5, <1>6 DEF ArenaInv

-----------------------------------------------------------------------------
(* SETUP and mmap.                                                         *)

\* What a task's call may be, and what is known when it gets anywhere.
LEMMA TaskFacts ==
  ASSUME ArenaInv, NEW t \in Threads
  PROVE  /\ task[t] \in Calls /\ t # Nobody /\ t \notin Workers
         /\ task[t].at \in {"mmap", "insert"} => task[t].n \in Nat /\ config # NoConfig
         /\ task[t].at = "install" => task[t].req \in Config
  <1>1. task[t] \in Calls
    BY DEF ArenaInv, Types
  <1>2. task[t].at \in {"mmap", "insert"} => task[t].n \in Nat
    BY <1>1 DEF Calls, Resting
  <1>3. task[t].at = "install" => task[t].req \in Config
    BY <1>1 DEF Calls, Resting
  <1> QED
    BY <1>1, <1>2, <1>3, NobodyAssumption DEF ArenaInv, MapInv

\* What it takes for a task's step to keep the invariant.
LEMMA TaskStep ==
  ASSUME ArenaInv, NEW t \in Threads, NEW c \in Calls, task' = [task EXCEPT ![t] = c],
         UNCHANGED <<config, pages, job, written>>,
         mapped' \in BOOLEAN, vma' \in [Threads -> Nat], made' \in Nat,
         arenaLock' \in {arenaLock, Nobody, t},
         config = NoConfig => ~mapped',
         c.at = "install" => c.req.slot_size > 0 /\ c.req.slot_size % PageSize = 0,
         c.at \in {"mmap", "insert"} => config # NoConfig,
         c.at = "mmap" => c.n = 0,
         c.at = "insert" => arenaLock' = t /\ ~mapped' /\ c.n <= Len(pages),
         \A u \in Threads \ {t} : task[u].at = "insert" => arenaLock' = u /\ mapped' = mapped,
         MappedOnceWhole'
  PROVE  ArenaInv'
  <1>1. task \in [Threads -> Calls] /\ arenaLock' \in Threads \cup Workers \cup {Nobody}
    BY DEF ArenaInv, Types
  <1>2. \A u \in Threads : task'[u] = IF u = t THEN c ELSE task[u]
    BY <1>1
  <1>3. Types'
    BY <1>1 DEF ArenaInv, Types
  <1>4. ConfigInv'
    BY <1>2 DEF ArenaInv, ConfigInv
  <1>5. MapInv'
    BY <1>2 DEF ArenaInv, MapInv
  <1>6. WorkInv'
    BY DEF ArenaInv, WorkInv, SlotsApart
  <1> QED
    BY <1>3, <1>4, <1>5, <1>6 DEF ArenaInv

LEMMA SetupKeeps ==
  ASSUME ArenaInv, NEW t \in Threads, Setup(t)
  PROVE  ArenaInv'
  <1>1. PICK r \in Requests :
          Valid(r) /\ task' = [task EXCEPT ![t] =
            [at |-> "install", req |-> [slot_size |-> r.slot_size, slot_count |-> r.slot_count]]]
    BY DEF Setup
  <1> DEFINE req == [slot_size |-> r.slot_size, slot_count |-> r.slot_count]
             c == [at |-> "install", req |-> req]
  <1>2. r.slot_size \in Nat /\ r.slot_count \in Nat /\ r.slot_size > 0 /\ r.slot_size % PageSize = 0
    BY <1>1, RequestsAssumption DEF Valid
  <1>3. req \in Config /\ req.slot_size = r.slot_size
    BY <1>2 DEF Config
  <1> HIDE DEF req
  <1>4. c \in Calls /\ c.at = "install" /\ c.req = req
    BY <1>3 DEF Calls
  <1>5. task' = [task EXCEPT ![t] = c]
    BY <1>1 DEF req
  <1>6. UNCHANGED <<config, pages, mapped, job, vma, made, written, arenaLock>>
    BY DEF Setup, ring, locks
  <1> HIDE DEF c
  <1>7. mapped' \in BOOLEAN /\ vma' \in [Threads -> Nat] /\ made' \in Nat
        /\ (config = NoConfig => ~mapped') /\ MappedOnceWhole'
        /\ \A u \in Threads \ {t} : task[u].at = "insert" => arenaLock' = u /\ mapped' = mapped
    BY <1>6 DEF ArenaInv, Types, ConfigInv, MapInv, MappedOnceWhole
  <1> QED
    BY <1>2, <1>3, <1>4, <1>5, <1>6, <1>7, TaskStep

\* A step of a task that maps nothing.
LEMMA CallStep ==
  ASSUME ArenaInv, NEW t \in Threads, NEW c \in Calls, task' = [task EXCEPT ![t] = c],
         UNCHANGED <<config, pages, mapped, job, vma, made, written>>,
         arenaLock' = arenaLock \/ (arenaLock \in {Nobody, t} /\ arenaLock' \in {Nobody, t}),
         c.at # "install",
         c.at \in {"mmap", "insert"} => config # NoConfig,
         c.at = "mmap" => c.n = 0,
         c.at = "insert" => arenaLock' = t /\ ~mapped /\ c.n <= Len(pages)
  PROVE  ArenaInv'
  <1>1. mapped' \in BOOLEAN /\ vma' \in [Threads -> Nat] /\ made' \in Nat
        /\ (config = NoConfig => ~mapped') /\ MappedOnceWhole'
    BY DEF ArenaInv, Types, ConfigInv, MapInv, MappedOnceWhole
  <1>2. \A u \in Threads \ {t} : task[u].at = "insert" => arenaLock' = u /\ mapped' = mapped
    BY NobodyAssumption DEF ArenaInv, MapInv
  <1> QED
    BY <1>1, <1>2, TaskStep

\* Only what has been allocated whole is installed, and once.
LEMMA SetupDoneKeeps ==
  ASSUME ArenaInv, NEW t \in Threads, SetupDone(t)
  PROVE  ArenaInv'
  <1>1. task[t].at = "install" /\ task' = [task EXCEPT ![t] = Resting]
        /\ UNCHANGED <<job, vma, made, written, arenaLock>>
    BY DEF SetupDone, locks
  <1>2. Resting \in Calls /\ Resting.at = "idle"
    BY DEF Calls, Resting
  <1>3. CASE config # NoConfig
    <2>1. UNCHANGED <<config, pages, mapped>>
      BY <1>3 DEF SetupDone, ring
    <2> QED
      BY <1>1, <1>2, <2>1, CallStep
  <1>4. CASE config = NoConfig
    <2> DEFINE r == task[t].req
               size == r.slot_size
               count == r.slot_count
               n == ArenaSize(r) \div PageSize
               page == [j \in 0..(PageSize - 1) |-> ZeroByte]
    <2>1. config' = r /\ pages' = [i \in 1..n |-> page] /\ mapped' = FALSE
      BY <1>4 DEF SetupDone, Install
    <2>2. r \in Config /\ size > 0 /\ size % PageSize = 0
      BY <1>1, TaskFacts DEF ArenaInv, ConfigInv
    <2>3. size \in Nat /\ count \in Nat /\ PageSize \in Nat \ {0}
      BY <2>2, SizesAssumption DEF Config
    <2>4. n \in Nat /\ ArenaSize(r) = n * PageSize
      <3> DEFINE k == size \div PageSize
      <3>1. k \in Nat /\ size = k * PageSize + 0
        BY <2>2, <2>3, PositionIs
      <3> HIDE DEF k, size, count, r
      <3>2. k * count \in Nat /\ size * count = (k * count) * PageSize
        BY <2>3, <3>1
      <3> DEFINE q == k * count
                 a == size * count
      <3>3. ArenaSize(r) = a
        BY DEF ArenaSize, size, count
      <3>4. a \in Nat /\ q \in Nat /\ a = q * PageSize + 0 /\ 0 \in 0..(PageSize - 1)
        BY <2>3, <3>2
      <3>5. a = q * PageSize
        BY <3>2
      <3> HIDE DEF q, a
      <3>6. a \div PageSize = q
        BY <3>4, PositionOf
      <3> QED
        BY <3>3, <3>4, <3>5, <3>6
    <2>5. page \in Page
      <3>1. ZeroByte \in Bytes
        BY DEF ZeroByte, Bytes
      <3> QED
        BY <3>1 DEF Page
    <2>6. pages' \in Seq(Page) /\ Len(pages') = n
      <3> DEFINE f(i) == page
      <3>1. \A i \in 1..n : f(i) \in Page
        BY <2>5
      <3>2. pages' = [i \in 1..n |-> f(i)]
        BY <2>1
      <3> HIDE DEF f, n
      <3> QED
        BY <2>4, <3>1, <3>2, IsASeq
    <2> HIDE DEF page, n, size, count
    <2>7. \A w \in Workers : job[w] = Resting
      BY <1>4 DEF ArenaInv, WorkInv, JobInv, JobOk
    <2>8. pages = <<>> /\ ~mapped
      BY <1>4 DEF ArenaInv, ConfigInv
    <2>9. \A u \in Threads : vma[u] = 0 /\ task[u].at \notin {"mmap", "insert"} /\ made = 0
      <3>1. Len(pages) = 0
        BY <2>8
      <3> QED
        BY <1>4, <2>8, <3>1 DEF ArenaInv, MapInv, MappedOnceWhole
    <2>10. made = 0
      BY <2>8 DEF ArenaInv, MapInv, MappedOnceWhole
    <2>11. task \in [Threads -> Calls]
      BY DEF ArenaInv, Types
    <2>12. \A u \in Threads : task'[u] = IF u = t THEN Resting ELSE task[u]
      BY <1>1, <2>11
    <2>13. Types'
      BY <1>1, <1>2, <2>1, <2>2, <2>6, <2>11 DEF ArenaInv, Types
    <2>14. ConfigInv'
      <3>1. config' # NoConfig => config'.slot_size > 0 /\ ArenaSize(config') = Len(pages') * PageSize
        BY <2>1, <2>2, <2>4, <2>6 DEF size
      <3>2. config' # NoConfig
        BY <2>1, <2>2, <2>3 DEF NoConfig, size
      <3>3. \A u \in Threads : task'[u].at = "install" =>
              task'[u].req.slot_size > 0 /\ task'[u].req.slot_size % PageSize = 0
        BY <1>2, <2>12 DEF ArenaInv, ConfigInv
      <3> QED
        BY <3>1, <3>2, <3>3 DEF ConfigInv
    <2>15. MapInv'
      <3>1. MappedOnceWhole'
        BY <1>1, <2>1, <2>9, <2>10 DEF MappedOnceWhole
      <3>2. \A u \in Threads : task'[u].at \notin {"mmap", "insert"}
        BY <1>2, <2>9, <2>12
      <3> QED
        BY <3>1, <3>2 DEF MapInv
    <2>16. WorkInv'
      BY <1>1, <2>7 DEF WorkInv, SlotsApart
    <2> QED
      BY <2>13, <2>14, <2>15, <2>16 DEF ArenaInv
  <1> QED
    BY <1>3, <1>4

LEMMA MmapKeeps ==
  ASSUME ArenaInv, NEW t \in Threads, Mmap(t)
  PROVE  ArenaInv'
  <1> DEFINE c == [at |-> "mmap", n |-> 0]
  <1>1. config # NoConfig /\ task' = [task EXCEPT ![t] = c]
        /\ UNCHANGED <<config, pages, mapped, job, vma, made, written, arenaLock>>
    BY DEF Mmap, ring
  <1>2. c \in Calls /\ c.at = "mmap" /\ c.n = 0
    BY DEF Calls
  <1> HIDE DEF c
  <1> QED
    BY <1>1, <1>2, CallStep

\* A call that leaves the arena's lock when it returns.
LEMMA ReturnStep ==
  ASSUME ArenaInv, NEW t \in Threads, MmapReturns(t),
         UNCHANGED <<config, pages, mapped, job, vma, made, written>>
  PROVE  ArenaInv'
  <1>1. Resting \in Calls /\ Resting.at = "idle"
    BY DEF Calls, Resting
  <1>2. task' = [task EXCEPT ![t] = Resting]
        /\ (arenaLock' = arenaLock \/ (arenaLock \in {Nobody, t} /\ arenaLock' \in {Nobody, t}))
    BY DEF MmapReturns
  <1> QED
    BY <1>1, <1>2, CallStep

LEMMA LockArenaKeeps ==
  ASSUME ArenaInv, NEW t \in Threads, LockArena(t)
  PROVE  ArenaInv'
  <1>1. task[t].at = "mmap" /\ arenaLock = Nobody
        /\ UNCHANGED <<config, pages, mapped, job, vma, made, written>>
    BY DEF LockArena, ring
  <1>2. CASE mapped
    BY <1>1, <1>2, ReturnStep DEF LockArena
  <1>3. CASE ~mapped
    <2> DEFINE c == [task[t] EXCEPT !.at = "insert"]
    <2>1. task[t] \in Calls /\ config # NoConfig /\ task[t].n = 0
      BY <1>1, TaskFacts DEF ArenaInv, MapInv
    <2>2. c \in Calls /\ c.at = "insert" /\ c.n = 0
      BY <1>1, <2>1 DEF Calls, Resting
    <2>3. task' = [task EXCEPT ![t] = c] /\ arenaLock' = t
      BY <1>3 DEF LockArena
    <2>4. 0 <= Len(pages)
      BY LenProperties DEF ArenaInv, Types
    <2> HIDE DEF c
    <2> QED
      BY <1>1, <1>3, <2>1, <2>2, <2>3, <2>4, CallStep
  <1> QED
    BY <1>2, <1>3

LEMMA InsertPageKeeps ==
  ASSUME ArenaInv, NEW t \in Threads, InsertPage(t)
  PROVE  ArenaInv'
  <1> DEFINE k == task[t].n + 1
             c == [task[t] EXCEPT !.n = k]
  <1>1. task[t].at = "insert" /\ task[t].n < Len(pages) /\ task' = [task EXCEPT ![t] = c]
        /\ UNCHANGED <<config, pages, mapped, job, vma, made, written, arenaLock>>
    BY DEF InsertPage, ring, locks
  <1>2. task[t] \in Calls /\ config # NoConfig /\ task[t].n \in Nat /\ Len(pages) \in Nat
    BY <1>1, TaskFacts, ConfigFacts
  <1>3. k \in Nat /\ k <= Len(pages)
    BY <1>1, <1>2
  <1> HIDE DEF k
  <1>4. c \in Calls /\ c.at = "insert" /\ c.n = k
    BY <1>1, <1>2, <1>3 DEF Calls, Resting
  <1>5. arenaLock' = t /\ ~mapped
    BY <1>1 DEF ArenaInv, MapInv
  <1> HIDE DEF c
  <1> QED
    BY <1>1, <1>2, <1>3, <1>4, <1>5, CallStep

LEMMA InsertFailsKeeps ==
  ASSUME ArenaInv, NEW t \in Threads, InsertFails(t)
  PROVE  ArenaInv'
  BY ReturnStep DEF InsertFails, ring

\* The mapping that is made is the first, and has all the pages.
LEMMA MmapDoneKeeps ==
  ASSUME ArenaInv, NEW t \in Threads, MmapDone(t)
  PROVE  ArenaInv'
  <1>1. task[t].at = "insert" /\ task[t].n = Len(pages) /\ mapped' = TRUE
        /\ vma' = [vma EXCEPT ![t] = task[t].n] /\ made' = made + 1
        /\ task' = [task EXCEPT ![t] = Resting] /\ UNCHANGED <<config, pages, job, written>>
        /\ arenaLock' = IF arenaLock = t THEN Nobody ELSE arenaLock
    BY DEF MmapDone, MmapReturns
  <1>2. Resting \in Calls /\ Resting.at = "idle"
    BY DEF Calls, Resting
  <1>3. config # NoConfig /\ task[t].n \in Nat
    BY <1>1, TaskFacts
  <1>4. arenaLock = t /\ ~mapped
    BY <1>1 DEF ArenaInv, MapInv
  <1>5. made = 0 /\ vma \in [Threads -> Nat]
    BY <1>4 DEF ArenaInv, Types, MapInv, MappedOnceWhole
  <1>6. made' = 1 /\ vma' \in [Threads -> Nat] /\ mapped' \in BOOLEAN
    BY <1>1, <1>3, <1>5
  <1>7. MappedOnceWhole'
    BY <1>1, <1>5, <1>6 DEF ArenaInv, MapInv, MappedOnceWhole
  <1>8. \A u \in Threads \ {t} : task[u].at # "insert"
    BY <1>4 DEF ArenaInv, MapInv
  <1>9. arenaLock' = Nobody
    BY <1>1, <1>4
  <1> DEFINE c == Resting
  <1>10. c \in Calls /\ c.at = "idle" /\ task' = [task EXCEPT ![t] = c]
    BY <1>1, <1>2
  <1> HIDE DEF c
  <1>11. c.at # "install" /\ c.at \notin {"mmap", "insert"} /\ c.at # "mmap" /\ c.at # "insert"
    BY <1>10
  <1>12. UNCHANGED <<config, pages, job, written>> /\ arenaLock' \in {arenaLock, Nobody, t}
         /\ (config = NoConfig => ~mapped')
    BY <1>1, <1>3, <1>9
  <1> QED
    BY <1>6, <1>7, <1>8, <1>10, <1>11, <1>12, TaskStep

LEMMA MunmapKeeps ==
  ASSUME ArenaInv, NEW t \in Threads, Munmap(t)
  PROVE  ArenaInv'
  <1>1. vma' = [vma EXCEPT ![t] = 0]
        /\ UNCHANGED <<config, pages, mapped, task, job, made, written, arenaLock>>
    BY DEF Munmap, ring, locks
  <1>2. vma \in [Threads -> Nat]
    BY DEF ArenaInv, Types
  <1>3. Types' /\ ConfigInv'
    BY <1>1, <1>2 DEF ArenaInv, Types, ConfigInv
  <1>4. MapInv'
    BY <1>1, <1>2 DEF ArenaInv, MapInv, MappedOnceWhole
  <1>5. WorkInv'
    BY <1>1 DEF ArenaInv, WorkInv, SlotsApart
  <1> QED
    BY <1>3, <1>4, <1>5 DEF ArenaInv

LEMMA PlainReadKeeps ==
  ASSUME ArenaInv, NEW t \in Threads, PlainRead(t)
  PROVE  ArenaInv'
  <1> DEFINE c == [at |-> "fault"]
  <1>1. task' = [task EXCEPT ![t] = c]
        /\ UNCHANGED <<config, pages, mapped, job, vma, made, written, arenaLock>>
    BY DEF PlainRead, ring
  <1>2. c \in Calls /\ c.at = "fault"
    BY DEF Calls
  <1> HIDE DEF c
  <1> QED
    BY <1>1, <1>2, CallStep

LEMMA PlainFaultKeeps ==
  ASSUME ArenaInv, NEW t \in Threads, PlainFault(t)
  PROVE  ArenaInv'
  <1>1. task' = [task EXCEPT ![t] = Resting]
        /\ UNCHANGED <<config, pages, mapped, job, vma, made, written, arenaLock>>
    BY DEF PlainFault, ring
  <1>2. Resting \in Calls /\ Resting.at = "idle"
    BY DEF Calls, Resting
  <1> QED
    BY <1>1, <1>2, CallStep

-----------------------------------------------------------------------------
(* The arena's theorems.                                                   *)

LEMMA ArenaStarts == ArenaInit => ArenaInv
  <1> SUFFICES ASSUME ArenaInit PROVE ArenaInv
    OBVIOUS
  <1>1. config = NoConfig /\ pages = <<>> /\ mapped = FALSE /\ made = 0
        /\ (\A t \in Threads : task[t] = Resting /\ vma[t] = 0)
        /\ (\A w \in Workers : job[w] = Resting)
        /\ arenaLock = Nobody
    BY DEF ArenaInit
  <1>2. Types
    <2>1. config \in Config /\ mapped \in BOOLEAN /\ made \in Nat
          /\ arenaLock \in Threads \cup Workers \cup {Nobody}
      BY <1>1 DEF Config, NoConfig
    <2>2. task \in [Threads -> Calls] /\ job \in [Workers -> {Resting} \cup Job] /\ vma \in [Threads -> Nat]
      BY DEF ArenaInit, Calls
    <2>3. pages \in Seq(Page)
      BY <1>1
    <2>4. written \in [Workers -> Seq(Bytes)]
      <3>1. <<>> \in Seq(Bytes)
        OBVIOUS
      <3> QED
        BY <3>1 DEF ArenaInit
    <2> QED
      BY <2>1, <2>2, <2>3, <2>4 DEF Types
  <1>3. ConfigInv
    BY <1>1 DEF ConfigInv, Resting
  <1>4. MapInv
    BY <1>1 DEF MapInv, MappedOnceWhole, Resting
  <1>5. WorkInv
    BY <1>1 DEF WorkInv, SlotsApart
  <1> QED
    BY <1>2, <1>3, <1>4, <1>5 DEF ArenaInv

LEMMA ArenaSteps ==
  ASSUME ArenaInv, [ArenaNext]_arenaVars
  PROVE  ArenaInv'
  <1>1. CASE UNCHANGED arenaVars
    <2>1. UNCHANGED <<config, pages, mapped, task, job, vma, made, written, arenaLock>>
      BY <1>1 DEF arenaVars, ring, locks
    <2> QED
      BY <2>1 DEF ArenaInv, Types, ConfigInv, MapInv, MappedOnceWhole, WorkInv, SlotsApart
  <1>2. ASSUME NEW t \in Threads,
               Setup(t) \/ Mmap(t) \/ Munmap(t) \/ PlainRead(t) \/ InsertFails(t) \/ Syscall(t)
        PROVE  ArenaInv'
    BY <1>2, SetupKeeps, MmapKeeps, MunmapKeeps, PlainReadKeeps, InsertFailsKeeps, SetupDoneKeeps,
       LockArenaKeeps, InsertPageKeeps, MmapDoneKeeps, PlainFaultKeeps DEF Syscall
  <1>3. ASSUME NEW w \in Workers, SubmitSlot(w) \/ Worker(w)
        PROVE  ArenaInv'
    BY <1>3, SubmitKeeps, VfsReadKeeps, CopyInKeeps, CopyOutKeeps, VfsWriteKeeps, GatherKeeps,
       ScatterKeeps, FilldirKeeps, IteratedKeeps, ReapKeeps DEF Worker
  <1> QED
    BY <1>1, <1>2, <1>3 DEF ArenaNext

\* At every moment, the configuration is there whole or not at all; a task that
\* inserts pages has the arena to itself; and of every operation it is known
\* where it is, what it has in hand, what it has given to its file, and each
\* byte of its slot.
THEOREM ArenaInvariant == ArenaSpec => []ArenaInv
  <1>1. ArenaInit => ArenaInv
    BY ArenaStarts
  <1>2. ArenaInv /\ [ArenaNext]_arenaVars => ArenaInv'
    BY ArenaSteps
  <1> QED
    BY <1>1, <1>2, PTL DEF ArenaSpec


\* What the invariant knows of an operation says of its slot, byte by byte, what
\* the property says.
LEMMA DataLandsThen == ArenaInv => DataLands
  <1> SUFFICES ASSUME ArenaInv, NEW w \in Workers, job[w] # Resting
               PROVE
      LET o == job[w]
          base == Base(o.sqe)
          user(lo, hi) == \A a \in lo..hi : Flat(base + a) = UserByte(base + a)
          end == config.slot_size - 1
      IN /\ ArenaSize(config) = Len(pages) * PageSize
         /\ CASE o.sqe.kind = "read" ->
                   /\ \A a \in 0..(o.done - 1) : Flat(base + a) = FileByte(o.sqe.off + a)
                   /\ user(o.done, end)
              [] o.sqe.kind = "write" ->
                   /\ o.done = Len(written[w])
                   /\ \A i \in DOMAIN written[w] : written[w][i] = UserByte(base + i - 1)
                   /\ user(0, end)
              [] o.sqe.kind = "gather" ->
                   /\ \A i \in DOMAIN o.out : o.out[i] = UserByte(base + o.sqe.off + i - 1)
                   /\ o.at = "done" => Len(o.out) = o.sqe.len
                   /\ user(0, end)
              [] OTHER ->
                   LET at == IF o.sqe.kind = "answer" THEN o.sqe.off ELSE 0
                       put == IF o.at \in {"copy", "done"} THEN o.done ELSE 0
                   IN /\ user(0, at - 1) /\ user(at + put, end)
                      /\ \A i \in 1..put : Flat(base + at + i - 1) = o.out[i]
    BY DEF DataLands
  <1> DEFINE o == job[w]
             base == Base(o.sqe)
             end == config.slot_size - 1
             s == o.sqe
  <1>1. o \in Job /\ JobInv(config, pages, o, written[w])
    BY DEF ArenaInv, Types, WorkInv
  <1>2. s \in Sqes /\ o.done \in Nat /\ o.out \in Seq(Bytes)
    BY <1>1, JobFacts
  <1>3. s.kind \in {"read", "write", "gather", "answer", "readdir"} /\ s.slot \in Nat /\ s.off \in Nat
        /\ s.len \in Nat /\ Start(s) \in Nat
    BY <1>2, SqeFacts
  <1>4. config # NoConfig /\ Start(s) + s.len <= config.slot_size /\ o.done <= s.len
    BY <1>1 DEF JobInv, JobOk
  <1>5. config.slot_size \in Nat /\ ArenaSize(config) = Len(pages) * PageSize
    BY <1>4, ConfigFacts
  <1>6. base = SlotAt(config, s) /\ base \in Nat
    BY <1>3, <1>5 DEF Base, SlotAt
  <1>7. \A a \in 0..end : Flat(base + a) = Content(config, o, a)
    BY <1>1, <1>6 DEF JobInv, Holds, Flat, At
  <1>8. end \in Int /\ o.done <= end + 1 /\ Start(s) + o.done <= end + 1
    <2> DEFINE size == config.slot_size
               room == s.len
               d == o.done
    <2>1. {Start(s), room, size, d} \subseteq Nat /\ Start(s) + room <= size /\ d <= room
      BY <1>2, <1>3, <1>4, <1>5
    <2> HIDE DEF size, room, d, s
    <2>2. size - 1 \in Int /\ d <= size - 1 + 1 /\ Start(s) + d <= size - 1 + 1
      BY <2>1
    <2> QED
      BY <2>2 DEF size, d, s
  <1>9. DOMAIN written[w] = 1..Len(written[w]) /\ DOMAIN o.out = 1..Len(o.out)
    BY <1>2, LenProperties DEF ArenaInv, Types
  <1> HIDE DEF o, base, end, s
  <1>10. CASE s.kind = "read"
    <2>1. \A a \in 0..(o.done - 1) : Flat(base + a) = FileByte(s.off + a)
      BY <1>2, <1>7, <1>8, <1>10 DEF Content, s
    <2>2. \A a \in o.done..end : Flat(base + a) = UserByte(base + a)
      BY <1>2, <1>6, <1>7, <1>8, <1>10 DEF Content, s
    <2> QED
      BY <1>5, <1>10, <2>1, <2>2 DEF o, base, end, s
  <1>11. CASE s.kind = "write"
    <2>1. \A a \in 0..end : Flat(base + a) = UserByte(base + a)
      BY <1>6, <1>7, <1>11 DEF Content, s
    <2>2. o.done = Len(written[w])
          /\ \A i \in DOMAIN written[w] : written[w][i] = UserByte(base + i - 1)
      BY <1>1, <1>6, <1>9, <1>11 DEF JobInv, WroteOk, s
    <2> QED
      BY <1>5, <1>11, <2>1, <2>2 DEF o, base, end, s
  <1>12. CASE s.kind = "gather"
    <2>1. \A a \in 0..end : Flat(base + a) = UserByte(base + a)
      BY <1>6, <1>7, <1>12 DEF Content, s
    <2>2. Start(s) = s.off
      BY <1>12 DEF Start
    <2>3. \A i \in DOMAIN o.out : o.out[i] = UserByte(base + s.off + i - 1)
      BY <1>1, <1>6, <1>9, <1>12, <2>2 DEF JobInv, ChunkOk, s
    <2>4. o.at = "done" => Len(o.out) = s.len
      BY <1>1, <1>12 DEF JobInv, ChunkOk, s
    <2> QED
      BY <1>5, <1>12, <2>1, <2>3, <2>4 DEF o, base, end, s
  <1>13. CASE s.kind \in {"answer", "readdir"}
    <2> DEFINE at == IF s.kind = "answer" THEN s.off ELSE 0
               put == IF o.at \in {"copy", "done"} THEN o.done ELSE 0
    <2>1. at = Start(s) /\ at \in Nat
      BY <1>3, <1>13 DEF Start
    <2>2. put = o.done
      <3>1. s.kind = "readdir" => o.at \in {"iterate", "copy", "done"}
        BY <1>1 DEF JobInv, JobOk, s
      <3>2. s.kind = "answer" => o.at \in {"copy", "done"}
        BY <1>1 DEF JobInv, JobOk, s
      <3>3. o.at = "iterate" => o.done = 0
        BY <1>1 DEF JobInv, JobOk
      <3> QED
        BY <1>13, <3>1, <3>2, <3>3
    <2> HIDE DEF at, put
    <2>3. \A a \in 0..end : Flat(base + a) = IF a \in at..(at + put - 1) THEN o.out[a - at + 1]
                                             ELSE UserByte(base + a)
      BY <1>6, <1>7, <1>13, <2>1, <2>2 DEF Content, s
    <2>4. at + put <= end + 1 /\ put \in Nat
      BY <1>2, <1>8, <2>1, <2>2
    <2>5. \A a \in 0..(at - 1) : Flat(base + a) = UserByte(base + a)
      BY <1>8, <2>1, <2>3, <2>4
    <2>6. \A a \in (at + put)..end : Flat(base + a) = UserByte(base + a)
      BY <1>8, <2>1, <2>3, <2>4
    <2>7. ASSUME NEW i \in 1..put PROVE Flat(base + at + i - 1) = o.out[i]
      <3> DEFINE a == at + i - 1
      <3>1. a \in 0..end /\ a \in at..(at + put - 1) /\ a - at + 1 = i /\ base + at + i - 1 = base + a
        BY <1>6, <1>8, <2>1, <2>4
      <3> HIDE DEF a
      <3>2. Flat(base + a) = o.out[a - at + 1]
        BY <2>3, <3>1
      <3> QED
        BY <3>1, <3>2
    <2> QED
      BY <1>5, <1>13, <2>5, <2>6, <2>7 DEF o, base, end, s, at, put
  <1> QED
    BY <1>3, <1>10, <1>11, <1>12, <1>13

LEMMA CookiesResumeThen == ArenaInv => CookiesResume
  <1> SUFFICES ASSUME ArenaInv, NEW w \in Workers, job[w].at = "done",
                      job[w].sqe.kind = "readdir", job[w].res # Errno
               PROVE
      LET o == job[w] IN
      /\ {o.recs[i].entry : i \in DOMAIN o.recs} = NamedAfter(o.sqe.off) \ NamedAfter(o.dir)
      /\ \A i \in DOMAIN o.recs : NamedAfter(o.recs[i].cookie) = NamedAfter(o.recs[i].entry)
      /\ o.res = 0 => NamedAfter(o.sqe.off) = {}
      /\ o.skipped <=> \E k \in (o.sqe.off + 1)..o.dir : ~Directory[k].named
    BY DEF CookiesResume
  <1> DEFINE o == job[w]
  <1>1. o \in Job /\ JobInv(config, pages, o, written[w])
    BY Working
  <1>2. o.recs \in Seq(Record)
    BY <1>1, JobFacts
  <1>3. DOMAIN o.recs = 1..Len(o.recs)
    BY <1>2, LenProperties
  <1>4. o.at = "done" /\ o.sqe.kind = "readdir" /\ o.res # Errno /\ DirOk(o)
    BY <1>1 DEF JobInv
  <1> HIDE DEF o
  <1>5. /\ Recorded(o) = NamedAfter(o.sqe.off) \ NamedAfter(o.dir)
        /\ \A i \in 1..Len(o.recs) : NamedAfter(o.recs[i].cookie) = NamedAfter(o.recs[i].entry)
        /\ o.skipped <=> \E k \in (o.sqe.off + 1)..o.dir : ~Directory[k].named
        /\ o.used = 0 => NamedAfter(o.sqe.off) = {}
        /\ o.res = o.used
    BY <1>4 DEF DirOk
  <1> QED
    BY <1>3, <1>5 DEF Recorded, o

\* The bytes of every operation are where they belong, whatever the size of a
\* page and of a slot, the lengths, the offsets and the cuts of the file's
\* answers, and READDIR's cookies resume where they say: for any number of
\* workers, whose steps may come in any order.
THEOREM BytesLandHolds == ArenaSpec => []BytesLand
  <1>1. ArenaInv => BytesLand
    BY DataLandsThen, CookiesResumeThen DEF BytesLand
  <1> QED
    BY <1>1, ArenaInvariant, PTL

\* The arena is mapped once and whole, though inserting its pages may fail at
\* any of them and any task may try again.
THEOREM MappedOnceWholeHolds == ArenaSpec => []MappedOnceWhole
  <1>1. ArenaInv => MappedOnceWhole
    BY DEF ArenaInv, MapInv
  <1> QED
    BY <1>1, ArenaInvariant, PTL

-----------------------------------------------------------------------------
(* The timeout of ENTER: rounding up twice never makes a cap shorter.      *)

USE UnitsAssumption, RangesAssumption

\* Rounding up to a multiple loses nothing.
LEMMA DivCeilCovers ==
  ASSUME NEW a \in Nat, NEW b \in Nat \ {0}
  PROVE  DivCeil(a, b) \in Nat /\ a <= DivCeil(a, b) * b
  <1> DEFINE n == a + b - 1
  <1>1. n \in Nat /\ b \in Nat \ {0}
    OBVIOUS
  <1>2. n \div b \in Nat /\ n = ((n \div b) * b) + (n % b) /\ n % b \in 0..(b - 1)
    <2> HIDE DEF n
    <2> QED
      BY <1>1
  <1>3. (n \div b) * b \in Int
    BY <1>2
  <1> QED
    BY <1>2, <1>3 DEF DivCeil

\* The cap is Never, or it is not shorter than what was asked for.
LEMMA CapCovers ==
  ASSUME NEW ns \in Nat
  PROVE  Cap(ns) \in Nat /\ (Cap(ns) = Never \/ (ns > 0 /\ ns <= Cap(ns)))
  <1> DEFINE up == DivCeil(ns, NsPerMs)
             ms == Milliseconds(ns)
             jiffies == DivCeil(ms, MsPerJiffy)
             cap == jiffies * MsPerJiffy * NsPerMs
  <1>1. up \in Nat /\ ns <= up * NsPerMs
    BY DivCeilCovers
  <1>2. ms \in Nat /\ (ms <= I32Max => ms = up)
    BY <1>1 DEF Milliseconds
  <1>3. jiffies \in Nat /\ ms <= jiffies * MsPerJiffy
    <2> HIDE DEF ms
    <2> QED
      BY <1>2, DivCeilCovers
  <1>4. ms * NsPerMs <= cap /\ cap \in Nat
    <2> HIDE DEF ms, jiffies
    <2>1. jiffies * MsPerJiffy \in Nat
      BY <1>3
    <2> QED
      BY <1>2, <1>3, <2>1, TimesGrows
  <1>5. Cap(ns) = IF ns = 0 \/ ms > I32Max \/ cap > MaxTime THEN Never ELSE cap
    BY DEF Cap
  <1>6. ASSUME ~(ns = 0 \/ ms > I32Max \/ cap > MaxTime)
        PROVE  ns > 0 /\ ns <= cap
    <2>1. ns <= ms * NsPerMs
      <3> HIDE DEF ms, up
      <3> QED
        BY <1>1, <1>2, <1>6
    <2>2. ms * NsPerMs \in Nat
      <3> HIDE DEF ms
      <3> QED
        BY <1>2
    <2> HIDE DEF ms, cap
    <2> QED
      BY <1>4, <1>6, <2>1, <2>2
  <1> HIDE DEF ms, cap
  <1> QED
    BY <1>4, <1>5, <1>6 DEF Never

\* The clock stops where Never begins, and a task sleeps until its cap at least.
Asleep ==
  /\ now \in 0..MaxTime /\ timeout \in Nat
  /\ expires \in Nat
  /\ pc = "asleep" => expires = Never \/ (timeout > 0 /\ timeout <= expires)
  /\ NeverEarly

\* A wait that ends by its timeout has lasted timeout_ns at least.
THEOREM NeverEarlyHolds == WaitSpec => []NeverEarly
  <1>1. WaitInit => Asleep
    BY DEF WaitInit, Asleep, NeverEarly, Never
  <1>2. Asleep /\ [WaitNext]_waitVars => Asleep'
    <2> SUFFICES ASSUME Asleep, [WaitNext]_waitVars PROVE Asleep'
      OBVIOUS
    <2> USE DEF Asleep, NeverEarly
    <2>1. CASE Sleep
      <3>1. Cap(timeout) \in Nat /\ (Cap(timeout) = Never \/ (timeout > 0 /\ timeout <= Cap(timeout)))
        BY CapCovers
      <3>2. Never \in Nat
        BY DEF Never
      <3> QED
        BY <2>1, <3>1, <3>2 DEF Sleep
    <2>2. CASE Timeout
      BY <2>2 DEF Timeout, Never
    <2>3. CASE Tick
      BY <2>3 DEF Tick, Never
    <2>4. CASE Enough \/ Quiescent \/ Complete \/ Signal
      BY <2>4 DEF Enough, Quiescent, Complete, Signal
    <2>5. CASE UNCHANGED waitVars
      BY <2>5 DEF waitVars
    <2> QED
      BY <2>1, <2>2, <2>3, <2>4, <2>5 DEF WaitNext
  <1>3. Asleep => NeverEarly
    BY DEF Asleep
  <1> QED
    BY <1>1, <1>2, <1>3, PTL DEF WaitSpec
=============================================================================
