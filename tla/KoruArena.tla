----------------------------- MODULE KoruArena -----------------------------
(***************************************************************************)
(* SETUP, mmap and the data path: how bytes get between files, the pages   *)
(* of the arena and the slots a user sees (kernel/koru.rs, and koru_ops.rs *)
(* from check_range to do_readdir).                                        *)
(*                                                                         *)
(* Tasks configure the ring and map its arena; workers carry out           *)
(* operations on slots, a chunk at a time.  The arena is a sequence of     *)
(* pages; the user sees a flat one, in which slot i starts at i times the  *)
(* slot's size.  Locks held across a step are variables: the arena's       *)
(* mutex, the process's mmap_lock, and a file's rwsem.                     *)
(***************************************************************************)
EXTENDS Integers, Sequences

CONSTANTS Threads,     \* the tasks of the process
          Workers, Nobody,
          Requests,    \* the SETUP requests tasks make
          Sqes,        \* the operations submitted to workers
          PageSize,
          BufLen,      \* size of the buffer CHECKSUM and paths are read through
          AnswerLen,   \* size of KoruStat
          Align,       \* of its fields
          FileLen,     \* length of the file that is read
          Directory,   \* its entries: the size of the record, and if it has one
          U64Max, I64Max, MaxSq, MaxCq, MaxSlotSize, MaxSlotCount, MaxArena

ASSUME NobodyAssumption == Nobody \notin Threads \cup Workers /\ Threads \cap Workers = {}
ASSUME SizesAssumption ==
  /\ {PageSize, BufLen, AnswerLen, Align} \subseteq Nat \ {0}
  /\ {FileLen, U64Max, I64Max, MaxSq, MaxCq, MaxSlotSize, MaxSlotCount, MaxArena} \subseteq Nat
ASSUME RequestsAssumption ==
  Requests \subseteq [sq_entries : Nat, cq_entries : Nat, slot_size : Nat, slot_count : Nat]
ASSUME SqesAssumption ==
  \A o \in Sqes : /\ o.kind \in {"read", "write", "gather", "answer", "readdir"}
                  /\ o.slot \in Nat /\ o.off \in Nat /\ o.len \in Nat
ASSUME DirectoryAssumption == Directory \in Seq([reclen : Nat \ {0}, named : BOOLEAN])

NoConfig == [slot_size |-> 0, slot_count |-> 0]
Resting == [at |-> "idle"]

VARIABLES config, pages, mapped,  \* RingConfig, Arena
          task,        \* the system call each task is in
          job,         \* the operation each worker has in hand
          vma,         \* pages behind the mapping each task has established
          made,        \* mappings established so far
          written,     \* what each worker's operation has given to its file
          arenaLock, mmapLock, inodeLock

ring == <<config, pages, mapped>>
locks == <<arenaLock, mmapLock, inodeLock>>
arenaVars == <<ring, task, job, vma, made, written, locks>>

Errno == -1

Least(a, b) == IF a < b THEN a ELSE b

\* Bytes are told apart by where they come from.
ZeroByte == <<"zero", 0>>
UserByte(a) == <<"user", a>>
FileByte(i) == <<"file", i>>
StatByte(i) == <<"stat", i>>
DirByte(k) == <<"dir", k>>

ArenaSize(c) == c.slot_size * c.slot_count
Base(o) == o.slot * config.slot_size
Flat(a) == pages[(a \div PageSize) + 1][a % PageSize]

\* The arena with bytes[1..n] copied to position pos: within one page.
Store(pos, bytes, n) ==
  [pages EXCEPT ![(pos \div PageSize) + 1] =
     [i \in 0..(PageSize - 1) |->
        IF i \in (pos % PageSize)..((pos % PageSize) + n - 1)
        THEN bytes[i - (pos % PageSize) + 1] ELSE @[i]]]

Load(pos, n) == [i \in 1..n |-> pages[(pos \div PageSize) + 1][(pos % PageSize) + i - 1]]

InPage(pos, left) == Least(left, PageSize - (pos % PageSize))

ArenaInit ==
  /\ config = NoConfig /\ pages = <<>> /\ mapped = FALSE
  /\ task = [t \in Threads |-> Resting]
  /\ job = [w \in Workers |-> Resting]
  /\ vma = [t \in Threads |-> 0]
  /\ made = 0
  /\ written = [w \in Workers |-> <<>>]
  /\ arenaLock = Nobody /\ mmapLock = Nobody /\ inodeLock = Nobody

-----------------------------------------------------------------------------
(* SETUP.                                                                   *)

Valid(r) ==
  LET cq == IF r.cq_entries = 0 THEN r.sq_entries ELSE r.cq_entries IN
  /\ r.sq_entries \in 1..MaxSq
  /\ cq \in r.sq_entries..MaxCq
  /\ r.slot_size \in 1..MaxSlotSize /\ r.slot_size % PageSize = 0
  /\ r.slot_count \in 1..MaxSlotCount
  /\ ArenaSize(r) <= MaxArena

\* Validated and allocated outside every lock; a failed allocation frees what
\* there is.
Setup(t) ==
  /\ task[t] = Resting
  /\ \E r \in Requests :
       /\ Valid(r)
       /\ task' = [task EXCEPT ![t] =
            [at |-> "install", req |-> [slot_size |-> r.slot_size, slot_count |-> r.slot_count]]]
  /\ UNCHANGED <<ring, job, vma, made, written, locks>>

Install(r) ==
  /\ config' = r
  /\ pages' = [i \in 1..(ArenaSize(r) \div PageSize) |-> [j \in 0..(PageSize - 1) |-> ZeroByte]]
  /\ mapped' = FALSE

\* All of it under the lock of the configuration, once.
SetupDone(t) ==
  /\ task[t].at = "install"
  /\ arenaLock = Nobody
  /\ IF config = NoConfig THEN Install(task[t].req) ELSE UNCHANGED ring
  /\ task' = [task EXCEPT ![t] = Resting]
  /\ UNCHANGED <<job, vma, made, written, locks>>

-----------------------------------------------------------------------------
(* mmap, under the process's mmap_lock.                                     *)

Mmap(t) ==
  /\ task[t] = Resting /\ mmapLock = Nobody
  /\ config # NoConfig
  /\ task' = [task EXCEPT ![t] = [at |-> "mmap", n |-> 0]]
  /\ mmapLock' = t
  /\ UNCHANGED <<ring, job, vma, made, written, arenaLock, inodeLock>>

MmapReturns(t) ==
  /\ task' = [task EXCEPT ![t] = Resting]
  /\ mmapLock' = Nobody
  /\ arenaLock' = IF arenaLock = t THEN Nobody ELSE arenaLock

\* One-shot: a second call is answered EBUSY.
LockArena(t) ==
  /\ task[t].at = "mmap" /\ arenaLock = Nobody
  /\ IF mapped
     THEN MmapReturns(t)
     ELSE /\ task' = [task EXCEPT ![t].at = "insert"]
          /\ arenaLock' = t
          /\ UNCHANGED mmapLock
  /\ UNCHANGED <<ring, job, vma, made, written, inodeLock>>

InsertPage(t) ==
  /\ task[t].at = "insert" /\ task[t].n < Len(pages)
  /\ task' = [task EXCEPT ![t].n = @ + 1]
  /\ UNCHANGED <<ring, job, vma, made, written, locks>>

\* Variant: the error is not propagated.
InsertFailsUnnoticed(t) ==
  /\ task[t].at = "insert" /\ task[t].n < Len(pages)
  /\ mapped' = TRUE
  /\ vma' = [vma EXCEPT ![t] = task[t].n]
  /\ made' = made + 1
  /\ MmapReturns(t)
  /\ UNCHANGED <<config, pages, job, written, inodeLock>>

\* The kernel tears the half-made mapping down, and mmap may be tried again.
InsertFails(t) ==
  /\ task[t].at = "insert" /\ task[t].n < Len(pages)
  /\ MmapReturns(t)
  /\ UNCHANGED <<ring, job, vma, made, written, inodeLock>>

MmapDone(t) ==
  /\ task[t].at = "insert" /\ task[t].n = Len(pages)
  /\ mapped' = TRUE
  /\ vma' = [vma EXCEPT ![t] = task[t].n]
  /\ made' = made + 1
  /\ MmapReturns(t)
  /\ UNCHANGED <<config, pages, job, written, inodeLock>>

\* Arena's drop.  The kernel does not forget that the arena was mapped.
Munmap(t) ==
  /\ task[t] = Resting /\ vma[t] > 0 /\ mmapLock = Nobody
  /\ vma' = [vma EXCEPT ![t] = 0]
  /\ UNCHANGED <<ring, task, job, made, written, locks>>

\* An ordinary read of the same file faults on its buffer, under the rwsem.
PlainRead(t) ==
  /\ task[t] = Resting /\ inodeLock = Nobody
  /\ task' = [task EXCEPT ![t] = [at |-> "fault"]]
  /\ inodeLock' = t
  /\ UNCHANGED <<ring, job, vma, made, written, arenaLock, mmapLock>>

PlainFault(t) ==
  /\ task[t].at = "fault" /\ mmapLock = Nobody
  /\ task' = [task EXCEPT ![t] = Resting]
  /\ inodeLock' = Nobody
  /\ UNCHANGED <<ring, job, vma, made, written, arenaLock, mmapLock>>

-----------------------------------------------------------------------------
(* Operations on slots.  read and write are READ and WRITE, gather is       *)
(* CHECKSUM and the copying of paths, answer is STAT.                       *)

\* A file whose reads and writes may block would keep the worker for good.
Readable(f) == f.reads /\ (f.regular \/ f.nonblock)
Writable(f) == f.writes /\ (f.regular \/ f.nonblock)

\* An offset that the file would ignore is refused.
OffsetMeant(o) == o.off # 0 => o.file.seeks

\* check_range: a sum that does not fit 64 bits is out of range.
InRange(o) == o.off + o.len <= U64Max /\ o.off + o.len <= config.slot_size

\* READ, WRITE and READDIR start at the start of the slot; `off` is a position
\* in the file, and signed.
Fits(o) == o.len \in 1..config.slot_size /\ o.off <= I64Max

\* The answer is read in place, and an empty one is asked for by mistake.
StatValid(o) == InRange(o) /\ o.off % Align = 0 /\ o.len # 0

Accepted(o) ==
  /\ config # NoConfig
  /\ o.slot < config.slot_count
  /\ CASE o.kind = "gather" -> InRange(o)
       [] o.kind = "answer" -> StatValid(o)
       [] o.kind = "read" -> Fits(o) /\ Readable(o.file) /\ OffsetMeant(o)
       [] o.kind = "write" -> Fits(o) /\ Writable(o.file) /\ OffsetMeant(o)
       [] OTHER -> Fits(o) /\ o.file.seeks

\* As much of the attributes as there is room for.
Attributes(o) == [i \in 1..Least(o.len, AnswerLen) |-> StatByte(i)]

\* The user's bytes are in the slot, and nobody else has it.
SubmitSlot(w) ==
  /\ job[w] = Resting /\ arenaLock = Nobody
  /\ \E o \in Sqes :
       /\ Accepted(o)
       /\ \A v \in Workers : job[v] # Resting => job[v].sqe.slot # o.slot
       /\ pages' = [i \in DOMAIN pages |-> [j \in 0..(PageSize - 1) |->
            LET a == (i - 1) * PageSize + j IN
            IF a \in Base(o)..(Base(o) + config.slot_size - 1) THEN UserByte(a) ELSE pages[i][j]]]
       /\ job' = [job EXCEPT ![w] =
            [at |-> CASE o.kind = "read" -> "vfs" [] o.kind = "readdir" -> "iterate" [] OTHER -> "copy",
             sqe |-> o, done |-> 0, chunk |-> <<>>, res |-> 0,
             pos |-> IF o.kind \in {"gather", "answer"} THEN Base(o) + o.off ELSE Base(o),
             out |-> IF o.kind = "answer" THEN Attributes(o) ELSE <<>>,
             dir |-> o.off, used |-> 0, recs |-> <<>>, full |-> FALSE, skipped |-> FALSE]]
       /\ IF o.kind = "write" THEN written' = [written EXCEPT ![w] = <<>>] ELSE UNCHANGED written
  /\ UNCHANGED <<config, mapped, task, vma, made, locks>>

Finished(w, r) == [job[w] EXCEPT !.at = "done", !.res = r, !.chunk = <<>>]

\* An error after some progress is a short count.
Failed(w) == Finished(w, IF job[w].done = 0 THEN Errno ELSE job[w].done)

Left(w) == job[w].sqe.len - job[w].done

\* kernel_read and kernel_write come back, if need be with an error.
Returns(f) == f.regular \/ f.nonblock

\* kernel_read into the bounce buffer, without the arena's lock.  Nothing is
\* the end of the file.
VfsRead(w) ==
  LET o == job[w]
      fpos == o.sqe.off + o.done
      want == InPage(o.pos, Left(w))
  IN /\ o.at = "vfs" /\ o.sqe.kind = "read" /\ inodeLock = Nobody /\ Returns(o.sqe.file)
     /\ \/ /\ fpos >= FileLen
           /\ job' = [job EXCEPT ![w] = Finished(w, o.done)]
        \/ \E n \in 1..want :
             /\ fpos + n <= FileLen
             /\ job' = [job EXCEPT ![w].at = "copy",
                           ![w].chunk = [i \in 1..n |-> FileByte(fpos + i - 1)]]
        \/ job' = [job EXCEPT ![w] = Failed(w)]
     /\ UNCHANGED <<ring, task, vma, made, written, locks>>

\* Variant: the lock is kept until the last chunk.
CopyInLocked(w) ==
  LET o == job[w]
      done == o.done + Len(o.chunk)
  IN /\ o.at = "copy" /\ o.sqe.kind = "read" /\ arenaLock \in {Nobody, w}
     /\ pages' = Store(o.pos, o.chunk, Len(o.chunk))
     /\ job' = [job EXCEPT ![w] = IF done < o.sqe.len
                  THEN [o EXCEPT !.at = "vfs", !.done = done, !.pos = o.pos + Len(o.chunk)]
                  ELSE [Finished(w, done) EXCEPT !.done = done]]
     /\ arenaLock' = IF done < o.sqe.len THEN w ELSE Nobody
     /\ UNCHANGED <<config, mapped, task, vma, made, written, mmapLock, inodeLock>>

CopyIn(w) ==
  LET o == job[w]
      done == o.done + Len(o.chunk)
  IN /\ o.at = "copy" /\ o.sqe.kind = "read" /\ arenaLock = Nobody
     /\ pages' = Store(o.pos, o.chunk, Len(o.chunk))
     /\ job' = [job EXCEPT ![w] = IF done < o.sqe.len
                  THEN [o EXCEPT !.at = "vfs", !.done = done, !.pos = o.pos + Len(o.chunk)]
                  ELSE [Finished(w, done) EXCEPT !.done = done]]
     /\ UNCHANGED <<config, mapped, task, vma, made, written, locks>>

\* do_write: out of the arena first, then into the file.
CopyOut(w) ==
  LET o == job[w] IN
  /\ o.at = "copy" /\ o.sqe.kind = "write" /\ arenaLock = Nobody
  /\ job' = [job EXCEPT ![w].at = "vfs", ![w].chunk = Load(o.pos, InPage(o.pos, Left(w)))]
  /\ UNCHANGED <<ring, task, vma, made, written, locks>>

\* Variant: a short write goes on after the whole chunk.
VfsWriteSkips(w) ==
  LET o == job[w] IN
  /\ o.at = "vfs" /\ o.sqe.kind = "write" /\ inodeLock = Nobody /\ Returns(o.sqe.file)
  /\ \E n \in 1..Len(o.chunk) :
       /\ written' = [written EXCEPT ![w] = @ \o SubSeq(o.chunk, 1, n)]
       /\ job' = [job EXCEPT ![w] =
            IF o.done + n < o.sqe.len
            THEN [o EXCEPT !.at = "copy", !.done = o.done + n, !.pos = o.pos + Len(o.chunk)]
            ELSE [Finished(w, o.done + n) EXCEPT !.done = o.done + n]]
  /\ UNCHANGED <<ring, task, vma, made, locks>>

\* kernel_write takes a part of the chunk; the rest is copied out again.
VfsWrite(w) ==
  LET o == job[w] IN
  /\ o.at = "vfs" /\ o.sqe.kind = "write" /\ inodeLock = Nobody /\ Returns(o.sqe.file)
  /\ \/ \E n \in 1..Len(o.chunk) :
          /\ written' = [written EXCEPT ![w] = @ \o SubSeq(o.chunk, 1, n)]
          /\ job' = [job EXCEPT ![w] =
               IF o.done + n < o.sqe.len
               THEN [o EXCEPT !.at = "copy", !.done = o.done + n, !.pos = o.pos + n]
               ELSE [Finished(w, o.done + n) EXCEPT !.done = o.done + n]]
     \/ \E r \in {Finished(w, o.done), Failed(w)} :
          job' = [job EXCEPT ![w] = r] /\ UNCHANGED written
  /\ UNCHANGED <<ring, task, vma, made, locks>>

\* read_slot and checksum: the lock is held through the loop.
Gather(w) ==
  LET o == job[w]
      n == Least(InPage(o.pos, Left(w)), BufLen)
      done == o.done + n
  IN /\ o.at = "copy" /\ o.sqe.kind = "gather" /\ arenaLock \in {Nobody, w}
     /\ job' = [job EXCEPT ![w] =
          LET s == [o EXCEPT !.out = o.out \o Load(o.pos, n), !.done = done, !.pos = o.pos + n]
          IN IF done < o.sqe.len THEN s ELSE [s EXCEPT !.at = "done", !.res = done]]
     /\ arenaLock' = IF done < o.sqe.len THEN w ELSE Nobody
     /\ UNCHANGED <<ring, task, vma, made, written, mmapLock, inodeLock>>

\* write_slot, likewise.
Scatter(w) ==
  LET o == job[w]
      n == InPage(o.pos, Len(o.out) - o.done)
      done == o.done + n
  IN /\ o.at = "copy" /\ o.sqe.kind \in {"answer", "readdir"} /\ arenaLock \in {Nobody, w}
     /\ IF n = 0 THEN UNCHANGED pages ELSE pages' = Store(o.pos, SubSeq(o.out, o.done + 1, done), n)
     /\ job' = [job EXCEPT ![w] =
          LET s == [o EXCEPT !.done = done, !.pos = o.pos + n]
          IN IF done < Len(o.out) THEN s ELSE [s EXCEPT !.at = "done", !.res = done]]
     /\ arenaLock' = IF done < Len(o.out) THEN w ELSE Nobody
     /\ UNCHANGED <<config, mapped, task, vma, made, written, mmapLock, inodeLock>>

-----------------------------------------------------------------------------
(* READDIR: iterate_dir with koru_filldir, then the records into the slot.  *)
(* The cookie n stands for the position after n entries.                    *)

Patched(recs, c) == [i \in DOMAIN recs |-> IF i = Len(recs) THEN [recs[i] EXCEPT !.cookie = c] ELSE recs[i]]

\* Variant: the record gets the position of its own entry.
FilledOwnCookie(o, k) ==
  [o EXCEPT !.recs = Append(o.recs, [entry |-> k, cookie |-> k - 1]),
            !.used = o.used + Directory[k].reclen, !.dir = k,
            !.out = o.out \o [i \in 1..Directory[k].reclen |-> DirByte(k)]]

\* Entry k is recorded, and its position is the previous record's cookie.
Filled(o, k) ==
  [o EXCEPT !.recs = Append(Patched(o.recs, k - 1), [entry |-> k, cookie |-> 0]),
            !.used = o.used + Directory[k].reclen, !.dir = k,
            !.out = o.out \o [i \in 1..Directory[k].reclen |-> DirByte(k)]]

\* One call of koru_filldir.  The directory's rwsem is held from the first.
Filldir(w) ==
  LET o == job[w]
      k == o.dir + 1
  IN /\ o.at = "iterate" /\ inodeLock \in {Nobody, w}
     /\ k \in DOMAIN Directory /\ ~o.full
     /\ job' = [job EXCEPT ![w] =
          IF ~Directory[k].named THEN [o EXCEPT !.skipped = TRUE, !.dir = k]
          ELSE IF o.used + Directory[k].reclen > o.sqe.len THEN [o EXCEPT !.full = TRUE]
          ELSE Filled(o, k)]
     /\ inodeLock' = w
     /\ UNCHANGED <<ring, task, vma, made, written, arenaLock, mmapLock>>

\* Nothing written though an entry was there is the caller's mistake.  An error
\* of the file system forgets what was recorded.
Iterated(w) ==
  LET o == job[w] IN
  /\ o.at = "iterate" /\ inodeLock \in {Nobody, w}
  /\ \/ /\ o.full \/ o.dir >= Len(Directory)
        /\ job' = [job EXCEPT ![w] =
             IF o.used = 0 /\ o.full THEN Finished(w, Errno)
             ELSE [o EXCEPT !.at = "copy", !.recs = Patched(o.recs, o.dir)]]
     \/ job' = [job EXCEPT ![w] = Finished(w, Errno)]
  /\ inodeLock' = Nobody
  /\ UNCHANGED <<ring, task, vma, made, written, arenaLock, mmapLock>>

\* The completion is reaped.
Reap(w) ==
  /\ job[w].at = "done"
  /\ job' = [job EXCEPT ![w] = Resting]
  /\ UNCHANGED <<ring, task, vma, made, written, locks>>

Syscall(t) ==
  SetupDone(t) \/ LockArena(t) \/ InsertPage(t) \/ MmapDone(t) \/ PlainFault(t)

Worker(w) ==
  \/ VfsRead(w) \/ CopyIn(w) \/ CopyOut(w) \/ VfsWrite(w)
  \/ Gather(w) \/ Scatter(w) \/ Filldir(w) \/ Iterated(w) \/ Reap(w)

ArenaNext ==
  \/ \E t \in Threads :
       Setup(t) \/ Mmap(t) \/ Munmap(t) \/ PlainRead(t) \/ InsertFails(t) \/ Syscall(t)
  \/ \E w \in Workers : SubmitSlot(w) \/ Worker(w)

ArenaSpec == ArenaInit /\ [][ArenaNext]_arenaVars

\* Tasks in the kernel and workers run, and a mutex or rwsem is handed to who
\* waits for it.
ArenaFairness ==
  /\ \A t \in Threads : SF_arenaVars(Syscall(t))
  /\ \A w \in Workers : SF_arenaVars(Worker(w))

ArenaFairSpec == ArenaSpec /\ ArenaFairness

-----------------------------------------------------------------------------
(* Properties.                                                              *)

\* READ puts the file's bytes at the start of the slot, whatever the pages and
\* however short the reads of the file are; WRITE sends the slot's; CHECKSUM,
\* paths, STAT and READDIR meet the bytes at their place.  No operation touches
\* a byte outside what it was given, and no SETUP takes the pages away.
DataLands ==
  \A w \in Workers : job[w] # Resting =>
    LET o == job[w]
        base == Base(o.sqe)
        user(lo, hi) == \A a \in lo..hi : Flat(base + a) = UserByte(base + a)
        end == config.slot_size - 1
    IN /\ ArenaSize(config) = Len(pages) * PageSize
       /\ CASE o.sqe.kind = "read" ->
                 /\ \A a \in 0..(o.done - 1) : Flat(base + a) = FileByte(o.sqe.off + a)
                 /\ user(o.done, end)
            [] o.sqe.kind = "write" ->
                 /\ o.done = Len(written[w])
                 /\ \A i \in DOMAIN written[w] : written[w][i] = UserByte(base + i - 1)
                 /\ user(0, end)
            [] o.sqe.kind = "gather" ->
                 /\ \A i \in DOMAIN o.out : o.out[i] = UserByte(base + o.sqe.off + i - 1)
                 /\ o.at = "done" => Len(o.out) = o.sqe.len
                 /\ user(0, end)
            [] OTHER ->
                 LET at == IF o.sqe.kind = "answer" THEN o.sqe.off ELSE 0
                     put == IF o.at \in {"copy", "done"} THEN o.done ELSE 0
                 IN /\ user(0, at - 1) /\ user(at + put, end)
                    /\ \A i \in 1..put : Flat(base + at + i - 1) = o.out[i]

\* The entries that have a record, after the first n.
NamedAfter(n) == {k \in DOMAIN Directory : k > n /\ Directory[k].named}

\* READDIR reports the entries that follow its cookie, each once and in order,
\* and going on from any record's cookie, or from the last, misses none and
\* repeats none; 0 is the end and nothing but the end.
CookiesResume ==
  \A w \in Workers :
    (job[w].at = "done" /\ job[w].sqe.kind = "readdir" /\ job[w].res # Errno) =>
      LET o == job[w] IN
      /\ {o.recs[i].entry : i \in DOMAIN o.recs} = NamedAfter(o.sqe.off) \ NamedAfter(o.dir)
      /\ \A i \in DOMAIN o.recs : NamedAfter(o.recs[i].cookie) = NamedAfter(o.recs[i].entry)
      /\ o.res = 0 => NamedAfter(o.sqe.off) = {}
      /\ o.skipped <=> \E k \in (o.sqe.off + 1)..o.dir : ~Directory[k].named

\* The data path as a whole: bytes land where they belong, and READDIR resumes.
BytesLand == DataLands /\ CookiesResume

\* The arena is mapped once: a mapping has all its pages, one that failed
\* half-way is gone and does not count, and one that was made cannot be made
\* again, whoever tries and whatever is unmapped.
MappedOnceWhole ==
  /\ \A t \in Threads : vma[t] \in {0, Len(pages)}
  /\ made = IF mapped THEN 1 ELSE 0

\* Every operation and every call ends: mmap waits for the arena's lock under
\* mmap_lock, and a read of a file waits for mmap_lock under the rwsem, so
\* nobody may wait for a file with the arena locked.
CallsEnd ==
  /\ \A w \in Workers : []<>(job[w] = Resting)
  /\ \A t \in Threads : []<>(task[t] = Resting)

=============================================================================
