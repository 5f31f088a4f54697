# A verification project for koru

koru is a kernel module with a completion ring (`kernel/`), two user-space
runtimes over it (`rust/`, `cpp/`) and a screen daemon with its clients
(`screen/`). A process submits SQEs and takes CQEs through one ioctl, ENTER;
kernel workers complete what cannot be answered at once. This directory holds
TLA+ modules of the parts where order matters, TLC configurations that check
them on small instances, and proofs checked by TLAPS.

    tlc -workers 2 -config ring_safety.cfg MCKoruRing.tla    # a run of the table below
    tlapm KoruRingProofs.tla                                 # proofs about the ring

## 1. The system

| part | state it keeps | operations | what is hard |
|---|---|---|---|
| ring control plane (`kernel/koru.rs`) | completion queue, `reserved`, `inflight`, `slot_busy`, `submit_lock` | ENTER: submit, wait, reap | several tasks on one ring; reservations on every error path; sleeping for what can still arrive; faults in user memory half-way |
| deferred operations (`kernel/koru_ops.rs`) | OpWork with its references, registry `pending`, poll token, waitqueue entry | alloc_op, defer, run, complete, CANCEL, poll_op, poll_wake, cancel_all | one credit that one of four parties reclaims; a wake against the ENTER that arms; the last close with everything in flight |
| handle table | entries with generation and `busy` | insert, resolve, close, try_claim, unclaim | READDIR's two claims on all its ways out; CLOSE and reuse meanwhile; generations that wrap |
| set-up and arena | `config`, `mapped`, pages | SETUP, mmap | one-shot states, failure half-way, three locks taken in different places |
| data path, READDIR packing | arena pages | READ, WRITE, CHECKSUM, STAT, READDIR on slots | chunks that end at a page; short reads and writes; cookies known only one entry later |
| path operations (`kernel/koru_path.rs`) | slot, path references, write counts, directory locks | MKDIR, UNLINK, RMDIR, RENAME, SYMLINK, STATX_AT, READLINK, TRUNCATE, UTIMES | guards unwound in the right order from any of a dozen failing steps; two directories locked at once |
| Rust runtime (`rust/runtime`) | slab, `pending`, `inflight`, ready queue, tasks | register, poll_op, abandon, turn, dispatch, block_on, run, race, drain, exit hooks | futures dropped at any moment; slots the kernel still uses; cookies that outlive their entry; wakes lost between two loops |
| Rust library (`file.rs`, `ops.rs`) | one buffer for both directions, handle positions, standard streams | get, put, read, write, seek, detach, close; copy, remove, list, make | read-ahead and output not out; short counts; a call dropped half-way; a tree that changes between two operations |
| C++ binding (`cpp/`) | the runtime's, over coroutines | submit, abandon, pump, Executor::turn | errors of ENTER; frames resumed after the dispatch |
| screen daemon (`screen/proto.cpp`, `ks_daemon.cpp`) | connections, claims on keys and screen, parked KEY_READs, bytes held back | feed, dispatch, claims, conn_free, the poll loop | one reply to each frame; claims given back however their holder ends; prints of a program against its frames |
| screen client (`rust/runtime/src/screen.rs`) | the write token, those who wait for it or for a reply; the lock file | send, request, pump, connect_or_spawn | one write at a time, with calls dropped half-way; a daemon that goes; programs that start one at once |
| commands, tests | | | users of the above |

They interact as follows. Tasks of a process call ENTER; a worker (`system_wq`)
or a wake-up of a polled file completes an operation and notifies the ring's
`cq_wait`. A runtime is one thread that alternates between its tasks and ENTER:
its futures hand SQEs and buffer slots to the reactor, the reactor routes
completions back by `user_data`, which is a cookie of slab index and
generation. Between the kernel and the runtime there is the promise the notes
call C1, one completion for each consumed SQE, and admission control; module
RingContract states them, the kernel is shown to keep them and the runtime is
modelled on top of them. Operations on paths run inline, in the task that
submits them, and meet those of other rings in the VFS. The library calls the
runtime's operations one after another, and other programs act in between. A
program and the screen daemon exchange frames over a socket, and a second socket
may be the program's stdout; a program that finds no daemon starts one.

What makes each part correct:

- **ring**: every consumed SQE is answered once, in a queue that never
  overflows; counters mean what their readers take them to mean; no sleep
  without somebody to end it; a slot has one user in the kernel at a time; a
  CANCEL's answer says what became of its target.
- **operations**: references are exact; whoever takes an operation away from
  its worker also takes its entry off the waitqueue; the closed ring lets go of
  the module.
- **handles**: claims are exact, a claim stays with the file it was made for,
  one file position has one reader.
- **data**: bytes land where they belong and nowhere else, whatever is short;
  a directory can be read on from any cookie; the arena is mapped once, whole.
- **paths**: what was acquired is given back, in the order the VFS wants it, and
  what a guard stands for is so while it lives.
- **runtimes**: a slot is in one place, and with the kernel while the kernel
  may touch it; a completion finds the operation it was for; nothing is
  submitted twice; a task that waits is woken; a turn and a program end.
- **library**: a File is a file without a buffer; what was written to a standard
  stream comes out; a call that says it succeeded has done what it says, and
  has left nothing open.
- **screen**: frames are whole on the wire, and each is answered once; a claim is
  given back with all that was held for it; what a program prints comes before
  what it asks afterwards; there is one daemon, however many programs start at
  once.

## 2. Modules

| module | what it models |
|---|---|
| `RingContract` | what the ring promises: Accept when there is a place for the completion, Answer in any order, Take in the queue's order |
| `KoruRing` | ENTER for any number of tasks, the deferred operations behind it, CANCEL, polls, waits |
| `KoruOp` | the references, credit, token, waitqueue entry and registry of OpWork, with `release` and `cancel_all` |
| `KoruHandles` | HandleTable and the claims of READDIR, with OPEN, ADOPT_FD and CLOSE |
| `KoruWait` | the conversion of `timeout_ns` to jiffies, and the wait loop against a clock |
| `KoruArena` | SETUP, mmap, and the operations that move bytes between files, pages and slots |
| `KoruPath` | the path operations, as programs over the guards of `koru_path.rs` |
| `Reactor` | the Rust slab, operations, futures, turn and dispatch; EXTENDS RingContract, whose variables are the kernel's side |
| `Exec` | the Rust executor: tasks, wakers, block_on, run, race, acquire, the stall check, the drain |
| `PlainFile`, `File` | what a File promises, a file without a buffer; and the buffered File that implements it |
| `Std` | the standard streams, the exit hooks and the program's end |
| `Tree` | the library's calls on names and handles, over operations that may fail and beside others who change the tree |
| `CppReactor` | the C++ pump, on Reactor's definitions of what both runtimes share |
| `ScreenServer` | the screen daemon: its protocol, its claims, its loop, against programs that send what they like |
| `ScreenConn` | a program's connection to it: the write token, requests, the pump |
| `ScreenSpawn` | who starts the daemon, under the lock beside the socket |
| `MC*` | instances for TLC; MCKernel (KoruOp, KoruPath, KoruWait, KoruArena), MCReactor (Reactor, CppReactor, Tree), MCRuntimeLib (ScreenConn, Exec, File) and MCBeside (KoruHandles, Std, ScreenServer, ScreenSpawn) hold several models each |
| `RingContractProofs`, `KoruRingProofs` | theorems about the contract and the ring, and that one implements the other |
| `KoruHandlesProofs`, `KernelOpsProofs` | theorems about the handle table; about OpWork and the path operations |
| `KoruDataProofs` | theorems about the arena, the data path, and the wait's timeout |
| `ReactorProofs` | theorems about the Rust and the C++ reactor, that both keep to the contract, and what the library's calls leave open |
| `BesideProofs` | theorems about the screen daemon, who starts it, and the standard streams |
| `RuntimeLibProofs` | theorems about the connection to the daemon; and that a File implements the plain file |

An MC module that holds several models has a variable `part`, chosen at the
start: the behaviour is one of that model, and the others' variables stay where
their Init has them. It is a way to check small models at once, not a
composition. Because one part moves, MCKernel can state the strong fairness of two
parts in one condition, which TLC checks much faster than two.

**KoruRing.** A step is one critical section of the code, or one access that is
made outside every lock: reading an SQE, copying a CQE, a wake-up.
`submit_lock` is a variable; the `state` spinlock and the registry's mutex are
never held over a step. `pc[t]` names the place a task has reached in
`submit`, `dispatch`, `alloc_op`, `defer`, `poll_op`, `cancel_op`, `wait` or
`reap`; `phase[q]` names where SQE number q is. Opcodes are grouped by what
they do to the ring (inline, path, delay, slot, poll, cancel). The places of
the code where allocation, the registry, the workqueue, or user memory fail are
actions of their own (`AllocFails`, `RegisterFails`, `EnqueueFails`,
`ReadFault`, `CopyFault`), and the unwinding is modelled step by step.
`ImplementsContract` is the refinement: consumed SQEs are accepted, those in
`Owed` are owed, the queue and what was reaped are the contract's, so the mapping
needs no history variable.

**KoruOp.** `refs` is the Arc's count; it changes only where the code clones,
leaks (`into_raw`), reclaims or drops. `PinnedDrop` puts the module, so
`modRefs` and `ringRefs` follow from `life`. `release` holds the registry's lock
through its loop, so no worker unregisters meanwhile (`RunUnregister`'s guard).

**KoruHandles.** `MaxGen` stands for 2^16 - 1; 0 is skipped as in the code.
`seeker` is the READDIR to whose cookie the file's position was last moved.

**KoruArena.** Bytes are told apart by where they come from: the n-th of a file,
of a directory's record, of the attributes, or what the user had at an address.
The arena is a sequence of pages, `Flat` is what the user sees. A step is one
chunk of a loop; the arena's mutex is a variable where a loop keeps it
(`read_slot`, `write_slot`, mmap) and a condition where it is taken for one
chunk. `inodeLock` and `mmapLock` stand for the kernel's own locks, in which
`PlainRead` and `PlainFault` close the cycle the comment in `do_read` tells of.
`kernel_read` and `kernel_write` return less than asked, or fail, and on a
file that may block they do not return (`Returns`).

**KoruPath.** An operation is a sequence of steps (`Program`), each of which
pushes a guard or fails; failure and success unwind the stack `held`, as Rust
drops what was declared, the last first. Reordering two declarations is
reordering two steps, which is what its mutants do. What the VFS keeps (locks,
path references, write counts, the rename mutex) is modelled from how the code
calls it and marked external in PROJECT.json. Mounts are remounted read-only at
any moment that their write count allows.

**Reactor.** One thread: `thread` is where it is, `turn` is what it has in
hand. Kernel answers come at any moment. `entries` is the slab by index, with
the generation of each entry; a cookie names nothing once its entry is retired.
`BeginTurn` is `Executor::pump`, `Enter`
to `EnterReturns` is one ENTER, `GoRound` the loop in `turn`. SQEs carry their
serial numbers for the properties' sake; no guard reads them. Tasks are
represented by the futures they hold, so any program is: it may acquire and
release slots, start operations and drop futures between any two turns.
A task's waker stays in the entry until a completion takes it; a spurious poll
leaves everything as it is.

**Exec.** Tasks here, operations only as queued, live, posted or reaped: a poll
takes a task from one await to the next, and what it awaits is any program's
choice (an operation, two that race, a slot, a yield, a friend that wakes it).
`script` is the program's calls of `block_on` and `run`.

**File.** `content` and `off` are the file and the position `rt.rs` keeps of the
handle; `held` is FileBuf's block after a taken prefix `front`. A call has a
`pc`, and gives way to READs, WRITEs and seeks that may be short or fail, and
may be dropped at each of them. The refinement mapping is the whole promise: with output
in the block the image is the file with the block laid over it (`Image`), and with
input in it the position is where the block begins (`Position`). Bytes are a letter,
the newline, the two halves of a rune, and the zero that a WRITE past the end leaves
before it. A half of a rune by itself is no UTF-8, so a line may not be (`Valid`):
`getline` has taken it by then, fails, and the error sticks.

**Std.** A call takes the stream's File out of its slot and puts it back when it
ends; `Name` is `Std::build`, which fills an empty slot. Bytes are numbered as
the calls that wrote them. `StdSpec` has any program; `CarefulSpec` those in which a
stream is named, and stdin read, only while nobody has the File in hand.

**Tree.** A call is a list of steps, one operation of the ring each; a step may put
others in its place (`RemoveEntries` the entries it has listed, `Read` the write).
`tree` maps paths to nodes, `data` inodes to contents. `Fault` fails an operation
of itself, and `Other` changes the tree between two steps: `disturbed`
remembers that, because a promise about the tree's contents is owed only by an
undisturbed call. Others take a name out, put a file, a directory or a link where
there was none, or put a link in the place of a directory and of all that is in it.
`dirs` remembers what has been a directory since the call began, for
RemovesOnlyBelow: a path that goes on through such a link is followed, by the
LIST and by the UNLINK after it, and what is removed there is outside. OkIsDone
compares names and contents, but for a copy whose destination has links that lead
back into what is copied, or two to one file (`Apart`): the open of such a
destination empties what it leads to. Bounds and assumptions: the links that
others put lead to directories which no call is about (`Aims`), links are one
deep, and a tree is not copied into itself (which does not end: see section 4); a
call is awaited to its end.

**CppReactor.** One ENTER to a pump; an operation that is dropped while queued
leaves the slab at once; errors put the batch back. `CppRefused` is the EINVAL
of a batch longer than `sq_entries`. Frames are not destroyed between their
completion and their resumption (only at the program's end, `rt.cpp:165`).

**ScreenServer.** `inbox` is each socket: a frame or a print is an item in it, and
carries how much its program had printed before; `looked` is that of the last
frame that was looked at, so that a program which waits for its replies
(`Patient`) and prints at most `Burst` between two of them can be told from any
other. What a frame asks is chosen
when the daemon looks at it (`Feed`), which is any program's choice as long as
the daemon cannot have looked before. `Poll`, `Recv`, `Free` and `EndTurn` are
the loop of `ks_daemon.cpp` with its two passes: one recv for each connection that
poll saw, byte channels first, then those that are over are let go. `cur` is the
recv in hand. Keys and resizes come between turns. `shown` and `deferred` are
the prints on the scrolling screen and those held back while somebody has the
whole screen; DEFER_MAX costs the oldest.

**ScreenConn.** The executor and the WRITE are Exec's and Reactor's, as little of
them as the connection needs: a queue of woken tasks, and a frame that takes
several WRITEs. A task makes its calls in rounds, and of the calls of one round
the first to end wins and the others are dropped, wherever they are.

**ScreenSpawn.** `lock` is the flock, `path` the daemon whose socket the path
names, alive or not. The code's waits are timed, and here each may run out at any
moment: `GoesOnWithout` leaves the loop for the lock without it, `GivesUp` ends the
wait for a daemon however far that has come, and `StillNobody` may be refused by
one that lives, whose accept queue is full. A daemon comes up (`Listen`), is killed
(`Dies`), or ends of itself (`Closes`, `Ends`) and then unlinks the path, whosever
it is. `mishaps` counts the steps by which one process passes over another: going
on without the lock, giving up a daemon that is still coming up, being refused by a
live one under the lock, unlinking without the lock the name of one that listens, or
ending so. No guard reads it; OneDaemon says what each of them costs.

Modules have *variants*: definitions with one plausible mistake,
used by no specification. Replacing the named definition by its variant makes
TLC find a violation of the property it is paired with in `PROJECT.json`, so
every property below is known to be able to fail.

## 3. Runs

| run | checks | bounds | states |
|---|---|---|---|
| `ring_safety` | AdmissionControl, InflightExact, SlotExclusion, PopsWhatItCopied, CancelledBeforeCancel, NoLostWakeup, NoFalseEnoent, ImplementsContract | KoruRing: 2 tasks, queue of 2, 1 slot, 2 SQEs, and a third when the ring is full (`ThirdWhenFull`); every failure and fault | 1.6 M |
| `ring_live` | RingMovesOn | KoruRing: 2 tasks, queue of 2, 2 SQEs that are inline, slot operations, polls or CANCELs; every failure and fault; no timeout | 255 k |
| `beside` | ClaimsExact, ClaimNamesItsFile, ReadsFromItsCookie, NoEarlyReuse, NoStaleBusy (KoruHandles); NothingLost (Std); OneReplyEach, ClaimsGivenBack, PrintsInOrder (ScreenServer); OneDaemon (ScreenSpawn) | KoruHandles: 2 entries, 2 generations, 3 handles, 2 slots, 2 READDIRs, an adoptable directory. Std: root and a task, blocks of 1 byte, 2 calls. ScreenServer: 2 programs with 3 connections, 4 frames, 3 prints, 2 of them between two replies and in one recv, sockets of 3, 1 key or resize. ScreenSpawn: 3 programs, 3 daemons | 1.9 M |
| `reactor` | SlotsConserved, CookiesNameTheirOps (Reactor, CppReactor); OnceAndItsOwn (CppReactor); OkIsDone, NothingLeftOpen, RemovesOnlyBelow (Tree); RuntimeEnds (Reactor, Tree) | Reactor: 3 SQEs, queue of 2, 2 SQEs to an ENTER, 1 slot. CppReactor: the same, and 1 CQE to an ENTER. Tree: 3 worlds, 13 programs, slots of 2 bytes, pages of 2 entries, 1 fault, 1 change by others | 287 k |
| `kernel` | RefsExact, AnsweredOnce, WaitEntryAliveWhileOpen, ClosedUnpins (KoruOp); LocksKept, Balanced, PathOpsEnd (KoruPath); NeverEarly (KoruWait); BytesLand, MappedOnceWhole, CallsEnd (KoruArena) | KoruOp: 2 polls and another operation. KoruPath: 2 tasks, 3 directories, 2 mounts, one of which is remounted. KoruArena: pages of 2 bytes, slots up to 4, buffers of 2, a file of 3, a directory of 4 records one of which has no name. KoruWait: a clock of 20 ticks | 151 k |
| `runtime_lib` | ProgramsEnd (Exec, File and ScreenConn), IsAPlainFile (File), WholeFrames (ScreenConn) | Exec: root and 2 tasks, 1 slot, 3 awaits. File: blocks of 3, a file of up to 5 bytes, a seek past its end, 3 calls. ScreenConn: 3 tasks, 4 calls, frames of 2 WRITEs | 321 k |

Six more runs end in a violation; section 4 tells of them.

**Why these bounds are enough for the cases the properties are about.** Two
tasks are what it takes for one to submit, cancel or reap while the other is at
any place of ENTER. The hazards of the queue are at its limit, so the queue is
shorter than the SQEs, and a ring full of reservations, of completions and of
both is reached. A CANCEL may aim at any SQE: consumed, answered, not yet
submitted, or itself. Three operations of KoruOp are two polls that `cancel_all`
visits in either order, and a running one. With two entries of two generations the
third handle may be the first one again, its entry's generation gone round: that it
is not sooner is what NoEarlyReuse asks. In ring_live a slot operation that fails at
any place is what drops `inflight` with nobody told, a poll of a ready file is what
answers without a notify, and the other task sleeps meanwhile. In the reactor three
SQEs are an operation, the CANCEL of its dropped future and an operation that
takes over an index; two SQEs to an ENTER make a batch of three go out in parts,
or be refused by the C++ pump, and a queue of two cuts batches of two. Two
nanoseconds to a millisecond and two milliseconds to a jiffy show both
roundings, I32Max = 4 and U32Max = 9 both widths.

In KoruArena a slot of four bytes has two pages, so a range begins in either,
ends in either, is empty, crosses the boundary and wraps; a buffer of two makes
every loop go round. The unnamed record is between two named ones, the last
record may not fit, and a page ends after any of them. In KoruPath two
directories on one mount are what a rename locks, the third is on another mount
and out of a rename's reach; the second task does any other operation in either
directory at the same time. Tree's first world has a tree to copy over one that
is there already, with links out of it and back into it, and a file behind one
of them that the copy writes; the second has a destination whose link leads back
into the source; the third has nothing there and a link to the tree itself.
Others have one change, which is a link in the place of any directory that is
being removed or copied, among the rest; the directory it leads to has a file to
lose. A File of three-byte blocks in a file of up to five bytes is read ahead
of, written behind and sought over, past its end too, within three calls, with a
short or failing step in each.

A READDIR needs a slot and an entry, so two READDIRs and two of each meet on
either, on both or on none, and whatever closes, opens and adopts comes between.
A File of one byte in Std is full with each call, so each call writes, and what
is left over is what a stream keeps. In ScreenServer a program with both kinds
of connection and one with frames only are what it takes to hold, ask for, and
lose both claims; two prints and a DEFER_MAX of one are enough to hold one back
and lose one; three are more than a recv takes, and more than a program prints
between two replies, so that those of two turns are in a socket at a time. In
ScreenConn a task whose call waits for a key races it with another call, and two
other tasks queue for the token. Three programs that find nobody are one that
has the lock, one that waits for it or goes on without it, and one that comes
later; three daemons are a dead one whose socket is still there, the one that is
meant, and one more.

Bounds on counters: `MaxSqe` (KoruRing), `MaxSqes` and `MaxOps` (reactors and
contract), `MaxJobs` and `MaxOpens` (KoruHandles), `MaxTime` (KoruWait),
`MaxSq`, `MaxCq`, `MaxSlotSize`, `MaxSlotCount`, `MaxArena` (the limits SETUP
enforces, small), `MaxAwaits` (Exec), `MaxCalls` and `MaxLen` (File, Std),
`MaxFaults` and `MaxOthers` (Tree), `MaxFrames`, `MaxPrints` and `MaxEvents`
(ScreenServer), `Pieces` (ScreenConn), `Daemons` (ScreenSpawn). `RecvLen`,
`SockLen` and `DeferMax` are the daemon's own sizes, small; with `Patient` programs
wait for a reply before they print, and print `Burst` at most until the next.
`Aims` and `NewNames` (Tree) are what others give to what they put.

The deadlock check is on for KoruRing: a task can always call ENTER, so a deadlock
there would be one of the code. The other runs switch it off, because those
systems do stop: the ring is closed, the wait has returned, the program has
ended, or the bound on operations or calls is used up and all of them are
answered. PathOpsEnd, CallsEnd, RuntimeEnds and ProgramsEnd, liveness properties,
say that they do not stop earlier.

**Fairness.** It is stated only where it is the platform's promise.
`KoruRing!FairSpec`: weak fairness for every task's steps in the kernel and
every worker, which is the scheduler's promise, and strong fairness for taking
`submit_lock` again, which the kernel's queueing mutex gives; nobody has to call
ENTER, no file has to become ready, no timeout or signal has to come. Under it two
things may last for ever, and RingMovesOn names both: a poll of a file that is never
ready, and a task that sleeps (`LeftAsleep`) although what it waits for has come by
a way that notifies nobody, or although nothing is in flight any more. Its sleep
ends with the next completion of a worker, a timeout or a signal.
`KoruOp`: submitter, `release`, a callback that has begun and workers proceed.
`Reactor!FairSpec`: the executor's thread runs, and each completion owed
arrives. The second of these is what a program assumes of the operations it
awaits; a POLL_ADD that nobody cancels need not provide it. `KoruPath`: tasks in
the kernel proceed (weak), and a lock that is released again and again is handed
to who waits for it (strong), which rwsem and mutex do. `KoruArena`: the same,
for system calls and workers; a file that may block need not return. `File`,
`Exec`, `Tree`: the one thread runs, and the kernel answers. `ScreenConn`: so too,
the pump is polled when its read has returned (strong, because a reply may come
and be read again and again), and the daemon answers what does not wait for a key.

## 4. Where code and text disagree

Each of these runs checks one statement of the repository.

1. `op_release_finding`. **`cancel_all` can free a fired poll with its entry on
   the waitqueue** (`kernel/koru_ops.rs:1598`). It disarms a poll only if it
   wins the token. If the wake callback has won it and queued the work,
   `cancel_delayed_work` takes the work away, and `run`, the only one left to
   disarm, is never called. While the ring is open it cannot happen
   (`WaitEntryAliveWhileOpen`).
2. `cpp_signal_finding`. **The C++ pump submits again what an interrupted ENTER
   has consumed** (`cpp/src/reactor.cpp:143`), and drops the completions that
   came with the EINTR.
3. `exec_finding`. **`block_on` drops wakes** (`rust/runtime/src/exec.rs:203`).
   It takes the whole ready queue, and returns in the middle of it when the root
   is ready; the tasks behind the root were woken and are forgotten. A `run`
   after it panics over a stall that is none.
4. `std_finding`. **Naming a stream while another task has its File loses
   output** (`rust/runtime/src/file.rs:907`): the empty slot is taken for a
   stream that was never named, and gets a second File.
5. `prints_finding`. **A long print comes after the frame that was sent after
   it** (`screen/ks_daemon.cpp:267`, against the comment at 256). Each pass makes
   one recv of 4096 bytes, and a socket holds more: the second pass takes the
   frame while the rest of the print is still in the socket.
6. `wake_finding`. **Not every completion notifies** (`kernel/koru.rs:819`, against
   the comment at 336: "Notified by every completion, inline or deferred"). `submit`
   puts the completion of an inline operation into the queue and wakes nobody, and
   a poll that is ready at once is answered the same way (`koru_ops.rs:1562-1573`),
   so a task of the same descriptor sleeps on with as many completions in the queue
   as it waits for.

Seen while modelling, and checked by no run:

- An operation that leaves `inflight` without a worker's completion, because it
  could not be registered or queued or was a poll answered at once
  (`koru_ops.rs:1478`, `1505`, `1572`), notifies nobody. A task that was asleep
  before does not look at `quiescent()` again (`koru.rs:861-863`, and
  `doc/Notes.md:1695-1710`, which is about the task that is not asleep yet).
  NoLostWakeup is about the completions that workers and CANCELs post, which all
  notify, and RingMovesOn excepts the rest as `LeftAsleep`. With one task there is
  no sleeper.
- A descriptor that is adopted twice has two handles and one file position: the
  claim of READDIR is on the handle (`koru.rs:267`), so two READDIRs of it may
  interleave `llseek` and `iterate_dir`. ReadsFromItsCookie is stated of opened
  directories; without that condition `beside` violates it.
- `wait` passes the full timeout again after each wake (`koru.rs:868`), so the
  cap bounds a wait by (wakes + 1) times itself.
- The registry may hold more operations than the queue has places, because
  `run` unregisters after its completion may have been reaped; a CANCEL then
  answers EALREADY for an operation whose CQE the user has.
- The Rust drain is not bounded (`reactor.rs:292`, against the comment at 303):
  `turn` goes round until somebody is woken or nothing is in flight, whatever
  its timeout, and if the ring is full of long operations their CANCELs do not
  get in. A turn that may not wait spins on such a ring. TurnEnds holds because
  the kernel is taken to answer.
- A C++ batch longer than `sq_entries` is refused and put back for ever
  (`cpp/src/reactor.cpp:138`), and `cq_.resize(64)` makes ENTER refuse a ring
  with fewer `cq_entries`.
- Generations of handles have 16 bits: NoEarlyReuse says how long a stale
  handle is safe.
- File: a call on a standard stream that is dropped takes the stream's File with
  it, and every later call answers Again; output of a stream whose File is in
  somebody's hand when the program ends is not flushed. `peek` and `scan_*` of
  an Update stream never settle the direction; a read as large as the buffer
  passes by the flush of stdout that stdin promises; the position of an Append
  stream starts at 0; a refused seek drops what was read ahead; `unget` of a
  replacement character puts three bytes back for one that was read; a second
  `close` after one that was dropped answers Ok although output was lost.
- Library: `write_once` and `read_into` read the handle's position before they
  await (`ops.rs:141`), so two of them on one handle overlap; `copy_tree` into
  the tree itself does not end; a copy onto itself, or to a name whose link leads
  back, answers Ok and has emptied the source (`ops.rs:661`), and OkIsDone excepts
  it (`Apart`); `remove_path`, which removes "the whole tree under" a name
  (`ops.rs:573`), lists and unlinks by path (`ops.rs:590`), so a directory that
  another program has just replaced by a link is followed, and RemovesOnlyBelow
  excepts that (`Misled`); `read_file` whose STAT fails asks for ever (`ops.rs:256`); a dropped
  `list_dir` or `copy_file` leaves its handles open; `acquire` yields without a
  queue, so it can starve.
- Screen: "only the lock holder may unlink" (`screen.rs:692`), but who has waited
  2000 times for the lock goes on without it (`screen.rs:703`,
  `cpp/src/screen.cpp:532`), and a daemon unlinks the path at its end whatever it
  names by then (`ks_daemon.cpp:346`). A daemon that takes longer than the wait for
  it comes up after its program has let the lock go. ScreenSpawn has all of these,
  and OneDaemon counts them: each is worth one more daemon at most. A call that is
  dropped while it writes keeps the write token, and one that is dropped while it
  waits for it may take the wake with it (`screen.rs:211`); nobody sends after that,
  which is why RequestsEnd is about calls that are not dropped. A byte channel that hangs up with more than one recv
  in its socket loses the rest (`ks_daemon.cpp:278`). A resize while no KEY_READ
  is parked is told to nobody (`proto.cpp:756`).

## 5. What is proved

For every number of tasks, slots and SQEs, every queue size and every set of
SQEs and ENTER arguments; for every size of the handle table, width of the
generation and number of READDIRs; for every finite set of operations and of
polls among them; for all directories, mounts and operations on paths; for every
size of pages, slots and arena, and every length, offset and cut; for every
number of slots and SQEs of the runtime and every size of its ENTERs; for every
number of programs, connections, daemons and prints; for every number of tasks
and calls that share a stream; for every block, file, and sequence of calls of a
File; for every tree, every program of calls on it and every size of a page; and
for every unit of time and every timeout: from the assumptions named in the
modules (`TasksAssumption` of KoruRing to `StdAssumption` of Std, all of which
TLC evaluates in the runs) and nothing else. They say that a value which stands
for nothing is not one of the things, that sets which are counted are finite,
which sizes are at least 1, and that what a File holds and is given is bytes,
counts and offsets.

| theorem | says |
|---|---|
| `KoruRingProofs!ControlInvariant` | the inductive invariant `CtlInv` of the control |
| `TypeCorrect` | `Spec => []TypeOK` |
| `PopsWhatItCopiedHolds` | the completion that reap removes is the one it copied outside the lock |
| `AdmissionControlHolds` | one reservation for each completion owed, and the queue never overflows |
| `InflightExactHolds` | `inflight` counts the deferred operations exactly |
| `RingImplementsContract` | `Spec => ImplementsContract` |
| `EachSqeAnsweredOnce` | C1 of the ring itself |
| `SlotExclusionHolds` | a slot is busy exactly while one operation owns it |
| `RouteInvariant` | where each operation is, and that the registry has it while a CANCEL may find it |
| `NoFalseEnoentHolds` | CANCEL says ENOENT only when there is nothing to cancel |
| `CancelledBeforeCancelHolds` | the ECANCELED of the target is ahead of the CANCEL's own answer |
| `NoLostWakeupHolds` | nobody sleeps through what workers and CANCELs complete |
| `RingContractProofs!OneAnswerEachHolds` | C1 of the contract |
| `KoruHandlesProofs!HandlesInvariant` | the inductive invariant of the table |
| `ClaimsExactHolds` | READDIR gives both its claims back on every path |
| `ClaimNamesItsFileHolds` | no new file inherits a claim |
| `ReadsFromItsCookieHolds` | one READDIR at a time reads a directory that was opened |
| `NoStaleBusyHolds` | EBUSY is answered only for a READDIR that is not complete |
| `NoEarlyReuseHolds` | a handle comes back only after MaxGen issues of its entry |
| `KernelOpsProofs!OpInvariant` | the inductive invariant of OpWork |
| `RefsExactHolds` | the counts of operations, ring and module are the numbers of their holders |
| `AnsweredOnceHolds` | one completion, and none freed without it while the ring is open |
| `WaitEntryAliveHolds` | a waitqueue entry belongs to a live operation, until the last close |
| `PathInvariant` | the inductive invariant of the path operations |
| `PathKeepsLocks` | a directory changes under its lock, which one task has, and no reference is given back inside it |
| `PathBalances` | references, write counts and sections are what the guards say, on every error path |
| `KoruDataProofs!ArenaInvariant` | the inductive invariant of the arena and the data path |
| `BytesLandHolds` | bytes are where they belong and nowhere else, and READDIR goes on from any cookie |
| `MappedOnceWholeHolds` | the arena is mapped once and whole |
| `NeverEarlyHolds` | a wait that times out has lasted `timeout_ns` at least |
| `ReactorProofs!ReactorInvariant` | the inductive invariant of the Rust reactor; among it, that `dispatch` never panics |
| `ReactorConservesSlots` | every slot is free, in a task's hands, or with one operation of the slab |
| `ReactorCookiesNameTheirOps` | a completion, and a CANCEL, finds the operation that its cookie was made for |
| `ReactorSubmitsOnce` | no SQE goes to the ring twice, after a cut or refused ENTER either |
| `ReactorUsesContract` | `Spec => RingSpec`: the reactor uses the ring as the contract says |
| `ReactorAnsweredOnce` | C1 under the reactor |
| `CppReactorInvariant` | the inductive invariant of the C++ reactor, in a process without signals |
| `CppReactorOnceAndItsOwn` | no SQE goes to the kernel twice, and each completion finds its operation |
| `CppReactorConservesSlots`, `CppReactorCookiesNameTheirOps`, `CppReactorUsesContract` | what is proved of the Rust reactor's slots, cookies and use of the ring, of the C++ one |
| `TreeInvariant`, `TreeLeavesNothingOpen` | between calls of the library the kernel has open what the program has names for, whichever operations failed |
| `BesideProofs!SpawnInvariant`, `SpawnOneDaemon` | at most one daemon is coming up or listening, and one more for each mishap |
| `ServerInvariant`, `ServerRepliesOnce` | each frame is answered once, or is the read that is parked |
| `ServerGivesClaimsBack` | claims are those of connections that are there, and prints held back are not forgotten |
| `ServerPrintsInOrder` | prints are taken in before what their program asks later, if programs wait for replies and print no more between two than one recv takes |
| `StdInvariant`, `StdLosesNothing` | what tasks that take turns with a stream write comes out, once and in order |
| `RuntimeLibProofs!ConnInvariant`, `ConnWholeFrames` | frames are whole on the wire, whatever calls are dropped half-way |
| `FileInvariant` | the inductive invariant of the buffered File |
| `FileIsAPlainFile` | `FileSpec => IsAPlainFile`: the buffered File implements a file without a buffer |

**KoruRing.** The argument has three layers. `CtlInv` says who holds
`submit_lock`, that a task in the submit loop has in hand exactly the SQE whose
phase is `submitting`, that numbers above `Len(sqe)` are free, that a task never
consumes past its request, and that a copied completion is still the head of
the queue. None of its parts is inductive alone: that two tasks never hold one
SQE needs the lock, and that the copied head stays needs the lock as well,
while workers append. On it rest two ledgers. AdmissionControl is not preserved
by looking at counters only: each step changes `Owed` and `Reading` by at most
one element, and CtlInv says that the element was, or was not, in the set; the
counters follow by cardinality of finite sets. That they are natural numbers is
then a consequence, which gives TypeCorrect. InflightExact is the same argument
on the deferred operations. For the refinement each step is an Accept, an
Answer, a Take or a stutter; that Accept is enabled is AdmissionControl. C1 on
the ring is then C1 of the contract, read through the mapping.

The other properties of the ring add one invariant each. SlotExclusion needs
that the kind of an operation decides which places of the submit loop and which
phases it reaches (`KindInv`); the slot it holds then follows from where it is.
NoFalseEnoent needs `RegistryInv`: a deferred operation is in the registry until
it is completed, or another CANCEL has taken it out, and that CANCEL still has
`submit_lock`, so nobody else looks meanwhile. CancelledBeforeCancel needs what
such a CANCEL carries from the registry to its answer (`AheadInv`): first that its
prey has the user_data asked for, then that the prey has been answered; answers
are only added at the end, and reaping moves the boundary of two sequences
without changing their concatenation. NoLostWakeup is inductive with `HandRes`:
a task falls asleep with too few completions, only a worker's or a CANCEL's
completion adds one to those it counts (`Announced`), each of these has a
notify_all behind it, and an index shift shows that reaping adds none. Inline
answers are not counted, because nothing is behind them: `wake_finding`.

**KoruHandles.** ClaimsExact is inductive once it is known that a READDIR which
its submitter has in hand is the only one (`SubmitterInv`): then the entry it
looks at is the entry it claims. That claims never meet on an entry holds of the
drained table too, and must, because READDIRs finish after `release`.
ReadsFromItsCookie does not follow from the claims alone: two READDIRs could
read one file through two entries. `HomeInv` says that an opened file is in one
entry, and that all READDIRs of it, finished ones included, resolved to that
entry; it breaks for adopted files, which is what section 4 says of them.
NoEarlyReuse needs how far the generation of an entry has moved since a handle
was issued: as long as it has not gone all the way round, the distance of the
two generations is the number of turns (`GenInv`), so equal generations mean no
turn at all or a full round.

**KoruOp.** `RefsExact` is not inductive: a step says which reference it drops,
and not that somebody had it. `IInv` says who holds an operation from where the
submitter, the work item, the token and the descriptor are: what the submitter
has done by each of its places (`InHand`), and that an operation whose work has
not begun belongs to the token, to a wake, or to the submitter that won it
(`Claimed`). Each step then takes away one holder and one from the count, or adds
both. AnsweredOnce needs at which step of `run` the answer is posted
(`Answered`), and WaitEntryAliveWhileOpen that an entry on a waitqueue has
somebody left who will take it off (`Entered`), which is what the close ends.

**KoruWait.** Both conversions, to milliseconds and to jiffies, round up, and what
is rounded up and multiplied again is never below what was divided
(`DivCeilCovers`). Milliseconds saturate at U32Max, but then they are above I32Max
and there is no timer at all (`CapCovers`).

**KoruPath.** A task's guards are a stack, and which it has follows from its step
(`Placed`); its section (a directory's lock, or two of them and the rename mutex)
is the last guard it takes and the first it drops, so it is on top of the stack
and alone (`Stacked`), and what is locked is what it names, or what a rename that is
about to open it has locked so far (`Locks`). LocksKept follows. Balanced is not
about tasks but about numbers of guards, over all tasks: each step pushes or pops
one, so one pair leaves or joins the set that is counted (`Pushed`, `Popped`), and
one operation's error path is as good as another's. A remount needs a count of
zero, so no write guard is on that mount; nothing has to be said about it.

**KoruArena.** `Content` says of every byte of the slot an operation has what is
there: what the operation has brought so far, and behind it what was there when it
began. A chunk is stored within one page (`StoreIs`), and operations have slots of
their own that do not overlap (`SlotsApart`), so one worker's chunk leaves what is
known of the others' bytes alone. Of a WRITE the same is known the other way
round: what it has in its buffer is what the user had put there (`UserFills`).
READDIR's records are consecutive entries but for the nameless, and the cookie of
each is the position of the entry after it (`DirOk`), although it is written only
when that entry comes. MappedOnceWhole
needs that who inserts pages has the arena's mutex and found it unmapped, so that
there is no second one, and that a failure leaves neither a mapping nor the mark.

**Reactor.** An SQE is in one of three places: in `pending`, in what is left of the
turn's batch, or out, which it is until its completion has been dispatched. In each
the entry its cookie names is in the slab, is its operation's, and has a state that
fits the place (`PendInv`, `BatchInv`, `OutInv`). SQEs are numbered as they are
registered and leave in that order (`OrderInv`), so a batch of which ENTER took a
part has nothing in common with what is out. That a cookie which was retired never
names anything again is a fact about two states (`Ages`): a generation only grows,
and an entry keeps its operation as long as it keeps its generation; a CANCEL's aim
and every cookie that was ever given out are carried over each step by it.
`take_batch` filters the queue, and what a filter keeps is known by induction over
the queue's length; the library's induction theorem cannot be instantiated here, so
the induction is on a set of numbers and its least element that is missing
(`NatSetInduction`).

**CppReactor.** The two runtimes share the slab, the program's steps and ENTER, so
`CoreInv` is the same and so are the lemmas that say what keeps it. What is pending
differs: dropping an operation that is queued retires its cookie at once, and the
SQE left behind names nothing for good, by `Ages` (`CppPendsIn`); `ready_batch` keeps
the others, which still wait in the slab. What ENTER did not take is pending again
before the first completion is dispatched, and the batch is empty then. None of this
holds under `SignalSpec`, as `cpp_signal_finding` shows.

**Tree.** NothingLeftOpen is about a moment when no call is in progress; what leads
there is the list of steps that a call has still to make. Of each step it is known
what comes after it (`GoesOn`): an open is followed by what uses it and closes it, and
a step that wants nothing open (`Loose`) by closes or by such a step. So a list that is
put in the place of a step, for the entries of a directory or for a longer path, opens
what it needs and closes it (`Block`), and joins at both ends. `Hands` is what the call
has open at each step, one handle or two, with a record or without; when a call fails
its steps are replaced by closes, one for each handle (`Closes`). `Handles` makes of
the kernel's handles the program's and the call's, none in both, and counts the names
of each in its record. Nothing is said of the tree, so it does not matter what others
do to it. `ScriptsAssumption` says that a program's calls are names of operations with
paths.

**ScreenServer.** OneReplyEach is the kind of invariant that steps preserve one
frame at a time (`RepliesInv`): the seq that is answered is the one just
counted, or the parked one. ClaimsGivenBack is inductive with the types, but has
to be stated of what is shown and what is held back together: a print is
appended to the one or to the other, and the end of a claim only moves the
boundary between them; what DEFER_MAX costs is the first of the second.
PrintsInOrder compares the two sockets of one program: what has arrived and what
is in the channel's socket make up what was printed (`CountOk`); a program that
waits has one frame on its way and printed nothing since (`ItemsOk`); all that
it printed before the frame that was looked at last has arrived, so what is in
the socket is of one burst (`LookedOk`); when poll has seen the frame it has
seen those prints (`BehindOk`), the first pass takes all of them with one recv
if a burst is no more than that (`TurnOk`), and the second looks at the frame.
Both conditions are needed, and of the second `prints_finding` shows it. How
much a socket holds does not matter.

**ScreenSpawn.** If nobody were ever passed over, the lock's holder would be the
client between the second try and its answer, and a daemon that is up would have
the name or the holder's attention. `StrayDaemon` and `StrayClient` are those of
which this is not so: a daemon that listens without the name, or comes up with
nobody to wait for it; a client that is on its way without the lock, or about to
unlink and to start one while another answers. What is inductive is that they are no
more than the mishaps so far (`FewStrays`): a step leaves the set of strays as it
is, or adds one and is a mishap, or changes one stray for another, as a client that
goes without the lock does when it takes somebody's name away or leaves a daemon
behind (`StraysCounted`). Two daemons that are up and not strays are one with the
name and one that the lock's holder waits for; then the holder itself is a stray, and
no daemon, so its mishap pays for one of the two (`UpAreFew`).

**ScreenConn.** At most one call is sending (`Sending`): from when it has taken the
token to the end of its frame, and for good if it is dropped half-way, because then
nobody gives the token back. As long as the connection lives the token is taken
while there is a sender, and as long as the daemon is there the wire ends where the
sender's frame is up to, or, without one, with a whole frame (`WireOk`). Once the
connection is dead anybody takes the token, and finds so before it writes. That a
frame has a first piece (`Pieces` is not 0, `PiecesAssumption`) is the theorems' one
assumption.

**Std.** A stream has one File, in its slot or in one call's hands (`Single`): a
call takes it out, and who names the stream, or reads stdin, finds nobody else with
it, which is the condition of `CarefulSpec`; under `StdSpec` it is false, and
`std_finding` shows that. Then what came out of a stream, followed by what its File
holds, is what its calls gave it but for what a failure or a dropped call lost, in
order (`StreamOk`); a call's own byte is later than all that (`ByteOk`). For the
program's end the exit hook is armed before anything is held, and the streams it
has passed hold nothing that is due (`HookOk`, `Passed`).

**File.** The mapping says what the program is to see, and the invariant what that
takes. What was read ahead is the bytes of the file just before the descriptor's
position (`Ahead`, by `Behind`), and the rune `get` returned last is the bytes before
those, as long as `unget` may still put it back (`Ungettable`). `Places` says at each
await which way round the buffer is, whether it is empty, and which calls get there:
only then is the step after it one of the plain file. It had to say of `getline` that
a call which has part of a line is not past the end of the file, and of a `fill` that
what is held is nothing, or the head of a rune that `get` asks the rest of.

A step of the plain file is stated once for each of its actions, in terms of `Image`
and `Position` (`Begins` to `CallDropped`), and each step of the File meets one of
these or shows nothing (`Follows`). A WRITE of part of the block shows nothing because
the block over the file is the same as its front put down and the rest over that
(`OverOver`), holes included; to read ahead shows nothing because it moves position
and block together (`BehindMore`); and what a call takes from the block is the file at
the position because a slice of what is behind is a front of it (`BehindSlice`). Where
`getline` finds a newline is the least of a set, which is there by well-foundedness
(`LeastOf`); what it makes of the line, the plain file makes of the same bytes
(`Line`). The theorem takes the kernel's part as the model has it: a WRITE or READ
does a part of what it is asked for, or fails, or is not heard of again because the
future was dropped. The plain file says what a program gets, and does not hide what
the code does: a refused seek drops what was read ahead, and a seek from the end that
is dropped or fails does as well.

Only model-checked:

- liveness and fairness, which are outside the prover's reach: RingMovesOn,
  ClosedUnpins, PathOpsEnd, CallsEnd, RuntimeEnds, ProgramsEnd;
- what the library's calls do to a tree (OkIsDone, RemovesOnlyBelow). A call on a
  tree goes down it as far as it goes, so that all of it is copied or removed, page by
  page, is an induction over data, which the provers cannot do. RemovesOnlyBelow
  depends besides on a copy that does not go into itself, and on links that lead
  outside, which are bounds of the model;
- EveryCompletionWakes, and the other statements that section 4 shows to be false.

The other safety properties that runs check are proved. So every property of the
ring, the handle table, OpWork, the path operations, the arena, the wait, both
reactors, the File, the standard streams, the screen daemon and the connection to it is
proved but for liveness.

## 6. What is not modelled

- The ABI's numbers and layouts and the errno tables, which the repository
  compares with its own dump tools; the value of a checksum; names and types in
  the records of READDIR.
- Option parsing, text buffers, time, and the grid of the Rust library; files,
  operations, screens and text of the C++ one. They keep state of their own, but
  what is hard in them (wording, layout, character widths) is data and not order.
- Of the screen daemon what is drawn: windows, the grid, the ANSI parser, fonts.
- What the VFS does inside a path operation: KoruPath has its locks and
  references, Tree its effect on names, and neither has permissions or crashes
  of a file system. Nothing of koru is kept over a restart.
- Commands, tests and scripts, which are users of the system.
- Weak memory: kernel locks and the `cmpxchg` of the token order every access
  modelled here.

## 7. Plan

What is left:

- of the screen daemon's drawing, the backing grid under its claims: what
  `ScreenRestore` gives back is what was on the screen;
- of Tree, RemovesOnlyBelow for every tree.
