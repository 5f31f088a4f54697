------------------------------ MODULE KoruPath ------------------------------
(* The path operations, kernel/koru_ops.rs from do_open to readlink_held,  *)
(* and the guards of kernel/koru_path.rs on which they are built.          *)
(*                                                                         *)
(* Path operations run inline, in the task that submits them, and tasks of *)
(* different rings meet at the directories they change.  What an operation *)
(* has acquired is a stack of guards: an error unwinds it, and so does     *)
(* success.  Directory locks, write counts and references are the VFS's.   *)
EXTENDS Naturals, Sequences, FiniteSets

CONSTANTS Tasks, NoTask,
          Dirs,       \* directories, as numbers in the order lock_rename takes
          Mounts,     \* those that are written to, and remounted
          MountOf,    \* the mount each directory is on
          Submissions \* the operations tasks submit, a subset of Operations

VARIABLES op,         \* the operation a task is carrying out, or Idle
          step,         \* the next of its steps, or 0 while it unwinds
          held,       \* its guards, the last declared on top
          dirLock,    \* holder of each directory's i_rwsem
          renameLock, \* holder of s_vfs_rename_mutex
          pathRefs,       \* path references of each directory
          writers,    \* write count of each mount
          readonly,   \* mounts that are remounted read-only
          busy        \* tasks whose slot is claimed

pathVars == <<op, step, held, dirLock, renameLock, pathRefs, writers, readonly, busy>>
vfs == <<dirLock, renameLock, pathRefs, writers>>

Idle == [kind |-> "none"]

\* The victim is declared before the section and held inside it: it is dropped
\* after it.  Variants, here and below, are used by no specification.
RemoveDeclaresInside ==
  <<"claim", "copy", "split", "lookup", "write", "dirop", "victim", "hold", "call">>

RemoveSteps ==
  <<"claim", "copy", "split", "lookup", "write", "victim", "dirop", "hold", "call">>

\* Both paths are looked up before anything is locked or counted.
RenameLooksUpInside ==
  <<"claim", "copy", "split", "lookup", "mount", "write", "renaming", "lookup", "call">>

RenameSteps ==
  <<"claim", "copy", "split", "lookup", "lookup", "mount", "write", "renaming", "call">>

\* Operations with the same steps are one kind: attr is OPEN, TRUNCATE and
\* UTIMES; remove is UNLINK and RMDIR.
Program ==
  [attr     |-> <<"claim", "copy", "lookup", "call">>,
   statx    |-> <<"claim", "snapshot", "lookup", "call">>,
   readlink |-> <<"claim", "snapshot", "lookup", "link", "call">>,
   mkdir    |-> <<"claim", "copy", "creating", "mkdir">>,
   symlink  |-> <<"claim", "copy", "creating", "call">>,
   remove   |-> RemoveSteps,
   rename   |-> RenameSteps]

Kinds == DOMAIN Program

\* dir is the parent, or the file's own directory, of the first path and to of
\* the second; plain is whether last components are names, not dots.
Operations == [kind : Kinds, dir : Dirs, to : Dirs, plain : BOOLEAN]

ASSUME PathAssumption == NoTask \notin Tasks /\ Submissions \subseteq Operations

Guard(k, ds) == [kind |-> k, dirs |-> ds, live |-> TRUE]

Push(t, g) == held' = [held EXCEPT ![t] = Append(@, g)]
GotoStep(t, n) == step' = [step EXCEPT ![t] = n]
Advance(t) == GotoStep(t, IF step[t] = Len(Program[op[t].kind]) THEN 0 ELSE step[t] + 1)
AtStep(t, s) == step[t] > 0 /\ Program[op[t].kind][step[t]] = s

PathInit ==
  /\ op = [t \in Tasks |-> Idle]
  /\ step = [t \in Tasks |-> 0]
  /\ held = [t \in Tasks |-> <<>>]
  /\ dirLock = [d \in Dirs |-> NoTask]
  /\ renameLock = NoTask
  /\ pathRefs = [d \in Dirs |-> 0]
  /\ writers = [m \in Mounts |-> 0]
  /\ readonly = {}
  /\ busy = {}

SubmitPath(t) ==
  /\ op[t] = Idle
  /\ \E o \in Submissions : op' = [op EXCEPT ![t] = o]
  /\ GotoStep(t, 1)
  /\ UNCHANGED <<held, vfs, readonly, busy>>

-----------------------------------------------------------------------------
(* The slot: claimed for the copy, or for the whole operation when the      *)
(* answer replaces the path.                                                *)

Claim(t) ==
  /\ AtStep(t, "claim")
  /\ busy' = busy \cup {t}
  /\ Push(t, Guard("slot", {}))
  /\ Advance(t)
  /\ UNCHANGED <<op, vfs, readonly>>

\* The path is ours, and well formed: the slot is given back.
Copy(t) ==
  /\ AtStep(t, "copy")
  /\ busy' = busy \ {t}
  /\ held' = [held EXCEPT ![t] = <<>>]
  /\ Advance(t)
  /\ UNCHANGED <<op, vfs, readonly>>

Snapshot(t) ==
  /\ AtStep(t, "snapshot")
  /\ Advance(t)
  /\ UNCHANGED <<op, held, vfs, readonly, busy>>

\* The last component must be a name that can be made or removed.
Split(t) ==
  /\ AtStep(t, "split")
  /\ IF op[t].plain THEN Advance(t) ELSE GotoStep(t, 0)
  /\ UNCHANGED <<op, held, vfs, readonly, busy>>

-----------------------------------------------------------------------------
(* The guards.                                                              *)

\* kern_path walks through the directory, which takes its lock for a moment.
\* The second lookup of RENAME is that of its second path.
Lookup(t) ==
  LET d == IF \E i \in DOMAIN held[t] : held[t][i].kind = "path"
           THEN op[t].to ELSE op[t].dir
  IN /\ AtStep(t, "lookup")
     /\ dirLock[d] = NoTask
     /\ pathRefs' = [pathRefs EXCEPT ![d] = @ + 1]
     /\ Push(t, Guard("path", {d}))
     /\ Advance(t)
     /\ UNCHANGED <<op, dirLock, renameLock, writers, readonly, busy>>

\* vfs_get_link, with the teardown it owes.
GetLink(t) ==
  /\ AtStep(t, "link")
  /\ Push(t, Guard("link", {}))
  /\ Advance(t)
  /\ UNCHANGED <<op, vfs, readonly, busy>>

\* A rename never leaves its mount.
SameMount(t) ==
  /\ AtStep(t, "mount")
  /\ IF MountOf[op[t].dir] = MountOf[op[t].to] THEN Advance(t) ELSE GotoStep(t, 0)
  /\ UNCHANGED <<op, held, vfs, readonly, busy>>

WantWrite(t) ==
  LET m == MountOf[op[t].dir] IN
  /\ AtStep(t, "write")
  /\ m \notin readonly
  /\ writers' = [writers EXCEPT ![m] = @ + 1]
  /\ Push(t, Guard("write", {op[t].dir}))
  /\ Advance(t)
  /\ UNCHANGED <<op, dirLock, renameLock, pathRefs, readonly, busy>>

\* start_creating_path: a reference, a write count and the parent's lock.
StartCreating(t) ==
  LET d == op[t].dir IN
  /\ AtStep(t, "creating")
  /\ MountOf[d] \notin readonly
  /\ dirLock[d] = NoTask
  /\ dirLock' = [dirLock EXCEPT ![d] = t]
  /\ pathRefs' = [pathRefs EXCEPT ![d] = @ + 1]
  /\ writers' = [writers EXCEPT ![MountOf[d]] = @ + 1]
  /\ Push(t, Guard("creating", {d}))
  /\ Advance(t)
  /\ UNCHANGED <<op, renameLock, readonly, busy>>

\* The place of the victim's reference, declared before the section so that it
\* is dropped after it.
DeclareVictim(t) ==
  /\ AtStep(t, "victim")
  /\ Push(t, [Guard("victim", {}) EXCEPT !.live = FALSE])
  /\ Advance(t)
  /\ UNCHANGED <<op, vfs, readonly, busy>>

StartRemoving(t) ==
  LET d == op[t].dir IN
  /\ AtStep(t, "dirop")
  /\ dirLock[d] = NoTask
  /\ dirLock' = [dirLock EXCEPT ![d] = t]
  /\ Push(t, Guard("dirop", {d}))
  /\ Advance(t)
  /\ UNCHANGED <<op, renameLock, pathRefs, writers, readonly, busy>>

\* ihold, for UNLINK of what exists; RMDIR holds nothing.
HoldVictim(t) ==
  /\ AtStep(t, "hold")
  /\ \/ UNCHANGED held
     \/ held' = [held EXCEPT ![t] = [i \in DOMAIN @ |->
                   IF @[i].kind = "victim" THEN [@[i] EXCEPT !.live = TRUE] ELSE @[i]]]
  /\ Advance(t)
  /\ UNCHANGED <<op, vfs, readonly, busy>>

\* lock_rename: the rename mutex when the parents differ, then the parents in
\* order, one lock at a time.
ToLock(t) == {d \in {op[t].dir, op[t].to} : dirLock[d] # t}

NeedsMutex(t) == op[t].dir # op[t].to /\ renameLock # t

RenameMutex(t) ==
  /\ AtStep(t, "renaming") /\ NeedsMutex(t)
  /\ renameLock = NoTask
  /\ renameLock' = t
  /\ UNCHANGED <<op, step, held, dirLock, pathRefs, writers, readonly, busy>>

LockParent(t) ==
  /\ AtStep(t, "renaming") /\ ~NeedsMutex(t)
  /\ \E d \in ToLock(t) :
       /\ \A e \in ToLock(t) : d <= e
       /\ dirLock[d] = NoTask
       /\ dirLock' = [dirLock EXCEPT ![d] = t]
  /\ UNCHANGED <<op, step, held, renameLock, pathRefs, writers, readonly, busy>>

\* Both names are looked up under the locks; the old parent gets a reference.
StartRenaming(t) ==
  /\ AtStep(t, "renaming") /\ ~NeedsMutex(t) /\ ToLock(t) = {}
  /\ pathRefs' = [pathRefs EXCEPT ![op[t].dir] = @ + 1]
  /\ Push(t, Guard("renaming", {op[t].dir, op[t].to}))
  /\ Advance(t)
  /\ UNCHANGED <<op, dirLock, renameLock, writers, readonly, busy>>

\* What start_renaming does when a name is missing: nothing stays locked.
RenamingFails(t) ==
  /\ AtStep(t, "renaming") /\ ~NeedsMutex(t) /\ ToLock(t) = {}
  /\ dirLock' = [d \in Dirs |-> IF dirLock[d] = t THEN NoTask ELSE dirLock[d]]
  /\ renameLock' = IF renameLock = t THEN NoTask ELSE renameLock
  /\ GotoStep(t, 0)
  /\ UNCHANGED <<op, held, pathRefs, writers, readonly, busy>>

-----------------------------------------------------------------------------
(* The change itself, and the ways out.                                     *)

\* vfs_rename, vfs_unlink, vfs_symlink, getattr, filp_open and the rest: done
\* or refused, nothing is acquired.
Call(t) ==
  /\ AtStep(t, "call")
  /\ GotoStep(t, 0)
  /\ UNCHANGED <<op, held, vfs, readonly, busy>>

\* Variant: the section keeps its dentry.
MkdirNotReplaced(t) ==
  /\ AtStep(t, "mkdir")
  /\ \/ UNCHANGED dirLock
     \/ dirLock' = [dirLock EXCEPT ![op[t].dir] = NoTask]
  /\ GotoStep(t, 0)
  /\ UNCHANGED <<op, held, renameLock, pathRefs, writers, readonly, busy>>

\* vfs_mkdir gives back the dentry, its own or another, or has unlocked the
\* parent and gives an error.  The section takes over what it gave.
Mkdir(t) ==
  LET top == Len(held[t]) IN
  /\ AtStep(t, "mkdir")
  /\ \/ UNCHANGED <<held, dirLock>>
     \/ /\ held' = [held EXCEPT ![t][top].live = FALSE]
        /\ dirLock' = [dirLock EXCEPT ![op[t].dir] = NoTask]
  /\ GotoStep(t, 0)
  /\ UNCHANGED <<op, renameLock, pathRefs, writers, readonly, busy>>

\* mnt_want_write refuses on a mount that is read-only.
ReadOnly(t) ==
  /\ AtStep(t, "write") \/ AtStep(t, "creating")
  /\ MountOf[op[t].dir] \in readonly
  /\ GotoStep(t, 0)
  /\ UNCHANGED <<op, held, vfs, readonly, busy>>

\* Variant: an early return between claiming the slot and releasing it.
FailKeepsSlot(t) ==
  /\ \E s \in {"claim", "copy", "snapshot", "lookup", "link", "creating", "dirop"} :
       AtStep(t, s)
  /\ GotoStep(t, 0)
  /\ held' = [held EXCEPT ![t] = SelectSeq(@, LAMBDA g : g.kind # "slot")]
  /\ UNCHANGED <<op, vfs, readonly, busy>>

\* An error of a step: EBUSY, ENOENT, EACCES and their like.  A guard that is
\* not constructed has released what it took.
Fail(t) ==
  /\ \E s \in {"claim", "copy", "snapshot", "lookup", "link", "creating", "dirop"} :
       AtStep(t, s)
  /\ GotoStep(t, 0)
  /\ UNCHANGED <<op, held, vfs, readonly, busy>>

Uncount(f, ds) == [d \in DOMAIN f |-> IF d \in ds THEN f[d] - 1 ELSE f[d]]
MountsOf(ds) == {MountOf[d] : d \in ds}

\* end_dirop, end_creating_path, end_renaming: an error pointer unlocks nothing.
Unlocked(g) == [d \in Dirs |-> IF g.live /\ d \in g.dirs THEN NoTask ELSE dirLock[d]]

\* Drop of the guard on top.
DropGuard(t, g) ==
  /\ dirLock' = IF g.kind \in {"creating", "dirop", "renaming"} THEN Unlocked(g) ELSE dirLock
  /\ renameLock' = IF g.kind = "renaming" /\ renameLock = t THEN NoTask ELSE renameLock
  /\ pathRefs' = CASE g.kind \in {"path", "creating"} -> Uncount(pathRefs, g.dirs)
               [] g.kind = "renaming" -> Uncount(pathRefs, {op[t].dir})
               [] OTHER -> pathRefs
  /\ writers' = IF g.kind \in {"write", "creating"}
                THEN Uncount(writers, MountsOf(g.dirs)) ELSE writers
  /\ busy' = IF g.kind = "slot" THEN busy \ {t} ELSE busy

Unwind(t) ==
  /\ op[t] # Idle /\ step[t] = 0 /\ held[t] # <<>>
  /\ DropGuard(t, held[t][Len(held[t])])
  /\ held' = [held EXCEPT ![t] = SubSeq(@, 1, Len(@) - 1)]
  /\ UNCHANGED <<op, step, readonly>>

AnswerPath(t) ==
  /\ op[t] # Idle /\ step[t] = 0 /\ held[t] = <<>>
  /\ op' = [op EXCEPT ![t] = Idle]
  /\ UNCHANGED <<step, held, vfs, readonly, busy>>

\* A remount is refused while anybody writes.
Remount(m) ==
  /\ \/ m \in readonly /\ readonly' = readonly \ {m}
     \/ m \notin readonly /\ writers[m] = 0 /\ readonly' = readonly \cup {m}
  /\ UNCHANGED <<op, step, held, vfs, busy>>

\* The steps that wait for a lock of the VFS.
Locking(t) ==
  Lookup(t) \/ StartCreating(t) \/ StartRemoving(t) \/ RenameMutex(t) \/ LockParent(t)

PathRunning(t) ==
  \/ Claim(t) \/ Copy(t) \/ Snapshot(t) \/ Split(t) \/ GetLink(t) \/ SameMount(t)
  \/ WantWrite(t) \/ DeclareVictim(t) \/ HoldVictim(t) \/ StartRenaming(t)
  \/ RenamingFails(t) \/ Call(t) \/ Mkdir(t) \/ ReadOnly(t) \/ Unwind(t) \/ AnswerPath(t)

PathNext ==
  \/ \E t \in Tasks : SubmitPath(t) \/ Locking(t) \/ PathRunning(t) \/ Fail(t)
  \/ \E m \in Mounts : Remount(m)

PathSpec == PathInit /\ [][PathNext]_pathVars

\* Tasks in the kernel run, and an rwsem or mutex is handed to who waits for it.
\* Nobody has to submit, fail or remount.
PathFairSpec ==
  /\ PathSpec
  /\ \A t \in Tasks : WF_pathVars(PathRunning(t)) /\ SF_pathVars(Locking(t))

-----------------------------------------------------------------------------
(* Properties.                                                              *)

\* What a guard says of the VFS is so for as long as the guard lives: the
\* directories of a section are locked by its task (whatever vfs_mkdir did to
\* the dentry), and nobody writes on a mount that was remounted read-only.
SectionsKept ==
  \A t \in Tasks : \A i \in DOMAIN held[t] :
    LET g == held[t][i] IN
    /\ g.kind \in {"creating", "dirop", "renaming"} /\ g.live
         => \A d \in g.dirs : dirLock[d] = t
    /\ g.kind \in {"write", "creating"} => MountsOf(g.dirs) \cap readonly = {}

\* The guards that hold a reference of a directory, a write count of a mount.
Guards == {x \in Tasks \X (1..9) : x[2] \in DOMAIN held[x[1]]}

Holding(d) ==
  {x \in Guards :
     LET g == held[x[1]][x[2]] IN
     \/ g.kind \in {"path", "creating"} /\ d \in g.dirs
     \/ g.kind = "renaming" /\ d = op[x[1]].dir}

Writing(m) ==
  {x \in Guards :
     LET g == held[x[1]][x[2]] IN g.kind \in {"write", "creating"} /\ m \in MountsOf(g.dirs)}

\* Nothing is leaked and nothing is put twice on any way out: references,
\* write counts, claims of slots and locks are those of the guards that live.
Balanced ==
  /\ \A d \in Dirs : pathRefs[d] = Cardinality(Holding(d))
  /\ \A m \in Mounts : writers[m] = Cardinality(Writing(m))
  /\ busy = {t \in Tasks : \E i \in DOMAIN held[t] : held[t][i].kind = "slot"}
  /\ \A d \in Dirs, t \in Tasks :
       dirLock[d] = t =>
         \/ AtStep(t, "renaming")
         \/ \E i \in DOMAIN held[t] : d \in held[t][i].dirs /\ held[t][i].live

\* The last reference to an unlinked inode truncates the file: UNLINK never puts
\* it while it holds a directory's lock (koru_path.rs:298).
IputOutsideLock ==
  \A t \in Tasks :
    LET top == held[t][Len(held[t])] IN
    (op[t] # Idle /\ step[t] = 0 /\ held[t] # <<>> /\ top.kind = "victim" /\ top.live)
      => \A d \in Dirs : dirLock[d] # t

\* Directories are locked while, and only while, an operation needs them so.
LocksKept == SectionsKept /\ IputOutsideLock

\* Path operations of different rings do not block each other for ever: two
\* renames, a rename and its own lookups, a removal and a creation.
PathOpsEnd == \A t \in Tasks : []<>(op[t] = Idle)

=============================================================================
