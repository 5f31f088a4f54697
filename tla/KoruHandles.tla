----------------------------- MODULE KoruHandles -----------------------------
(***************************************************************************)
(* The handle table of a ring (HandleTable, kernel/koru.rs) and READDIR,   *)
(* the one operation that claims a handle as well as a slot                *)
(* (kernel/koru_ops.rs).                                                   *)
(*                                                                         *)
(* A handle is an index into the table and the entry's generation.  OPEN,  *)
(* ADOPT_FD, CLOSE and the submission of a READDIR run under submit_lock,  *)
(* one at a time; workers finish READDIRs whenever they like.  The `handles'*)
(* mutex and the `state' spinlock are never held across a step.            *)
(*                                                                         *)
(* An OPEN makes a file of its own.  ADOPT_FD inserts the file of a        *)
(* descriptor the task already has, which may be in the table already.     *)
(***************************************************************************)
EXTENDS Naturals, Sequences, FiniteSets

CONSTANTS Count,        \* handle_count, the entries of the table
          MaxGen,       \* the largest generation: 2^16 - 1 in the code
          Files,        \* directories that OPEN opens, each once
          Adoptable,    \* directories whose descriptor a task may adopt, any number of times
          NoFile,       \* no file
          Slots,        \* arena slots
          MaxJobs,      \* bound: READDIRs ever submitted
          MaxOpens,     \* bound: handles ever issued
          MayFail       \* whether the deferral of a READDIR may fail

Indices == 1..Count
Jobs == 1..MaxJobs
AllFiles == Files \cup Adoptable \cup {NoFile}

ASSUME CountAssumption == Count \in Nat \ {0} /\ MaxGen \in Nat \ {0}
ASSUME BoundsAssumption == MaxJobs \in Nat /\ MaxOpens \in Nat /\ MayFail \in BOOLEAN
ASSUME FilesAssumption == Files \cap Adoptable = {} /\ NoFile \notin Files \cup Adoptable
\* koru_setup refuses a slot_count of 0.
ASSUME SlotsAssumption == Slots # {}

VARIABLES table,        \* HandleTable::entries
          slotBusy,     \* RingState::slot_busy
          job,          \* each READDIR: [index, gen, slot, file]
          stage,        \* where it is
          submitting,   \* the READDIR the submitter has in hand, or 0
          seeker,       \* whose cookie a file's f_pos was last moved to
          issued,       \* the handles issued, in order
          opened        \* the files OPEN has opened

vars == <<table, slotBusy, job, stage, submitting, seeker, issued, opened>>

\* resolved, claimed and slotted: submitted so far.  refused: its slot is
\* released, its claim is not.  read: f_pos is where the READDIR left it.
\* unclaimed: its claim is released, its slot is not.  done: its CQE is visible.
Stages == {"free", "resolved", "claimed", "slotted", "refused", "queued", "running", "sought",
           "read", "unclaimed", "done"}

NoJob == [index |-> 1, gen |-> 1, slot |-> CHOOSE s \in Slots : TRUE, file |-> NoFile]

\* alloc: generations start at 1, so no handle is 0.
Init ==
  /\ table = [i \in Indices |-> [file |-> NoFile, gen |-> 1, busy |-> FALSE]]
  /\ slotBusy = {}
  /\ job = [j \in Jobs |-> NoJob]
  /\ stage = [j \in Jobs |-> "free"]
  /\ submitting = 0
  /\ seeker = [f \in AllFiles |-> 0]
  /\ issued = <<>>
  /\ opened = {}

\* After `release' the table is empty.
Released == table = <<>>

Advance(j, to) == stage' = [stage EXCEPT ![j] = to]

\* By index, not by handle.
Unclaimed(j) ==
  IF Released THEN table ELSE [table EXCEPT ![job[j].index].busy = FALSE]

\* Does this handle name an open file?
Names(h) == table[h.index].gen = h.gen /\ table[h.index].file # NoFile

-----------------------------------------------------------------------------
(* Variants with one plausible mistake each, which no specification uses:  *)
(* they document what the properties rule out.                             *)

\* A generation that does not move.
NextGenStuck(g) == g

\* A new file on an entry a READDIR still claims.
AvailableThoughBusy == {i \in Indices : table[i].file = NoFile}

\* The claim outlives a READDIR that found no slot.
NoSlotKeepsClaim(j) ==
  /\ stage[j] = "claimed"
  /\ job[j].slot \in slotBusy
  /\ Advance(j, "done")
  /\ submitting' = 0
  /\ UNCHANGED <<table, slotBusy, job, seeker, issued, opened>>

\* A READDIR that does not look whether another one holds the handle.
ClaimRegardless(j) ==
  /\ stage[j] = "resolved"
  /\ table' = [table EXCEPT ![job[j].index].busy = TRUE]
  /\ Advance(j, "claimed")
  /\ UNCHANGED <<slotBusy, job, submitting, seeker, issued, opened>>

\* The completion first, the claim afterwards.
CompleteThenRelease(j) ==
  /\ stage[j] = "read"
  /\ slotBusy' = slotBusy \ {job[j].slot}
  /\ Advance(j, "done")
  /\ UNCHANGED <<table, job, submitting, seeker, issued, opened>>

-----------------------------------------------------------------------------
(* OPEN, ADOPT_FD, CLOSE.                                                  *)

\* The next generation of an entry: 0 is skipped.
NextGen(g) == IF g = MaxGen THEN 1 ELSE g + 1

\* insert skips busy entries: the claim belongs to no new file.
Available == {i \in Indices : table[i].file = NoFile /\ ~table[i].busy}

\* The first available entry.  (With none, EMFILE, and nothing changes.)
Insert(f) ==
  /\ submitting = 0 /\ ~Released
  /\ Len(issued) < MaxOpens
  /\ \E i \in Available :
       /\ \A k \in Available : i <= k
       /\ table' = [table EXCEPT ![i].file = f]
       /\ issued' = Append(issued, [index |-> i, gen |-> table[i].gen])
  /\ UNCHANGED <<slotBusy, job, stage, submitting, seeker>>

Open(f) ==
  /\ f \in Files \ opened
  /\ Insert(f)
  /\ opened' = opened \cup {f}

Adopt(f) == Insert(f) /\ UNCHANGED opened

\* A stale handle, or one closed twice, is EBADF and changes nothing.
Close(h) ==
  /\ submitting = 0 /\ ~Released
  /\ Names(h)
  /\ table' = [table EXCEPT ![h.index].file = NoFile, ![h.index].gen = NextGen(@)]
  /\ UNCHANGED <<slotBusy, job, stage, submitting, seeker, issued, opened>>

-----------------------------------------------------------------------------
(* READDIR: submission.                                                    *)

\* readdir_validate.  The operation keeps the file it resolved to.
Readdir(j, h, s) ==
  /\ submitting = 0 /\ ~Released
  /\ stage[j] = "free" /\ \A k \in 1..(j - 1) : stage[k] # "free"
  /\ Names(h)
  /\ job' = [job EXCEPT ![j] = [index |-> h.index, gen |-> h.gen, slot |-> s,
                                file |-> table[h.index].file]]
  /\ Advance(j, "resolved")
  /\ submitting' = j
  /\ UNCHANGED <<table, slotBusy, seeker, issued, opened>>

\* try_claim.
Claim(j) ==
  /\ stage[j] = "resolved"
  /\ ~table[job[j].index].busy
  /\ table' = [table EXCEPT ![job[j].index].busy = TRUE]
  /\ Advance(j, "claimed")
  /\ UNCHANGED <<slotBusy, job, submitting, seeker, issued, opened>>

\* EBUSY.
ClaimBusy(j) ==
  /\ stage[j] = "resolved"
  /\ table[job[j].index].busy
  /\ Advance(j, "done")
  /\ submitting' = 0
  /\ UNCHANGED <<table, slotBusy, job, seeker, issued, opened>>

TakeSlot(j) ==
  /\ stage[j] = "claimed"
  /\ job[j].slot \notin slotBusy
  /\ slotBusy' = slotBusy \cup {job[j].slot}
  /\ Advance(j, "slotted")
  /\ UNCHANGED <<table, job, submitting, seeker, issued, opened>>

\* EBUSY; the claim is given back.
NoSlot(j) ==
  /\ stage[j] = "claimed"
  /\ job[j].slot \in slotBusy
  /\ table' = Unclaimed(j)
  /\ Advance(j, "done")
  /\ submitting' = 0
  /\ UNCHANGED <<slotBusy, job, seeker, issued, opened>>

Defer(j) ==
  /\ stage[j] = "slotted"
  /\ Advance(j, "queued")
  /\ submitting' = 0
  /\ UNCHANGED <<table, slotBusy, job, seeker, issued, opened>>

\* The slot and then the claim are given back.
DeferFails(j) ==
  /\ MayFail
  /\ stage[j] = "slotted"
  /\ slotBusy' = slotBusy \ {job[j].slot}
  /\ Advance(j, "refused")
  /\ UNCHANGED <<table, job, submitting, seeker, issued, opened>>

Refuse(j) ==
  /\ stage[j] = "refused"
  /\ table' = Unclaimed(j)
  /\ Advance(j, "done")
  /\ submitting' = 0
  /\ UNCHANGED <<slotBusy, job, seeker, issued, opened>>

-----------------------------------------------------------------------------
(* READDIR: the worker, and a CANCEL.                                      *)

Start(j) ==
  /\ stage[j] = "queued"
  /\ Advance(j, "running")
  /\ UNCHANGED <<table, slotBusy, job, submitting, seeker, issued, opened>>

\* vfs_llseek moves f_pos to the cookie in the SQE.
Seek(j) ==
  /\ stage[j] = "running"
  /\ seeker' = [seeker EXCEPT ![job[j].file] = j]
  /\ Advance(j, "sought")
  /\ UNCHANGED <<table, slotBusy, job, submitting, issued, opened>>

\* iterate_dir reads from f_pos on.
Iterate(j) ==
  /\ stage[j] = "sought"
  /\ Advance(j, "read")
  /\ UNCHANGED <<table, slotBusy, job, submitting, seeker, issued, opened>>

\* The claim goes before the completion, on whichever path completes it.
ReleaseHandle(j) ==
  /\ stage[j] = "read"
  /\ table' = Unclaimed(j)
  /\ Advance(j, "unclaimed")
  /\ UNCHANGED <<slotBusy, job, submitting, seeker, issued, opened>>

\* A CANCEL dequeued it.
CancelReleases(j) ==
  /\ submitting = 0 /\ ~Released
  /\ stage[j] = "queued"
  /\ table' = Unclaimed(j)
  /\ Advance(j, "unclaimed")
  /\ submitting' = j
  /\ UNCHANGED <<slotBusy, job, seeker, issued, opened>>

\* complete: the slot is free when the CQE is visible.
Complete(j) ==
  /\ stage[j] = "unclaimed"
  /\ slotBusy' = slotBusy \ {job[j].slot}
  /\ Advance(j, "done")
  /\ submitting' = IF submitting = j THEN 0 ELSE submitting
  /\ UNCHANGED <<table, job, seeker, issued, opened>>

\* The last close of the ring drains the table, with READDIRs still running.
Release ==
  /\ submitting = 0 /\ ~Released
  /\ table' = <<>>
  /\ UNCHANGED <<slotBusy, job, stage, submitting, seeker, issued, opened>>

-----------------------------------------------------------------------------
Handles == {issued[n] : n \in 1..Len(issued)}

Next ==
  \/ \E f \in Files : Open(f)
  \/ \E f \in Adoptable : Adopt(f)
  \/ \E h \in Handles : Close(h)
  \/ \E j \in Jobs :
       \/ \E h \in Handles, s \in Slots : Readdir(j, h, s)
       \/ Claim(j) \/ ClaimBusy(j) \/ TakeSlot(j) \/ NoSlot(j) \/ Defer(j) \/ DeferFails(j)
       \/ Refuse(j)
       \/ Start(j) \/ Seek(j) \/ Iterate(j) \/ ReleaseHandle(j) \/ CancelReleases(j)
       \/ Complete(j)
  \/ Release

Spec == Init /\ [][Next]_vars

-----------------------------------------------------------------------------
(* Properties.                                                             *)

Entry == [file : AllFiles, gen : 1..MaxGen, busy : BOOLEAN]
Handle == [index : Indices, gen : 1..MaxGen]
Job == [index : Indices, gen : 1..MaxGen, slot : Slots, file : AllFiles]

TypeOK ==
  /\ table \in [Indices -> Entry] \/ Released
  /\ slotBusy \subseteq Slots
  /\ job \in [Jobs -> Job]
  /\ stage \in [Jobs -> Stages]
  /\ submitting \in 0..MaxJobs
  /\ seeker \in [AllFiles -> 0..MaxJobs]
  /\ issued \in Seq(Handle)
  /\ opened \subseteq Files

Claiming == {j \in Jobs : stage[j] \in {"claimed", "slotted", "refused", "queued", "running",
                                       "sought", "read"}}
Slotted == {j \in Jobs : stage[j] \in {"slotted", "queued", "running", "sought", "read",
                                      "unclaimed"}}

\* Every completion path gives back both claims, or the handle stays wedged for
\* the life of the ring (the comment on release_handle): an entry is busy
\* exactly while one READDIR claims it, and a slot while one holds it.
ClaimsExact ==
  /\ ~Released => {i \in Indices : table[i].busy} = {job[j].index : j \in Claiming}
  /\ \A j, k \in Claiming : ~Released /\ job[j].index = job[k].index => j = k
  /\ slotBusy = {job[j].slot : j \in Slotted}
  /\ \A j, k \in Slotted : job[j].slot = job[k].slot => j = k

\* A CLOSE in the middle of a READDIR leaves the entry claimed but empty, and no
\* new file inherits the claim (the comment in insert).
ClaimNamesItsFile ==
  \A j \in Claiming : ~Released => table[job[j].index].file \in {NoFile, job[j].file}

\* Userspace may reuse the handle, and the slot, the moment it sees the CQE (the
\* comment in run): a READDIR is refused only for one whose CQE is not visible.
NoStaleBusy ==
  [][\A j \in Jobs :
       /\ stage[j] = "resolved" /\ stage'[j] = "done" =>
            \E k \in Jobs \ {j} : job[k].index = job[j].index /\ stage[k] # "done"
       /\ stage[j] = "claimed" /\ stage'[j] = "done" =>
            \E k \in Jobs \ {j} : job[k].slot = job[j].slot /\ stage[k] # "done"]_vars

\* doc/Notes.md, "Reading a directory": two reads of one directory never
\* interleave one position, or they would lose or duplicate entries.  The claim
\* is on the handle: it keeps the reads of a file apart that one OPEN made, not
\* those of a descriptor that was adopted twice.
ReadsFromItsCookie ==
  \A j \in Jobs : stage[j] = "sought" /\ job[j].file \in Files => seeker[job[j].file] = j

\* A closed handle is not issued again until the generation of its entry has
\* gone all the way round.
NoEarlyReuse ==
  \A m, n \in 1..Len(issued) :
    m < n /\ issued[m] = issued[n] =>
      Cardinality({k \in m..(n - 1) : issued[k].index = issued[n].index}) >= MaxGen
=============================================================================
