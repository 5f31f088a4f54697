------------------------- MODULE KoruHandlesProofs -------------------------
(***************************************************************************)
(* Proofs about KoruHandles, for tables, slots and READDIRs of any number. *)
(*                                                                         *)
(* The claims are exact because a READDIR is submitted alone: from the     *)
(* moment it resolves its handle to the moment it is queued or refused,    *)
(* nobody else touches the table but to give a claim back (SubmitterInv).  *)
(* That one opened directory is read by one READDIR at a time needs a      *)
(* second argument: an opened file is in one entry and never in another    *)
(* again (HomeInv), so READDIRs of one file claim one entry.               *)
(***************************************************************************)
EXTENDS KoruHandles, Integers, FiniteSetTheorems, TLAPS

USE CountAssumption, BoundsAssumption, FilesAssumption, SlotsAssumption
    DEF Indices, Jobs, Advance

\* The stages of a READDIR that its submitter has in hand.
Submission == {"resolved", "claimed", "slotted", "refused"}

SubmitterInv ==
  \A j \in Jobs : stage[j] \in Submission => submitting = j /\ table \in [Indices -> Entry]

\* Claims on one entry never meet, the table drained or not.
ClaimInv == \A j, k \in Claiming : job[j].index = job[k].index => j = k

BusyInv ==
  ~Released => \A i \in Indices : table[i].busy <=> \E j \in Claiming : job[j].index = i

SlotInv ==
  /\ \A s \in Slots : s \in slotBusy <=> \E j \in Slotted : job[j].slot = s
  /\ \A j, k \in Slotted : job[j].slot = job[k].slot => j = k

\* From the moment a READDIR has resolved its handle, the entry has its file or
\* none.
FileInv ==
  ~Released =>
    \A j \in Jobs :
      j \in Claiming \/ stage[j] = "resolved" =>
        table[job[j].index].file \in {NoFile, job[j].file}

\* Where an opened file is, and where it was when READDIRs of it were submitted.
TableHome ==
  ~Released =>
    \A i \in Indices :
      table[i].file \in Files =>
        /\ table[i].file \in opened
        /\ \A k \in Indices : table[k].file = table[i].file => k = i
        /\ \A j \in Jobs : job[j].file = table[i].file => job[j].index = i

JobHome ==
  \A j \in Jobs :
    job[j].file \in Files =>
      /\ job[j].file \in opened
      /\ \A k \in Jobs : job[k].file = job[j].file => job[k].index = job[j].index

HomeInv == TableHome /\ JobHome

HandlesInv ==
  TypeOK /\ SubmitterInv /\ ClaimInv /\ BusyInv /\ SlotInv /\ FileInv /\ HomeInv
  /\ ReadsFromItsCookie

-----------------------------------------------------------------------------
(* Types.                                                                  *)

LEMMA HandlesInit == Init => HandlesInv
  <1> SUFFICES ASSUME Init PROVE HandlesInv
    OBVIOUS
  <1> USE DEF Init
  <1>1. NoJob \in Job
    BY DEF NoJob, Job, AllFiles
  <1>2. TypeOK
    BY <1>1 DEF TypeOK, Entry, Stages, AllFiles
  <1>3. Claiming = {} /\ Slotted = {}
    BY DEF Claiming, Slotted
  <1>4. SubmitterInv /\ ClaimInv /\ SlotInv /\ ReadsFromItsCookie
    BY <1>3 DEF SubmitterInv, ClaimInv, SlotInv, ReadsFromItsCookie, Submission
  <1>5. BusyInv /\ FileInv
    BY <1>3 DEF BusyInv, FileInv
  <1>6. HomeInv
    BY DEF HomeInv, TableHome, JobHome, NoJob
  <1> QED
    BY <1>2, <1>4, <1>5, <1>6 DEF HandlesInv

-----------------------------------------------------------------------------
(* Steps.                                                                  *)

\* What a step of one READDIR does to the table, the slots and the READDIRs;
\* with none in the submitter's hand, OPEN, ADOPT_FD and CLOSE are the rest.
Tabling == \/ \E f \in Files : Open(f)
           \/ \E f \in Adoptable : Adopt(f)
           \/ \E h \in Handles : Close(h)

Submitting(j) == \/ Claim(j) \/ ClaimBusy(j) \/ TakeSlot(j) \/ NoSlot(j)
                 \/ Defer(j) \/ DeferFails(j) \/ Refuse(j)

Working(j) == Start(j) \/ Seek(j) \/ Iterate(j) \/ ReleaseHandle(j) \/ CancelReleases(j) \/ Complete(j)

LEMMA NextIs ==
  ASSUME Next
  PROVE  \/ Tabling
         \/ \E j \in Jobs, h \in Handles, s \in Slots : Readdir(j, h, s)
         \/ \E j \in Jobs : Submitting(j) \/ Working(j)
         \/ Release
  BY Zenon DEF Next, Tabling, Submitting, Working

LEMMA HandleTypes ==
  ASSUME TypeOK, NEW h \in Handles
  PROVE  h \in Handle
  BY DEF TypeOK, Handles

LEMMA UnclaimedTypes ==
  ASSUME TypeOK, NEW j \in Jobs
  PROVE  /\ table \in [Indices -> Entry] => Unclaimed(j) \in [Indices -> Entry]
         /\ Released => Unclaimed(j) = <<>>
  <1>1. job[j].index \in Indices
    BY DEF TypeOK, Job
  <1>2. Released => Unclaimed(j) = <<>>
    BY DEF Unclaimed, Released
  <1>3. ASSUME table \in [Indices -> Entry]
        PROVE  Unclaimed(j) \in [Indices -> Entry]
    <2>1. CASE Released
      BY <1>3, <2>1 DEF Unclaimed
    <2>2. CASE ~Released
      BY <1>1, <1>3, <2>2 DEF Unclaimed, Entry
    <2> QED
      BY <2>1, <2>2
  <1> QED
    BY <1>2, <1>3

\* What an Insert leaves: a file on one entry that was free.
LEMMA InsertDoes ==
  ASSUME TypeOK, NEW f \in AllFiles, Insert(f)
  PROVE  \E i \in Available :
           /\ table \in [Indices -> Entry] /\ submitting = 0
           /\ table' \in [Indices -> Entry]
           /\ \A k \in Indices : table'[k].file = IF k = i THEN f ELSE table[k].file
           /\ \A k \in Indices : table'[k].busy = table[k].busy /\ table'[k].gen = table[k].gen
           /\ issued' \in Seq(Handle)
           /\ issued' = Append(issued, [index |-> i, gen |-> table[i].gen])
  <1>1. PICK i \in Available :
          /\ table' = [table EXCEPT ![i].file = f]
          /\ issued' = Append(issued, [index |-> i, gen |-> table[i].gen])
    BY DEF Insert
  <1>2. table \in [Indices -> Entry] /\ submitting = 0
    BY DEF Insert, TypeOK, Released
  <1>3. i \in Indices
    BY DEF Available
  <1>4. table' \in [Indices -> Entry]
    BY <1>1, <1>2, <1>3 DEF Entry
  <1>5. issued' \in Seq(Handle)
    BY <1>1, <1>2, <1>3 DEF Entry, Handle, TypeOK
  <1>6. \A k \in Indices :
          /\ table'[k].file = IF k = i THEN f ELSE table[k].file
          /\ table'[k].busy = table[k].busy
          /\ table'[k].gen = table[k].gen
    BY <1>1, <1>2, <1>3 DEF Entry
  <1> QED
    BY <1>1, <1>2, <1>4, <1>5, <1>6

\* What a Close leaves.
LEMMA CloseDoes ==
  ASSUME TypeOK, NEW h \in Handles, Close(h)
  PROVE  /\ table \in [Indices -> Entry] /\ h.index \in Indices
         /\ table' \in [Indices -> Entry]
         /\ \A k \in Indices :
              /\ table'[k].file = IF k = h.index THEN NoFile ELSE table[k].file
              /\ table'[k].busy = table[k].busy
              /\ table'[k].gen = IF k = h.index THEN NextGen(table[k].gen) ELSE table[k].gen
  <1>1. h.index \in Indices /\ table \in [Indices -> Entry]
    BY HandleTypes DEF Close, TypeOK, Released, Handle
  <1>2. NextGen(table[h.index].gen) \in 1..MaxGen
    BY <1>1 DEF NextGen, Entry
  <1>3. table' = [table EXCEPT ![h.index].file = NoFile,
                               ![h.index].gen = NextGen(table[h.index].gen)]
    BY <1>1 DEF Close, Entry
  <1>4. table' \in [Indices -> Entry]
    BY <1>1, <1>2, <1>3 DEF Entry, AllFiles
  <1>5. ASSUME NEW k \in Indices
        PROVE  /\ table'[k].file = IF k = h.index THEN NoFile ELSE table[k].file
               /\ table'[k].busy = table[k].busy
               /\ table'[k].gen = IF k = h.index THEN NextGen(table[k].gen) ELSE table[k].gen
    BY <1>1, <1>2, <1>3 DEF Entry, AllFiles
  <1> QED
    BY <1>1, <1>4, <1>5

LEMMA TypeStep ==
  ASSUME TypeOK, SubmitterInv, [Next]_vars
  PROVE  TypeOK'
  <1>1. ASSUME NEW f \in Files, Open(f)
        PROVE  TypeOK'
    BY <1>1, InsertDoes DEF Open, Insert, TypeOK, AllFiles
  <1>2. ASSUME NEW f \in Adoptable, Adopt(f)
        PROVE  TypeOK'
    BY <1>2, InsertDoes DEF Adopt, Insert, TypeOK, AllFiles
  <1>3. ASSUME NEW h \in Handles, Close(h)
        PROVE  TypeOK'
    BY <1>3, CloseDoes DEF Close, TypeOK
  <1>4. ASSUME NEW j \in Jobs, NEW h \in Handles, NEW s \in Slots, Readdir(j, h, s)
        PROVE  TypeOK'
    <2>1. h \in Handle /\ table \in [Indices -> Entry]
      BY <1>4, HandleTypes DEF Readdir, TypeOK, Released
    <2>2. [index |-> h.index, gen |-> h.gen, slot |-> s, file |-> table[h.index].file] \in Job
      BY <2>1 DEF Handle, Entry, Job
    <2> QED
      BY <1>4, <2>1, <2>2 DEF Readdir, TypeOK, Stages
  <1>5. ASSUME NEW j \in Jobs, Claim(j)
        PROVE  TypeOK'
    <2>1. table \in [Indices -> Entry]
      BY <1>5 DEF Claim, SubmitterInv, Submission
    <2>2. job[j].index \in Indices
      BY DEF TypeOK, Job
    <2>3. table' \in [Indices -> Entry]
      BY <1>5, <2>1, <2>2 DEF Claim, Entry
    <2>4. stage' \in [Jobs -> Stages]
      BY <1>5 DEF Claim, TypeOK, Stages
    <2> QED
      BY <1>5, <2>3, <2>4 DEF Claim, TypeOK
  <1>6. ASSUME NEW j \in Jobs, ClaimBusy(j)
        PROVE  TypeOK'
    BY <1>6 DEF ClaimBusy, TypeOK, Stages, Released
  <1>7. ASSUME NEW j \in Jobs, TakeSlot(j)
        PROVE  TypeOK'
    BY <1>7 DEF TakeSlot, TypeOK, Stages, Job, Released
  <1>8. ASSUME NEW j \in Jobs, NoSlot(j)
        PROVE  TypeOK'
    BY <1>8, UnclaimedTypes DEF NoSlot, TypeOK, Stages, Released
  <1>9. ASSUME NEW j \in Jobs, Defer(j)
        PROVE  TypeOK'
    BY <1>9 DEF Defer, TypeOK, Stages, Released
  <1>10. ASSUME NEW j \in Jobs, DeferFails(j)
        PROVE  TypeOK'
    BY <1>10 DEF DeferFails, TypeOK, Stages, Released
  <1>11. ASSUME NEW j \in Jobs, Refuse(j)
        PROVE  TypeOK'
    BY <1>11, UnclaimedTypes DEF Refuse, TypeOK, Stages, Released
  <1>12. ASSUME NEW j \in Jobs, Start(j)
        PROVE  TypeOK'
    BY <1>12 DEF Start, TypeOK, Stages, Released
  <1>13. ASSUME NEW j \in Jobs, Seek(j)
        PROVE  TypeOK'
    BY <1>13 DEF Seek, TypeOK, Stages, Job, Released
  <1>14. ASSUME NEW j \in Jobs, Iterate(j)
        PROVE  TypeOK'
    BY <1>14 DEF Iterate, TypeOK, Stages, Released
  <1>15. ASSUME NEW j \in Jobs, ReleaseHandle(j)
        PROVE  TypeOK'
    BY <1>15, UnclaimedTypes DEF ReleaseHandle, TypeOK, Stages, Released
  <1>16. ASSUME NEW j \in Jobs, CancelReleases(j)
        PROVE  TypeOK'
    BY <1>16, UnclaimedTypes DEF CancelReleases, TypeOK, Stages, Released
  <1>17. ASSUME NEW j \in Jobs, Complete(j)
        PROVE  TypeOK'
    BY <1>17 DEF Complete, TypeOK, Stages, Released
  <1>18. CASE Release
    BY <1>18 DEF Release, TypeOK, Released
  <1>19. CASE UNCHANGED vars
    BY <1>19 DEF vars, TypeOK, Released
  <1> QED
    BY Zenon, <1>1, <1>2, <1>3, <1>4, <1>5, <1>6, <1>7, <1>8, <1>9, <1>10, <1>11, <1>12, <1>13, <1>14, <1>15, <1>16, <1>17, <1>18, <1>19, NextIs DEF Tabling, Submitting, Working

\* What giving a claim back, and taking one, do to the entries.
LEMMA UnclaimedIs ==
  ASSUME TypeOK, NEW j \in Jobs, ~Released
  PROVE  \A i \in Indices :
           /\ Unclaimed(j)[i].file = table[i].file /\ Unclaimed(j)[i].gen = table[i].gen
           /\ Unclaimed(j)[i].busy <=> i # job[j].index /\ table[i].busy
  <1>1. table \in [Indices -> Entry] /\ job[j].index \in Indices
    BY DEF TypeOK, Job
  <1>2. Unclaimed(j) = [table EXCEPT ![job[j].index].busy = FALSE]
    BY DEF Unclaimed
  <1> QED
    BY <1>1, <1>2 DEF Entry

LEMMA ClaimIs ==
  ASSUME TypeOK, SubmitterInv, NEW j \in Jobs, Claim(j)
  PROVE  /\ table \in [Indices -> Entry] /\ table' \in [Indices -> Entry]
         /\ \A i \in Indices :
              /\ table'[i].file = table[i].file /\ table'[i].gen = table[i].gen
              /\ table'[i].busy <=> i = job[j].index \/ table[i].busy
  <1>1. table \in [Indices -> Entry]
    BY DEF Claim, SubmitterInv, Submission
  <1>2. job[j].index \in Indices
    BY DEF TypeOK, Job
  <1> QED
    BY <1>1, <1>2 DEF Claim, Entry

LEMMA TableStands ==
  ASSUME table \in [Indices -> Entry]
  PROVE  ~Released
  <1>1. DOMAIN table = 1..Count /\ 1 \in 1..Count
    OBVIOUS
  <1>2. DOMAIN <<>> = {}
    OBVIOUS
  <1> QED
    BY <1>1, <1>2 DEF Released

-----------------------------------------------------------------------------
(* The submitter has one READDIR in hand, and a table under it.            *)

LEMMA SubmitterStep ==
  ASSUME TypeOK, SubmitterInv, [Next]_vars
  PROVE  SubmitterInv'
  <1>1. ASSUME NEW f \in Files, Open(f)
        PROVE  SubmitterInv'
    BY <1>1, InsertDoes DEF Open, Insert, TypeOK, SubmitterInv, Submission
  <1>2. ASSUME NEW f \in Adoptable, Adopt(f)
        PROVE  SubmitterInv'
    BY <1>2, InsertDoes DEF Adopt, Insert, TypeOK, SubmitterInv, Submission
  <1>3. ASSUME NEW h \in Handles, Close(h)
        PROVE  SubmitterInv'
    BY <1>3, CloseDoes DEF Close, TypeOK, SubmitterInv, Submission
  <1>4. ASSUME NEW j \in Jobs, NEW h \in Handles, NEW s \in Slots, Readdir(j, h, s)
        PROVE  SubmitterInv'
    BY <1>4 DEF Readdir, Released, TypeOK, SubmitterInv, Submission
  <1>5. ASSUME NEW j \in Jobs, Claim(j)
        PROVE  SubmitterInv'
    BY <1>5, ClaimIs DEF Claim, TypeOK, SubmitterInv, Submission
  <1>6. ASSUME NEW j \in Jobs, ClaimBusy(j)
        PROVE  SubmitterInv'
    BY <1>6 DEF ClaimBusy, TypeOK, SubmitterInv, Submission
  <1>7. ASSUME NEW j \in Jobs, TakeSlot(j)
        PROVE  SubmitterInv'
    BY <1>7 DEF TakeSlot, TypeOK, SubmitterInv, Submission
  <1>8. ASSUME NEW j \in Jobs, NoSlot(j)
        PROVE  SubmitterInv'
    BY <1>8, UnclaimedTypes DEF NoSlot, TypeOK, SubmitterInv, Submission
  <1>9. ASSUME NEW j \in Jobs, Defer(j)
        PROVE  SubmitterInv'
    BY <1>9 DEF Defer, TypeOK, SubmitterInv, Submission
  <1>10. ASSUME NEW j \in Jobs, DeferFails(j)
        PROVE  SubmitterInv'
    BY <1>10 DEF DeferFails, TypeOK, SubmitterInv, Submission
  <1>11. ASSUME NEW j \in Jobs, Refuse(j)
        PROVE  SubmitterInv'
    BY <1>11, UnclaimedTypes DEF Refuse, TypeOK, SubmitterInv, Submission
  <1>12. ASSUME NEW j \in Jobs, Start(j)
        PROVE  SubmitterInv'
    BY <1>12 DEF Start, TypeOK, SubmitterInv, Submission
  <1>13. ASSUME NEW j \in Jobs, Seek(j)
        PROVE  SubmitterInv'
    BY <1>13 DEF Seek, TypeOK, SubmitterInv, Submission
  <1>14. ASSUME NEW j \in Jobs, Iterate(j)
        PROVE  SubmitterInv'
    BY <1>14 DEF Iterate, TypeOK, SubmitterInv, Submission
  <1>15. ASSUME NEW j \in Jobs, ReleaseHandle(j)
        PROVE  SubmitterInv'
    BY <1>15, UnclaimedTypes DEF ReleaseHandle, TypeOK, SubmitterInv, Submission
  <1>16. ASSUME NEW j \in Jobs, CancelReleases(j)
        PROVE  SubmitterInv'
    BY <1>16, UnclaimedTypes DEF CancelReleases, TypeOK, SubmitterInv, Submission
  <1>17. ASSUME NEW j \in Jobs, Complete(j)
        PROVE  SubmitterInv'
    BY <1>17 DEF Complete, TypeOK, SubmitterInv, Submission
  <1>18. CASE Release
    BY <1>18 DEF Release, TypeOK, SubmitterInv, Submission
  <1>19. CASE UNCHANGED vars
    BY <1>19 DEF vars, TypeOK, SubmitterInv, Submission
  <1> QED
    BY Zenon, <1>1, <1>2, <1>3, <1>4, <1>5, <1>6, <1>7, <1>8, <1>9, <1>10, <1>11, <1>12, <1>13, <1>14, <1>15, <1>16, <1>17, <1>18, <1>19, NextIs DEF Tabling, Submitting, Working

-----------------------------------------------------------------------------
(* Claims.                                                                 *)

\* Who claims an entry, and who holds a slot, after a step of one READDIR.
LEMMA ClaimingMoves ==
  ASSUME TypeOK, NEW j \in Jobs
  PROVE  /\ Claim(j) => j \notin Claiming /\ Claiming' = Claiming \cup {j} /\ job' = job
         /\ NoSlot(j) \/ Refuse(j) \/ ReleaseHandle(j) \/ CancelReleases(j) =>
              j \in Claiming /\ Claiming' = Claiming \ {j} /\ job' = job
         /\ \/ ClaimBusy(j) \/ TakeSlot(j) \/ Defer(j) \/ DeferFails(j) \/ Start(j) \/ Seek(j)
            \/ Iterate(j) \/ Complete(j)
            => Claiming' = Claiming /\ job' = job
  <1> USE DEF TypeOK, Claiming
  <1>1. Claim(j) => j \notin Claiming /\ Claiming' = Claiming \cup {j} /\ job' = job
    BY DEF Claim
  <1>2. NoSlot(j) => j \in Claiming /\ Claiming' = Claiming \ {j} /\ job' = job
    BY DEF NoSlot
  <1>3. Refuse(j) => j \in Claiming /\ Claiming' = Claiming \ {j} /\ job' = job
    BY DEF Refuse
  <1>4. ReleaseHandle(j) => j \in Claiming /\ Claiming' = Claiming \ {j} /\ job' = job
    BY DEF ReleaseHandle
  <1>5. CancelReleases(j) => j \in Claiming /\ Claiming' = Claiming \ {j} /\ job' = job
    BY DEF CancelReleases
  <1>6. ClaimBusy(j) => Claiming' = Claiming /\ job' = job
    BY DEF ClaimBusy
  <1>7. TakeSlot(j) => Claiming' = Claiming /\ job' = job
    BY DEF TakeSlot
  <1>8. Defer(j) => Claiming' = Claiming /\ job' = job
    BY DEF Defer
  <1>9. DeferFails(j) => Claiming' = Claiming /\ job' = job
    BY DEF DeferFails
  <1>10. Start(j) => Claiming' = Claiming /\ job' = job
    BY DEF Start
  <1>11. Seek(j) => Claiming' = Claiming /\ job' = job
    BY DEF Seek
  <1>12. Iterate(j) => Claiming' = Claiming /\ job' = job
    BY DEF Iterate
  <1>13. Complete(j) => Claiming' = Claiming /\ job' = job
    BY DEF Complete
  <1> QED
    BY Zenon, <1>1, <1>2, <1>3, <1>4, <1>5, <1>6, <1>7, <1>8, <1>9, <1>10, <1>11, <1>12, <1>13

LEMMA SlottedMoves ==
  ASSUME TypeOK, NEW j \in Jobs
  PROVE  /\ TakeSlot(j) => j \notin Slotted /\ Slotted' = Slotted \cup {j} /\ job' = job
         /\ DeferFails(j) \/ Complete(j) =>
              j \in Slotted /\ Slotted' = Slotted \ {j} /\ job' = job
         /\ \/ Claim(j) \/ ClaimBusy(j) \/ NoSlot(j) \/ Defer(j) \/ Refuse(j) \/ Start(j) \/ Seek(j)
            \/ Iterate(j) \/ ReleaseHandle(j) \/ CancelReleases(j)
            => Slotted' = Slotted /\ job' = job
  <1> USE DEF TypeOK, Slotted
  <1>1. TakeSlot(j) => j \notin Slotted /\ Slotted' = Slotted \cup {j} /\ job' = job
    BY DEF TakeSlot
  <1>2. DeferFails(j) => j \in Slotted /\ Slotted' = Slotted \ {j} /\ job' = job
    BY DEF DeferFails
  <1>3. Complete(j) => j \in Slotted /\ Slotted' = Slotted \ {j} /\ job' = job
    BY DEF Complete
  <1>4. Claim(j) => Slotted' = Slotted /\ job' = job
    BY DEF Claim
  <1>5. ClaimBusy(j) => Slotted' = Slotted /\ job' = job
    BY DEF ClaimBusy
  <1>6. NoSlot(j) => Slotted' = Slotted /\ job' = job
    BY DEF NoSlot
  <1>7. Defer(j) => Slotted' = Slotted /\ job' = job
    BY DEF Defer
  <1>8. Refuse(j) => Slotted' = Slotted /\ job' = job
    BY DEF Refuse
  <1>9. Start(j) => Slotted' = Slotted /\ job' = job
    BY DEF Start
  <1>10. Seek(j) => Slotted' = Slotted /\ job' = job
    BY DEF Seek
  <1>11. Iterate(j) => Slotted' = Slotted /\ job' = job
    BY DEF Iterate
  <1>12. ReleaseHandle(j) => Slotted' = Slotted /\ job' = job
    BY DEF ReleaseHandle
  <1>13. CancelReleases(j) => Slotted' = Slotted /\ job' = job
    BY DEF CancelReleases
  <1> QED
    BY Zenon, <1>1, <1>2, <1>3, <1>4, <1>5, <1>6, <1>7, <1>8, <1>9, <1>10, <1>11, <1>12, <1>13

LEMMA ClaimStep ==
  ASSUME TypeOK, SubmitterInv, BusyInv, ClaimInv, [Next]_vars
  PROVE  ClaimInv'
  <1>1. ASSUME NEW f \in Files, Open(f)
        PROVE  ClaimInv'
    BY <1>1 DEF Open, Insert, Claiming, ClaimInv
  <1>2. ASSUME NEW f \in Adoptable, Adopt(f)
        PROVE  ClaimInv'
    BY <1>2 DEF Adopt, Insert, Claiming, ClaimInv
  <1>3. ASSUME NEW h \in Handles, Close(h)
        PROVE  ClaimInv'
    BY <1>3 DEF Close, Claiming, ClaimInv
  <1>4. ASSUME NEW j \in Jobs, NEW h \in Handles, NEW s \in Slots, Readdir(j, h, s)
        PROVE  ClaimInv'
    BY <1>4 DEF Readdir, TypeOK, Claiming, ClaimInv
  <1>5. ASSUME NEW j \in Jobs, Claim(j)
        PROVE  ClaimInv'
    <2>1. ~table[job[j].index].busy /\ job[j].index \in Indices
      BY <1>5 DEF Claim, TypeOK, Job
    <2>2. \A k \in Claiming : job[k].index # job[j].index
      BY <1>5, <2>1, ClaimIs, TableStands DEF BusyInv
    <2> QED
      BY <1>5, <2>2, ClaimingMoves DEF ClaimInv
  <1>6. ASSUME NEW j \in Jobs, ClaimBusy(j)
        PROVE  ClaimInv'
    BY <1>6, ClaimingMoves DEF ClaimInv
  <1>7. ASSUME NEW j \in Jobs, TakeSlot(j)
        PROVE  ClaimInv'
    BY <1>7, ClaimingMoves DEF ClaimInv
  <1>8. ASSUME NEW j \in Jobs, NoSlot(j)
        PROVE  ClaimInv'
    BY <1>8, ClaimingMoves DEF ClaimInv
  <1>9. ASSUME NEW j \in Jobs, Defer(j)
        PROVE  ClaimInv'
    BY <1>9, ClaimingMoves DEF ClaimInv
  <1>10. ASSUME NEW j \in Jobs, DeferFails(j)
        PROVE  ClaimInv'
    BY <1>10, ClaimingMoves DEF ClaimInv
  <1>11. ASSUME NEW j \in Jobs, Refuse(j)
        PROVE  ClaimInv'
    BY <1>11, ClaimingMoves DEF ClaimInv
  <1>12. ASSUME NEW j \in Jobs, Start(j)
        PROVE  ClaimInv'
    BY <1>12, ClaimingMoves DEF ClaimInv
  <1>13. ASSUME NEW j \in Jobs, Seek(j)
        PROVE  ClaimInv'
    BY <1>13, ClaimingMoves DEF ClaimInv
  <1>14. ASSUME NEW j \in Jobs, Iterate(j)
        PROVE  ClaimInv'
    BY <1>14, ClaimingMoves DEF ClaimInv
  <1>15. ASSUME NEW j \in Jobs, ReleaseHandle(j)
        PROVE  ClaimInv'
    BY <1>15, ClaimingMoves DEF ClaimInv
  <1>16. ASSUME NEW j \in Jobs, CancelReleases(j)
        PROVE  ClaimInv'
    BY <1>16, ClaimingMoves DEF ClaimInv
  <1>17. ASSUME NEW j \in Jobs, Complete(j)
        PROVE  ClaimInv'
    BY <1>17, ClaimingMoves DEF ClaimInv
  <1>18. CASE Release
    BY <1>18 DEF Release, Claiming, ClaimInv
  <1>19. CASE UNCHANGED vars
    BY <1>19 DEF vars, Claiming, ClaimInv
  <1> QED
    BY Zenon, <1>1, <1>2, <1>3, <1>4, <1>5, <1>6, <1>7, <1>8, <1>9, <1>10, <1>11, <1>12, <1>13, <1>14, <1>15, <1>16, <1>17, <1>18, <1>19, NextIs DEF Tabling, Submitting, Working

LEMMA BusyStep ==
  ASSUME TypeOK, SubmitterInv, ClaimInv, BusyInv, [Next]_vars
  PROVE  BusyInv'
  <1>1. ASSUME NEW f \in Files, Open(f)
        PROVE  BusyInv'
    <2>1. table \in [Indices -> Entry] /\ \A k \in Indices : table'[k].busy = table[k].busy
      BY <1>1, InsertDoes DEF Open, AllFiles
    <2> QED
      BY <1>1, <2>1, TableStands DEF Open, Insert, BusyInv, Claiming
  <1>2. ASSUME NEW f \in Adoptable, Adopt(f)
        PROVE  BusyInv'
    <2>1. table \in [Indices -> Entry] /\ \A k \in Indices : table'[k].busy = table[k].busy
      BY <1>2, InsertDoes DEF Adopt, AllFiles
    <2> QED
      BY <1>2, <2>1, TableStands DEF Adopt, Insert, BusyInv, Claiming
  <1>3. ASSUME NEW h \in Handles, Close(h)
        PROVE  BusyInv'
    <2>1. table \in [Indices -> Entry] /\ \A k \in Indices : table'[k].busy = table[k].busy
      BY <1>3, CloseDoes
    <2> QED
      BY <1>3, <2>1, TableStands DEF Close, BusyInv, Claiming
  <1>4. ASSUME NEW j \in Jobs, NEW h \in Handles, NEW s \in Slots, Readdir(j, h, s)
        PROVE  BusyInv'
    BY ZenonT(40), <1>4 DEF Readdir, Released, TypeOK, Claiming, BusyInv
  <1>5. ASSUME NEW j \in Jobs, Claim(j)
        PROVE  BusyInv'
    <2> SUFFICES ASSUME ~Released', NEW i \in Indices
                 PROVE  table'[i].busy <=> \E k \in Claiming' : job'[k].index = i
      BY DEF BusyInv
    <2>1. ~Released
      BY <1>5, ClaimIs, TableStands
    <2>2. table'[i].busy <=> i = job[j].index \/ table[i].busy
      BY <1>5, ClaimIs
    <2>3. Claiming' = Claiming \cup {j} /\ job' = job
      BY <1>5, ClaimingMoves
    <2>4. table[i].busy <=> \E k \in Claiming : job[k].index = i
      BY <2>1 DEF BusyInv
    <2> QED
      BY Zenon, <2>2, <2>3, <2>4
  <1>6. ASSUME NEW j \in Jobs, ClaimBusy(j)
        PROVE  BusyInv'
    BY <1>6, ClaimingMoves DEF ClaimBusy, Released, BusyInv
  <1>7. ASSUME NEW j \in Jobs, TakeSlot(j)
        PROVE  BusyInv'
    BY <1>7, ClaimingMoves DEF TakeSlot, Released, BusyInv
  <1>8. ASSUME NEW j \in Jobs, NoSlot(j)
        PROVE  BusyInv'
    <2> SUFFICES ASSUME ~Released', NEW i \in Indices
                 PROVE  table'[i].busy <=> \E k \in Claiming' : job'[k].index = i
      BY DEF BusyInv
    <2>1. ~Released /\ table' = Unclaimed(j)
      BY <1>8, UnclaimedTypes DEF NoSlot, Released
    <2>2. table'[i].busy <=> i # job[j].index /\ table[i].busy
      BY <2>1, UnclaimedIs
    <2>3. j \in Claiming /\ Claiming' = Claiming \ {j} /\ job' = job
      BY <1>8, ClaimingMoves
    <2>4. table[i].busy <=> \E k \in Claiming : job[k].index = i
      BY <2>1 DEF BusyInv
    <2> QED
      BY Zenon, <2>2, <2>3, <2>4 DEF ClaimInv
  <1>9. ASSUME NEW j \in Jobs, Defer(j)
        PROVE  BusyInv'
    BY <1>9, ClaimingMoves DEF Defer, Released, BusyInv
  <1>10. ASSUME NEW j \in Jobs, DeferFails(j)
        PROVE  BusyInv'
    BY <1>10, ClaimingMoves DEF DeferFails, Released, BusyInv
  <1>11. ASSUME NEW j \in Jobs, Refuse(j)
        PROVE  BusyInv'
    <2> SUFFICES ASSUME ~Released', NEW i \in Indices
                 PROVE  table'[i].busy <=> \E k \in Claiming' : job'[k].index = i
      BY DEF BusyInv
    <2>1. ~Released /\ table' = Unclaimed(j)
      BY <1>11, UnclaimedTypes DEF Refuse, Released
    <2>2. table'[i].busy <=> i # job[j].index /\ table[i].busy
      BY <2>1, UnclaimedIs
    <2>3. j \in Claiming /\ Claiming' = Claiming \ {j} /\ job' = job
      BY <1>11, ClaimingMoves
    <2>4. table[i].busy <=> \E k \in Claiming : job[k].index = i
      BY <2>1 DEF BusyInv
    <2> QED
      BY Zenon, <2>2, <2>3, <2>4 DEF ClaimInv
  <1>12. ASSUME NEW j \in Jobs, Start(j)
        PROVE  BusyInv'
    BY <1>12, ClaimingMoves DEF Start, Released, BusyInv
  <1>13. ASSUME NEW j \in Jobs, Seek(j)
        PROVE  BusyInv'
    BY <1>13, ClaimingMoves DEF Seek, Released, BusyInv
  <1>14. ASSUME NEW j \in Jobs, Iterate(j)
        PROVE  BusyInv'
    BY <1>14, ClaimingMoves DEF Iterate, Released, BusyInv
  <1>15. ASSUME NEW j \in Jobs, ReleaseHandle(j)
        PROVE  BusyInv'
    <2> SUFFICES ASSUME ~Released', NEW i \in Indices
                 PROVE  table'[i].busy <=> \E k \in Claiming' : job'[k].index = i
      BY DEF BusyInv
    <2>1. ~Released /\ table' = Unclaimed(j)
      BY <1>15, UnclaimedTypes DEF ReleaseHandle, Released
    <2>2. table'[i].busy <=> i # job[j].index /\ table[i].busy
      BY <2>1, UnclaimedIs
    <2>3. j \in Claiming /\ Claiming' = Claiming \ {j} /\ job' = job
      BY <1>15, ClaimingMoves
    <2>4. table[i].busy <=> \E k \in Claiming : job[k].index = i
      BY <2>1 DEF BusyInv
    <2> QED
      BY Zenon, <2>2, <2>3, <2>4 DEF ClaimInv
  <1>16. ASSUME NEW j \in Jobs, CancelReleases(j)
        PROVE  BusyInv'
    <2> SUFFICES ASSUME ~Released', NEW i \in Indices
                 PROVE  table'[i].busy <=> \E k \in Claiming' : job'[k].index = i
      BY DEF BusyInv
    <2>1. ~Released /\ table' = Unclaimed(j)
      BY <1>16, UnclaimedTypes DEF CancelReleases, Released
    <2>2. table'[i].busy <=> i # job[j].index /\ table[i].busy
      BY <2>1, UnclaimedIs
    <2>3. j \in Claiming /\ Claiming' = Claiming \ {j} /\ job' = job
      BY <1>16, ClaimingMoves
    <2>4. table[i].busy <=> \E k \in Claiming : job[k].index = i
      BY <2>1 DEF BusyInv
    <2> QED
      BY Zenon, <2>2, <2>3, <2>4 DEF ClaimInv
  <1>17. ASSUME NEW j \in Jobs, Complete(j)
        PROVE  BusyInv'
    BY <1>17, ClaimingMoves DEF Complete, Released, BusyInv
  <1>18. CASE Release
    BY <1>18 DEF Release, Released, BusyInv
  <1>19. CASE UNCHANGED vars
    BY <1>19 DEF vars, Released, Claiming, BusyInv
  <1> QED
    BY Zenon, <1>1, <1>2, <1>3, <1>4, <1>5, <1>6, <1>7, <1>8, <1>9, <1>10, <1>11, <1>12, <1>13, <1>14, <1>15, <1>16, <1>17, <1>18, <1>19, NextIs DEF Tabling, Submitting, Working

LEMMA SlotStep ==
  ASSUME TypeOK, SlotInv, [Next]_vars
  PROVE  SlotInv'
  <1>1. ASSUME NEW f \in Files, Open(f)
        PROVE  SlotInv'
    BY <1>1 DEF Open, Insert, Slotted, SlotInv
  <1>2. ASSUME NEW f \in Adoptable, Adopt(f)
        PROVE  SlotInv'
    BY <1>2 DEF Adopt, Insert, Slotted, SlotInv
  <1>3. ASSUME NEW h \in Handles, Close(h)
        PROVE  SlotInv'
    BY <1>3 DEF Close, Slotted, SlotInv
  <1>4. ASSUME NEW j \in Jobs, NEW h \in Handles, NEW s \in Slots, Readdir(j, h, s)
        PROVE  SlotInv'
    <2>1. Slotted' = Slotted /\ j \notin Slotted /\ slotBusy' = slotBusy
      BY <1>4 DEF Readdir, TypeOK, Slotted
    <2>2. \A k \in Slotted : job'[k] = job[k]
      BY <1>4, <2>1 DEF Readdir, TypeOK, Slotted
    <2> QED
      BY <2>1, <2>2 DEF SlotInv
  <1>5. ASSUME NEW j \in Jobs, Claim(j)
        PROVE  SlotInv'
    BY <1>5, SlottedMoves DEF Claim, SlotInv
  <1>6. ASSUME NEW j \in Jobs, ClaimBusy(j)
        PROVE  SlotInv'
    BY <1>6, SlottedMoves DEF ClaimBusy, SlotInv
  <1>7. ASSUME NEW j \in Jobs, TakeSlot(j)
        PROVE  SlotInv'
    <2>1. job[j].slot \in Slots \ slotBusy /\ slotBusy' = slotBusy \cup {job[j].slot}
      BY <1>7 DEF TakeSlot, TypeOK, Job
    <2>2. j \notin Slotted /\ Slotted' = Slotted \cup {j} /\ job' = job
      BY <1>7, SlottedMoves
    <2>3. ASSUME NEW s \in Slots
          PROVE  s \in slotBusy' <=> \E k \in Slotted' : job'[k].slot = s
      <3>1. s \in slotBusy <=> \E k \in Slotted : job[k].slot = s
        BY DEF SlotInv
      <3> QED
        BY Zenon, <2>1, <2>2, <3>1
    <2>4. ASSUME NEW k \in Slotted', NEW m \in Slotted', job'[k].slot = job'[m].slot
          PROVE  k = m
      BY <2>1, <2>2, <2>4 DEF SlotInv
    <2> QED
      BY <2>3, <2>4 DEF SlotInv
  <1>8. ASSUME NEW j \in Jobs, NoSlot(j)
        PROVE  SlotInv'
    BY <1>8, SlottedMoves DEF NoSlot, SlotInv
  <1>9. ASSUME NEW j \in Jobs, Defer(j)
        PROVE  SlotInv'
    BY <1>9, SlottedMoves DEF Defer, SlotInv
  <1>10. ASSUME NEW j \in Jobs, DeferFails(j)
        PROVE  SlotInv'
    <2>1. slotBusy' = slotBusy \ {job[j].slot}
      BY <1>10 DEF DeferFails
    <2>2. j \in Slotted /\ Slotted' = Slotted \ {j} /\ job' = job
      BY <1>10, SlottedMoves
    <2>3. ASSUME NEW s \in Slots
          PROVE  s \in slotBusy' <=> \E k \in Slotted' : job'[k].slot = s
      <3>1. s \in slotBusy <=> \E k \in Slotted : job[k].slot = s
        BY DEF SlotInv
      <3> QED
        BY ZenonT(40), <2>1, <2>2, <3>1 DEF SlotInv
    <2>4. ASSUME NEW k \in Slotted', NEW m \in Slotted', job'[k].slot = job'[m].slot
          PROVE  k = m
      BY <2>1, <2>2, <2>4 DEF SlotInv
    <2> QED
      BY <2>3, <2>4 DEF SlotInv
  <1>11. ASSUME NEW j \in Jobs, Refuse(j)
        PROVE  SlotInv'
    BY <1>11, SlottedMoves DEF Refuse, SlotInv
  <1>12. ASSUME NEW j \in Jobs, Start(j)
        PROVE  SlotInv'
    BY <1>12, SlottedMoves DEF Start, SlotInv
  <1>13. ASSUME NEW j \in Jobs, Seek(j)
        PROVE  SlotInv'
    BY <1>13, SlottedMoves DEF Seek, SlotInv
  <1>14. ASSUME NEW j \in Jobs, Iterate(j)
        PROVE  SlotInv'
    BY <1>14, SlottedMoves DEF Iterate, SlotInv
  <1>15. ASSUME NEW j \in Jobs, ReleaseHandle(j)
        PROVE  SlotInv'
    BY <1>15, SlottedMoves DEF ReleaseHandle, SlotInv
  <1>16. ASSUME NEW j \in Jobs, CancelReleases(j)
        PROVE  SlotInv'
    BY <1>16, SlottedMoves DEF CancelReleases, SlotInv
  <1>17. ASSUME NEW j \in Jobs, Complete(j)
        PROVE  SlotInv'
    <2>1. slotBusy' = slotBusy \ {job[j].slot}
      BY <1>17 DEF Complete
    <2>2. j \in Slotted /\ Slotted' = Slotted \ {j} /\ job' = job
      BY <1>17, SlottedMoves
    <2>3. ASSUME NEW s \in Slots
          PROVE  s \in slotBusy' <=> \E k \in Slotted' : job'[k].slot = s
      <3>1. s \in slotBusy <=> \E k \in Slotted : job[k].slot = s
        BY DEF SlotInv
      <3> QED
        BY ZenonT(40), <2>1, <2>2, <3>1 DEF SlotInv
    <2>4. ASSUME NEW k \in Slotted', NEW m \in Slotted', job'[k].slot = job'[m].slot
          PROVE  k = m
      BY <2>1, <2>2, <2>4 DEF SlotInv
    <2> QED
      BY <2>3, <2>4 DEF SlotInv
  <1>18. CASE Release
    BY <1>18 DEF Release, Slotted, SlotInv
  <1>19. CASE UNCHANGED vars
    BY <1>19 DEF vars, Slotted, SlotInv
  <1> QED
    BY Zenon, <1>1, <1>2, <1>3, <1>4, <1>5, <1>6, <1>7, <1>8, <1>9, <1>10, <1>11, <1>12, <1>13, <1>14, <1>15, <1>16, <1>17, <1>18, <1>19, NextIs DEF Tabling, Submitting, Working

-----------------------------------------------------------------------------
(* Files.                                                                  *)

\* A step of one READDIR leaves the files and the generations of the entries alone.
LEMMA EntriesStay ==
  ASSUME TypeOK, SubmitterInv, NEW j \in Jobs, Submitting(j) \/ Working(j), ~Released'
  PROVE  ~Released /\ \A i \in Indices : table'[i].file = table[i].file /\ table'[i].gen = table[i].gen
  <1>1. CASE Claim(j)
    BY <1>1, ClaimIs, TableStands
  <1>2. CASE ClaimBusy(j)
    BY <1>2 DEF ClaimBusy, Released
  <1>3. CASE TakeSlot(j)
    BY <1>3 DEF TakeSlot, Released
  <1>4. CASE NoSlot(j)
    BY <1>4, UnclaimedTypes, UnclaimedIs DEF NoSlot, Released
  <1>5. CASE Defer(j)
    BY <1>5 DEF Defer, Released
  <1>6. CASE DeferFails(j)
    BY <1>6 DEF DeferFails, Released
  <1>7. CASE Refuse(j)
    BY <1>7, UnclaimedTypes, UnclaimedIs DEF Refuse, Released
  <1>8. CASE Start(j)
    BY <1>8 DEF Start, Released
  <1>9. CASE Seek(j)
    BY <1>9 DEF Seek, Released
  <1>10. CASE Iterate(j)
    BY <1>10 DEF Iterate, Released
  <1>11. CASE ReleaseHandle(j)
    BY <1>11, UnclaimedTypes, UnclaimedIs DEF ReleaseHandle, Released
  <1>12. CASE CancelReleases(j)
    BY <1>12, UnclaimedTypes, UnclaimedIs DEF CancelReleases, Released
  <1>13. CASE Complete(j)
    BY <1>13 DEF Complete, Released
  <1> QED
    BY Zenon, <1>1, <1>2, <1>3, <1>4, <1>5, <1>6, <1>7, <1>8, <1>9, <1>10, <1>11, <1>12, <1>13 DEF Submitting, Working

LEMMA FileStep ==
  ASSUME TypeOK, SubmitterInv, BusyInv, FileInv, [Next]_vars
  PROVE  FileInv'
  <1>1. ASSUME NEW f \in Files, Open(f)
        PROVE  FileInv'
    <2>0. f \in AllFiles /\ Insert(f)
      BY <1>1 DEF Open, AllFiles
    <2>1. PICK i \in Available :
            /\ table \in [Indices -> Entry] /\ submitting = 0
            /\ \A k \in Indices : table'[k].file = IF k = i THEN f ELSE table[k].file
      BY Zenon, <2>0, InsertDoes
    <2>2. ASSUME NEW j \in Jobs, j \in Claiming
          PROVE  job[j].index \in Indices /\ job[j].index # i
      BY <2>1, <2>2, TableStands DEF BusyInv, Available, TypeOK, Job
    <2>3. \A j \in Jobs : stage[j] # "resolved"
      BY <2>1 DEF SubmitterInv, Submission
    <2>4. Claiming' = Claiming /\ stage' = stage /\ job' = job
      BY <1>1 DEF Open, Insert, Claiming
    <2> QED
      BY <2>1, <2>2, <2>3, <2>4, TableStands DEF FileInv
  <1>2. ASSUME NEW f \in Adoptable, Adopt(f)
        PROVE  FileInv'
    <2>0. f \in AllFiles /\ Insert(f)
      BY <1>2 DEF Adopt, AllFiles
    <2>1. PICK i \in Available :
            /\ table \in [Indices -> Entry] /\ submitting = 0
            /\ \A k \in Indices : table'[k].file = IF k = i THEN f ELSE table[k].file
      BY ZenonT(40), <2>0, InsertDoes
    <2>2. ASSUME NEW j \in Jobs, j \in Claiming
          PROVE  job[j].index \in Indices /\ job[j].index # i
      BY <2>1, <2>2, TableStands DEF BusyInv, Available, TypeOK, Job
    <2>3. \A j \in Jobs : stage[j] # "resolved"
      BY <2>1 DEF SubmitterInv, Submission
    <2>4. Claiming' = Claiming /\ stage' = stage /\ job' = job
      BY <1>2 DEF Adopt, Insert, Claiming
    <2> QED
      BY <2>1, <2>2, <2>3, <2>4, TableStands DEF FileInv
  <1>3. ASSUME NEW h \in Handles, Close(h)
        PROVE  FileInv'
    <2>1. Claiming' = Claiming /\ stage' = stage /\ job' = job
      BY <1>3 DEF Close, Claiming
    <2>2. \A j \in Jobs : job[j].index \in Indices
      BY DEF TypeOK, Job
    <2> QED
      BY <1>3, <2>1, <2>2, CloseDoes, TableStands DEF FileInv
  <1>4. ASSUME NEW j \in Jobs, NEW h \in Handles, NEW s \in Slots, Readdir(j, h, s)
        PROVE  FileInv'
    <2>1. /\ Claiming' = Claiming /\ j \notin Claiming /\ table' = table
          /\ \A k \in Jobs \ {j} : job'[k] = job[k] /\ stage'[k] = stage[k]
      BY <1>4 DEF Readdir, Claiming, TypeOK
    <2>2. table[job'[j].index].file = job'[j].file
      BY <1>4 DEF Readdir, TypeOK
    <2> QED
      BY <2>1, <2>2 DEF FileInv, Released, Claiming
  <1>5. ASSUME NEW j \in Jobs, Claim(j)
        PROVE  FileInv'
    <2>1. ~Released' => ~Released /\ \A i \in Indices : table'[i].file = table[i].file
      BY <1>5, EntriesStay DEF Submitting, Working
    <2>2. \A k \in Jobs : k \in Claiming' \/ stage'[k] = "resolved" => k \in Claiming \/ stage[k] = "resolved"
      BY <1>5 DEF Claim, Claiming, TypeOK
    <2>3. job' = job /\ \A k \in Jobs : job[k].index \in Indices
      BY <1>5 DEF Claim, TypeOK, Job
    <2> QED
      BY <2>1, <2>2, <2>3 DEF FileInv
  <1>6. ASSUME NEW j \in Jobs, ClaimBusy(j)
        PROVE  FileInv'
    <2>1. ~Released' => ~Released /\ \A i \in Indices : table'[i].file = table[i].file
      BY <1>6, EntriesStay DEF Submitting, Working
    <2>2. \A k \in Jobs : k \in Claiming' \/ stage'[k] = "resolved" => k \in Claiming \/ stage[k] = "resolved"
      BY <1>6 DEF ClaimBusy, Claiming, TypeOK
    <2>3. job' = job /\ \A k \in Jobs : job[k].index \in Indices
      BY <1>6 DEF ClaimBusy, TypeOK, Job
    <2> QED
      BY <2>1, <2>2, <2>3 DEF FileInv
  <1>7. ASSUME NEW j \in Jobs, TakeSlot(j)
        PROVE  FileInv'
    <2>1. ~Released' => ~Released /\ \A i \in Indices : table'[i].file = table[i].file
      BY <1>7, EntriesStay DEF Submitting, Working
    <2>2. \A k \in Jobs : k \in Claiming' \/ stage'[k] = "resolved" => k \in Claiming \/ stage[k] = "resolved"
      BY <1>7 DEF TakeSlot, Claiming, TypeOK
    <2>3. job' = job /\ \A k \in Jobs : job[k].index \in Indices
      BY <1>7 DEF TakeSlot, TypeOK, Job
    <2> QED
      BY <2>1, <2>2, <2>3 DEF FileInv
  <1>8. ASSUME NEW j \in Jobs, NoSlot(j)
        PROVE  FileInv'
    <2>1. ~Released' => ~Released /\ \A i \in Indices : table'[i].file = table[i].file
      BY <1>8, EntriesStay DEF Submitting, Working
    <2>2. \A k \in Jobs : k \in Claiming' \/ stage'[k] = "resolved" => k \in Claiming \/ stage[k] = "resolved"
      BY <1>8 DEF NoSlot, Claiming, TypeOK
    <2>3. job' = job /\ \A k \in Jobs : job[k].index \in Indices
      BY <1>8 DEF NoSlot, TypeOK, Job
    <2> QED
      BY <2>1, <2>2, <2>3 DEF FileInv
  <1>9. ASSUME NEW j \in Jobs, Defer(j)
        PROVE  FileInv'
    <2>1. ~Released' => ~Released /\ \A i \in Indices : table'[i].file = table[i].file
      BY <1>9, EntriesStay DEF Submitting, Working
    <2>2. \A k \in Jobs : k \in Claiming' \/ stage'[k] = "resolved" => k \in Claiming \/ stage[k] = "resolved"
      BY <1>9 DEF Defer, Claiming, TypeOK
    <2>3. job' = job /\ \A k \in Jobs : job[k].index \in Indices
      BY <1>9 DEF Defer, TypeOK, Job
    <2> QED
      BY <2>1, <2>2, <2>3 DEF FileInv
  <1>10. ASSUME NEW j \in Jobs, DeferFails(j)
        PROVE  FileInv'
    <2>1. ~Released' => ~Released /\ \A i \in Indices : table'[i].file = table[i].file
      BY <1>10, EntriesStay DEF Submitting, Working
    <2>2. \A k \in Jobs : k \in Claiming' \/ stage'[k] = "resolved" => k \in Claiming \/ stage[k] = "resolved"
      BY <1>10 DEF DeferFails, Claiming, TypeOK
    <2>3. job' = job /\ \A k \in Jobs : job[k].index \in Indices
      BY <1>10 DEF DeferFails, TypeOK, Job
    <2> QED
      BY <2>1, <2>2, <2>3 DEF FileInv
  <1>11. ASSUME NEW j \in Jobs, Refuse(j)
        PROVE  FileInv'
    <2>1. ~Released' => ~Released /\ \A i \in Indices : table'[i].file = table[i].file
      BY <1>11, EntriesStay DEF Submitting, Working
    <2>2. \A k \in Jobs : k \in Claiming' \/ stage'[k] = "resolved" => k \in Claiming \/ stage[k] = "resolved"
      BY <1>11 DEF Refuse, Claiming, TypeOK
    <2>3. job' = job /\ \A k \in Jobs : job[k].index \in Indices
      BY <1>11 DEF Refuse, TypeOK, Job
    <2> QED
      BY <2>1, <2>2, <2>3 DEF FileInv
  <1>12. ASSUME NEW j \in Jobs, Start(j)
        PROVE  FileInv'
    <2>1. ~Released' => ~Released /\ \A i \in Indices : table'[i].file = table[i].file
      BY <1>12, EntriesStay DEF Submitting, Working
    <2>2. \A k \in Jobs : k \in Claiming' \/ stage'[k] = "resolved" => k \in Claiming \/ stage[k] = "resolved"
      BY <1>12 DEF Start, Claiming, TypeOK
    <2>3. job' = job /\ \A k \in Jobs : job[k].index \in Indices
      BY <1>12 DEF Start, TypeOK, Job
    <2> QED
      BY <2>1, <2>2, <2>3 DEF FileInv
  <1>13. ASSUME NEW j \in Jobs, Seek(j)
        PROVE  FileInv'
    <2>1. ~Released' => ~Released /\ \A i \in Indices : table'[i].file = table[i].file
      BY <1>13, EntriesStay DEF Submitting, Working
    <2>2. \A k \in Jobs : k \in Claiming' \/ stage'[k] = "resolved" => k \in Claiming \/ stage[k] = "resolved"
      BY <1>13 DEF Seek, Claiming, TypeOK
    <2>3. job' = job /\ \A k \in Jobs : job[k].index \in Indices
      BY <1>13 DEF Seek, TypeOK, Job
    <2> QED
      BY <2>1, <2>2, <2>3 DEF FileInv
  <1>14. ASSUME NEW j \in Jobs, Iterate(j)
        PROVE  FileInv'
    <2>1. ~Released' => ~Released /\ \A i \in Indices : table'[i].file = table[i].file
      BY <1>14, EntriesStay DEF Submitting, Working
    <2>2. \A k \in Jobs : k \in Claiming' \/ stage'[k] = "resolved" => k \in Claiming \/ stage[k] = "resolved"
      BY <1>14 DEF Iterate, Claiming, TypeOK
    <2>3. job' = job /\ \A k \in Jobs : job[k].index \in Indices
      BY <1>14 DEF Iterate, TypeOK, Job
    <2> QED
      BY <2>1, <2>2, <2>3 DEF FileInv
  <1>15. ASSUME NEW j \in Jobs, ReleaseHandle(j)
        PROVE  FileInv'
    <2>1. ~Released' => ~Released /\ \A i \in Indices : table'[i].file = table[i].file
      BY <1>15, EntriesStay DEF Submitting, Working
    <2>2. \A k \in Jobs : k \in Claiming' \/ stage'[k] = "resolved" => k \in Claiming \/ stage[k] = "resolved"
      BY <1>15 DEF ReleaseHandle, Claiming, TypeOK
    <2>3. job' = job /\ \A k \in Jobs : job[k].index \in Indices
      BY <1>15 DEF ReleaseHandle, TypeOK, Job
    <2> QED
      BY <2>1, <2>2, <2>3 DEF FileInv
  <1>16. ASSUME NEW j \in Jobs, CancelReleases(j)
        PROVE  FileInv'
    <2>1. ~Released' => ~Released /\ \A i \in Indices : table'[i].file = table[i].file
      BY <1>16, EntriesStay DEF Submitting, Working
    <2>2. \A k \in Jobs : k \in Claiming' \/ stage'[k] = "resolved" => k \in Claiming \/ stage[k] = "resolved"
      BY <1>16 DEF CancelReleases, Claiming, TypeOK
    <2>3. job' = job /\ \A k \in Jobs : job[k].index \in Indices
      BY <1>16 DEF CancelReleases, TypeOK, Job
    <2> QED
      BY <2>1, <2>2, <2>3 DEF FileInv
  <1>17. ASSUME NEW j \in Jobs, Complete(j)
        PROVE  FileInv'
    <2>1. ~Released' => ~Released /\ \A i \in Indices : table'[i].file = table[i].file
      BY <1>17, EntriesStay DEF Submitting, Working
    <2>2. \A k \in Jobs : k \in Claiming' \/ stage'[k] = "resolved" => k \in Claiming \/ stage[k] = "resolved"
      BY <1>17 DEF Complete, Claiming, TypeOK
    <2>3. job' = job /\ \A k \in Jobs : job[k].index \in Indices
      BY <1>17 DEF Complete, TypeOK, Job
    <2> QED
      BY <2>1, <2>2, <2>3 DEF FileInv
  <1>18. CASE Release
    BY <1>18 DEF Release, Released, FileInv
  <1>19. CASE UNCHANGED vars
    BY <1>19 DEF vars, Released, FileInv, Claiming
  <1> QED
    BY Zenon, <1>1, <1>2, <1>3, <1>4, <1>5, <1>6, <1>7, <1>8, <1>9, <1>10, <1>11, <1>12, <1>13, <1>14, <1>15, <1>16, <1>17, <1>18, <1>19, NextIs DEF Tabling, Submitting, Working

LEMMA HomeStep ==
  ASSUME TypeOK, SubmitterInv, HomeInv, [Next]_vars
  PROVE  HomeInv'
  <1>1. ASSUME NEW f \in Files, Open(f)
        PROVE  HomeInv'
    <2>0. f \in AllFiles /\ Insert(f)
      BY <1>1 DEF Open, AllFiles
    <2>1. PICK i \in Available :
            /\ table \in [Indices -> Entry]
            /\ \A k \in Indices : table'[k].file = IF k = i THEN f ELSE table[k].file
      BY Zenon, <2>0, InsertDoes
    <2>2. f \notin opened /\ opened' = opened \cup {f} /\ job' = job
      BY <1>1 DEF Open, Insert
    <2>3. i \in Indices
      BY <2>1 DEF Available
    <2>4. TableHome'
      BY <2>1, <2>2, <2>3, TableStands DEF HomeInv, TableHome, JobHome
    <2>5. JobHome'
      BY <2>2 DEF HomeInv, JobHome
    <2> QED
      BY <2>4, <2>5 DEF HomeInv
  <1>2. ASSUME NEW f \in Adoptable, Adopt(f)
        PROVE  HomeInv'
    <2>0. f \in AllFiles /\ Insert(f)
      BY <1>2 DEF Adopt, AllFiles
    <2>1. PICK i \in Available :
            /\ table \in [Indices -> Entry]
            /\ \A k \in Indices : table'[k].file = IF k = i THEN f ELSE table[k].file
      BY ZenonT(40), <2>0, InsertDoes
    <2>2. opened' = opened /\ job' = job
      BY <1>2 DEF Adopt, Insert
    <2> QED
      BY <2>1, <2>2, TableStands DEF HomeInv, TableHome, JobHome
  <1>3. ASSUME NEW h \in Handles, Close(h)
        PROVE  HomeInv'
    <2>1. opened' = opened /\ job' = job
      BY <1>3 DEF Close
    <2> QED
      BY <1>3, <2>1, CloseDoes, TableStands DEF HomeInv, TableHome, JobHome
  <1>4. ASSUME NEW j \in Jobs, NEW h \in Handles, NEW s \in Slots, Readdir(j, h, s)
        PROVE  HomeInv'
    <2>1. /\ opened' = opened /\ table' = table /\ ~Released
          /\ \A k \in Jobs \ {j} : job'[k] = job[k]
      BY <1>4 DEF Readdir, TypeOK
    <2>2. h.index \in Indices /\ job'[j].index = h.index /\ job'[j].file = table[h.index].file
      BY <1>4, HandleTypes DEF Readdir, TypeOK, Handle
    <2>3. TableHome'
      BY <2>1, <2>2 DEF HomeInv, TableHome
    <2>4. JobHome'
      BY <2>1, <2>2 DEF HomeInv, TableHome, JobHome
    <2> QED
      BY <2>3, <2>4 DEF HomeInv
  <1>5. ASSUME NEW j \in Jobs, Claim(j)
        PROVE  HomeInv'
    <2>1. ~Released' => ~Released /\ \A i \in Indices : table'[i].file = table[i].file
      BY <1>5, EntriesStay DEF Submitting, Working
    <2>2. job' = job /\ opened' = opened
      BY <1>5 DEF Claim
    <2> QED
      BY <2>1, <2>2 DEF HomeInv, TableHome, JobHome
  <1>6. ASSUME NEW j \in Jobs, ClaimBusy(j)
        PROVE  HomeInv'
    <2>1. ~Released' => ~Released /\ \A i \in Indices : table'[i].file = table[i].file
      BY <1>6, EntriesStay DEF Submitting, Working
    <2>2. job' = job /\ opened' = opened
      BY <1>6 DEF ClaimBusy
    <2> QED
      BY <2>1, <2>2 DEF HomeInv, TableHome, JobHome
  <1>7. ASSUME NEW j \in Jobs, TakeSlot(j)
        PROVE  HomeInv'
    <2>1. ~Released' => ~Released /\ \A i \in Indices : table'[i].file = table[i].file
      BY <1>7, EntriesStay DEF Submitting, Working
    <2>2. job' = job /\ opened' = opened
      BY <1>7 DEF TakeSlot
    <2> QED
      BY <2>1, <2>2 DEF HomeInv, TableHome, JobHome
  <1>8. ASSUME NEW j \in Jobs, NoSlot(j)
        PROVE  HomeInv'
    <2>1. ~Released' => ~Released /\ \A i \in Indices : table'[i].file = table[i].file
      BY <1>8, EntriesStay DEF Submitting, Working
    <2>2. job' = job /\ opened' = opened
      BY <1>8 DEF NoSlot
    <2> QED
      BY <2>1, <2>2 DEF HomeInv, TableHome, JobHome
  <1>9. ASSUME NEW j \in Jobs, Defer(j)
        PROVE  HomeInv'
    <2>1. ~Released' => ~Released /\ \A i \in Indices : table'[i].file = table[i].file
      BY <1>9, EntriesStay DEF Submitting, Working
    <2>2. job' = job /\ opened' = opened
      BY <1>9 DEF Defer
    <2> QED
      BY <2>1, <2>2 DEF HomeInv, TableHome, JobHome
  <1>10. ASSUME NEW j \in Jobs, DeferFails(j)
        PROVE  HomeInv'
    <2>1. ~Released' => ~Released /\ \A i \in Indices : table'[i].file = table[i].file
      BY <1>10, EntriesStay DEF Submitting, Working
    <2>2. job' = job /\ opened' = opened
      BY <1>10 DEF DeferFails
    <2> QED
      BY <2>1, <2>2 DEF HomeInv, TableHome, JobHome
  <1>11. ASSUME NEW j \in Jobs, Refuse(j)
        PROVE  HomeInv'
    <2>1. ~Released' => ~Released /\ \A i \in Indices : table'[i].file = table[i].file
      BY <1>11, EntriesStay DEF Submitting, Working
    <2>2. job' = job /\ opened' = opened
      BY <1>11 DEF Refuse
    <2> QED
      BY <2>1, <2>2 DEF HomeInv, TableHome, JobHome
  <1>12. ASSUME NEW j \in Jobs, Start(j)
        PROVE  HomeInv'
    <2>1. ~Released' => ~Released /\ \A i \in Indices : table'[i].file = table[i].file
      BY <1>12, EntriesStay DEF Submitting, Working
    <2>2. job' = job /\ opened' = opened
      BY <1>12 DEF Start
    <2> QED
      BY <2>1, <2>2 DEF HomeInv, TableHome, JobHome
  <1>13. ASSUME NEW j \in Jobs, Seek(j)
        PROVE  HomeInv'
    <2>1. ~Released' => ~Released /\ \A i \in Indices : table'[i].file = table[i].file
      BY <1>13, EntriesStay DEF Submitting, Working
    <2>2. job' = job /\ opened' = opened
      BY <1>13 DEF Seek
    <2> QED
      BY <2>1, <2>2 DEF HomeInv, TableHome, JobHome
  <1>14. ASSUME NEW j \in Jobs, Iterate(j)
        PROVE  HomeInv'
    <2>1. ~Released' => ~Released /\ \A i \in Indices : table'[i].file = table[i].file
      BY <1>14, EntriesStay DEF Submitting, Working
    <2>2. job' = job /\ opened' = opened
      BY <1>14 DEF Iterate
    <2> QED
      BY <2>1, <2>2 DEF HomeInv, TableHome, JobHome
  <1>15. ASSUME NEW j \in Jobs, ReleaseHandle(j)
        PROVE  HomeInv'
    <2>1. ~Released' => ~Released /\ \A i \in Indices : table'[i].file = table[i].file
      BY <1>15, EntriesStay DEF Submitting, Working
    <2>2. job' = job /\ opened' = opened
      BY <1>15 DEF ReleaseHandle
    <2> QED
      BY <2>1, <2>2 DEF HomeInv, TableHome, JobHome
  <1>16. ASSUME NEW j \in Jobs, CancelReleases(j)
        PROVE  HomeInv'
    <2>1. ~Released' => ~Released /\ \A i \in Indices : table'[i].file = table[i].file
      BY <1>16, EntriesStay DEF Submitting, Working
    <2>2. job' = job /\ opened' = opened
      BY <1>16 DEF CancelReleases
    <2> QED
      BY <2>1, <2>2 DEF HomeInv, TableHome, JobHome
  <1>17. ASSUME NEW j \in Jobs, Complete(j)
        PROVE  HomeInv'
    <2>1. ~Released' => ~Released /\ \A i \in Indices : table'[i].file = table[i].file
      BY <1>17, EntriesStay DEF Submitting, Working
    <2>2. job' = job /\ opened' = opened
      BY <1>17 DEF Complete
    <2> QED
      BY <2>1, <2>2 DEF HomeInv, TableHome, JobHome
  <1>18. CASE Release
    BY <1>18 DEF Release, Released, HomeInv, TableHome, JobHome
  <1>19. CASE UNCHANGED vars
    BY <1>19 DEF vars, Released, HomeInv, TableHome, JobHome
  <1> QED
    BY Zenon, <1>1, <1>2, <1>3, <1>4, <1>5, <1>6, <1>7, <1>8, <1>9, <1>10, <1>11, <1>12, <1>13, <1>14, <1>15, <1>16, <1>17, <1>18, <1>19, NextIs DEF Tabling, Submitting, Working

LEMMA CookieStep ==
  ASSUME TypeOK, ClaimInv, HomeInv, ReadsFromItsCookie, [Next]_vars
  PROVE  ReadsFromItsCookie'
  <1>1. ASSUME NEW f \in Files, Open(f)
        PROVE  ReadsFromItsCookie'
    BY <1>1 DEF Open, Insert, ReadsFromItsCookie
  <1>2. ASSUME NEW f \in Adoptable, Adopt(f)
        PROVE  ReadsFromItsCookie'
    BY <1>2 DEF Adopt, Insert, ReadsFromItsCookie
  <1>3. ASSUME NEW h \in Handles, Close(h)
        PROVE  ReadsFromItsCookie'
    BY <1>3 DEF Close, ReadsFromItsCookie
  <1>4. ASSUME NEW j \in Jobs, NEW h \in Handles, NEW s \in Slots, Readdir(j, h, s)
        PROVE  ReadsFromItsCookie'
    BY <1>4 DEF Readdir, TypeOK, ReadsFromItsCookie
  <1>5. ASSUME NEW j \in Jobs, Claim(j)
        PROVE  ReadsFromItsCookie'
    BY <1>5 DEF Claim, TypeOK, ReadsFromItsCookie
  <1>6. ASSUME NEW j \in Jobs, ClaimBusy(j)
        PROVE  ReadsFromItsCookie'
    BY <1>6 DEF ClaimBusy, TypeOK, ReadsFromItsCookie
  <1>7. ASSUME NEW j \in Jobs, TakeSlot(j)
        PROVE  ReadsFromItsCookie'
    BY <1>7 DEF TakeSlot, TypeOK, ReadsFromItsCookie
  <1>8. ASSUME NEW j \in Jobs, NoSlot(j)
        PROVE  ReadsFromItsCookie'
    BY <1>8 DEF NoSlot, TypeOK, ReadsFromItsCookie
  <1>9. ASSUME NEW j \in Jobs, Defer(j)
        PROVE  ReadsFromItsCookie'
    BY <1>9 DEF Defer, TypeOK, ReadsFromItsCookie
  <1>10. ASSUME NEW j \in Jobs, DeferFails(j)
        PROVE  ReadsFromItsCookie'
    BY <1>10 DEF DeferFails, TypeOK, ReadsFromItsCookie
  <1>11. ASSUME NEW j \in Jobs, Refuse(j)
        PROVE  ReadsFromItsCookie'
    BY <1>11 DEF Refuse, TypeOK, ReadsFromItsCookie
  <1>12. ASSUME NEW j \in Jobs, Start(j)
        PROVE  ReadsFromItsCookie'
    BY <1>12 DEF Start, TypeOK, ReadsFromItsCookie
  <1>13. ASSUME NEW j \in Jobs, Seek(j)
        PROVE  ReadsFromItsCookie'
    <2>1. /\ job' = job /\ job[j].file \in AllFiles
          /\ seeker' = [seeker EXCEPT ![job[j].file] = j]
      BY <1>13 DEF Seek, TypeOK, Job
    <2>2. \A k \in Jobs \ {j} : stage'[k] = stage[k]
      BY <1>13 DEF Seek, TypeOK
    <2>3. ASSUME NEW k \in Jobs \ {j}, stage[k] = "sought", job[k].file \in Files
          PROVE  job[k].file # job[j].file
      BY <1>13, <2>3 DEF Seek, HomeInv, JobHome, ClaimInv, Claiming
    <2> QED
      BY <2>1, <2>2, <2>3 DEF ReadsFromItsCookie, TypeOK, AllFiles
  <1>14. ASSUME NEW j \in Jobs, Iterate(j)
        PROVE  ReadsFromItsCookie'
    BY <1>14 DEF Iterate, TypeOK, ReadsFromItsCookie
  <1>15. ASSUME NEW j \in Jobs, ReleaseHandle(j)
        PROVE  ReadsFromItsCookie'
    BY <1>15 DEF ReleaseHandle, TypeOK, ReadsFromItsCookie
  <1>16. ASSUME NEW j \in Jobs, CancelReleases(j)
        PROVE  ReadsFromItsCookie'
    BY <1>16 DEF CancelReleases, TypeOK, ReadsFromItsCookie
  <1>17. ASSUME NEW j \in Jobs, Complete(j)
        PROVE  ReadsFromItsCookie'
    BY <1>17 DEF Complete, TypeOK, ReadsFromItsCookie
  <1>18. CASE Release
    BY <1>18 DEF Release, ReadsFromItsCookie
  <1>19. CASE UNCHANGED vars
    BY <1>19 DEF vars, ReadsFromItsCookie
  <1> QED
    BY Zenon, <1>1, <1>2, <1>3, <1>4, <1>5, <1>6, <1>7, <1>8, <1>9, <1>10, <1>11, <1>12, <1>13, <1>14, <1>15, <1>16, <1>17, <1>18, <1>19, NextIs DEF Tabling, Submitting, Working

-----------------------------------------------------------------------------
(* The inductive invariant, and what follows.                              *)

LEMMA HandlesStep ==
  ASSUME HandlesInv, [Next]_vars
  PROVE  HandlesInv'
  <1>1. TypeOK' /\ SubmitterInv'
    BY TypeStep, SubmitterStep DEF HandlesInv
  <1>2. ClaimInv' /\ BusyInv' /\ SlotInv'
    BY ClaimStep, BusyStep, SlotStep DEF HandlesInv
  <1>3. FileInv' /\ HomeInv' /\ ReadsFromItsCookie'
    BY FileStep, HomeStep, CookieStep DEF HandlesInv
  <1> QED
    BY <1>1, <1>2, <1>3 DEF HandlesInv

THEOREM HandlesInvariant == Spec => []HandlesInv
  BY HandlesInit, HandlesStep, PTL DEF Spec

\* Types, among them that a generation is never 0 and never above MaxGen.
THEOREM HandlesTypeCorrect == Spec => []TypeOK
  <1>1. HandlesInv => TypeOK
    BY DEF HandlesInv
  <1> QED
    BY <1>1, HandlesInvariant, PTL

\* Both claims of READDIR are exact on every path that completes it.
THEOREM ClaimsExactHolds == Spec => []ClaimsExact
  <1>1. HandlesInv => ClaimsExact
    <2> SUFFICES ASSUME HandlesInv
                 PROVE  ClaimsExact
      OBVIOUS
    <2>1. ASSUME ~Released
          PROVE  {i \in Indices : table[i].busy} = {job[j].index : j \in Claiming}
      <3>1. \A j \in Claiming : job[j].index \in Indices
        BY DEF HandlesInv, TypeOK, Job, Claiming
      <3>2. \A i \in Indices : table[i].busy <=> \E j \in Claiming : job[j].index = i
        BY <2>1 DEF HandlesInv, BusyInv
      <3> QED
        BY <3>1, <3>2
    <2>2. slotBusy = {job[j].slot : j \in Slotted}
      <3>1. slotBusy \subseteq Slots /\ \A j \in Slotted : job[j].slot \in Slots
        BY DEF HandlesInv, TypeOK, Job, Slotted
      <3>2. \A s \in Slots : s \in slotBusy <=> \E j \in Slotted : job[j].slot = s
        BY DEF HandlesInv, SlotInv
      <3> QED
        BY <3>1, <3>2
    <2> QED
      BY <2>1, <2>2 DEF ClaimsExact, HandlesInv, ClaimInv, SlotInv
  <1> QED
    BY <1>1, HandlesInvariant, PTL

\* A claim stays with the file that was read under it: no new file inherits it.
THEOREM ClaimNamesItsFileHolds == Spec => []ClaimNamesItsFile
  <1>1. HandlesInv => ClaimNamesItsFile
    BY DEF HandlesInv, FileInv, ClaimNamesItsFile, Claiming
  <1> QED
    BY <1>1, HandlesInvariant, PTL

\* No two READDIRs of an opened directory interleave its position.
THEOREM ReadsFromItsCookieHolds == Spec => []ReadsFromItsCookie
  <1>1. HandlesInv => ReadsFromItsCookie
    BY DEF HandlesInv
  <1> QED
    BY <1>1, HandlesInvariant, PTL

\* EBUSY is answered only while another READDIR is not complete.
THEOREM NoStaleBusyHolds == Spec => NoStaleBusy
  <1> DEFINE Fair ==
        \A j \in Jobs :
          /\ stage[j] = "resolved" /\ stage'[j] = "done" =>
               \E k \in Jobs \ {j} : job[k].index = job[j].index /\ stage[k] # "done"
          /\ stage[j] = "claimed" /\ stage'[j] = "done" =>
               \E k \in Jobs \ {j} : job[k].slot = job[j].slot /\ stage[k] # "done"
  <1>1. ASSUME HandlesInv, [Next]_vars
        PROVE  Fair
    <2>1. ASSUME NEW j \in Jobs, stage[j] = "resolved", stage'[j] = "done"
          PROVE  \E k \in Jobs \ {j} : job[k].index = job[j].index /\ stage[k] # "done"
      <3>1. ClaimBusy(j)
        BY <1>1, <2>1 DEF Next, vars, HandlesInv, TypeOK, Open, Adopt, Insert, Close, Readdir, Claim, ClaimBusy,
         TakeSlot, NoSlot, Defer, DeferFails, Refuse, Start, Seek, Iterate, ReleaseHandle,
         CancelReleases, Complete, Release
      <3>2. job[j].index \in Indices /\ table[job[j].index].busy /\ ~Released
        BY <1>1, <2>1, <3>1, TableStands DEF ClaimBusy, HandlesInv, SubmitterInv, Submission, TypeOK, Job
      <3>3. PICK k \in Claiming : job[k].index = job[j].index
        BY Zenon, <1>1, <3>2 DEF HandlesInv, BusyInv
      <3> QED
        BY <2>1, <3>3 DEF Claiming
    <2>2. ASSUME NEW j \in Jobs, stage[j] = "claimed", stage'[j] = "done"
          PROVE  \E k \in Jobs \ {j} : job[k].slot = job[j].slot /\ stage[k] # "done"
      <3>1. NoSlot(j)
        BY <1>1, <2>2 DEF Next, vars, HandlesInv, TypeOK, Open, Adopt, Insert, Close, Readdir, Claim, ClaimBusy,
         TakeSlot, NoSlot, Defer, DeferFails, Refuse, Start, Seek, Iterate, ReleaseHandle,
         CancelReleases, Complete, Release
      <3>2. job[j].slot \in slotBusy /\ job[j].slot \in Slots
        BY <1>1, <3>1 DEF NoSlot, HandlesInv, TypeOK
      <3>3. PICK k \in Slotted : job[k].slot = job[j].slot
        BY Zenon, <1>1, <3>2 DEF HandlesInv, SlotInv
      <3> QED
        BY <2>2, <3>3 DEF Slotted
    <2> QED
      BY <2>1, <2>2
  <1>2. HandlesInv /\ [Next]_vars => [Fair]_vars
    BY <1>1
  <1> QED
    BY <1>2, HandlesInvariant, PTL DEF Spec, NoStaleBusy

-----------------------------------------------------------------------------
(* How long a stale handle is safe.                                        *)

\* The handles of an entry issued since the m-th handle was, that one included.
Since(m) == {k \in m..Len(issued) : issued[k].index = issued[m].index}

\* How often the generation of its entry has moved on since.
Turns(m) ==
  IF table[issued[m].index].file = NoFile THEN Cardinality(Since(m)) ELSE Cardinality(Since(m)) - 1

\* From one generation to another, round the end.
Distance(g, h) == IF h >= g THEN h - g ELSE h - g + MaxGen

\* While it has not gone all the way round, the distance tells the turns.
GenInv ==
  ~Released =>
    \A m \in 1..Len(issued) :
      Turns(m) < MaxGen => Distance(issued[m].gen, table[issued[m].index].gen) = Turns(m)

LEMMA SinceCounts ==
  ASSUME TypeOK, NEW m \in 1..Len(issued)
  PROVE  /\ IsFiniteSet(Since(m))
         /\ Cardinality(Since(m)) \in Nat \ {0}
  <1>1. Len(issued) \in Nat
    BY DEF TypeOK
  <1>2. IsFiniteSet(m..Len(issued)) /\ Since(m) \subseteq m..Len(issued) /\ m \in Since(m)
    BY <1>1, FS_Interval DEF Since
  <1>3. IsFiniteSet(Since(m))
    BY <1>2, FS_Subset
  <1> QED
    BY <1>2, <1>3, FS_CardinalityType, FS_EmptySet

\* What issuing a handle does to the counts.
LEMMA SinceGrows ==
  ASSUME TypeOK, NEW e \in Handle, issued' = Append(issued, e)
  PROVE  /\ Len(issued) \in Nat /\ Len(issued') = Len(issued) + 1
         /\ issued'[Len(issued) + 1] = e
         /\ \A m \in 1..Len(issued) :
              /\ issued'[m] = issued[m]
              /\ issued[m].index = e.index =>
                   Cardinality(Since(m)') = Cardinality(Since(m)) + 1
              /\ issued[m].index # e.index => Since(m)' = Since(m)
         /\ \A o : o = Len(issued) + 1 => Cardinality(Since(o)') = 1
  <1> DEFINE n == Len(issued)
  <1>1. /\ n \in Nat /\ Len(issued') = n + 1 /\ issued'[n + 1] = e
        /\ \A m \in 1..n : issued'[m] = issued[m]
    BY DEF TypeOK
  <1> HIDE DEF n
  <1>2. ASSUME NEW m \in 1..n, issued[m].index = e.index
        PROVE  Cardinality(Since(m)') = Cardinality(Since(m)) + 1
    <2>1. Since(m)' = Since(m) \cup {n + 1}
      BY <1>1, <1>2 DEF Since, n
    <2>2. n + 1 \notin Since(m)
      BY <1>1 DEF Since, n
    <2> QED
      BY <2>1, <2>2, SinceCounts, FS_AddElement DEF n
  <1>3. ASSUME NEW m \in 1..n, issued[m].index # e.index
        PROVE  Since(m)' = Since(m)
    BY <1>1, <1>3 DEF Since, n
  <1>4. ASSUME NEW o, o = n + 1
        PROVE  Cardinality(Since(o)') = 1
    <2>1. Since(o)' = {o}
      BY <1>1, <1>4 DEF Since
    <2> QED
      BY <2>1, FS_Singleton
  <1> QED
    BY <1>1, <1>2, <1>3, <1>4 DEF n

\* An Insert: the entry's generation stays, and so do the turns of its handles.
LEMMA GenInsert ==
  ASSUME TypeOK, GenInv, NoEarlyReuse, NEW f \in AllFiles \ {NoFile}, Insert(f)
  PROVE  GenInv' /\ NoEarlyReuse'
  <1>1. PICK i \in Available :
          /\ table \in [Indices -> Entry]
          /\ \A k \in Indices : table'[k].file = IF k = i THEN f ELSE table[k].file
          /\ \A k \in Indices : table'[k].busy = table[k].busy /\ table'[k].gen = table[k].gen
          /\ issued' = Append(issued, [index |-> i, gen |-> table[i].gen])
    BY Zenon, InsertDoes
  <1> DEFINE e == [index |-> i, gen |-> table[i].gen]
             n == Len(issued)
  <1>2. i \in Indices /\ table[i].file = NoFile /\ ~Released
    BY <1>1, TableStands DEF Available
  <1>3. e \in Handle /\ e.index = i /\ e.gen = table[i].gen /\ e.gen \in 1..MaxGen
    BY <1>1, <1>2 DEF Entry, Handle
  <1>4. \A m \in 1..n : issued[m] \in Handle
    BY DEF TypeOK
  <1>5. issued' = Append(issued, e)
    BY <1>1
  <1> HIDE DEF e
  <1>6. /\ n \in Nat /\ Len(issued') = n + 1 /\ issued'[n + 1] = e
        /\ \A m \in 1..n :
             /\ issued'[m] = issued[m]
             /\ issued[m].index = i => Cardinality(Since(m)') = Cardinality(Since(m)) + 1
             /\ issued[m].index # i => Since(m)' = Since(m)
        /\ \A o : o = n + 1 => Cardinality(Since(o)') = 1
    BY <1>3, <1>5, SinceGrows DEF n
  <1> HIDE DEF n
  <1>7. ASSUME NEW m \in 1..n
        PROVE  Turns(m)' = Turns(m)
    <2>1. issued[m].index \in Indices /\ Cardinality(Since(m)) \in Nat
      BY <1>4, SinceCounts DEF Handle, n
    <2>2. CASE issued[m].index = i
      <3>1. issued'[m] = issued[m] /\ Cardinality(Since(m)') = Cardinality(Since(m)) + 1
        BY <1>6, <2>2
      <3>2. table[i].file = NoFile /\ table'[i].file # NoFile
        BY <1>1, <1>2
      <3> QED
        BY <2>1, <2>2, <3>1, <3>2 DEF Turns
    <2>3. CASE issued[m].index # i
      BY <1>1, <1>6, <2>1, <2>3 DEF Turns
    <2> QED
      BY <2>2, <2>3
  <1>8. ASSUME NEW o, o = n + 1
        PROVE  Turns(o)' = 0
    <2>1. table'[issued'[o].index].file # NoFile
      BY <1>1, <1>2, <1>3, <1>6, <1>8
    <2> QED
      BY <1>6, <1>8, <2>1 DEF Turns
  <1>9. ASSUME NEW m \in 1..(n + 1), Turns(m)' < MaxGen
        PROVE  Distance(issued'[m].gen, table'[issued'[m].index].gen) = Turns(m)'
    <2>1. CASE m = n + 1
      BY <1>1, <1>2, <1>3, <1>6, <1>8, <2>1 DEF Distance
    <2>2. CASE m \in 1..n
      <3>1. Distance(issued[m].gen, table[issued[m].index].gen) = Turns(m)
        BY <1>2, <1>7, <1>9, <2>2 DEF GenInv, n
      <3>2. issued[m].index \in Indices
        BY <1>4, <2>2 DEF Handle
      <3> QED
        BY <1>1, <1>6, <1>7, <2>2, <3>1, <3>2
    <2> QED
      BY <1>6, <2>1, <2>2
  <1>10. GenInv'
    BY <1>6, <1>9 DEF GenInv, Distance
  <1>11. ASSUME NEW m \in 1..n, issued[m] = e
         PROVE  Cardinality({k \in m..n : issued[k].index = i}) >= MaxGen
    <2>1. Since(m) = {k \in m..n : issued[k].index = i}
      BY <1>3, <1>11 DEF Since, n
    <2>2. Turns(m) = Cardinality(Since(m)) /\ Turns(m) \in Nat \ {0}
      BY <1>2, <1>3, <1>11, SinceCounts DEF Turns, n
    <2>3. Distance(e.gen, e.gen) = 0
      BY <1>3 DEF Distance
    <2>4. Turns(m) < MaxGen => Turns(m) = 0
      BY <1>2, <1>3, <1>11, <2>3 DEF GenInv, n
    <2> QED
      BY <2>1, <2>2, <2>4
  <1>12. ASSUME NEW m \in 1..(n + 1), NEW o \in 1..(n + 1), m < o, issued'[m] = issued'[o]
         PROVE  Cardinality({k \in m..(o - 1) : issued'[k].index = issued'[o].index}) >= MaxGen
    <2>1. {k \in m..(o - 1) : issued'[k].index = issued'[o].index}
            = {k \in m..(o - 1) : issued[k].index = issued'[o].index}
      BY <1>6, <1>12
    <2>2. CASE o = n + 1
      BY <1>3, <1>6, <1>11, <1>12, <2>1, <2>2
    <2>3. CASE o \in 1..n
      BY <1>6, <1>12, <2>1, <2>3 DEF NoEarlyReuse, n
    <2> QED
      BY <1>6, <2>2, <2>3
  <1>13. NoEarlyReuse'
    BY <1>6, <1>12 DEF NoEarlyReuse
  <1> QED
    BY <1>10, <1>13

LEMMA NextDistance ==
  ASSUME NEW g \in 1..MaxGen, NEW h \in 1..MaxGen, Distance(g, h) + 1 < MaxGen
  PROVE  Distance(g, NextGen(h)) = Distance(g, h) + 1
  BY DEF Distance, NextGen

\* A CLOSE: one turn more for the handles of the entry.
LEMMA GenClose ==
  ASSUME TypeOK, GenInv, NEW h \in Handles, Close(h)
  PROVE  GenInv'
  <1> DEFINE i == h.index
  <1>1. /\ table \in [Indices -> Entry] /\ i \in Indices
        /\ \A k \in Indices :
             /\ table'[k].file = IF k = i THEN NoFile ELSE table[k].file
             /\ table'[k].gen = IF k = i THEN NextGen(table[k].gen) ELSE table[k].gen
    BY CloseDoes
  <1>2. issued' = issued /\ table[i].file # NoFile /\ ~Released
    BY DEF Close, Names
  <1> HIDE DEF i
  <1> SUFFICES ASSUME NEW m \in 1..Len(issued), Turns(m)' < MaxGen
               PROVE  Distance(issued[m].gen, table'[issued[m].index].gen) = Turns(m)'
    BY <1>2 DEF GenInv, Distance
  <1>3. /\ issued[m].index \in Indices /\ issued[m].gen \in 1..MaxGen
        /\ Cardinality(Since(m)) \in Nat /\ Since(m)' = Since(m)
    <2>1. issued[m] \in Handle
      BY DEF TypeOK
    <2>2. Since(m)' = Since(m)
      BY <1>2 DEF Since
    <2> QED
      BY <2>1, <2>2, SinceCounts DEF Handle
  <1>4. CASE issued[m].index # i
    BY <1>1, <1>2, <1>3, <1>4 DEF GenInv, Turns
  <1>5. CASE issued[m].index = i
    <2>1. Turns(m)' = Turns(m) + 1 /\ Turns(m) \in Int
      BY <1>1, <1>2, <1>3, <1>5 DEF Turns
    <2>2. Distance(issued[m].gen, table[i].gen) = Turns(m)
      BY <1>2, <1>5, <2>1 DEF GenInv
    <2>3. table[i].gen \in 1..MaxGen /\ table'[i].gen = NextGen(table[i].gen)
      BY <1>1 DEF Entry
    <2> QED
      BY <1>3, <1>5, <2>1, <2>2, <2>3, NextDistance
  <1> QED
    BY <1>4, <1>5

\* Steps that change neither the handles nor the entries they name.
LEMMA GenStays ==
  ASSUME TypeOK, GenInv, NoEarlyReuse, issued' = issued,
         ~Released' => /\ ~Released
                       /\ \A i \in Indices : table'[i].file = table[i].file /\ table'[i].gen = table[i].gen
  PROVE  GenInv' /\ NoEarlyReuse'
  <1>1. ASSUME NEW m \in 1..Len(issued)
        PROVE  issued[m].index \in Indices /\ Since(m)' = Since(m)
    <2>1. issued[m] \in Handle
      BY DEF TypeOK
    <2>2. Since(m)' = Since(m)
      BY DEF Since
    <2> QED
      BY <2>1, <2>2 DEF Handle
  <1>2. GenInv'
    BY <1>1 DEF GenInv, Turns, Distance
  <1> QED
    BY <1>2 DEF NoEarlyReuse

LEMMA GenStep ==
  ASSUME TypeOK, SubmitterInv, GenInv, NoEarlyReuse, [Next]_vars
  PROVE  GenInv' /\ NoEarlyReuse'
  <1>1. ASSUME NEW f \in Files, Open(f)
        PROVE  GenInv' /\ NoEarlyReuse'
    BY <1>1, GenInsert DEF Open, AllFiles
  <1>2. ASSUME NEW f \in Adoptable, Adopt(f)
        PROVE  GenInv' /\ NoEarlyReuse'
    BY <1>2, GenInsert DEF Adopt, AllFiles
  <1>3. ASSUME NEW h \in Handles, Close(h)
        PROVE  GenInv' /\ NoEarlyReuse'
    <2>1. issued' = issued
      BY <1>3 DEF Close
    <2>2. NoEarlyReuse'
      BY <2>1 DEF NoEarlyReuse
    <2> QED
      BY <1>3, <2>2, GenClose
  <1>4. ASSUME NEW j \in Jobs, NEW h \in Handles, NEW s \in Slots, Readdir(j, h, s)
        PROVE  GenInv' /\ NoEarlyReuse'
    BY <1>4, GenStays DEF Readdir, Released
  <1>5. ASSUME NEW j \in Jobs, Submitting(j) \/ Working(j)
        PROVE  GenInv' /\ NoEarlyReuse'
    <2>1. issued' = issued
      BY <1>5 DEF Submitting, Working, Claim, ClaimBusy, TakeSlot, NoSlot, Defer, DeferFails, Refuse,
         Start, Seek, Iterate, ReleaseHandle, CancelReleases, Complete
    <2>2. ~Released' => /\ ~Released
                        /\ \A i \in Indices : table'[i].file = table[i].file /\ table'[i].gen = table[i].gen
      BY <1>5, EntriesStay
    <2> QED
      BY <2>1, <2>2, GenStays
  <1>6. CASE Release \/ UNCHANGED vars
    BY <1>6, GenStays DEF Release, Released, vars
  <1> QED
    BY Zenon, <1>1, <1>2, <1>3, <1>4, <1>5, <1>6, NextIs DEF Tabling

\* A handle that was closed is not issued again before its entry has been issued
\* MaxGen times.
THEOREM NoEarlyReuseHolds == Spec => []NoEarlyReuse
  <1>1. Init => GenInv /\ NoEarlyReuse
    BY DEF Init, GenInv, NoEarlyReuse
  <1>2. HandlesInv /\ GenInv /\ NoEarlyReuse /\ [Next]_vars => GenInv' /\ NoEarlyReuse'
    BY GenStep DEF HandlesInv
  <1> QED
    BY <1>1, <1>2, HandlesInvariant, PTL DEF Spec
=============================================================================
