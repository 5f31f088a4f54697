-------------------------------- MODULE Tree --------------------------------
(* What the Rust library does with names and with handles                  *)
(* (rust/runtime/src/ops.rs, and the handle records of rt.rs): listing,     *)
(* removing and copying trees, each a sequence of operations of the ring,   *)
(* between which others change the same tree.                               *)
(*                                                                         *)
(* A call is a list of steps, one operation each; a step may put others in  *)
(* its place.  A path is the sequence of its names, a name a number: the    *)
(* order of a directory, and the cookie of READDIR.                         *)
EXTENDS Integers, FiniteSets, Sequences, SequencesExt

CONSTANTS Worlds,       \* what there is at first: [tree, data]
          Scripts,      \* calls a program makes, in order: [op, p, q]
          SlotLen,      \* bytes in a slot
          Page,         \* entries in a slot
          MaxFaults,    \* bound: operations that fail of themselves
          MaxOthers,    \* bound: changes by others
          Aims,         \* what links that others put lead to
          NewNames      \* bound: names that others give

VARIABLES tree, data,           \* nodes by path; contents by inode
          open,                 \* what the kernel's handles name, by handle
          pos,                  \* rt.rs: the record of a handle
          held,                 \* the program's own handles, one per name
          next,                 \* the handle OPEN answers next
          script, call, answer, \* calls to make; the one being made; the last answer
          before, disturbed,    \* the world when the call began; others have changed it
          dirs,                 \* what has been a directory since
          faults, others

\* A path is a sequence of names.
ASSUME ScriptsAssumption ==
  Scripts \subseteq Seq([op : STRING, p : Seq(Nat), q : Seq(Nat)])

world == <<tree, data>>
treeVars == <<tree, data, open, pos, held, next, script, call, answer, before, disturbed, dirs, faults, others>>
fixed == <<script, before, disturbed, dirs, others>>

Dir == [kind |-> "dir"]
File(i) == [kind |-> "file", ino |-> i]
Link(t) == [kind |-> "link", target |-> t]
AimedLinks == {Link(t) : t \in Aims}

Is(p, k) == p \in DOMAIN tree /\ tree[p].kind = k
Below(p) == {q \in DOMAIN tree : IsPrefix(p, q)}
Entries(p) == {n \in {Last(q) : q \in Below(p) \ {<<>>}} : Append(p, n) \in DOMAIN tree}

\* The walk of the VFS follows a link on the way, and the last one or not.
RealIn(t, p) ==
  LET links == {i \in DOMAIN p : SubSeq(p, 1, i) \in DOMAIN t /\ t[SubSeq(p, 1, i)].kind = "link"}
      i == CHOOSE i \in links : \A j \in links : i <= j
  IN IF links = {} THEN p ELSE t[SubSeq(p, 1, i)].target \o SubSeq(p, i + 1, Len(p))
Real(p) == RealIn(tree, p)
Here(p) == IF p = <<>> THEN p ELSE Append(Real(Front(p)), Last(p))

Put(p, node) == tree' = [q \in DOMAIN tree \cup {p} |-> IF q = p THEN node ELSE tree[q]]
TakeOut(p) == tree' = [q \in DOMAIN tree \ {p} |-> tree[q]]

-----------------------------------------------------------------------------
(* The steps of a call.                                                     *)

Do(do, p, q) == [do |-> do, p |-> p, q |-> q]

\* list_dir, and what is done with the entries.
List(p, then, q) ==
  <<Do("opendir", p, q), Do("readdir", p, q), Do("closedir", p, q), Do(then, p, q)>>

CopyFile(p, q) ==
  <<Do("open_src", p, q), Do("stat_fd", p, q), Do("open_dst", q, q), Do("stat_fd", q, q), Do("read", p, q)>>

Plan(r) ==
  CASE r.op = "list" -> List(r.p, "listed", r.p)
    [] r.op = "remove" -> <<Do("unlink_one", r.p, r.p)>>
    [] r.op = "remove_all" -> <<Do("unlink_all", r.p, r.p)>>
    [] r.op = "make_all" ->
         [i \in 1..Len(r.p) |->
            Do(IF i < Len(r.p) THEN "mkdir_some" ELSE "mkdir_over", SubSeq(r.p, 1, i), r.p)]
    [] r.op = "copy_tree" -> <<Do("mkdir_over", r.q, r.q)>> \o List(r.p, "copy_entries", r.q)
    [] r.op = "copy_file" -> CopyFile(r.p, r.q)
    [] r.op = "read_file" -> <<Do("open_src", r.p, r.q), Do("stat_fd", r.p, r.q), Do("read_all", r.p, r.q)>>
    [] r.op = "open" -> <<Do("open_src", r.p, r.q), Do("stat_fd", r.p, r.q), Do("keep", r.p, r.q)>>
    [] OTHER -> <<>>

NoCall == [req |-> Do("none", <<>>, <<>>), todo |-> <<>>, fds |-> <<>>, res |-> "ok",
           names |-> <<>>, at |-> 0, slot |-> <<>>, got |-> <<>>]
NoAnswer == [req |-> NoCall.req, res |-> "none", got |-> <<>>]

TreeInit ==
  /\ \E w \in Worlds : tree = w.tree /\ data = w.data
  /\ open = <<>> /\ pos = <<>> /\ held = <<>> /\ next = 1
  /\ script \in Scripts
  /\ call = NoCall /\ answer = NoAnswer
  /\ before = [tree |-> <<>>, data |-> <<>>] /\ disturbed = FALSE /\ dirs = {}
  /\ faults = 0 /\ others = 0

AtRest == call.todo = <<>>
This == Head(call.todo)
Doing(dos) == ~AtRest /\ This.do \in dos

Then(steps) == call' = [call EXCEPT !.todo = steps \o Tail(@)]

\* Each call closes what it has opened, and then says why.
Closing == [i \in DOMAIN call.fds |-> Do("close", <<call.fds[i]>>, <<>>)]
Finish == <<Do("return", <<>>, <<>>)>>
Fails(e) == call' = [call EXCEPT !.todo = Closing \o Finish, !.res = e]

Begin ==
  /\ AtRest /\ script # <<>> /\ Head(script).op \notin {"dup", "close"}
  /\ LET r == Head(script)
     IN call' = [NoCall EXCEPT !.req = r, !.todo = Plan(r) \o Finish]
  /\ script' = Tail(script)
  /\ before' = [tree |-> tree, data |-> data] /\ disturbed' = FALSE
  /\ dirs' = {p \in DOMAIN tree : Is(p, "dir")}
  /\ answer' = NoAnswer
  /\ UNCHANGED <<world, open, next, pos, held, faults, others>>

Return ==
  /\ Doing({"return"})
  /\ answer' = [req |-> call.req, res |-> call.res, got |-> call.got]
  /\ call' = NoCall
  /\ UNCHANGED <<world, open, pos, held, next, fixed, faults>>

\* The operation fails of itself: no memory, an I/O error, a WRITE of nothing.
Fault ==
  /\ ~AtRest
  /\ This.do \notin {"return", "close", "closedir", "stat_fd", "keep",
                    "listed", "remove_entries", "copy_entries"}
  /\ faults < MaxFaults /\ faults' = faults + 1
  /\ Fails("EIO")
  /\ UNCHANGED <<world, open, pos, held, next, fixed, answer>>

-----------------------------------------------------------------------------
(* Handles.                                                                 *)

With(f, k, v) == [x \in DOMAIN f \cup {k} |-> IF x = k THEN v ELSE f[x]]
Less(f, k) == [x \in DOMAIN f \ {k} |-> f[x]]

Opened(what) ==
  /\ open' = With(open, next, what) /\ next' = next + 1
  /\ call' = [call EXCEPT !.fds = Append(@, next), !.todo = Tail(@)]

Opendir ==
  /\ Doing({"opendir"})
  /\ IF Is(Real(This.p), "dir")
     THEN Opened([dir |-> Real(This.p)])
     ELSE UNCHANGED <<open, next>> /\ Fails(IF Real(This.p) \in DOMAIN tree THEN "ENOTDIR" ELSE "ENOENT")
  /\ UNCHANGED <<world, pos, held, fixed, answer, faults>>

OpenSrc ==
  /\ Doing({"open_src"})
  /\ IF Is(Real(This.p), "file")
     THEN Opened([ino |-> tree[Real(This.p)].ino])
     ELSE IF Is(Real(This.p), "dir") THEN Opened([dir |-> Real(This.p)])
     ELSE UNCHANGED <<open, next>> /\ Fails("ENOENT")
  /\ UNCHANGED <<world, pos, held, fixed, answer, faults>>

\* O_CREATE and O_TRUNC, through a link too.
OpenDst ==
  /\ Doing({"open_dst"})
  /\ LET p == Real(This.p) IN
     \/ /\ Is(p, "file")
        /\ data' = [data EXCEPT ![tree[p].ino] = <<>>]
        /\ Opened([ino |-> tree[p].ino]) /\ UNCHANGED tree
     \/ /\ p \notin DOMAIN tree /\ Is(Real(Front(p)), "dir")
        /\ data' = Append(data, <<>>) /\ Put(p, File(Len(data) + 1))
        /\ Opened([ino |-> Len(data) + 1])
  /\ UNCHANGED <<pos, held, fixed, answer, faults>>

CanWrite(p) == Is(p, "file") \/ (p \notin DOMAIN tree /\ Is(Real(Front(p)), "dir"))

\* Variant: the error goes out as it is.
OpenDstFailsAtOnce ==
  /\ Doing({"open_dst"}) /\ ~CanWrite(Real(This.p))
  /\ call' = [call EXCEPT !.todo = Finish, !.res = "EISDIR"]
  /\ UNCHANGED <<world, open, next, pos, held, fixed, answer, faults>>

OpenDstFails ==
  /\ Doing({"open_dst"}) /\ ~CanWrite(Real(This.p))
  /\ Fails("EISDIR")
  /\ UNCHANGED <<world, open, next, pos, held, fixed, answer, faults>>

\* open_at's second half: only a STAT says whether there is a position.
StatFd ==
  /\ Doing({"stat_fd"})
  /\ \E known \in BOOLEAN :
       /\ ~known => faults < MaxFaults
       /\ faults' = IF known THEN faults ELSE faults + 1
       /\ LET h == Last(call.fds) IN
          pos' = With(pos, h, [seekable |-> known /\ "ino" \in DOMAIN open[h], off |-> 0, refs |-> 1])
  /\ Then(<<>>)
  /\ UNCHANGED <<world, open, next, held, fixed, answer>>

Keep ==
  /\ Doing({"keep"})
  /\ held' = Append(held, Last(call.fds))
  /\ Then(<<>>)
  /\ UNCHANGED <<world, open, next, pos, fixed, answer, faults>>

\* close_fd: the last name of a handle closes it, and so does one without a
\* record, a directory's.
CloseFd(h) ==
  IF h \in DOMAIN pos /\ pos[h].refs > 1
  THEN pos' = [pos EXCEPT ![h].refs = @ - 1] /\ UNCHANGED open
  ELSE pos' = Less(pos, h) /\ open' = Less(open, h)

Close ==
  /\ Doing({"close"})
  /\ CloseFd(This.p[1]) /\ Then(<<>>)
  /\ UNCHANGED <<world, next, held, fixed, answer, faults>>

\* dup_fd, and the program's own close_fd: where the open failed there is no
\* name to use.
Own(op) == AtRest /\ script # <<>> /\ Head(script).op = op /\ script' = Tail(script)

DupFd ==
  /\ Own("dup")
  /\ IF held = <<>> THEN UNCHANGED <<pos, held>>
     ELSE pos' = [pos EXCEPT ![held[1]].refs = @ + 1] /\ held' = Append(held, held[1])
  /\ UNCHANGED <<world, open, next, call, answer, before, disturbed, dirs, faults, others>>

CloseOwn ==
  /\ Own("close")
  /\ IF held = <<>> THEN UNCHANGED <<open, pos, held>>
     ELSE CloseFd(held[1]) /\ held' = Tail(held)
  /\ UNCHANGED <<world, next, call, answer, before, disturbed, dirs, faults, others>>

-----------------------------------------------------------------------------
(* list_dir.                                                                *)

Directory == open[Last(call.fds)].dir

\* Names after the cookie, as many as there is room for; `at' is the cookie.
More == {n \in Entries(Directory) : n > call.at}
Nth(n, i) == Cardinality({m \in More : m <= n}) = i

Readdir ==
  /\ Doing({"readdir"}) /\ Is(Directory, "dir")
  /\ \E k \in 1..Page : \E page \in [1..k -> More] :
       /\ \A i \in 1..k : Nth(page[i], i)
       /\ call' = [call EXCEPT
            !.names = @ \o [i \in 1..k |->
                              [name |-> page[i], kind |-> tree[Append(Directory, page[i])].kind]],
            !.at = page[k]]
  /\ UNCHANGED <<world, open, next, pos, held, fixed, answer, faults>>

ReaddirEnd ==
  /\ Doing({"readdir"})
  /\ IF Is(Directory, "dir") THEN More = {} /\ Then(<<>>) ELSE Fails("ENOENT")
  /\ UNCHANGED <<world, open, next, pos, held, fixed, answer, faults>>

Closedir ==
  /\ Doing({"closedir"})
  /\ open' = Less(open, Last(call.fds))
  /\ call' = [call EXCEPT !.fds = Front(@), !.at = 0, !.todo = Tail(@)]
  /\ UNCHANGED <<world, next, pos, held, fixed, answer, faults>>

\* The kind of an entry is the directory's own; the stat of each, for its size,
\* changes nothing.
Each(f(_), es, kinds) ==
  FlattenSeq([i \in 1..Len(es) |-> IF es[i].kind \in kinds THEN f(es[i].name) ELSE <<>>])

\* What comes after the entries are read.
Listed(steps) == call' = [call EXCEPT !.todo = steps \o Tail(@), !.names = <<>>]

ListDone ==
  /\ Doing({"listed"})
  /\ call' = [call EXCEPT !.got = @ \o call.names, !.names = <<>>, !.todo = Tail(@)]
  /\ UNCHANGED <<world, open, next, pos, held, fixed, answer, faults>>

-----------------------------------------------------------------------------
(* remove_path.                                                             *)

\* Variant: what a stat says of a link is said of its target.
RemoveEntriesFollowing ==
  /\ Doing({"remove_entries"})
  /\ LET IsDir(e) == Is(Real(Append(This.p, e.name)), "dir")
         said == [i \in 1..Len(call.names) |->
                    [call.names[i] EXCEPT !.kind = IF IsDir(call.names[i]) THEN "dir" ELSE "file"]]
     IN Listed(Each(LAMBDA n : <<Do("unlink", Append(This.p, n), This.p)>>, said, {"file"})
               \o Each(LAMBDA n : List(Append(This.p, n), "remove_entries", Append(This.p, n)),
                       Reverse(said), {"dir"})
               \o <<Do("rmdir", This.p, This.p)>>)
  /\ UNCHANGED <<world, open, next, pos, held, fixed, answer, faults>>

\* The stack: files at once, directories from the last, then the directory.
RemoveEntries ==
  /\ Doing({"remove_entries"})
  /\ Listed(Each(LAMBDA n : <<Do("unlink", Append(This.p, n), This.p)>>, call.names, {"file", "link"})
            \o Each(LAMBDA n : List(Append(This.p, n), "remove_entries", Append(This.p, n)),
                    Reverse(call.names), {"dir"})
            \o <<Do("rmdir", This.p, This.p)>>)
  /\ UNCHANGED <<world, open, next, pos, held, fixed, answer, faults>>

Unlinks == {"unlink", "unlink_one", "unlink_all"}

Unlink ==
  /\ Doing(Unlinks)
  /\ Here(This.p) \in DOMAIN tree /\ ~Is(Here(This.p), "dir")
  /\ TakeOut(Here(This.p)) /\ Then(<<>>)
  /\ UNCHANGED <<data, open, next, pos, held, fixed, answer, faults>>

UnlinkDir ==
  /\ Doing({"unlink_one", "unlink_all"}) /\ Is(Here(This.p), "dir")
  /\ Then(IF This.do = "unlink_one" THEN <<Do("rmdir", This.p, This.p)>>
          ELSE List(This.p, "remove_entries", This.p))
  /\ UNCHANGED <<world, open, next, pos, held, fixed, answer, faults>>

UnlinkFails ==
  /\ \/ Doing(Unlinks) /\ Here(This.p) \notin DOMAIN tree
     \/ Doing({"unlink"}) /\ Is(Here(This.p), "dir")
  /\ Fails("ENOENT")
  /\ UNCHANGED <<world, open, next, pos, held, fixed, answer, faults>>

Empty(p) == Below(p) = {p}

Rmdir ==
  /\ Doing({"rmdir"})
  /\ IF Is(Here(This.p), "dir") /\ Empty(Here(This.p))
     THEN TakeOut(Here(This.p)) /\ Then(<<>>)
     ELSE UNCHANGED tree /\ Fails("ENOTEMPTY")
  /\ UNCHANGED <<data, open, next, pos, held, fixed, answer, faults>>

-----------------------------------------------------------------------------
(* make_dir_all, dir_over, link_over.                                       *)

Free(p) == Here(p) \notin DOMAIN tree /\ Is(Real(Front(p)), "dir")

Mkdir ==
  /\ Doing({"mkdir_some", "mkdir_over"}) /\ Free(This.p)
  /\ Put(Here(This.p), Dir) /\ Then(<<>>) /\ dirs' = dirs \cup {Here(This.p)}
  /\ UNCHANGED <<data, open, next, pos, held, script, before, disturbed, others, answer, faults>>

\* What is there must be a directory, and only the leaf is asked.
MkdirStands ==
  /\ Doing({"mkdir_some", "mkdir_over"}) /\ Here(This.p) \in DOMAIN tree
  /\ Then(IF This.do = "mkdir_over"
          THEN <<Do("readlink_kind", This.p, This.p), Do("stat_kind", This.p, This.p)>>
          ELSE <<>>)
  /\ UNCHANGED <<world, open, next, pos, held, fixed, answer, faults>>

\* A link: EEXIST if it is where a directory should be, or it is to be copied.
Readlink ==
  /\ Doing({"readlink_kind", "readlink_copy"})
  /\ IF This.do = "readlink_kind"
     THEN IF Is(Here(This.p), "link") THEN Fails("EEXIST") ELSE Then(<<>>)
     ELSE IF Is(Here(This.p), "link") THEN Then(<<Do("symlink_over", tree[Here(This.p)].target, This.q)>>)
     ELSE Fails("EINVAL")
  /\ UNCHANGED <<world, open, next, pos, held, fixed, answer, faults>>

StatKind ==
  /\ Doing({"stat_kind"})
  /\ IF Is(Real(This.p), "dir") THEN Then(<<>>) ELSE Fails("EEXIST")
  /\ UNCHANGED <<world, open, next, pos, held, fixed, answer, faults>>

Symlink ==
  /\ Doing({"symlink_over", "symlink"}) /\ Free(This.q)
  /\ Put(Here(This.q), Link(This.p)) /\ Then(<<>>)
  /\ UNCHANGED <<data, open, next, pos, held, fixed, answer, faults>>

\* The old name goes, whatever it was.
SymlinkOver ==
  /\ Doing({"symlink_over"}) /\ Here(This.q) \in DOMAIN tree
  /\ Then(<<Do("unlink_all", This.q, This.q), Do("symlink", This.p, This.q)>>)
  /\ UNCHANGED <<world, open, next, pos, held, fixed, answer, faults>>

MakeFails ==
  /\ \/ Doing({"mkdir_some", "mkdir_over"}) /\ Here(This.p) \notin DOMAIN tree /\ ~Free(This.p)
     \/ Doing({"symlink"}) /\ ~Free(This.q)
     \/ Doing({"symlink_over"}) /\ Here(This.q) \notin DOMAIN tree /\ ~Free(This.q)
  /\ Fails("ENOENT")
  /\ UNCHANGED <<world, open, next, pos, held, fixed, answer, faults>>

-----------------------------------------------------------------------------
(* copy_tree, copy_file, read_file.                                         *)

\* Files, links and directories as they come; then down, from the last.
CopyEntries ==
  /\ Doing({"copy_entries"})
  /\ LET p == This.p
         q == This.q
         Now(e) == CASE e.kind = "dir" -> <<Do("mkdir_over", Append(q, e.name), q)>>
                     [] e.kind = "link" -> <<Do("readlink_copy", Append(p, e.name), Append(q, e.name))>>
                     [] OTHER -> CopyFile(Append(p, e.name), Append(q, e.name))
     IN Listed(FlattenSeq([i \in 1..Len(call.names) |-> Now(call.names[i])])
               \o Each(LAMBDA n : List(Append(p, n), "copy_entries", Append(q, n)), Reverse(call.names), {"dir"}))
  /\ UNCHANGED <<world, open, next, pos, held, fixed, answer, faults>>

Contents(i) == data[open[call.fds[i]].ino]
OfDir == "dir" \in DOMAIN open[call.fds[1]]
Counts(n) == 1..(IF n < SlotLen THEN n ELSE SlotLen)

ReadOfDir ==
  /\ Doing({"read", "read_all"}) /\ OfDir
  /\ Fails("EISDIR")
  /\ UNCHANGED <<world, open, next, pos, held, fixed, answer, faults>>

Read ==
  /\ Doing({"read"}) /\ ~OfDir /\ call.at < Len(Contents(1))
  /\ \E n \in Counts(Len(Contents(1)) - call.at) :
       call' = [call EXCEPT !.slot = SubSeq(Contents(1), call.at + 1, call.at + n),
                            !.todo = <<Do("write", This.p, This.q)>> \o @]
  /\ UNCHANGED <<world, open, next, pos, held, fixed, answer, faults>>

\* Both are closed at the end, in this order.
ReadEnd ==
  /\ Doing({"read"}) /\ ~OfDir /\ call.at >= Len(Contents(1))
  /\ call' = [call EXCEPT !.todo = Closing \o Tail(@), !.fds = <<>>, !.at = 0]
  /\ UNCHANGED <<world, open, next, pos, held, fixed, answer, faults>>

Over(d, bytes) == SubSeq(d, 1, call.at) \o bytes \o SubSeq(d, call.at + Len(bytes) + 1, Len(d))

WriteOf(n, left) ==
  /\ data' = [data EXCEPT ![open[call.fds[2]].ino] = Over(@, SubSeq(call.slot, 1, n))]
  /\ call' = [call EXCEPT !.at = @ + n, !.slot = left,
                          !.todo = IF left = <<>> THEN Tail(@) ELSE @]

\* Variant: the rest of a short write is not moved to the front.
WriteNotMoved ==
  /\ Doing({"write"})
  /\ \E n \in DOMAIN call.slot : WriteOf(n, SubSeq(call.slot, 1, Len(call.slot) - n))
  /\ UNCHANGED <<tree, open, next, pos, held, fixed, answer, faults>>

\* What a short write leaves moves to the front of the slot.
Write ==
  /\ Doing({"write"})
  /\ \E n \in DOMAIN call.slot : WriteOf(n, SubSeq(call.slot, n + 1, Len(call.slot)))
  /\ UNCHANGED <<tree, open, next, pos, held, fixed, answer, faults>>

\* read_file goes by the handle's position, which a stream does not have.
Fd == call.fds[1]
Position == IF pos[Fd].seekable THEN pos[Fd].off ELSE 0

ReadAll ==
  /\ Doing({"read_all"}) /\ ~OfDir /\ Position < Len(Contents(1))
  /\ \E n \in Counts(Len(Contents(1)) - Position) :
       /\ pos[Fd].seekable =>
            call' = [call EXCEPT !.got = @ \o SubSeq(Contents(1), Position + 1, Position + n)]
       /\ ~pos[Fd].seekable => UNCHANGED call    \* the same bytes again and again
       /\ pos' = [pos EXCEPT ![Fd].off = IF pos[Fd].seekable THEN @ + n ELSE @]
  /\ UNCHANGED <<world, open, next, held, fixed, answer, faults>>

ReadAllEnd ==
  /\ Doing({"read_all"}) /\ ~OfDir /\ Position >= Len(Contents(1))
  /\ call' = [call EXCEPT !.todo = Closing \o Tail(@), !.fds = <<>>]
  /\ UNCHANGED <<world, open, next, pos, held, fixed, answer, faults>>

-----------------------------------------------------------------------------
(* Others.                                                                  *)

\* They take a name out, put a file, a directory or a link where there is none,
\* or a link in the place of a directory.
OtherTakes == \E p \in DOMAIN tree \ {<<>>} : (Is(p, "dir") => Empty(p)) /\ TakeOut(p)

OtherPuts ==
  \E p \in DOMAIN tree : \E n \in NewNames : \E node \in {File(Len(data) + 1), Dir} \cup AimedLinks :
    Is(p, "dir") /\ Append(p, n) \notin DOMAIN tree /\ Put(Append(p, n), node)

OtherReplaces ==
  \E p \in DOMAIN tree \ {<<>>} : \E node \in AimedLinks :
    /\ Is(p, "dir") /\ ~IsPrefix(p, node.target)
    /\ tree' = [q \in (DOMAIN tree \ Below(p)) \cup {p} |-> IF q = p THEN node ELSE tree[q]]

Other ==
  /\ ~AtRest /\ others < MaxOthers /\ others' = others + 1
  /\ OtherTakes \/ OtherPuts \/ OtherReplaces
  /\ data' = Append(data, <<>>)    \* of the file, if it is one
  /\ disturbed' = TRUE /\ dirs' = dirs \cup {p \in DOMAIN tree' : tree'[p].kind = "dir"}
  /\ UNCHANGED <<open, next, pos, held, script, call, answer, before, faults>>

Step ==
  \/ Begin \/ Return \/ Opendir \/ OpenSrc \/ OpenDst \/ OpenDstFails \/ StatFd \/ Keep
  \/ Close \/ DupFd \/ CloseOwn \/ Readdir \/ ReaddirEnd \/ Closedir \/ ListDone
  \/ RemoveEntries \/ Unlink \/ UnlinkDir \/ UnlinkFails \/ Rmdir
  \/ Mkdir \/ MkdirStands \/ Readlink \/ StatKind \/ Symlink \/ SymlinkOver \/ MakeFails
  \/ CopyEntries \/ ReadOfDir \/ Read \/ ReadEnd \/ Write \/ ReadAll \/ ReadAllEnd

TreeNext == Step \/ Fault \/ Other

TreeSpec == TreeInit /\ [][TreeNext]_treeVars
FairTreeSpec == TreeSpec /\ WF_treeVars(Step)
-----------------------------------------------------------------------------
(* Properties.                                                              *)

Was(p) == {x \in DOMAIN before.tree : IsPrefix(p, x)}
WasKind(x, k) == before.tree[x].kind = k

\* What there was at x is at y.
Copied(x, y) ==
  LET n == before.tree[x] IN
  CASE n.kind = "dir" -> Is(y, "dir")
    [] n.kind = "link" -> Is(y, "link") /\ tree[y] = n
    [] OTHER -> Is(Real(y), "file") /\ data[tree[Real(y)].ino] = before.data[n.ino]

\* The names at ps are what they were, and so are the contents of their files,
\* but for the written ones.
KeptBut(ps, written) ==
  \A x \in ps :
    /\ x \in DOMAIN tree /\ tree[x] = before.tree[x]
    /\ WasKind(x, "file") /\ x \notin written => data[tree[x].ino] = before.data[tree[x].ino]
Kept(ps) == KeptBut(ps, {})

\* Where a copy puts x; what it writes to, through links that stand there; and
\* what it may take the place of.
To(r, x) == r.q \o SubSeq(x, Len(r.p) + 1, Len(x))
Files(r) == {x \in Was(r.p) : WasKind(x, "file")}
WritesTo(r, x) == RealIn(before.tree, To(r, x))
Written(r) == {WritesTo(r, x) : x \in Files(r)}
Replaced(r) ==
  {y \in Was(r.q) : \E x \in Was(r.p) : ~WasKind(x, "dir") /\ IsPrefix(To(r, x), y)}

\* The files that links at the destination lead to are outside of what is copied
\* and of where it goes, and no file twice.  Otherwise a copy that says it went
\* well may have emptied what it was to copy.
Apart(r) ==
  \A x \in Files(r) :
    WritesTo(r, x) # To(r, x) =>
      /\ ~IsPrefix(r.p, WritesTo(r, x)) /\ ~IsPrefix(r.q, WritesTo(r, x))
      /\ \A z \in Files(r) \ {x} : WritesTo(r, z) # WritesTo(r, x)

Promise(r) ==
  CASE r.op \in {"copy_tree", "copy_file"} ->
         Apart(r) => /\ \A x \in Was(r.p) : Copied(x, To(r, x))
                     /\ KeptBut(DOMAIN before.tree \ Replaced(r), Written(r))
                     /\ KeptBut(Replaced(r) \cap Written(r), Written(r))
    [] r.op \in {"remove", "remove_all"} -> Below(r.p) = {} /\ Kept(DOMAIN before.tree \ Was(r.p))
    [] r.op = "make_all" -> Is(Here(r.p), "dir") /\ Kept(DOMAIN before.tree)
    [] r.op = "list" ->
         /\ Len(answer.got) = Cardinality(Entries(r.p))
         /\ ToSet(answer.got) = {[name |-> n, kind |-> tree[Append(r.p, n)].kind] : n \in Entries(r.p)}
    [] r.op = "read_file" -> answer.got = data[tree[Real(r.p)].ino]
    [] OTHER -> TRUE

\* A call that nobody disturbed, and that says it went well, has done all it
\* was asked and nothing else, to names and to contents: whatever pages the
\* listings came in, however short the reads and writes were, and whatever stood
\* at the destination, but links that lead back (Apart).
OkIsDone == answer.res = "ok" /\ ~disturbed => Promise(answer.req)

\* No call leaves a handle behind, whichever of its operations failed: when
\* none is in progress the kernel's handles are those the program has names
\* for, each counted once in its record.
NothingLeftOpen ==
  AtRest =>
    /\ DOMAIN open = ToSet(held) /\ DOMAIN pos = ToSet(held)
    /\ \A h \in ToSet(held) : pos[h].refs = Cardinality({i \in DOMAIN held : held[i] = h})

\* The name that a call may take things away below.
Base == Here(IF call.req.op = "copy_tree" THEN call.req.q ELSE call.req.p)

\* The step goes through a link that stands, at the name or below it, where a
\* directory stood since the call began.
Misled ==
  \E x \in dirs :
    Is(x, "link") /\ IsPrefix(Base, x) /\ IsPrefix(x, This.p) /\ x # This.p

\* A removal takes nothing away but what is below the name it was given, and a
\* copy nothing but what is below its destination: whatever files, directories
\* and links others put in or take out meanwhile, neither goes down a link, but
\* one that was put in the place of a directory.
RemovesOnlyBelow ==
  [][\A p \in DOMAIN tree \ DOMAIN tree' :
       others' = others => IsPrefix(Base, p) \/ Misled]_treeVars

\* Every call ends, but one: read_file of a handle whose STAT failed reads the
\* beginning of the file for ever.
CallsEnd == ~AtRest ~> AtRest \/ (Doing({"read_all"}) /\ ~pos[Fd].seekable)
=============================================================================
