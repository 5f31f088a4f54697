----------------------------- MODULE MCReactor -----------------------------
(* The runtimes in one run: an instance of Reactor, which takes SQEs to the *)
(* ring and completions to futures, one of CppReactor, which does the same  *)
(* for the C++ runtime, and one of Tree, what the Rust library makes of     *)
(* operations on paths.  A behaviour is one of one of them; Tree has        *)
(* variables of its own, which stay as they are while it is not run.  The   *)
(* ring has fewer places than there are SQEs, and an ENTER takes fewer, so  *)
(* that batches are cut, refused and put back.                              *)
EXTENDS CppReactor, Tree, TLC

VARIABLE part

\* A tree to copy, s, and one to copy it over, d, or nothing there; links to a
\* file, to a directory of the tree, to the tree itself, to the other one, and
\* from the other one back.
s == <<1>>
d == <<2>>
o == <<3>>
e == <<4>>
MCWorlds ==
  {[tree |-> (<<>> :> Dir) @@ (s :> Dir) @@ (d :> Dir) @@ (o :> File(3))
             @@ (<<1, 1>> :> File(1)) @@ (<<1, 2>> :> Dir) @@ (<<1, 2, 1>> :> File(2))
             @@ (<<1, 3>> :> Link(d))
             @@ (<<2, 1>> :> Link(o)) @@ (<<2, 2>> :> Dir) @@ (<<2, 2, 2>> :> File(5))
             @@ (<<2, 3>> :> Dir) @@ (<<2, 3, 1>> :> File(4))
             @@ (e :> Dir) @@ (<<4, 1>> :> File(6)),
    data |-> << <<"x", "y", "z">>, <<"u">>, <<"v">>, <<>>, <<"w">>, <<>> >>],
   [tree |-> (<<>> :> Dir) @@ (s :> Dir) @@ (d :> Dir)
             @@ (<<1, 1>> :> File(1)) @@ (<<1, 2>> :> File(2))
             @@ (<<2, 1>> :> Link(<<1, 2>>)) @@ (<<2, 2>> :> File(3)),
    data |-> << <<"x">>, <<"u">>, <<>> >>],
   [tree |-> (<<>> :> Dir) @@ (s :> Dir) @@ (o :> Link(s))
             @@ (<<1, 1>> :> Dir) @@ (<<1, 1, 1>> :> Dir) @@ (<<1, 2>> :> File(1))
             @@ (<<1, 3>> :> Link(<<1, 1>>)),
    data |-> << <<"x", "y", "z">> >>]}

\* What others put a link to: a directory that no call is about.
MCAims == {e}

C(name, p, q) == [op |-> name, p |-> p, q |-> q]
MCScripts ==
  {<<C("copy_tree", s, d)>>, <<C("remove_all", s, s)>>, <<C("remove_all", o, s)>>,
   <<C("remove", <<1, 2>>, s)>>, <<C("remove", o, s)>>, <<C("list", s, s)>>,
   <<C("make_all", <<2, 2, 1>>, s)>>, <<C("make_all", <<1, 3, 2>>, s)>>,
   <<C("copy_file", <<1, 2>>, <<2, 1>>)>>, <<C("copy_file", <<1, 1>>, <<2, 1>>)>>,
   <<C("read_file", <<1, 1>>, s)>>, <<C("read_file", <<1, 2>>, s)>>,
   <<C("open", <<1, 2>>, s), C("dup", s, s), C("close", s, s),
     C("read_file", <<1, 2>>, s), C("close", s, s)>>}

\* What Tree starts with when it is not run is fixed.
MCInit ==
  /\ part \in {"reactor", "cpp", "library"}
  /\ Init /\ TreeInit
  /\ part # "library" => script = <<C("list", s, s)>> /\ d \in DOMAIN tree

ReactorStep(A) == part = "reactor" /\ A /\ UNCHANGED <<part, treeVars>>
CppStep(A) == part = "cpp" /\ A /\ UNCHANGED <<part, treeVars>>
TreeStep(A) == part = "library" /\ A /\ UNCHANGED <<part, rvars>>

all == <<part, rvars, treeVars>>

MCSpec ==
  /\ MCInit /\ [][ReactorStep(Next) \/ CppStep(CppNext) \/ TreeStep(TreeNext)]_all
  /\ WF_all(ReactorStep(ThreadStep)) /\ WF_all(TreeStep(Step))
  /\ \A n \in 1..MaxOps : WF_all(ReactorStep(KernelAnswers(n)))

\* Operations leave the slab, turns come to their ends, and so do Tree's calls.
\* Not in the C++ runtime, where a batch may be too long for ever.
RuntimeEnds == part = "cpp" \/ (EveryOpEnds /\ TurnEnds /\ CallsEnd)

=============================================================================
