----------------------------- MODULE PlainFile -----------------------------
(* What a File of the Rust library promises (rust/runtime/src/file.rs): a   *)
(* file without a buffer.  There is one image of it and one position, and a *)
(* call moves bytes between the two and its caller, in order, until it      *)
(* returns, fails, or is dropped.                                           *)
EXTENDS Integers, Sequences

VARIABLES seekable,    \* or a stream, which is only read
          image,       \* the file, as the program must see it
          at,          \* the position of its next byte
          doing,       \* the call in progress, with what it has left or got
          answer       \* what the last call returned

abstract == <<seekable, image, at, doing, answer>>

NoCall == [op |-> "none"]
NoAnswer == <<"nothing">>
Error == <<"error">>

Smaller(a, b) == IF a < b THEN a ELSE b
Larger(a, b) == IF a < b THEN b ELSE a
Front(s, n) == SubSeq(s, 1, n)
After(s, n) == SubSeq(s, n + 1, Len(s))
Slice(s, from, n) == SubSeq(s, from + 1, from + n)

\* Bytes are letters, the newline, the head and the tail of a rune of two, and
\* the zero of a hole.
Newline == "n"
Zero == "0"
Byte == {"a", Newline, "h", "t", Zero}

\* s with bytes put over it from position p on, which may be past its end.
Over(s, p, bytes) ==
  IF bytes = <<>> THEN s
  ELSE [i \in 1..Larger(Len(s), p + Len(bytes)) |->
          IF i \in (p + 1)..(p + Len(bytes)) THEN bytes[i - p]
          ELSE IF i <= Len(s) THEN s[i] ELSE Zero]

\* How many bytes the rune at the front takes, 0 where they are not all there.
\* A sequence that is malformed is one byte.
Width(s) ==
  IF s = <<>> \/ s = <<"h">> THEN 0
  ELSE IF s[1] = "h" /\ s[2] = "t" THEN 2 ELSE 1

Rune(s) == IF Width(s) = 1 /\ s[1] \in {"h", "t"} THEN <<"bad">> ELSE Front(s, Width(s))

\* Every head has its tail, and every tail its head.
Valid(s) ==
  \A i \in 1..Len(s) : /\ s[i] = "h" => i < Len(s) /\ s[i + 1] = "t"
                       /\ s[i] = "t" => i > 1 /\ s[i - 1] = "h"

\* A sequence the end of the file cuts short is malformed too.
RuneAt(s, p) == IF After(s, p) = <<"h">> THEN <<"bad">> ELSE Rune(After(s, p))
WidthAt(s, p) == IF After(s, p) = <<"h">> THEN 1 ELSE Width(After(s, p))

Init ==
  /\ seekable \in BOOLEAN
  /\ image \in Seq(Byte)
  /\ at = 0 /\ doing = NoCall /\ answer = NoAnswer

Ends(a) == doing' = NoCall /\ answer' = a

Begin ==
  /\ doing = NoCall /\ doing' # NoCall
  /\ doing'.got = <<>>
  /\ UNCHANGED <<image, at, answer>>

\* get returns the rune that is there.
GetDone ==
  /\ doing.op = "get" /\ at < Len(image)
  /\ Ends(<<"rune">> \o RuneAt(image, at)) /\ at' = at + WidthAt(image, at)
  /\ UNCHANGED image

\* unget takes the position back to a rune that was read.
UngetDone ==
  /\ doing.op = "unget" /\ at >= Len(doing.arg)
  /\ at' = at - Len(doing.arg) /\ Slice(image, at', Len(doing.arg)) = doing.arg
  /\ Ends(<<>>) /\ UNCHANGED image

\* read returns some bytes and no more than asked for; scan_lit takes the byte
\* it names or none.
ReadDone ==
  /\ doing.op = "read"
  /\ \E n \in 1..doing.arg :
       at + n <= Len(image) /\ Ends(Slice(image, at, n)) /\ at' = at + n
  /\ UNCHANGED image

ScanDone ==
  /\ doing.op = "scan" /\ at < Len(image)
  /\ \/ Slice(image, at, 1) = doing.arg /\ Ends(doing.arg) /\ at' = at + 1
     \/ Slice(image, at, 1) # doing.arg /\ Ends(<<>>) /\ at' = at
  /\ UNCHANGED image

\* getline gathers the bytes before the newline, which goes too.
LineMore ==
  /\ doing.op = "getline"
  /\ at' \in (at + 1)..Len(image)
  /\ LET piece == Slice(image, at, at' - at) IN
     /\ Newline \notin {piece[i] : i \in DOMAIN piece}
     /\ doing' = [doing EXCEPT !.got = @ \o piece]
  /\ UNCHANGED <<image, answer>>

\* A line that is malformed is taken too, and answered with an error.
Line(bytes) == IF Valid(bytes) THEN bytes ELSE Error

LineDone ==
  /\ doing.op = "getline"
  /\ \/ /\ at' \in (at + 1)..Len(image) /\ image[at'] = Newline
        /\ LET piece == Slice(image, at, at' - at - 1) IN
           /\ Newline \notin {piece[i] : i \in DOMAIN piece}
           /\ Ends(Line(doing.got \o piece))
     \/ at = Len(image) /\ at' = at /\ doing.got # <<>> /\ Ends(Line(doing.got))
  /\ UNCHANGED image

\* put and write go to the position, in order.
WriteMore ==
  /\ doing.op = "write"
  /\ \E n \in 1..Len(doing.arg) :
       /\ image' = Over(image, at, Front(doing.arg, n)) /\ at' = at + n
       /\ doing' = [doing EXCEPT !.arg = After(@, n)]
  /\ UNCHANGED answer

\* The last of it, unless WriteMore has taken that too.
WriteDone ==
  /\ doing.op = "write"
  /\ image' = Over(image, at, doing.arg) /\ at' = at + Len(doing.arg)
  /\ Ends(<<>>)

Target ==
  CASE doing.arg.whence = "set" -> doing.arg.off
    [] doing.arg.whence = "cur" -> at + doing.arg.off
    [] OTHER -> Len(image) + doing.arg.off

\* A seek to the end loses its place before it has the new one.
SeekLeaves ==
  /\ doing.op = "seek" /\ doing.arg.whence = "end"
  /\ at' >= at /\ UNCHANGED <<image, doing, answer>>

SeekDone ==
  /\ doing.op = "seek" /\ Target >= 0
  /\ at' = Target /\ Ends(<<>>) /\ UNCHANGED image

\* flush, detach and close lose nothing.
OtherDone ==
  /\ doing.op \in {"flush", "detach", "close"}
  /\ Ends(<<>>) /\ UNCHANGED image
  /\ doing.op # "close" => UNCHANGED at

\* An error takes and writes nothing more, except that a seek that is refused
\* drops what was read ahead, and a close what was not out.
Fails ==
  /\ doing # NoCall /\ Ends(Error)
  /\ \/ UNCHANGED <<image, at>>
     \/ doing.op = "seek" /\ at' >= at /\ UNCHANGED image
     \/ doing.op = "close"

\* A call may be dropped where it waits.  What it was writing may be out by
\* then, though the position is where it was; what it was reading from a
\* stream is gone.
Dropped ==
  /\ doing # NoCall /\ Ends(NoAnswer)
  /\ \/ UNCHANGED <<image, at>>
     \/ /\ doing.op = "write" /\ UNCHANGED at
        /\ \E n \in 1..Len(doing.arg) : image' = Over(image, at, Front(doing.arg, n))
     \/ /\ ~seekable /\ UNCHANGED at
        /\ \E p, q \in at..Len(image) : p < q /\ image' = Front(image, p) \o After(image, q)

Next ==
  /\ UNCHANGED seekable
  /\ \/ Begin \/ GetDone \/ UngetDone \/ ReadDone \/ ScanDone \/ LineMore \/ LineDone
     \/ WriteMore \/ WriteDone \/ SeekLeaves \/ SeekDone \/ OtherDone \/ Fails \/ Dropped

Spec == Init /\ [][Next]_abstract
=============================================================================
