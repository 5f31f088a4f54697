-------------------------------- MODULE File --------------------------------
(* The buffered stream of the Rust library: File and FileBuf                *)
(* (rust/runtime/src/file.rs, filebuf.rs), over the reads, the writes and   *)
(* the position of a handle (ops.rs, rt.rs).  One program uses one File.    *)
(*                                                                         *)
(* A call goes from await to await.  The kernel reads and writes less than *)
(* it is asked to, or fails, and the future of a call may be dropped while *)
(* it waits.  One buffer serves both directions: in one it is ahead of the *)
(* descriptor, in the other behind.                                        *)
EXTENDS Integers, Sequences

CONSTANTS Cap,          \* the size of the block, `want'
          Contents,     \* what files may hold at first
          Bytes,        \* what put and write are given
          Counts,       \* how much read is asked for
          Seeks,        \* where seek goes: [whence, off]
          Hows,         \* kinds of buffering
          MaxLen,       \* bound: the length of the file
          MaxCalls      \* bound: calls made

VARIABLES content, off, seekable,   \* the file, and the handle's position
          held, front,              \* FileBuf: the bytes in hand, after a taken prefix
          mode, how, err, closed, writing,
          call, answer,             \* the call in progress; what the last returned
          calls

file == <<seekable, mode>>
buf == <<held, front>>
fileVars == <<content, off, file, buf, how, err, closed, writing, call, answer, calls>>

P == INSTANCE PlainFile WITH image <- content, at <- off, doing <- call

ASSUME CapAssumption == Cap \in Nat \ {0}
ASSUME BytesAssumption == Contents \cup Bytes \subseteq Seq(P!Byte)
ASSUME CountsAssumption == Counts \subseteq Nat \ {0}    \* read of nothing returns at once
ASSUME SeeksAssumption == Seeks \subseteq [whence : {"set", "cur", "end"}, off : Int]

\* What the program is to see: output that is not out is in the file already,
\* and input that was read ahead is not read yet.
Image == IF writing THEN P!Over(content, off, held) ELSE content
Position == IF writing THEN off + Len(held) ELSE off - Len(held)
Progress == IF call.op = "none" THEN call ELSE [op |-> call.op, arg |-> call.arg, got |-> call.got]

Plain == INSTANCE PlainFile WITH image <- Image, at <- Position, doing <- Progress

FileInit ==
  /\ content \in Contents /\ off = 0
  /\ seekable \in BOOLEAN
  /\ mode \in IF seekable THEN {"read", "write", "update"} ELSE {"read"}
  /\ held = <<>> /\ front = 0
  /\ how \in Hows
  /\ err = "none" /\ closed = FALSE /\ writing = FALSE
  /\ call = P!NoCall /\ answer = P!NoAnswer /\ calls = 0

readable == mode # "write"
writable == mode # "read"
Room == Cap - front - Len(held)

\* FileBuf.consume and reset.
Consume(n) ==
  /\ held' = P!After(held, n)
  /\ front' = IF n = Len(held) THEN 0 ELSE front + n
Reset == held' = <<>> /\ front' = 0

Return(a) == call' = P!NoCall /\ answer' = a
Goto(pc) == call' = [call EXCEPT !.pc = pc] /\ UNCHANGED answer

\* The first error sticks.
Stick(e) == err' = IF err = "none" THEN e ELSE err
Fail(e) == Stick(e) /\ Return(P!Error)

At(pc) == call.op # "none" /\ call.pc = pc
Doing(op, pc) == At(pc) /\ call.op = op

-----------------------------------------------------------------------------
(* A call begins.  All but flush, seek, close and detach fail at once while *)
(* an error sticks; getline counts the end of the input as an answer.       *)

Reads == {"get", "read", "getline", "scan"}

\* A scan does not turn the buffer round, nor does put of itself.
FirstPc(op) ==
  CASE op = "write" -> "settle"
    [] op \in {"get", "read", "getline"} /\ writing -> "settle"
    [] op \in {"flush", "seek", "close", "detach"} /\ writing /\ held # <<>> -> "drain"
    [] OTHER -> "body"

Begin(op, arg) ==
  /\ call.op = "none" /\ calls < MaxCalls /\ ~closed
  /\ calls' = calls + 1
  /\ LET refused == op \in Reads \cup {"write"} /\ err # "none"
         unfit == (op \in Reads /\ ~readable) \/ (op = "write" /\ ~writable)
     IN call' = [op |-> op, arg |-> arg, got |-> <<>>,
                 pc |-> IF refused \/ unfit THEN "refused" ELSE FirstPc(op),
                 next |-> IF op \in {"get", "read", "getline"} THEN "settle" ELSE "body"]
  /\ closed' = (op = "close")
  /\ UNCHANGED <<content, off, file, buf, how, err, writing, answer>>

RefusedAtOnce ==
  /\ At("refused")
  /\ Fail("invalid")
  /\ UNCHANGED <<content, off, file, buf, how, closed, writing, calls>>

\* put and write have a fast half, which only fills the block.
FitsFast ==
  /\ writing /\ how \in {"full", "line"} /\ Len(call.arg) <= Room
  /\ how = "line" => P!Newline \notin {call.arg[i] : i \in DOMAIN call.arg}

WriteFast ==
  /\ Doing("write", "settle") /\ FitsFast
  /\ held' = held \o call.arg /\ Return(<<>>)
  /\ UNCHANGED <<content, off, file, front, how, err, closed, writing, calls>>

-----------------------------------------------------------------------------
(* settle: the buffer turns round.                                          *)

\* Auto decides at the first write: a console is line-buffered.
Probe ==
  /\ Doing("write", "settle") /\ how = "auto"
  /\ how' \in {"line", "full"}
  /\ UNCHANGED <<content, off, file, buf, err, closed, writing, call, answer, calls>>

AlreadySettled ==
  /\ At("settle") /\ writing = (call.op = "write")
  /\ how # "auto" \/ call.op # "write"
  /\ call.op = "write" => ~FitsFast
  /\ Goto("body")
  /\ UNCHANGED <<content, off, file, buf, how, err, closed, writing, calls>>

SettleToRead ==
  /\ At("settle") /\ writing /\ call.op # "write"
  /\ IF held = <<>>
     THEN writing' = FALSE /\ Goto("body")
     ELSE UNCHANGED writing /\ call' = [call EXCEPT !.pc = "drain", !.next = "settle"] /\ UNCHANGED answer
  /\ UNCHANGED <<content, off, file, buf, how, err, closed, calls>>

\* Variant: what was read ahead is forgotten, and the descriptor stays.
SettleToWriteInPlace ==
  /\ At("settle") /\ ~writing /\ call.op = "write" /\ how # "auto"
  /\ Reset /\ writing' = TRUE /\ Goto("body")
  /\ UNCHANGED <<content, off, file, how, err, closed, calls>>

\* What was read ahead goes back to the descriptor.
SettleToWrite ==
  /\ At("settle") /\ ~writing /\ call.op = "write" /\ how # "auto"
  /\ off' = off - Len(held)
  /\ Reset /\ writing' = TRUE /\ Goto("body")
  /\ UNCHANGED <<content, file, how, err, closed, calls>>

-----------------------------------------------------------------------------
(* drain, fill and the two ways past the buffer: each step is one WRITE or  *)
(* READ at the handle's position, which moves by what it did.               *)

Written(bytes, n) ==
  /\ content' = P!Over(content, off, P!Front(bytes, n))
  /\ off' = off + n

Drain ==
  /\ At("drain") /\ held # <<>>
  /\ \E n \in 1..Len(held) : Written(held, n) /\ Consume(n)
  /\ UNCHANGED <<file, how, err, closed, writing, call, answer, calls>>

Drained ==
  /\ At("drain") /\ held = <<>>
  /\ Goto(call.next)
  /\ UNCHANGED <<content, off, file, buf, how, err, closed, writing, calls>>

\* An error, or a WRITE of nothing.  close goes on to close.
DrainFails ==
  /\ At("drain") /\ held # <<>>
  /\ Stick("error")
  /\ IF call.op = "close" THEN Goto("failed") ELSE Return(P!Error)
  /\ UNCHANGED <<content, off, file, buf, how, closed, writing, calls>>

\* write_bytes, where there is no buffer or not enough of it.
Through ==
  /\ At("through")
  /\ \E n \in 1..Len(call.arg) :
       /\ Written(call.arg, n)
       /\ IF n = Len(call.arg) THEN Return(<<>>)
          ELSE call' = [call EXCEPT !.arg = P!After(@, n)] /\ UNCHANGED answer
  /\ UNCHANGED <<file, buf, how, err, closed, writing, calls>>

AtEnd == off >= Len(content)

\* At the end of the input a rune cut short is a bad one, and a line without a
\* newline is a line, if it is not malformed.
FillAtEnd ==
  /\ At("fill") /\ AtEnd
  /\ IF call.op = "get" /\ held # <<>>
     THEN Consume(1) /\ Return(<<"rune", "bad">>) /\ UNCHANGED err
     ELSE /\ Stick("eof") /\ UNCHANGED buf
          /\ Return(IF call.op = "getline" /\ call.got # <<>> THEN P!Line(call.got) ELSE P!Error)
  /\ UNCHANGED <<content, off, file, how, closed, writing, calls>>

Fill ==
  /\ At("fill") /\ ~AtEnd /\ Len(held) < Cap
  /\ \E n \in 1..P!Smaller(Cap - Len(held), Len(content) - off) :
       held' = held \o P!Slice(content, off, n) /\ off' = off + n
  /\ Goto("body")
  /\ UNCHANGED <<content, file, front, how, err, closed, writing, calls>>

\* A span as long as the block is read into.
Direct ==
  /\ At("direct")
  /\ IF AtEnd THEN Fail("eof") /\ UNCHANGED off
     ELSE \E n \in 1..P!Smaller(call.arg, Len(content) - off) :
            off' = off + n /\ Return(P!Slice(content, off, n)) /\ UNCHANGED err
  /\ UNCHANGED <<content, file, buf, how, closed, writing, calls>>

OpFails ==
  /\ At("fill") \/ At("direct") \/ At("through") \/ At("stat")
  /\ Fail("error")
  /\ UNCHANGED <<content, off, file, buf, how, closed, writing, calls>>

-----------------------------------------------------------------------------
(* The calls themselves, once the buffer is the right way round.            *)

Get ==
  /\ Doing("get", "body")
  /\ IF P!Width(held) > 0
     THEN Consume(P!Width(held)) /\ Return(<<"rune">> \o P!Rune(held))
     ELSE front' = 0 /\ UNCHANGED held /\ Goto("fill")
  /\ UNCHANGED <<content, off, file, how, err, closed, writing, calls>>

Read ==
  /\ Doing("read", "body")
  /\ IF held # <<>>
     THEN LET n == P!Smaller(call.arg, Len(held)) IN Consume(n) /\ Return(P!Front(held, n))
     ELSE UNCHANGED buf /\ Goto(IF how = "none" \/ call.arg >= Cap THEN "direct" ELSE "fill")
  /\ UNCHANGED <<content, off, file, how, err, closed, writing, calls>>

\* take_line: up to the newline, or all there is and then more.  A line that is
\* malformed is gone from the buffer when from_utf8 says so.
GetLine ==
  /\ Doing("getline", "body")
  /\ LET ends == {i \in DOMAIN held : held[i] = P!Newline}
         nl == CHOOSE i \in ends : \A j \in ends : i <= j
         line == call.got \o P!Front(held, nl - 1)
     IN IF ends # {}
        THEN /\ Consume(nl) /\ Return(P!Line(line))
             /\ IF P!Valid(line) THEN UNCHANGED err ELSE Stick("invalid")
        ELSE /\ Consume(Len(held))
             /\ call' = [call EXCEPT !.got = @ \o held, !.pc = "fill"] /\ UNCHANGED <<answer, err>>
  /\ UNCHANGED <<content, off, file, how, closed, writing, calls>>

\* peek, and the byte is taken if it is the one: scan_lit.
Scan ==
  /\ Doing("scan", "body")
  /\ IF held = <<>> THEN UNCHANGED buf /\ Goto("fill")
     ELSE IF P!Front(held, 1) = call.arg THEN Consume(1) /\ Return(call.arg)
     ELSE UNCHANGED buf /\ Return(<<>>)
  /\ UNCHANGED <<content, off, file, how, err, closed, writing, calls>>

\* put and write: past the buffer, into it, or first out with what is there.
Write ==
  /\ Doing("write", "body")
  /\ IF how = "none" \/ Len(call.arg) >= Cap
     THEN UNCHANGED buf /\ Goto(IF held = <<>> THEN "through" ELSE "drain")
     ELSE IF Len(call.arg) > Room THEN UNCHANGED buf /\ Goto("drain")
     ELSE /\ held' = held \o call.arg /\ front' = front
          /\ IF how = "line" /\ P!Newline \in {call.arg[i] : i \in DOMAIN call.arg}
             THEN call' = [call EXCEPT !.arg = <<>>, !.pc = "drain", !.next = "written"] /\ UNCHANGED answer
             ELSE Return(<<>>)
  /\ UNCHANGED <<content, off, file, how, err, closed, writing, calls>>

FlushDone ==
  /\ At("written") \/ Doing("flush", "body")
  /\ Return(<<>>)
  /\ UNCHANGED <<content, off, file, buf, how, err, closed, writing, calls>>

\* An offset from here counts from what the program has read.
Back == IF ~writing /\ call.arg.whence = "cur" THEN Len(held) ELSE 0

SeekTo(p) ==
  IF ~seekable \/ p < 0 THEN Fail("invalid") /\ UNCHANGED off
  ELSE off' = p /\ Return(<<>>) /\ err' = IF err = "eof" THEN "none" ELSE err

Seek ==
  /\ Doing("seek", "body")
  /\ Reset /\ writing' = FALSE
  /\ CASE call.arg.whence = "set" -> SeekTo(call.arg.off)
       [] call.arg.whence = "cur" -> SeekTo(off + call.arg.off - Back)
       [] OTHER -> IF seekable THEN Goto("stat") /\ UNCHANGED <<off, err>> ELSE SeekTo(0)
  /\ UNCHANGED <<content, file, how, closed, calls>>

SeekEnd ==
  /\ At("stat")
  /\ SeekTo(Len(content) + call.arg.off)
  /\ UNCHANGED <<content, file, buf, how, closed, writing, calls>>

Close ==
  /\ Doing("close", "body") \/ At("failed")
  /\ Return(IF At("failed") THEN P!Error ELSE <<>>)
  /\ Reset /\ Stick("eof")
  /\ UNCHANGED <<content, off, file, how, closed, writing, calls>>

\* detach: the next owner of the handle goes on where this one was.
Detach ==
  /\ Doing("detach", "body")
  /\ IF ~writing /\ held # <<>> /\ ~seekable
     THEN Return(P!Error) /\ UNCHANGED <<off, buf, closed, err>>
     ELSE /\ off' = IF writing THEN off ELSE off - Len(held)
          /\ Reset /\ closed' = TRUE /\ Stick("eof") /\ Return(<<>>)
  /\ UNCHANGED <<content, file, how, writing, calls>>

\* unget, of the rune that get returned last.
Unget ==
  /\ Doing("unget", "body")
  /\ LET n == Len(call.arg) IN
     IF ~writing /\ n + Len(held) <= Cap
     THEN /\ held' = call.arg \o held
          /\ front' = IF front < n THEN 0 ELSE front - n
          /\ Return(<<>>)
     ELSE UNCHANGED buf /\ Return(P!Error)
  /\ UNCHANGED <<content, off, file, how, err, closed, writing, calls>>

ClearErr ==
  /\ call.op = "none" /\ err # "none" /\ ~closed
  /\ err' = "none"
  /\ UNCHANGED <<content, off, file, buf, how, closed, writing, call, answer, calls>>

-----------------------------------------------------------------------------
\* The future is dropped where it waits.  The kernel may have done what it was
\* asked for, and nobody hears of it.
Drop ==
  /\ \E pc \in {"drain", "through", "fill", "direct", "stat"} : At(pc)
  /\ Return(P!NoAnswer)
  /\ \/ UNCHANGED <<content, off>>
     \/ /\ At("drain") /\ UNCHANGED off
        /\ \E n \in 1..Len(held) : content' = P!Over(content, off, P!Front(held, n))
     \/ /\ At("through") /\ UNCHANGED off
        /\ \E n \in 1..Len(call.arg) : content' = P!Over(content, off, P!Front(call.arg, n))
     \/ /\ (At("fill") \/ At("direct")) /\ ~seekable /\ UNCHANGED off
        /\ \E p \in (off + 1)..Len(content) :
             content' = P!Front(content, off) \o P!After(content, p)
  /\ UNCHANGED <<file, buf, how, err, closed, writing, calls>>

SomeCall ==
  \/ \E op \in {"get", "getline", "flush", "close", "detach"} : Begin(op, <<>>)
  \/ \E n \in Counts : Begin("read", n)
  \/ ~writing /\ Begin("scan", <<"a">>)
  \/ \E b \in Bytes : off + Len(held) + Len(b) <= MaxLen /\ Begin("write", b)
  \/ \E s \in Seeks : Begin("seek", s)
  \/ answer \in {<<"rune", "a">>, <<"rune", "h", "t">>} /\ Begin("unget", Tail(answer))

Step ==
  \/ RefusedAtOnce \/ WriteFast \/ Probe \/ AlreadySettled \/ SettleToRead \/ SettleToWrite
  \/ Drain \/ Drained \/ Through \/ FillAtEnd \/ Fill \/ Direct
  \/ Get \/ Read \/ GetLine \/ Scan \/ Write \/ FlushDone
  \/ Seek \/ SeekEnd \/ Close \/ Detach \/ Unget

FileNext == SomeCall \/ Step \/ DrainFails \/ OpFails \/ ClearErr \/ Drop

FileSpec == FileInit /\ [][FileNext]_fileVars
FairFileSpec == FileSpec /\ WF_fileVars(Step)
-----------------------------------------------------------------------------
(* Properties.                                                              *)

\* The stream is a file without a buffer: what get, read, getline and scan_lit
\* return is what is in the file at the program's position, what is put and
\* written gets there in order and once, and a change of direction, a short
\* read or write, an error, a seek, a detach or a dropped call moves nothing
\* from its place.
IsAPlainFile == Plain!Spec

\* No call goes round for ever: drain, the loops of get and getline, and
\* write_bytes come to an end whatever the kernel does of what they ask.
CallsReturn == call.op # "none" ~> call.op = "none"
=============================================================================
