--------------------------- MODULE FwUpdateProofs ---------------------------
(***************************************************************************)
(* The theorems about FwUpdate, for any images, any number of chunks and   *)
(* any interleaving of the receiver with the commands.                     *)
(***************************************************************************)
EXTENDS FwUpdate, TLAPS

(***************************************************************************)
(* The inductive invariant.                                                *)
(***************************************************************************)
Beginning == cli.pc \in {"begin.reset", "begin.flash", "begin.state", "begin.flag"}

\* The receiver has work in hand that belongs to the session it began with.
Busy ==
  \/ task.pc \in {"feed", "crc", "count", "write", "erase", "erased", "program", "advance",
                  "check", "finish.lock", "finish.close", "compare", "done", "error"}
  \/ task.pc \in {"fail", "fail.lock", "fail.close"} /\ task.chunk # None

\* What the locals rely on: the limits checked before, the chunk in hand, the
\* image a listener waits for.
TypeInv ==
  /\ TypeOK
  /\ task.pc \in {"crc", "count"} => s.received < N
  /\ task.pc \in {"erase", "erased", "program", "advance"} => s.written < Region
  /\ task.pc \in {"feed", "crc", "count", "write", "erase", "erased", "program", "advance",
                  "check"} => task.chunk \in Chunk
  /\ task.pc \in {"wait", "poll", "look"} => task.chunk = None
  /\ cli.pc = "begin.reset" => cli.ver \in Ver
  /\ sock.st # "closed" => s.want \in Ver \/ cli.pc = "begin.reset"
  /\ Beginning => sock.stream = <<>>

\* The receiver is at rest once a session is done, and a commit reads the CRC
\* of a bank that nobody programs.
CommitInv ==
  /\ s.state = "done" => task.pc \in {"wait", "loop"}
  /\ cli.pc \in {"begin.reset", "begin.flash", "begin.state"} => s.state # "recv"
  /\ cli.pc = "commit.write" => s.state = "done" /\ cli.crc = bank[s.bank]

\* The bank has the first n chunks of the stream, and is blank behind them.
Upto(n) == [k \in 1..Region |-> IF k <= n THEN s.crc[k] ELSE Blank]

\* What is counted as written is in the bank of the session.
Flushed ==
  /\ s.base = s.bank
  /\ IF s.erased THEN bank[s.base] = Upto(s.written) ELSE s.written = 0

\* Everything received is written; the chunk in hand is in the running CRC; it
\* is counted too.
AllWritten == Flushed /\ Len(s.crc) = s.written /\ s.received = s.written
InHand == Len(s.crc) = s.written + 1 /\ s.crc[s.written + 1] = task.chunk
CrcAhead == Flushed /\ InHand /\ s.received = s.written
CountAhead == Flushed /\ InHand /\ s.received = s.written + 1
Addressed == task.addr = <<s.base, s.written + 1>>

AtRest ==
  \/ task.pc \in {"wait", "loop"}
  \/ task.pc \in {"fail", "fail.lock", "fail.close"} /\ task.chunk = None

\* Between two chunks a session that receives has written everything, also when
\* it was begun while the receiver still waited for data of the one before.
RestInv ==
  /\ AtRest => (s.state = "recv" \/ cli.pc = "begin.state" => AllWritten)
  /\ task.pc \in {"poll", "look"} => (cli.pc # "begin.flash" => AllWritten)
  /\ cli.pc = "begin.flash" =>
       s.received = 0 /\ s.written = 0 /\ s.crc = <<>> /\ cli.bank = s.bank
  /\ task.pc \in {"fail.lock", "fail.close"} /\ task.chunk # None => s.state # "recv"

\* The steps of fwFeed.
ChunkInv ==
  /\ task.pc = "feed" => AllWritten
  /\ task.pc = "crc" => AllWritten /\ task.crc = Append(s.crc, task.chunk)
  /\ task.pc = "count" => CrcAhead
  /\ task.pc \in {"write", "erase", "erased", "program"} => CountAhead
  /\ task.pc \in {"erase", "erased", "program"} => Addressed
  /\ task.pc \in {"erase", "erased"} => ~s.erased
  /\ task.pc = "erased" => bank[s.base] = Erased
  /\ task.pc \in {"program", "advance", "check"} => s.erased
  /\ task.pc = "advance" => /\ s.base = s.bank /\ Len(s.crc) = s.written + 1
                            /\ s.received = s.written + 1 /\ bank[s.base] = Upto(s.written + 1)
  /\ task.pc = "check" => AllWritten

\* The end of a stream, and a session that is done.
FinishInv ==
  /\ task.pc \in {"finish.lock", "finish.close", "compare"} =>
       AllWritten /\ s.erased /\ s.received = N
  /\ task.pc = "done" => s.want \in Ver /\ bank[s.bank] = Holding(s.want)
  /\ s.state = "done" /\ cli.pc \notin {"begin.flash", "begin.state"} =>
       s.want \in Ver /\ bank[s.bank] = Holding(s.want)

\* The flash controller is unlocked only for a session that will lock it.
LockInv ==
  /\ cli.pc \in {"idle", "begin.flag"} /\ ~locked => s.state = "recv" \/ task.pc = "fail.lock"
  /\ cli.pc \in {"abort.close", "session.end"} => locked
  /\ task.pc \in {"finish.close", "compare", "done", "error"} /\ cli.pc = "idle" => locked

SessionInv ==
  ~raced => /\ Busy => ~Beginning
            /\ RestInv /\ ChunkInv /\ FinishInv /\ CommittedWhole /\ LockInv

IInv == TypeInv /\ CommitInv /\ SessionInv

(***************************************************************************)
(* Records and the types of their fields.                                  *)
(***************************************************************************)
LEMMA ReceiverTyped ==
  ASSUME NEW t \in Receiver
  PROVE  /\ t.pc \in ReceiverPc /\ t.sr \in Status /\ t.chunk \in Chunk \cup {None}
         /\ t.addr \in Place /\ t.crc \in Seq(Chunk) /\ t.idle \in 0..MaxIdle
  BY DEF Receiver

\* The fields of the statics of FwUpdate.c.
LEMMA StaticsTyped ==
  ASSUME NEW t \in Statics
  PROVE  /\ t.state \in State /\ t.bank \in Bank /\ t.want \in Ver \cup {None}
         /\ t.received \in 0..N /\ t.written \in 0..Region /\ t.crc \in Seq(Chunk)
         /\ t.base \in Bank /\ t.erased \in BOOLEAN
  BY DEF Statics

\* The fields of a command under way.
LEMMA CommandTyped ==
  ASSUME NEW t \in Command
  PROVE  /\ t.pc \in CommandPc /\ t.bank \in Bank /\ t.ver \in Ver \cup {None}
         /\ t.crc \in Content \cup {None}
  BY DEF Command

(***************************************************************************)
(* What the actions change.                                                *)
(***************************************************************************)
CountersKept ==
  /\ s'.bank = s.bank /\ s'.want = s.want /\ s'.received = s.received /\ s'.base = s.base
  /\ s'.written = s.written /\ s'.crc = s.crc /\ s'.erased = s.erased
StateTo(x) == s' \in Statics /\ s'.state = x /\ CountersKept
CommandTo(l) ==
  cli' \in Command /\ cli'.pc = l /\ cli'.bank = cli.bank /\ cli'.ver = cli.ver
    /\ cli'.crc = cli.crc
ReceiverTo(l) == task' \in Receiver /\ task'.pc = l /\ task'.chunk = task.chunk
  /\ task'.crc = task.crc

\* Setting the state of a session leaves its counts.
LEMMA StateSet ==
  ASSUME s \in Statics, NEW x \in State, s' = [s EXCEPT !.state = x]
  PROVE  StateTo(x)
  BY DEF Statics, StateTo, CountersKept

\* As long as the counts and the banks stay, so does what is said of what is written.
LEMMA StreamKept ==
  ASSUME CountersKept, bank' = bank
  PROVE  /\ Flushed' = Flushed /\ AllWritten' = AllWritten
         /\ \A n : Upto(n)' = Upto(n)
  BY DEF CountersKept, Flushed, AllWritten, Upto

(***************************************************************************)
(* Steps of the receiver that change nothing but where it is.              *)
(***************************************************************************)
Moves ==
  \/ task.pc = "wait" /\ ReceiverTo("loop")
  \/ /\ task.pc = "loop" /\ task' \in Receiver /\ task'.chunk = None /\ task'.crc = task.crc
     /\ task'.pc = IF s.state = "recv" THEN "poll" ELSE "wait"
  \/ task.pc = "poll" /\ ReceiverTo("look")
  \/ task.pc = "look" /\ (ReceiverTo("loop") \/ ReceiverTo("fail"))
  \/ task.pc = "feed" /\ ReceiverTo("fail")
  \/ /\ task.pc = "feed" /\ task' \in Receiver /\ task'.pc = "crc" /\ task'.chunk = task.chunk
     /\ s.received < N /\ task'.crc = crc32Feed(s.crc, task.chunk)
  \/ task.pc = "write" /\ ReceiverTo("fail")
  \/ /\ task.pc = "write" /\ (IF s.erased THEN ReceiverTo("program") ELSE ReceiverTo("erase"))
     /\ task'.addr = <<s.base, s.written + 1>> /\ s.written < Region
  \/ task.pc \in {"erase", "program"} /\ ReceiverTo("fail")
  \/ task.pc = "check" /\ (IF s.received = N THEN ReceiverTo("finish.lock") ELSE ReceiverTo("loop"))
  \/ task.pc = "compare" /\ (IF CrcMatches THEN ReceiverTo("done") ELSE ReceiverTo("error"))

Quiet ==
  \/ TakeFlag \/ Loop \/ Poll \/ NoData \/ Feed \/ Write \/ FlashRefuses \/ Check
  \/ FinishCompare

\* The steps of the receiver that leave the flash and the counts alone.
LEMMA QuietMoves ==
  ASSUME TypeInv, Quiet
  PROVE  Moves
<1>0. /\ task \in Receiver /\ s \in Statics /\ s.received \in 0..N /\ s.written \in 0..Region
      /\ s.base \in Bank /\ s.crc \in Seq(Chunk) /\ task.idle \in 0..MaxIdle
      /\ N \in Nat /\ Region \in Nat \ {0}
  BY StaticsTyped, ReceiverTyped, SizeAssumption DEF TypeInv, TypeOK
<1>1. CASE TakeFlag
  <2>1. "loop" \in ReceiverPc /\ 0 \in 0..MaxIdle
    BY IdleAssumption DEF ReceiverPc
  <2>2. task' = [task EXCEPT !.pc = "loop", !.idle = 0] /\ task.pc = "wait"
    BY <1>1 DEF TakeFlag, At
  <2>3. ReceiverTo("loop")
    BY <1>0, <2>1, <2>2 DEF ReceiverTo, Receiver
  <2> QED
    BY <2>2, <2>3 DEF Moves
<1>2. CASE Loop
  <2> DEFINE l == IF s.state = "recv" THEN "poll" ELSE "wait"
  <2>1. l \in ReceiverPc
    BY DEF ReceiverPc
  <2>2. task' = [task EXCEPT !.pc = l, !.chunk = None] /\ task.pc = "loop"
    BY <1>2 DEF Loop, At
  <2> HIDE DEF l
  <2>3. task' \in Receiver /\ task'.chunk = None /\ task'.crc = task.crc /\ task'.pc = l
    BY <1>0, <2>1, <2>2 DEF Receiver
  <2> QED
    BY <2>2, <2>3 DEF Moves, l
<1>3. CASE Poll
  <2>1. "look" \in ReceiverPc /\ sock.st \in Status
    BY DEF ReceiverPc, TypeInv, TypeOK, Socket
  <2>2. task' = [task EXCEPT !.pc = "look", !.sr = sock.st] /\ task.pc = "poll"
    BY <1>3 DEF Poll, At
  <2>3. ReceiverTo("look")
    BY <1>0, <2>1, <2>2 DEF ReceiverTo, Receiver
  <2> QED
    BY <2>2, <2>3 DEF Moves
<1>4. CASE NoData
  <2>1. "loop" \in ReceiverPc /\ "fail" \in ReceiverPc /\ "closed" \in Status
    BY DEF ReceiverPc, Status
  <2>2. /\ task.pc = "look"
        /\ \/ task' = [task EXCEPT !.pc = "fail", !.sr = "closed"]
           \/ task' = [task EXCEPT !.pc = "loop", !.sr = "closed", !.idle = Elapsed] /\ ~TimedOut
    BY <1>4 DEF NoData, At
  <2>3. ~TimedOut => Elapsed \in 0..MaxIdle
    BY <1>0, IdleAssumption DEF TimedOut, Elapsed
  <2>4. ReceiverTo("loop") \/ ReceiverTo("fail")
    BY <1>0, <2>1, <2>2, <2>3 DEF ReceiverTo, Receiver
  <2> QED
    BY <2>2, <2>4 DEF Moves
<1>5. CASE Feed
  <2> DEFINE run == crc32Feed(s.crc, task.chunk)
  <2>1. "crc" \in ReceiverPc /\ "fail" \in ReceiverPc
    BY DEF ReceiverPc
  <2>2. run \in Seq(Chunk)
    BY <1>0, <1>5 DEF Feed, At, TypeInv, crc32Feed
  <2>3. /\ task.pc = "feed"
        /\ \/ task' = [task EXCEPT !.pc = "fail"]
           \/ task' = [task EXCEPT !.pc = "crc", !.crc = run] /\ s.received < N
    BY <1>0, <1>5 DEF Feed, At
  <2> HIDE DEF run
  <2>4. \/ ReceiverTo("fail")
        \/ /\ task' \in Receiver /\ task'.pc = "crc" /\ task'.chunk = task.chunk
           /\ s.received < N /\ task'.crc = run
    BY <1>0, <2>1, <2>2, <2>3 DEF ReceiverTo, Receiver
  <2> QED
    BY <2>3, <2>4 DEF Moves, run
<1>6. CASE Write
  <2> DEFINE a == <<s.base, s.written + 1>>
             l == IF s.erased THEN "program" ELSE "erase"
  <2>1. l \in ReceiverPc /\ "fail" \in ReceiverPc
    BY DEF ReceiverPc
  <2>2. /\ task.pc = "write"
        /\ \/ task' = [task EXCEPT !.pc = "fail"]
           \/ task' = [task EXCEPT !.pc = l, !.addr = a] /\ s.written < Region
    BY <1>0, <1>6 DEF Write, At, Go
  <2>3. s.written < Region => a \in Place
    BY <1>0 DEF Place
  <2> HIDE DEF l, a
  <2>4. \/ ReceiverTo("fail")
        \/ ReceiverTo(l) /\ task'.addr = a /\ s.written < Region
    BY <1>0, <2>1, <2>2, <2>3 DEF ReceiverTo, Receiver
  <2> QED
    BY <2>2, <2>4 DEF Moves, a, l
<1>7. CASE FlashRefuses
  <2>1. "fail" \in ReceiverPc /\ NoAddr \in Place
    BY SizeAssumption DEF ReceiverPc, NoAddr, Place, Bank
  <2>2. task' = [task EXCEPT !.pc = "fail", !.addr = NoAddr] /\ task.pc \in {"erase", "program"}
    BY <1>7 DEF FlashRefuses, At
  <2>3. ReceiverTo("fail")
    BY <1>0, <2>1, <2>2 DEF ReceiverTo, Receiver
  <2> QED
    BY <2>2, <2>3 DEF Moves
<1>8. CASE Check
  <2> DEFINE l == IF s.received = N THEN "finish.lock" ELSE "loop"
  <2>1. l \in ReceiverPc /\ 0 \in 0..MaxIdle
    BY IdleAssumption DEF ReceiverPc
  <2>2. task' = [task EXCEPT !.pc = l, !.idle = 0] /\ task.pc = "check"
    BY <1>8 DEF Check, At
  <2> HIDE DEF l
  <2>3. ReceiverTo(l)
    BY <1>0, <2>1, <2>2 DEF ReceiverTo, Receiver
  <2> QED
    BY <2>2, <2>3 DEF Moves, l
<1>9. CASE FinishCompare
  <2> DEFINE l == IF CrcMatches THEN "done" ELSE "error"
  <2>1. l \in ReceiverPc
    BY DEF ReceiverPc
  <2>2. task' = [task EXCEPT !.pc = l] /\ task.pc = "compare"
    BY <1>9 DEF FinishCompare, At, Go
  <2> HIDE DEF l
  <2>3. ReceiverTo(l)
    BY <1>0, <2>1, <2>2 DEF ReceiverTo, Receiver
  <2> QED
    BY <2>2, <2>3 DEF Moves, l
<1> QED
  BY <1>1, <1>2, <1>3, <1>4, <1>5, <1>6, <1>7, <1>8, <1>9 DEF Quiet

\* Such a step keeps everything else.
LEMMA QuietStep ==
  ASSUME IInv, Quiet
  PROVE  IInv'
<1>0. TypeInv /\ CommitInv /\ SessionInv /\ Moves
  BY QuietMoves DEF IInv
<1>1. /\ s' = s /\ bank' = bank /\ cli' = cli /\ sock' = sock /\ locked' = locked
      /\ recorded' = recorded /\ use' = use /\ raced' = raced
      /\ armed' \in BOOLEAN
  BY <1>0 DEF Quiet, TakeFlag, Loop, Poll, NoData, Feed, Write, FlashRefuses, Check, FinishCompare,
              At, TypeInv, TypeOK
<1>2. /\ s \in Statics /\ s.received \in 0..N /\ s.written \in 0..Region /\ s.crc \in Seq(Chunk)
      /\ s.want \in Ver \cup {None} /\ N \in Nat /\ Region \in Nat /\ N <= Region
  BY <1>0, StaticsTyped, SizeAssumption DEF TypeInv, TypeOK
<1>3. TypeInv'
  <2>1. task' \in Receiver
    BY <1>0 DEF Moves, ReceiverTo
  <2>2. Len(task'.crc) <= N + 1
    <3>1. task.pc = "feed" => Len(crc32Feed(s.crc, task.chunk)) <= N + 1
      BY <1>0, <1>2 DEF TypeInv, TypeOK, crc32Feed
    <3> QED
      BY <1>0, <3>1 DEF Moves, ReceiverTo, TypeInv, TypeOK
  <2>3. TypeOK'
    BY <1>0, <1>1, <2>1, <2>2 DEF TypeInv, TypeOK
  <2> QED
    BY <1>0, <1>1, <2>3 DEF TypeInv, Moves, ReceiverTo, Beginning
<1>4. CommitInv'
  BY <1>0, <1>1 DEF CommitInv, Moves, ReceiverTo
<1>5. SessionInv'
  <2> SUFFICES ASSUME ~raced
               PROVE  /\ (Busy => ~Beginning)' /\ RestInv' /\ ChunkInv' /\ FinishInv'
                      /\ CommittedWhole' /\ LockInv'
    BY <1>1 DEF SessionInv
  <2>0. (Busy => ~Beginning) /\ RestInv /\ ChunkInv /\ FinishInv /\ CommittedWhole /\ LockInv
    BY <1>0 DEF SessionInv
  <2>1. /\ task.pc \in {"wait", "poll", "look"} => task.chunk = None
        /\ task.pc \in {"feed", "write", "erase", "program", "check"} => task.chunk # None
    BY <1>0, MarkAssumption DEF TypeInv
  <2>2. (Busy => ~Beginning)'
    BY <1>0, <1>1, <2>0, <2>1 DEF Busy, Beginning, Moves, ReceiverTo
  <2>3. LockInv'
    BY <1>0, <1>1, <2>0 DEF LockInv, Moves, ReceiverTo
  <2>4. Flushed' = Flushed /\ AllWritten' = AllWritten /\ \A n : Upto(n)' = Upto(n)
    BY <1>1, StreamKept DEF CountersKept
  <2>5. RestInv'
    BY <1>0, <1>1, <2>0, <2>1, <2>4 DEF RestInv, AtRest, ChunkInv, CommitInv, Moves, ReceiverTo
  <2>6. ChunkInv'
    <3>1. task.pc = "feed" /\ s.received < N => crc32Feed(s.crc, task.chunk) = Append(s.crc,
            task.chunk)
      BY <1>2, <2>0 DEF ChunkInv, AllWritten, crc32Feed
    <3> QED
      BY <1>0, <1>1, <2>0, <2>1, <2>4, <3>1
         DEF ChunkInv, CountAhead, InHand, Addressed, Moves, ReceiverTo
  <2>7. FinishInv'
    <3>1. task.pc = "compare" /\ CrcMatches => s.want \in Ver /\ bank[s.bank] = Holding(s.want)
      <4> SUFFICES ASSUME task.pc = "compare", CrcMatches
                   PROVE  s.want \in Ver /\ bank[s.bank] = Holding(s.want)
        OBVIOUS
      <4>1. bank[s.bank] = Upto(N)
        BY <2>0 DEF FinishInv, AllWritten, Flushed
      <4>2. Upto(N) = Holding(s.want)
        BY <1>2 DEF CrcMatches, Upto, Holding, Image
      <4> QED
        BY <1>2, <4>1, <4>2 DEF CrcMatches
    <3> QED
      BY <1>0, <1>1, <2>0, <2>4, <3>1 DEF FinishInv, ChunkInv, Moves, ReceiverTo
  <2>8. CommittedWhole'
    BY <1>1, <2>0 DEF CommittedWhole
  <2> QED
    BY <2>2, <2>3, <2>5, <2>6, <2>7, <2>8
<1> QED
  BY <1>3, <1>4, <1>5 DEF IInv

(***************************************************************************)
(* The other steps of the receiver.                                        *)
(***************************************************************************)
\* No commit is being written while the receiver is at work.
LEMMA ReceiverCommit ==
  ASSUME CommitInv, task.pc \notin {"wait", "loop"}, cli' = cli,
         s'.state \in {s.state, "error"} \/ (s'.state = "done" /\ task'.pc = "loop")
  PROVE  CommitInv'
  BY DEF CommitInv

\* The receiver takes the next chunk out of its socket.
LEMMA ReceiveStep ==
  ASSUME IInv, Receive
  PROVE  IInv'
<1>0. TypeInv /\ CommitInv /\ SessionInv /\ TypeOK
  BY DEF IInv, TypeInv
<1>1. /\ s' = s /\ bank' = bank /\ cli' = cli /\ locked' = locked /\ armed' = armed
      /\ recorded' = recorded /\ use' = use /\ raced' = raced /\ task.pc = "look"
      /\ sock.stream # <<>>
  BY DEF Receive, At
<1>2. sock.stream \in Seq(Chunk) /\ sock \in Socket /\ task \in Receiver
  BY <1>0 DEF TypeOK, Socket
<1> DEFINE c == Head(sock.stream)
           r == Tail(sock.stream)
<1>3. c \in Chunk /\ r \in Seq(Chunk)
  BY <1>1, <1>2
<1>4. /\ task' = [task EXCEPT !.pc = "feed", !.sr = "closed", !.chunk = c]
      /\ sock' = [sock EXCEPT !.stream = r]
      /\ "feed" \in ReceiverPc /\ "closed" \in Status
  BY DEF Receive, ReceiverPc, Status
<1> HIDE DEF c, r
<1>5. task' \in Receiver /\ task'.pc = "feed" /\ task'.chunk = c /\ task'.crc = task.crc
  BY <1>2, <1>3, <1>4 DEF Receiver
<1>6. sock' \in Socket /\ sock'.st = sock.st
  BY <1>2, <1>3, <1>4 DEF Socket
<1>7. ~Beginning
  BY <1>0, <1>1 DEF TypeInv
<1>8. TypeInv'
  <2>1. TypeOK'
    BY <1>0, <1>1, <1>5, <1>6 DEF TypeOK
  <2> QED
    BY <1>0, <1>1, <1>3, <1>5, <1>6, <1>7, <2>1 DEF TypeInv, Beginning
<1>9. CommitInv'
  BY <1>0, <1>1, ReceiverCommit
<1>10. SessionInv'
  <2> SUFFICES ASSUME ~raced
               PROVE  /\ (Busy => ~Beginning)' /\ RestInv' /\ ChunkInv' /\ FinishInv'
                      /\ CommittedWhole' /\ LockInv'
    BY <1>1 DEF SessionInv
  <2>0. RestInv /\ FinishInv /\ CommittedWhole /\ LockInv
    BY <1>0 DEF SessionInv
  <2>1. Flushed' = Flushed /\ AllWritten' = AllWritten
    BY <1>1, StreamKept DEF CountersKept
  <2>2. AllWritten
    BY <1>1, <1>7, <2>0 DEF RestInv, Beginning
  <2>3. (Busy => ~Beginning)' /\ RestInv' /\ ChunkInv'
    BY <1>1, <1>5, <1>7, <2>0, <2>1, <2>2 DEF RestInv, AtRest, ChunkInv, Beginning
  <2>4. FinishInv' /\ CommittedWhole' /\ LockInv'
    BY <1>1, <1>5, <2>0 DEF FinishInv, CommittedWhole, LockInv
  <2> QED
    BY <2>3, <2>4
<1> QED
  BY <1>8, <1>9, <1>10 DEF IInv

\* A step of fwFeed: what of the invariant a step from a place inside a chunk to
\* another must show.
Inside == {"crc", "count", "write", "erase", "erased", "program", "advance", "check"}

\* Within the work on one chunk, what must be shown of a step is the invariant of the chunk.
LEMMA InsideStep ==
  ASSUME IInv, task.pc \in Inside, task'.pc \in Inside, TypeInv',
         UNCHANGED <<cli, recorded, use, raced, locked>>, s'.state = s.state,
         ~raced /\ ChunkInv => ChunkInv'
  PROVE  IInv'
<1>0. TypeInv /\ CommitInv /\ SessionInv
  BY DEF IInv
<1>1. CommitInv'
  BY <1>0, ReceiverCommit DEF Inside
<1>2. SessionInv'
  <2> SUFFICES ASSUME ~raced
               PROVE  /\ (Busy => ~Beginning)' /\ RestInv' /\ ChunkInv' /\ FinishInv'
                      /\ CommittedWhole' /\ LockInv'
    BY DEF SessionInv
  <2>0. /\ Busy => ~Beginning
        /\ RestInv /\ ChunkInv /\ FinishInv /\ CommittedWhole /\ LockInv
    BY <1>0 DEF SessionInv
  <2>1. ~Beginning
    BY <2>0 DEF Busy, Inside
  <2>2. (Busy => ~Beginning)' /\ RestInv' /\ CommittedWhole'
    BY <2>0, <2>1 DEF Beginning, RestInv, AtRest, CommittedWhole, Inside
  <2>3. FinishInv' /\ LockInv'
    BY <1>1, <2>0, <2>1 DEF FinishInv, LockInv, CommitInv, Beginning, Inside
  <2> QED
    BY <2>0, <2>2, <2>3
<1> QED
  BY <1>1, <1>2 DEF IInv

\* What the steps inside a chunk start from.
LEMMA InsideTyped ==
  ASSUME TypeInv, task.pc \in Inside
  PROVE  /\ s \in Statics /\ task \in Receiver /\ task.chunk \in Chunk
         /\ s.received \in 0..N /\ s.written \in 0..Region /\ s.crc \in Seq(Chunk)
         /\ s.base \in Bank /\ task.crc \in Seq(Chunk) /\ task.addr \in Place
         /\ N \in Nat \ {0} /\ Region \in Nat /\ N <= Region
         /\ bank \in [Bank -> Content]
  BY StaticsTyped, ReceiverTyped, SizeAssumption DEF TypeInv, TypeOK, Inside

\* The running CRC takes in the chunk in hand before it is counted.
LEMMA StoreCrcStep ==
  ASSUME IInv, StoreCrc
  PROVE  IInv'
<1>0. TypeInv /\ TypeOK /\ task.pc = "crc"
  BY DEF IInv, TypeInv, StoreCrc, At
<1>1. /\ s' = [s EXCEPT !.crc = task.crc]
      /\ task' = [task EXCEPT !.pc = "count", !.crc = <<>>]
      /\ UNCHANGED <<bank, locked, sock, armed, cli, recorded, use, raced>>
      /\ "count" \in ReceiverPc /\ <<>> \in Seq(Chunk)
  BY DEF StoreCrc, At, ReceiverPc
<1>2. /\ s \in Statics /\ task \in Receiver /\ s.crc \in Seq(Chunk) /\ task.crc \in Seq(Chunk)
      /\ s.written \in 0..Region /\ N \in Nat
  BY <1>0, InsideTyped DEF Inside
<1>3. /\ task' \in Receiver /\ task'.pc = "count" /\ task'.chunk = task.chunk /\ task'.crc = <<>>
  BY <1>1, <1>2 DEF Receiver
<1>4. /\ s' \in Statics /\ s'.state = s.state /\ s'.crc = task.crc /\ s'.bank = s.bank
      /\ s'.want = s.want /\ s'.received = s.received /\ s'.written = s.written
      /\ s'.base = s.base /\ s'.erased = s.erased
  BY <1>1, <1>2 DEF Statics
<1>5. TypeInv'
  <2>1. TypeOK'
    BY <1>0, <1>1, <1>2, <1>3, <1>4 DEF TypeOK
  <2> QED
    BY <1>0, <1>1, <1>3, <1>4, <2>1 DEF TypeInv, Beginning
<1>6. ASSUME ~raced, ChunkInv
      PROVE  ChunkInv'
  <2>1. AllWritten /\ task.crc = Append(s.crc, task.chunk) /\ Len(s.crc) = s.written
    BY <1>0, <1>6 DEF ChunkInv, AllWritten
  <2>2. Upto(s.written)' = Upto(s.written)
    BY <1>2, <1>4, <2>1 DEF Upto
  <2>3. InHand'
    BY <1>2, <1>3, <1>4, <2>1 DEF InHand
  <2>4. CrcAhead'
    BY <1>1, <1>4, <2>1, <2>2, <2>3 DEF CrcAhead, AllWritten, Flushed
  <2> QED
    BY <1>3, <2>4 DEF ChunkInv
<1> QED
  BY <1>0, <1>1, <1>3, <1>4, <1>5, <1>6, InsideStep DEF Inside

\* The count of bytes received takes in the chunk whose CRC was stored.
LEMMA CountStep ==
  ASSUME IInv, Count
  PROVE  IInv'
<1>0. TypeInv /\ TypeOK /\ task.pc = "count" /\ s.received < N
  BY DEF IInv, TypeInv, Count, At
<1>1. /\ s' = [s EXCEPT !.received = s.received + 1]
      /\ task' = [task EXCEPT !.pc = "write"]
      /\ UNCHANGED <<bank, locked, sock, armed, cli, recorded, use, raced>>
      /\ "write" \in ReceiverPc
  BY DEF Count, At, Go, ReceiverPc
<1>2. s \in Statics /\ task \in Receiver /\ s.received + 1 \in 0..N
  BY <1>0, InsideTyped DEF Inside
<1>3. task' \in Receiver /\ task'.pc = "write" /\ task'.chunk = task.chunk /\ task'.crc = task.crc
  BY <1>1, <1>2 DEF Receiver
<1>4. /\ s' \in Statics /\ s'.state = s.state /\ s'.crc = s.crc /\ s'.bank = s.bank
      /\ s'.want = s.want /\ s'.received = s.received + 1 /\ s'.written = s.written
      /\ s'.base = s.base /\ s'.erased = s.erased
  BY <1>1, <1>2 DEF Statics
<1>5. TypeInv'
  <2>1. TypeOK'
    BY <1>0, <1>1, <1>2, <1>3, <1>4 DEF TypeOK
  <2> QED
    BY <1>0, <1>1, <1>3, <1>4, <2>1 DEF TypeInv, Beginning
<1>6. ASSUME ~raced, ChunkInv
      PROVE  ChunkInv'
  <2>1. CrcAhead
    BY <1>0, <1>6 DEF ChunkInv
  <2>2. CountAhead'
    BY <1>1, <1>3, <1>4, <2>1 DEF CrcAhead, CountAhead, Flushed, InHand, Upto
  <2> QED
    BY <1>3, <2>2 DEF ChunkInv
<1> QED
  BY <1>0, <1>1, <1>3, <1>4, <1>5, <1>6, InsideStep DEF Inside

\* The erase blanks the bank of the session, under its first write.
LEMMA EraseStep ==
  ASSUME IInv, fwEraseSector
  PROVE  IInv'
<1>0. TypeInv /\ TypeOK /\ task.pc = "erase"
  BY DEF IInv, TypeInv, fwEraseSector, At
<1>1. /\ bank' = [bank EXCEPT ![s.base] = Erased]
      /\ task' = [task EXCEPT !.pc = "erased"]
      /\ UNCHANGED <<s, locked, sock, armed, cli, recorded, use, raced>>
      /\ "erased" \in ReceiverPc
  BY DEF fwEraseSector, At, Go, ReceiverPc
<1>2. s \in Statics /\ task \in Receiver /\ s.base \in Bank /\ bank \in [Bank -> Content]
  BY <1>0, InsideTyped DEF Inside
<1>3. /\ task' \in Receiver /\ task'.pc = "erased" /\ task'.chunk = task.chunk
      /\ task'.crc = task.crc /\ task'.addr = task.addr
  BY <1>1, <1>2 DEF Receiver
<1>4. Erased \in Content
  BY DEF Erased, Content
<1>5. bank' \in [Bank -> Content] /\ bank'[s.base] = Erased
  BY <1>1, <1>2, <1>4
<1>6. TypeInv'
  <2>1. TypeOK'
    BY <1>0, <1>1, <1>3, <1>5 DEF TypeOK
  <2> QED
    BY <1>0, <1>1, <1>3, <2>1 DEF TypeInv, Beginning
<1>7. ASSUME ~raced, ChunkInv
      PROVE  ChunkInv'
  <2>1. CountAhead /\ Addressed /\ ~s.erased
    BY <1>0, <1>7 DEF ChunkInv
  <2>2. CountAhead' /\ Addressed'
    BY <1>1, <1>3, <2>1 DEF CountAhead, Flushed, InHand, Addressed
  <2> QED
    BY <1>1, <1>3, <1>5, <2>1, <2>2 DEF ChunkInv
<1> QED
  BY <1>0, <1>1, <1>3, <1>6, <1>7, InsideStep DEF Inside

\* Once the bank is blank, nothing of it is written yet.
LEMMA MarkErasedStep ==
  ASSUME IInv, MarkErased
  PROVE  IInv'
<1>0. TypeInv /\ TypeOK /\ task.pc = "erased"
  BY DEF IInv, TypeInv, MarkErased, At
<1>1. /\ s' = [s EXCEPT !.erased = TRUE]
      /\ task' = [task EXCEPT !.pc = "program"]
      /\ UNCHANGED <<bank, locked, sock, armed, cli, recorded, use, raced>>
      /\ "program" \in ReceiverPc
  BY DEF MarkErased, At, Go, ReceiverPc
<1>2. s \in Statics /\ task \in Receiver
  BY <1>0, InsideTyped DEF Inside
<1>3. /\ task' \in Receiver /\ task'.pc = "program" /\ task'.chunk = task.chunk
      /\ task'.crc = task.crc /\ task'.addr = task.addr
  BY <1>1, <1>2 DEF Receiver
<1>4. /\ s' \in Statics /\ s'.state = s.state /\ s'.crc = s.crc /\ s'.bank = s.bank
      /\ s'.want = s.want /\ s'.received = s.received /\ s'.written = s.written
      /\ s'.base = s.base /\ s'.erased
  BY <1>1, <1>2 DEF Statics
<1>5. TypeInv'
  <2>1. TypeOK'
    BY <1>0, <1>1, <1>3, <1>4 DEF TypeOK
  <2> QED
    BY <1>0, <1>1, <1>3, <1>4, <2>1 DEF TypeInv, Beginning
<1>6. ASSUME ~raced, ChunkInv
      PROVE  ChunkInv'
  <2>1. CountAhead /\ Addressed /\ ~s.erased /\ bank[s.base] = Erased
    BY <1>0, <1>6 DEF ChunkInv
  <2>2. s.written = 0 /\ Upto(0)' = Erased
    BY <1>4, <2>1 DEF CountAhead, Flushed, Upto, Erased
  <2>3. CountAhead' /\ Addressed'
    BY <1>1, <1>3, <1>4, <2>1, <2>2 DEF CountAhead, Flushed, InHand, Addressed
  <2> QED
    BY <1>3, <1>4, <2>3 DEF ChunkInv
<1> QED
  BY <1>0, <1>1, <1>3, <1>4, <1>5, <1>6, InsideStep DEF Inside

\* The program puts the chunk in hand right behind what is written.
LEMMA ProgramStep ==
  ASSUME IInv, Program
  PROVE  IInv'
<1>0. TypeInv /\ TypeOK /\ task.pc = "program" /\ CommitInv
  BY DEF IInv, TypeInv, Program, At
<1> DEFINE b == task.addr[1]
           k == task.addr[2]
           same == bank[b][k] \in {Blank, task.chunk}
           x == IF same THEN task.chunk ELSE Garbled
           l == IF same THEN "advance" ELSE "fail"
<1>1. /\ bank' = [bank EXCEPT ![b][k] = x]
      /\ task' = [task EXCEPT !.pc = l, !.addr = NoAddr]
      /\ UNCHANGED <<s, locked, sock, armed, cli, recorded, use, raced>>
      /\ l \in ReceiverPc
  BY DEF Program, At, ReceiverPc
<1>2. /\ s \in Statics /\ task \in Receiver /\ task.chunk \in Chunk /\ task.addr \in Place
      /\ bank \in [Bank -> Content] /\ s.base \in Bank /\ s.crc \in Seq(Chunk)
      /\ s.written \in Nat /\ Region \in Nat \ {0}
  BY <1>0, InsideTyped DEF Inside
<1>3. b \in Bank /\ k \in 1..Region /\ NoAddr \in Place /\ x \in Chunk \cup {Garbled}
  BY <1>2 DEF Place, NoAddr, Bank
<1> HIDE DEF b, k, x, l
<1>4. task' \in Receiver /\ task'.pc = l /\ task'.chunk = task.chunk /\ task'.crc = task.crc
  BY <1>1, <1>2, <1>3 DEF Receiver
<1>5. bank' \in [Bank -> Content] /\ bank'[b] = [bank[b] EXCEPT ![k] = x]
  BY <1>1, <1>2, <1>3 DEF Content
<1>6. TypeInv'
  <2>1. TypeOK'
    BY <1>0, <1>1, <1>4, <1>5 DEF TypeOK
  <2> QED
    BY <1>0, <1>1, <1>4, <2>1 DEF TypeInv, Beginning, l
<1>7. CASE raced
  <2>1. CommitInv'
    BY <1>0, <1>1, ReceiverCommit
  <2> QED
    BY <1>1, <1>6, <1>7, <2>1 DEF IInv, SessionInv
<1>8. CASE ~raced
  <2>1. ChunkInv
    BY <1>8 DEF IInv, SessionInv
  <2>2. /\ CountAhead /\ Addressed /\ s.erased /\ b = s.base /\ k = s.written + 1
        /\ bank[b] = Upto(s.written) /\ s.crc[k] = task.chunk
    BY <1>0, <2>1 DEF ChunkInv, Addressed, CountAhead, Flushed, InHand, b, k
  <2>3. same
    BY <1>2, <1>3, <2>2 DEF Upto
  <2>4. l = "advance" /\ x = task.chunk
    BY <2>3 DEF l, x
  <2>5. bank'[s.base] = Upto(s.written + 1)
    <3>1. bank'[s.base] = [Upto(s.written) EXCEPT ![k] = s.crc[k]]
      BY <1>5, <2>2, <2>4
    <3> QED
      BY <1>2, <1>3, <2>2, <3>1 DEF Upto
  <2>6. (Upto(s.written + 1))' = Upto(s.written + 1)
    BY <1>1 DEF Upto
  <2>7. ChunkInv'
    BY <1>1, <1>4, <2>2, <2>4, <2>5, <2>6 DEF ChunkInv, CountAhead, Flushed, InHand
  <2> QED
    BY <1>0, <1>1, <1>4, <1>6, <2>4, <2>7, InsideStep DEF Inside
<1> QED
  BY <1>7, <1>8

\* The count of bytes written takes in the chunk just programmed.
LEMMA AdvanceStep ==
  ASSUME IInv, Advance
  PROVE  IInv'
<1>0. TypeInv /\ TypeOK /\ task.pc = "advance" /\ s.written < Region
  BY DEF IInv, TypeInv, Advance, At
<1>1. /\ s' = [s EXCEPT !.written = s.written + 1]
      /\ task' = [task EXCEPT !.pc = "check"]
      /\ UNCHANGED <<bank, locked, sock, armed, cli, recorded, use, raced>>
      /\ "check" \in ReceiverPc
  BY DEF Advance, At, Go, ReceiverPc
<1>2. s \in Statics /\ task \in Receiver /\ s.written + 1 \in 0..Region
  BY <1>0, InsideTyped DEF Inside
<1>3. task' \in Receiver /\ task'.pc = "check" /\ task'.chunk = task.chunk /\ task'.crc = task.crc
  BY <1>1, <1>2 DEF Receiver
<1>4. /\ s' \in Statics /\ s'.state = s.state /\ s'.crc = s.crc /\ s'.bank = s.bank
      /\ s'.want = s.want /\ s'.received = s.received /\ s'.written = s.written + 1
      /\ s'.base = s.base /\ s'.erased = s.erased
  BY <1>1, <1>2 DEF Statics
<1>5. TypeInv'
  <2>1. TypeOK'
    BY <1>0, <1>1, <1>3, <1>4 DEF TypeOK
  <2> QED
    BY <1>0, <1>1, <1>3, <1>4, <2>1 DEF TypeInv, Beginning
<1>6. ASSUME ~raced, ChunkInv
      PROVE  ChunkInv'
  <2>1. /\ s.base = s.bank /\ s.erased /\ Len(s.crc) = s.written + 1
        /\ s.received = s.written + 1 /\ bank[s.base] = Upto(s.written + 1)
    BY <1>0, <1>6 DEF ChunkInv
  <2>2. AllWritten'
    BY <1>1, <1>4, <2>1 DEF AllWritten, Flushed, Upto
  <2> QED
    BY <1>3, <1>4, <2>1, <2>2 DEF ChunkInv
<1> QED
  BY <1>0, <1>1, <1>3, <1>4, <1>5, <1>6, InsideStep DEF Inside

\* The end of a session: lock the controller, close the socket.
EndMoves ==
  \/ /\ locked' = TRUE /\ sock' = sock
     /\ \/ task.pc = "finish.lock" /\ ReceiverTo("finish.close")
        \/ task.pc = "fail.lock" /\ ReceiverTo("fail.close")
  \/ /\ locked' = locked /\ sock' = Closed
     /\ \/ task.pc = "finish.close" /\ ReceiverTo("compare")
        \/ task.pc = "fail.close" /\ task.chunk = None /\ ReceiverTo("wait")
        \/ task.pc = "fail.close" /\ task.chunk # None /\ ReceiverTo("loop")

\* The locks and closes by which the receiver ends a session.
LEMMA EndStep ==
  ASSUME IInv, FlashEnd \/ CloseSocket
  PROVE  IInv'
<1>0. TypeInv /\ CommitInv /\ SessionInv /\ TypeOK /\ task \in Receiver
  BY DEF IInv, TypeInv, TypeOK
<1>1. UNCHANGED <<s, bank, armed, cli, recorded, use, raced>>
  BY DEF FlashEnd, CloseSocket, At
<1>2. EndMoves
  <2>1. /\ {"finish.close", "fail.close", "compare", "wait", "loop"} \subseteq ReceiverPc
        /\ \A l \in ReceiverPc : task' = [task EXCEPT !.pc = l] => ReceiverTo(l)
    BY <1>0 DEF ReceiverPc, ReceiverTo, Receiver
  <2>2. CASE FlashEnd
    <3>1. /\ locked' = TRUE /\ sock' = sock
          /\ \/ task.pc = "finish.lock" /\ task' = [task EXCEPT !.pc = "finish.close"]
             \/ task.pc = "fail.lock" /\ task' = [task EXCEPT !.pc = "fail.close"]
      BY <2>2 DEF FlashEnd, At, Go
    <3> QED
      BY <2>1, <3>1 DEF EndMoves
  <2>3. CASE CloseSocket
    <3>1. /\ locked' = locked /\ sock' = Closed
          /\ \/ task.pc = "finish.close" /\ task' = [task EXCEPT !.pc = "compare"]
             \/ task.pc = "fail.close" /\ task.chunk = None /\ task' = [task EXCEPT !.pc = "wait"]
             \/ task.pc = "fail.close" /\ task.chunk # None /\ task' = [task EXCEPT !.pc = "loop"]
      BY <2>3 DEF CloseSocket, At, Go
    <3> QED
      BY <2>1, <3>1 DEF EndMoves
  <2> QED
    BY <2>2, <2>3
<1>3. Closed \in Socket /\ Closed.st = "closed" /\ Closed.stream = <<>>
  BY DEF Closed, Socket, Status
<1>4. TypeInv'
  <2>1. TypeOK'
    BY <1>0, <1>1, <1>2, <1>3 DEF TypeOK, EndMoves, ReceiverTo
  <2> QED
    BY <1>0, <1>1, <1>2, <1>3, <2>1 DEF TypeInv, Beginning, EndMoves, ReceiverTo
<1>5. CommitInv'
  BY <1>0, <1>1, <1>2, ReceiverCommit DEF EndMoves
<1>6. SessionInv'
  <2> SUFFICES ASSUME ~raced
               PROVE  /\ (Busy => ~Beginning)' /\ RestInv' /\ ChunkInv' /\ FinishInv'
                      /\ CommittedWhole' /\ LockInv'
    BY <1>1 DEF SessionInv
  <2>0. /\ Busy => ~Beginning
        /\ RestInv /\ ChunkInv /\ FinishInv /\ CommittedWhole /\ LockInv
    BY <1>0 DEF SessionInv
  <2>1. AllWritten' = AllWritten
    BY <1>1, StreamKept DEF CountersKept
  <2>2. (Busy => ~Beginning)' /\ CommittedWhole' /\ ChunkInv'
    BY <1>1, <1>2, <2>0 DEF Busy, Beginning, CommittedWhole, ChunkInv, EndMoves, ReceiverTo
  <2>3. RestInv'
    BY <1>1, <1>2, <2>0, <2>1 DEF Busy, Beginning, RestInv, AtRest, EndMoves, ReceiverTo
  <2>4. FinishInv'
    BY <1>1, <1>2, <2>0, <2>1 DEF FinishInv, EndMoves, ReceiverTo
  <2>5. LockInv'
    BY <1>1, <1>2, <2>0 DEF LockInv, EndMoves, ReceiverTo
  <2> QED
    BY <2>2, <2>3, <2>4, <2>5
<1> QED
  BY <1>4, <1>5, <1>6 DEF IInv

\* The verdict on a session.
StateMoves ==
  \/ task.pc = "done" /\ ReceiverTo("loop") /\ StateTo("done")
  \/ task.pc = "error" /\ ReceiverTo("loop") /\ StateTo("error")
  \/ task.pc = "fail" /\ ReceiverTo("fail.lock") /\ StateTo("error")

\* The verdict of a session: done only behind a whole image with the CRC announced.
LEMMA VerdictStep ==
  ASSUME IInv, FinishState \/ FailState
  PROVE  IInv'
<1>0. /\ TypeInv /\ CommitInv /\ SessionInv /\ TypeOK /\ task \in Receiver /\ s \in Statics
  BY DEF IInv, TypeInv, TypeOK
<1>1. UNCHANGED <<locked, sock, bank, armed, cli, recorded, use, raced>>
  BY DEF FinishState, FailState, At
<1>2. StateMoves
  <2>1. /\ {"loop", "fail.lock"} \subseteq ReceiverPc /\ {"done", "error"} \subseteq State
        /\ \A l \in ReceiverPc : task' = [task EXCEPT !.pc = l] => ReceiverTo(l)
    BY <1>0 DEF ReceiverPc, ReceiverTo, Receiver, State
  <2>2. \/ task.pc \in {"done", "error"} /\ task' = [task EXCEPT !.pc = "loop"]
             /\ s' = [s EXCEPT !.state = task.pc]
        \/ task.pc = "fail" /\ task' = [task EXCEPT !.pc = "fail.lock"]
             /\ s' = [s EXCEPT !.state = "error"]
    BY DEF FinishState, FailState, At, Go
  <2> QED
    BY <1>0, <2>1, <2>2, StateSet DEF StateMoves
<1>3. /\ task' \in Receiver /\ s' \in Statics /\ CountersKept
      /\ task'.crc = task.crc /\ task'.chunk = task.chunk
  BY <1>2 DEF StateMoves, ReceiverTo, StateTo
<1>4. TypeInv'
  <2>1. TypeOK'
    BY <1>0, <1>1, <1>3 DEF TypeOK, CountersKept
  <2> QED
    BY <1>0, <1>1, <1>2, <1>3, <2>1 DEF TypeInv, Beginning, StateMoves, ReceiverTo, CountersKept
<1>5. CommitInv'
  BY <1>0, <1>1, <1>2, ReceiverCommit DEF StateMoves, StateTo, ReceiverTo
<1>6. SessionInv'
  <2> SUFFICES ASSUME ~raced
               PROVE  /\ (Busy => ~Beginning)' /\ RestInv' /\ ChunkInv' /\ FinishInv'
                      /\ CommittedWhole' /\ LockInv'
    BY <1>1 DEF SessionInv
  <2>0. /\ Busy => ~Beginning
        /\ RestInv /\ ChunkInv /\ FinishInv /\ CommittedWhole /\ LockInv
    BY <1>0 DEF SessionInv
  <2>1. AllWritten' = AllWritten
    BY <1>1, <1>3, StreamKept
  <2>2. (Busy => ~Beginning)' /\ CommittedWhole' /\ ChunkInv'
    BY <1>1, <1>2, <2>0 DEF Busy, Beginning, CommittedWhole, ChunkInv, StateMoves, ReceiverTo
  <2>3. RestInv'
    BY <1>1, <1>2, <2>0, <2>1
       DEF Busy, Beginning, RestInv, AtRest, StateMoves, ReceiverTo, StateTo, CountersKept
  <2>4. FinishInv'
    BY <1>1, <1>2, <2>0 DEF FinishInv, StateMoves, ReceiverTo, StateTo, CountersKept
  <2>5. LockInv'
    BY <1>1, <1>2, <2>0 DEF LockInv, StateMoves, ReceiverTo, StateTo, Busy, Beginning
  <2> QED
    BY <2>2, <2>3, <2>4, <2>5
<1> QED
  BY <1>4, <1>5, <1>6 DEF IInv

(***************************************************************************)
(* The command task.                                                       *)
(***************************************************************************)
LEMMA BeginStep ==
  ASSUME IInv, NEW b \in Targets, NEW v \in use.vers, Begin(b, v)
  PROVE  IInv'
<1>0. /\ TypeInv /\ CommitInv /\ SessionInv /\ TypeOK /\ cli \in Command
      /\ b \in Bank /\ v \in Ver
  BY TargetAssumption, UseAssumption DEF IInv, TypeInv, TypeOK
<1> DEFINE mid == task.pc \notin {"wait", "loop", "poll", "look"}
<1>1. /\ cli.pc = "idle" /\ s.state # "recv"
      /\ cli' = [cli EXCEPT !.pc = "begin.reset", !.bank = b, !.ver = v]
      /\ sock' = [st |-> "listen", stream |-> <<>>] /\ raced' = (raced \/ mid)
      /\ UNCHANGED <<s, bank, locked, armed, task, recorded, use>>
      /\ "begin.reset" \in CommandPc /\ "listen" \in Status /\ <<>> \in Seq(Chunk)
  BY DEF Begin, CommandPc, Status
<1>2. /\ cli' \in Command /\ cli'.pc = "begin.reset" /\ cli'.ver = v
      /\ sock' \in Socket /\ sock'.stream = <<>>
  BY <1>0, <1>1 DEF Command, Socket
<1>3. TypeInv'
  <2>1. TypeOK'
    BY <1>0, <1>1, <1>2 DEF TypeOK
  <2> QED
    BY <1>0, <1>1, <1>2, <2>1 DEF TypeInv, Beginning
<1>4. CommitInv'
  BY <1>0, <1>1, <1>2 DEF CommitInv
<1>5. SessionInv'
  <2> SUFFICES ASSUME ~raced, ~mid
               PROVE  /\ (Busy => ~Beginning)' /\ RestInv' /\ ChunkInv' /\ FinishInv'
                      /\ CommittedWhole' /\ LockInv'
    BY <1>1 DEF SessionInv
  <2>0. RestInv /\ ChunkInv /\ FinishInv /\ CommittedWhole /\ LockInv
    BY <1>0 DEF SessionInv
  <2>1. AllWritten' = AllWritten
    BY <1>1, StreamKept DEF CountersKept
  <2>2. (Busy => ~Beginning)' /\ ChunkInv' /\ CommittedWhole'
    BY <1>1, <2>0 DEF Busy, ChunkInv, CommittedWhole
  <2>3. RestInv' /\ FinishInv' /\ LockInv'
    BY <1>1, <1>2, <2>0, <2>1 DEF RestInv, AtRest, FinishInv, LockInv
  <2> QED
    BY <2>2, <2>3
<1> QED
  BY <1>3, <1>4, <1>5 DEF IInv

\* A begin clears the counts of the session before it.
LEMMA BeginResetStep ==
  ASSUME IInv, BeginReset
  PROVE  IInv'
<1>0. /\ TypeInv /\ CommitInv /\ SessionInv /\ TypeOK /\ cli \in Command /\ s \in Statics
      /\ cli.bank \in Bank /\ cli.ver \in Ver /\ cli.pc = "begin.reset"
  BY CommandTyped DEF IInv, TypeInv, TypeOK, BeginReset, Cmd
<1>1. /\ cli' = [cli EXCEPT !.pc = "begin.flash"]
      /\ s' = [s EXCEPT !.bank = cli.bank, !.want = cli.ver,
                        !.received = 0, !.written = 0, !.crc = <<>>]
      /\ UNCHANGED <<bank, locked, sock, armed, task, recorded, use, raced>>
      /\ "begin.flash" \in CommandPc /\ <<>> \in Seq(Chunk) /\ 0 \in 0..N /\ 0 \in 0..Region
  BY SizeAssumption DEF BeginReset, Cmd, CommandPc
<1>2. cli' \in Command /\ cli'.pc = "begin.flash" /\ cli'.bank = cli.bank
  BY <1>0, <1>1 DEF Command
<1>3. /\ s' \in Statics /\ s'.state = s.state /\ s'.crc = <<>> /\ s'.bank = cli.bank
      /\ s'.want = cli.ver /\ s'.received = 0 /\ s'.written = 0
  BY <1>0, <1>1 DEF Statics
<1>4. TypeInv'
  <2>1. TypeOK'
    BY <1>0, <1>1, <1>2, <1>3, SizeAssumption DEF TypeOK
  <2>2. /\ task.pc \in {"crc", "count"} => 0 < N
        /\ task.pc \in {"erase", "erased", "program", "advance"} => 0 < Region
    BY SizeAssumption
  <2> QED
    BY <1>0, <1>1, <1>2, <1>3, <2>1, <2>2 DEF TypeInv, Beginning
<1>5. CommitInv'
  BY <1>0, <1>1, <1>2, <1>3 DEF CommitInv
<1>6. SessionInv'
  <2> SUFFICES ASSUME ~raced
               PROVE  /\ (Busy => ~Beginning)' /\ RestInv' /\ ChunkInv' /\ FinishInv'
                      /\ CommittedWhole' /\ LockInv'
    BY <1>1 DEF SessionInv
  <2>0. ~Busy /\ RestInv /\ CommittedWhole /\ s.state # "recv"
    BY <1>0 DEF SessionInv, Beginning, CommitInv
  <2>1. (Busy => ~Beginning)' /\ ChunkInv' /\ CommittedWhole' /\ LockInv'
    BY <1>1, <1>2, <2>0 DEF Busy, ChunkInv, CommittedWhole, LockInv
  <2>2. RestInv' /\ FinishInv'
    BY <1>1, <1>2, <1>3, <2>0 DEF RestInv, FinishInv, Busy
  <2> QED
    BY <2>1, <2>2
<1> QED
  BY <1>4, <1>5, <1>6 DEF IInv

\* A begin unlocks the flash and opens the port of a new session.
LEMMA BeginFlashStep ==
  ASSUME IInv, BeginFlash
  PROVE  IInv'
<1>0. /\ TypeInv /\ CommitInv /\ SessionInv /\ TypeOK /\ cli \in Command /\ s \in Statics
      /\ cli.bank \in Bank /\ cli.pc = "begin.flash"
  BY CommandTyped DEF IInv, TypeInv, TypeOK, BeginFlash
<1>1. /\ cli' = [cli EXCEPT !.pc = "begin.state", !.bank = 0, !.ver = None]
      /\ s' = [s EXCEPT !.base = cli.bank, !.erased = FALSE]
      /\ locked' = FALSE
      /\ UNCHANGED <<bank, sock, armed, task, recorded, use, raced>>
      /\ "begin.state" \in CommandPc /\ 0 \in Bank
  BY DEF BeginFlash, CommandPc, Bank
<1>2. cli' \in Command /\ cli'.pc = "begin.state"
  BY <1>0, <1>1 DEF Command
<1>3. /\ s' \in Statics /\ s'.state = s.state /\ s'.crc = s.crc /\ s'.bank = s.bank
      /\ s'.want = s.want /\ s'.received = s.received /\ s'.written = s.written
      /\ s'.base = cli.bank /\ ~s'.erased
  BY <1>0, <1>1 DEF Statics
<1>4. TypeInv'
  <2>1. TypeOK'
    BY <1>0, <1>1, <1>2, <1>3 DEF TypeOK
  <2> QED
    BY <1>0, <1>1, <1>2, <1>3, <2>1 DEF TypeInv, Beginning
<1>5. CommitInv'
  BY <1>0, <1>1, <1>2, <1>3 DEF CommitInv
<1>6. SessionInv'
  <2> SUFFICES ASSUME ~raced
               PROVE  /\ (Busy => ~Beginning)' /\ RestInv' /\ ChunkInv' /\ FinishInv'
                      /\ CommittedWhole' /\ LockInv'
    BY <1>1 DEF SessionInv
  <2>0. ~Busy /\ RestInv /\ CommittedWhole /\ s.state # "recv"
    BY <1>0 DEF SessionInv, Beginning, CommitInv
  <2>1. (Busy => ~Beginning)' /\ ChunkInv' /\ CommittedWhole' /\ LockInv'
    BY <1>1, <1>2, <2>0 DEF Busy, ChunkInv, CommittedWhole, LockInv
  <2>2. AllWritten'
    BY <1>0, <1>3, <2>0 DEF RestInv, AllWritten, Flushed
  <2>3. RestInv' /\ FinishInv'
    BY <1>1, <1>2, <1>3, <2>0, <2>2 DEF RestInv, FinishInv, Busy
  <2> QED
    BY <2>1, <2>3
<1> QED
  BY <1>4, <1>5, <1>6 DEF IInv

\* The commands that leave the counters and the banks alone.
StateKept == s' \in Statics /\ s'.state = s.state /\ CountersKept
CommandMoves ==
  \/ /\ cli.pc = "begin.state" /\ CommandTo("begin.flag") /\ StateTo("recv")
     /\ UNCHANGED <<locked, sock, recorded>>
  \/ cli.pc = "begin.flag" /\ CommandTo("idle") /\ StateKept /\ UNCHANGED <<locked, sock, recorded>>
  \/ /\ cli.pc = "idle" /\ s.state = "recv" /\ CommandTo("abort.lock") /\ StateTo("error")
     /\ UNCHANGED <<locked, sock, recorded>>
  \/ /\ cli.pc = "idle" /\ s.state # "recv" /\ CommandTo("idle") /\ StateTo("idle")
     /\ UNCHANGED <<locked, sock, recorded>>
  \/ /\ cli.pc = "abort.lock" /\ CommandTo("abort.close") /\ StateKept
     /\ locked' = TRUE /\ UNCHANGED <<sock, recorded>>
  \/ /\ cli.pc = "abort.close" /\ CommandTo("session.end") /\ StateKept
     /\ sock' = Closed /\ UNCHANGED <<locked, recorded>>
  \/ /\ cli.pc = "session.end" /\ CommandTo("idle") /\ StateTo("idle")
     /\ UNCHANGED <<locked, sock, recorded>>
  \/ /\ cli.pc = "idle" /\ s.state = "done" /\ cli' \in Command /\ cli'.pc = "commit.write"
     /\ cli'.crc = bank[s.bank] /\ StateKept /\ locked' = FALSE /\ UNCHANGED <<sock, recorded>>
  \/ /\ cli.pc = "idle" /\ CommandTo("save.write") /\ StateKept
     /\ locked' = FALSE /\ UNCHANGED <<sock, recorded>>
  \/ /\ cli.pc \in {"save.write", "commit.write"} /\ cli' \in Command /\ cli'.pc = "save.lock"
     /\ StateKept /\ UNCHANGED <<locked, sock, recorded>>
  \/ /\ cli.pc = "commit.write" /\ cli' \in Command /\ cli'.pc = "commit.lock" /\ StateKept
     /\ recorded' = [recorded EXCEPT ![s.bank] = cli.crc] /\ UNCHANGED <<locked, sock>>
  \/ /\ cli.pc = "save.lock" /\ CommandTo("idle") /\ StateKept
     /\ locked' = TRUE /\ UNCHANGED <<sock, recorded>>
  \/ /\ cli.pc = "commit.lock" /\ CommandTo("session.end") /\ StateKept
     /\ locked' = TRUE /\ UNCHANGED <<sock, recorded>>

Commands ==
  \/ BeginState \/ BeginFlag \/ Abort \/ AbortLock \/ AbortClose \/ SessionIdle \/ Commit \/ Save
  \/ WriteSlotOk \/ WriteSlotFail \/ WriteSlotEnd

\* What those steps change, and what they leave alone.
LEMMA CommandsMove ==
  ASSUME TypeOK, Commands
  PROVE  /\ CommandMoves /\ UNCHANGED <<bank, task, use, raced>> /\ armed' \in BOOLEAN
<1>1. /\ cli \in Command /\ s \in Statics /\ cli.crc \in Content \cup {None} /\ s.bank \in Bank
      /\ bank[s.bank] \in Content
  BY CommandTyped, StaticsTyped DEF TypeOK
<1>2. \A l \in CommandPc : cli' = [cli EXCEPT !.pc = l] => CommandTo(l)
  BY <1>1 DEF CommandTo, Command
<1>3. {"begin.flag", "idle", "abort.lock", "abort.close", "session.end", "save.write", "save.lock",
       "commit.write", "commit.lock"} \subseteq CommandPc
  BY DEF CommandPc
<1>4. /\ {"recv", "error", "idle"} \subseteq State
      /\ \A x \in State : s' = [s EXCEPT !.state = x] => StateTo(x)
  BY <1>1, StateSet DEF State
<1>5. s' = s => StateKept
  BY <1>1 DEF StateKept, CountersKept
<1>6. UNCHANGED <<bank, task, use, raced>> /\ armed' \in BOOLEAN
  BY DEF Commands, BeginState, BeginFlag, Abort, AbortLock, AbortClose, SessionIdle, Commit, Save,
         WriteSlotOk, WriteSlotFail, WriteSlotEnd, Cmd, TypeOK
<1>7. CASE BeginState
  <2>1. CommandTo("begin.flag") /\ StateTo("recv") /\ cli.pc = "begin.state"
    BY <1>2, <1>3, <1>4, <1>7 DEF BeginState, Cmd
  <2>2. UNCHANGED <<locked, sock, recorded>>
    BY <1>7 DEF BeginState
  <2> QED
    BY <1>6, <2>1, <2>2 DEF CommandMoves
<1>8. CASE BeginFlag
  BY <1>2, <1>3, <1>5, <1>8 DEF BeginFlag, Cmd, CommandMoves
<1>9. CASE Abort
  <2>1. \/ /\ cli.pc = "idle" /\ s.state = "recv" /\ cli' = [cli EXCEPT !.pc = "abort.lock"]
           /\ s' = [s EXCEPT !.state = "error"]
        \/ /\ cli.pc = "idle" /\ s.state # "recv" /\ cli' = [cli EXCEPT !.pc = "idle"]
           /\ s' = [s EXCEPT !.state = "idle"]
    BY <1>9 DEF Abort, Cmd
  <2>2. UNCHANGED <<locked, sock, recorded>>
    BY <1>9 DEF Abort
  <2> QED
    BY <1>2, <1>3, <1>4, <1>6, <2>1, <2>2 DEF CommandMoves
<1>10. CASE AbortLock
  BY <1>2, <1>3, <1>5, <1>6, <1>10 DEF AbortLock, Cmd, CommandMoves
<1>11. CASE AbortClose
  BY <1>2, <1>3, <1>5, <1>6, <1>11 DEF AbortClose, Cmd, CommandMoves
<1>12. CASE SessionIdle
  BY <1>2, <1>3, <1>4, <1>6, <1>12 DEF SessionIdle, Cmd, CommandMoves
<1>13. CASE Commit
  <2> DEFINE x == bank[s.bank]
  <2>1. /\ cli.pc = "idle" /\ s.state = "done" /\ cli' = [cli EXCEPT !.pc = "commit.write",
             !.crc = x]
        /\ s' = s /\ locked' = FALSE /\ UNCHANGED <<sock, recorded>>
    BY <1>13 DEF Commit, Committable, RegionCrc
  <2>2. x \in Content
    BY <1>1
  <2> HIDE DEF x
  <2>3. cli' \in Command /\ cli'.pc = "commit.write" /\ cli'.crc = x
    BY <1>1, <1>3, <2>1, <2>2 DEF Command
  <2> QED
    BY <1>5, <1>6, <2>1, <2>3 DEF CommandMoves, x
<1>14. CASE Save
  BY <1>2, <1>3, <1>5, <1>6, <1>14 DEF Save, Cmd, CommandMoves
<1>15. CASE WriteSlotOk
  <2>1. CASE Cmd("save.write", "save.lock") /\ UNCHANGED recorded
    <3>1. CommandTo("save.lock") /\ cli.pc = "save.write"
      BY <1>2, <1>3, <2>1 DEF Cmd
    <3> QED
      BY <1>5, <1>6, <1>15, <2>1, <3>1 DEF WriteSlotOk, CommandMoves, CommandTo
  <2>2. CASE cli.pc = "commit.write" /\ cli' = [cli EXCEPT !.pc = "commit.lock", !.crc = None]
             /\ recorded' = [recorded EXCEPT ![s.bank] = cli.crc]
    <3>1. cli' \in Command /\ cli'.pc = "commit.lock"
      BY <1>1, <1>3, <2>2 DEF Command
    <3> QED
      BY <1>5, <1>6, <1>15, <2>2, <3>1 DEF WriteSlotOk, CommandMoves
  <2> QED
    BY <1>15, <2>1, <2>2 DEF WriteSlotOk
<1>16. CASE WriteSlotFail
  <2>1. /\ cli.pc \in {"save.write", "commit.write"} /\ cli' = [cli EXCEPT !.pc = "save.lock",
             !.crc = None]
        /\ s' = s /\ UNCHANGED <<locked, sock, recorded>>
    BY <1>16 DEF WriteSlotFail
  <2>2. cli' \in Command /\ cli'.pc = "save.lock"
    BY <1>1, <1>3, <2>1 DEF Command
  <2> QED
    BY <1>5, <1>6, <2>1, <2>2 DEF CommandMoves
<1>17. CASE WriteSlotEnd
  BY <1>2, <1>3, <1>5, <1>6, <1>17 DEF WriteSlotEnd, Cmd, CommandMoves
<1> QED
  BY <1>6, <1>7, <1>8, <1>9, <1>10, <1>11, <1>12, <1>13, <1>14, <1>15, <1>16, <1>17 DEF Commands

\* The steps of the commands other than the beginning of a session.
LEMMA CommandStep ==
  ASSUME IInv, Commands
  PROVE  IInv'
<1>0. TypeInv /\ CommitInv /\ SessionInv /\ TypeOK /\ CommandMoves
  BY CommandsMove DEF IInv, TypeInv
<1>1. UNCHANGED <<bank, task, use, raced>> /\ armed' \in BOOLEAN
  BY <1>0, CommandsMove
<1>2. s' \in Statics /\ CountersKept /\ cli' \in Command
  BY <1>0 DEF CommandMoves, StateTo, StateKept, CommandTo
<1>3. /\ s.bank \in Bank /\ bank[s.bank] \in Content
      /\ recorded \in [Bank -> Content \cup {None}]
  BY <1>0, StaticsTyped DEF TypeOK
<1>4. recorded' = recorded \/ (cli.pc = "commit.write"
        /\ recorded' = [recorded EXCEPT ![s.bank] = bank[s.bank]])
  BY <1>0 DEF CommandMoves, CommitInv
<1>5. Closed \in Socket /\ Closed.st = "closed" /\ Closed.stream = <<>>
  BY DEF Closed, Socket, Status
<1>6. TypeInv'
  <2>1. recorded' \in [Bank -> Content \cup {None}]
    BY <1>3, <1>4
  <2>2. locked' \in BOOLEAN /\ sock' \in Socket /\ (sock' = sock \/ sock' = Closed)
    BY <1>0, <1>5 DEF CommandMoves, TypeOK
  <2>3. TypeOK'
    BY <1>0, <1>1, <1>2, <2>1, <2>2 DEF TypeOK, CountersKept
  <2>4. cli.pc # "begin.reset" /\ cli'.pc # "begin.reset" /\ (Beginning' => Beginning)
    BY <1>0 DEF CommandMoves, CommandTo, Beginning
  <2> QED
    BY <1>0, <1>1, <1>2, <1>5, <2>2, <2>3, <2>4 DEF TypeInv, CountersKept
<1>7. CommitInv'
  BY <1>0, <1>1, <1>2 DEF CommitInv, CommandMoves, CommandTo, StateTo, StateKept, CountersKept
<1>8. SessionInv'
  <2> SUFFICES ASSUME ~raced
               PROVE  /\ (Busy => ~Beginning)' /\ RestInv' /\ ChunkInv' /\ FinishInv'
                      /\ CommittedWhole' /\ LockInv'
    BY <1>1 DEF SessionInv
  <2>0. /\ Busy => ~Beginning
        /\ RestInv /\ ChunkInv /\ FinishInv /\ CommittedWhole /\ LockInv
    BY <1>0 DEF SessionInv
  <2>1. Flushed' = Flushed /\ AllWritten' = AllWritten /\ \A n : Upto(n)' = Upto(n)
    BY <1>1, <1>2, StreamKept
  <2>2. (Busy => ~Beginning)'
    BY <1>0, <1>1, <2>0 DEF Busy, Beginning, CommandMoves, CommandTo
  <2>3. RestInv'
    <3>1. AtRest' = AtRest /\ cli'.pc \notin {"begin.flash", "begin.state"}
            /\ cli.pc # "begin.flash"
      BY <1>0, <1>1 DEF AtRest, CommandMoves, CommandTo
    <3>2. s'.state = "recv" => s.state = "recv" \/ cli.pc = "begin.state"
      BY <1>0 DEF CommandMoves, StateTo, StateKept
    <3> QED
      BY <1>1, <2>0, <2>1, <3>1, <3>2 DEF RestInv, Busy, Beginning
  <2>4. ChunkInv'
    BY <1>1, <1>2, <2>0, <2>1
       DEF ChunkInv, CrcAhead, CountAhead, InHand, Addressed, CountersKept
  <2>5. FinishInv'
    <3>1. s'.state = "done" => s.state = "done" /\ cli.pc \notin {"begin.flash", "begin.state"}
      BY <1>0 DEF CommandMoves, StateTo, StateKept
    <3> QED
      BY <1>1, <1>2, <2>0, <2>1, <3>1 DEF FinishInv, CountersKept
  <2>6. CommittedWhole'
    <3>1. cli.pc = "commit.write" => s.want \in Ver /\ bank[s.bank] = Holding(s.want)
      BY <1>0, <2>0 DEF CommitInv, FinishInv
    <3> QED
      BY <1>3, <1>4, <2>0, <3>1 DEF CommittedWhole
  <2>7. LockInv'
    BY <1>0, <1>1, <2>0 DEF LockInv, Busy, Beginning, CommandMoves, CommandTo, StateTo, StateKept
  <2> QED
    BY <2>2, <2>3, <2>4, <2>5, <2>6, <2>7
<1> QED
  BY <1>6, <1>7, <1>8 DEF IInv

(***************************************************************************)
(* The host, the initial state, and the theorems.                          *)
(***************************************************************************)
\* The parts of the invariant say nothing of the socket but its types.
LEMMA HostStep ==
  ASSUME IInv, HostSend \/ HostClose
  PROVE  IInv'
<1>0. TypeInv /\ CommitInv /\ SessionInv /\ TypeOK /\ sock \in Socket /\ s.want \in Ver \cup {None}
  BY StaticsTyped DEF IInv, TypeInv, TypeOK
<1>1. UNCHANGED <<s, bank, locked, armed, task, cli, recorded, use, raced>>
  BY DEF HostSend, HostClose
<1>2. sock' \in Socket /\ sock'.st # "closed" /\ sock.st # "closed"
      /\ (Beginning => sock'.stream = <<>>)
  <2>1. CASE HostSend
    <3>1. s.want \in Ver /\ ~Beginning
      BY <1>0, <2>1 DEF HostSend, TypeInv, Beginning
    <3>2. PICK x \in HostStreams : sock' = [st |-> "established", stream |-> x]
      BY <2>1 DEF HostSend
    <3>3. x \in Seq(Chunk)
      <4>1. \A v \in Ver : Image(v) \in Seq(Chunk) /\ Len(Image(v)) = N
        <5> TAKE v \in Ver
        <5>1. N \in Nat /\ Image(v) \in [1..N -> Chunk]
          BY SizeAssumption DEF Image, Chunk
        <5> QED
          BY <5>1
      <4>2. \A k \in 0..(N - 1) : SubSeq(Image(s.want), 1, k) \in Seq(Chunk)
        <5> TAKE k \in 0..(N - 1)
        <5>1. 1..k \subseteq 1..N /\ k \in Nat
          BY SizeAssumption
        <5> QED
          BY <3>1, <4>1, <5>1
      <4>3. use.vers \subseteq Ver
        BY <1>0, UseAssumption DEF TypeOK
      <4> QED
        BY <4>1, <4>2, <4>3 DEF HostStreams
    <3> QED
      BY <2>1, <3>1, <3>2, <3>3 DEF HostSend, Socket, Status
  <2>2. CASE HostClose
    <3>1. sock' = [sock EXCEPT !.st = "close_wait"] /\ sock.st = "established"
            /\ "close_wait" \in Status
      BY <2>2 DEF HostClose, Status
    <3>2. sock' \in Socket /\ sock'.st = "close_wait" /\ sock'.stream = sock.stream
      BY <1>0, <3>1 DEF Socket
    <3> QED
      BY <1>0, <3>1, <3>2 DEF TypeInv
  <2> QED
    BY <2>1, <2>2
<1>3. TypeInv'
  <2>1. TypeOK'
    BY <1>0, <1>1, <1>2 DEF TypeOK
  <2> QED
    BY <1>0, <1>1, <1>2, <2>1 DEF TypeInv, Beginning
<1>4. CommitInv'
  BY <1>0, <1>1 DEF CommitInv
<1>5. SessionInv'
  BY <1>0, <1>1
     DEF SessionInv, Busy, Beginning, RestInv, AtRest, ChunkInv, FinishInv, CommittedWhole, LockInv,
         AllWritten, Flushed, CrcAhead, CountAhead, InHand, Addressed, Upto
<1> QED
  BY <1>3, <1>4, <1>5 DEF IInv

\* A step that changes nothing keeps the invariant.
LEMMA StutterStep ==
  ASSUME IInv, UNCHANGED vars
  PROVE  IInv'
  BY DEF vars, IInv, TypeInv, TypeOK, CommitInv, SessionInv, Busy, Beginning, RestInv, AtRest,
     ChunkInv, FinishInv, CommittedWhole, LockInv, AllWritten, Flushed, CrcAhead, CountAhead,
     InHand, Addressed, Upto

\* At start no session is open and the flash is locked.
LEMMA InitIInv == Init => IInv
<1> SUFFICES ASSUME Init PROVE IInv
  OBVIOUS
<1>1. /\ N \in Nat \ {0} /\ Region \in Nat \ {0} /\ MaxIdle \in Nat
      /\ <<>> \in Seq(Chunk) /\ Len(<<>>) = 0 /\ 0 \in Bank
  BY SizeAssumption, IdleAssumption DEF Bank
<1>2. s \in Statics
  BY <1>1 DEF Init, Statics, State
<1>3. task \in Receiver /\ task.pc = "wait" /\ task.chunk = None /\ task.crc = <<>>
  <2>1. NoAddr \in Place
    BY <1>1 DEF NoAddr, Place, Bank
  <2> QED
    BY <1>1, <2>1 DEF Init, Receiver, ReceiverPc, Status
<1>4. cli \in Command /\ cli.pc = "idle"
  BY <1>1 DEF Init, Command, CommandPc
<1>5. bank \in [Bank -> Content] /\ recorded \in [Bank -> Content \cup {None}] /\ sock \in Socket
      /\ sock.st = "closed"
  BY DEF Init, Content, Erased, Closed, Socket, Status
<1>6. TypeInv
  <2>1. s.crc = <<>> /\ locked \in BOOLEAN /\ armed \in BOOLEAN /\ use \in Uses /\ raced \in BOOLEAN
    BY DEF Init
  <2>2. Len(s.crc) <= N + 1 /\ Len(task.crc) <= N + 1
    BY <1>1, <1>3, <2>1
  <2>3. TypeOK
    BY <1>2, <1>3, <1>4, <1>5, <2>1, <2>2 DEF TypeOK
  <2> QED
    BY <1>3, <1>4, <1>5, <2>3 DEF TypeInv, Beginning
<1>7. CommitInv /\ SessionInv
  BY <1>3, <1>4
     DEF Init, CommitInv, SessionInv, Busy, RestInv, ChunkInv, FinishInv, CommittedWhole, LockInv
<1> QED
  BY <1>6, <1>7 DEF IInv

\* The inductive invariant holds in every reachable state.
THEOREM InvariantHolds == Spec => []IInv
<1>1. ASSUME IInv, [Next]_vars
      PROVE  IInv'
  BY <1>1, QuietStep, ReceiveStep, StoreCrcStep, CountStep, EraseStep, MarkErasedStep, ProgramStep,
     AdvanceStep, EndStep, VerdictStep, BeginStep, BeginResetStep, BeginFlashStep, CommandStep,
     HostStep, StutterStep
     DEF Next, fwTask, cliTask, InCommand, Quiet, Commands
<1> QED
  BY <1>1, InitIInv, PTL DEF Spec

\* Type correctness, for any images, number of chunks and interleaving.
THEOREM TypeCorrect == Spec => []TypeOK
<1>1. IInv => TypeOK
  BY DEF IInv, TypeInv
<1> QED
  BY <1>1, InvariantHolds, PTL

\* A session is done only when the bank it named holds the announced image, unless a
\* fw.begin found the receiver in the middle of a chunk.
THEOREM DoneIsWritten == Spec => []DoneMeansWritten
<1>1. IInv => DoneMeansWritten
  BY DEF IInv, SessionInv, FinishInv, DoneMeansWritten
<1> QED
  BY <1>1, InvariantHolds, PTL

\* Up to such a fw.begin, every CRC that is recorded is that of one whole image.
THEOREM CommitsAreWhole == Spec => []CommittedWholeUnraced
<1>1. IInv => CommittedWholeUnraced
  BY DEF IInv, SessionInv, CommittedWholeUnraced
<1> QED
  BY <1>1, InvariantHolds, PTL

\* Up to such a fw.begin, the flash controller is locked whenever no session receives and both
\* tasks are at rest.
THEOREM LockedAtRest == Spec => []FlashLockedAtRest
<1>1. IInv => FlashLockedAtRest
  BY DEF IInv, SessionInv, LockInv, FlashLockedAtRest
<1> QED
  BY <1>1, InvariantHolds, PTL

\* In every run, raced or not: the CRC that is saved is that of the bank as it is then.
THEOREM RecordsTheBank == Spec => RecordsWhatIsThere
<1>1. IInv /\ [Next]_vars =>
        [recorded' # recorded => \E b \in Bank : recorded' = [recorded EXCEPT ![b] = bank[b]]]_vars
  <2> SUFFICES ASSUME IInv, Next, recorded' # recorded
               PROVE  \E b \in Bank : recorded' = [recorded EXCEPT ![b] = bank[b]]
    BY DEF vars
  <2>1. WriteSlotOk /\ cli.pc = "commit.write" /\ recorded' = [recorded EXCEPT ![s.bank] = cli.crc]
    BY DEF Next, fwTask, cliTask, InCommand, TakeFlag, Loop, Poll, Receive, NoData, Feed, StoreCrc,
           Count, Write, FlashRefuses, fwEraseSector, MarkErased, Program, Advance, Check, FlashEnd,
           CloseSocket, FinishCompare, FinishState, FailState, At, Begin, BeginReset, BeginFlash,
           BeginState, BeginFlag, Abort, AbortLock, AbortClose, SessionIdle, Commit, Save,
           WriteSlotOk, WriteSlotFail, WriteSlotEnd, HostSend, HostClose
  <2> QED
    BY <2>1, StaticsTyped DEF IInv, TypeInv, TypeOK, CommitInv
<1> QED
  BY <1>1, InvariantHolds, PTL DEF Spec, RecordsWhatIsThere
=============================================================================
