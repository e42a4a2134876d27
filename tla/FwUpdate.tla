------------------------------ MODULE FwUpdate ------------------------------
(***************************************************************************)
(* Firmware update over Ethernet (app/src/FwUpdate.c): the receiver task   *)
(* fwTask, which feeds the data socket into a flash bank, and the command  *)
(* task, which runs fw.begin, fw.abort, fw.commit and save under the       *)
(* protocol mutex.  The receiver does not take that mutex: both tasks have *)
(* the same priority, are time-sliced, and share the session's variables,  *)
(* the socket and the lock of the flash controller.                        *)
(*                                                                         *)
(* An image is N chunks, each received whole; the first has the vectors.   *)
(* The CRC of a stream is the sequence of its chunks, that of a bank its   *)
(* content.  Word alignment (sPend) and the padding are left out.          *)
(***************************************************************************)
EXTENDS Integers, Sequences

CONSTANTS
  Ver,         \* images
  N,           \* chunks of an image
  Region,      \* chunks of a bank
  Blank, Garbled, None,
  Uses,        \* how an instance is used: the images offered (vers) and the commands sent
               \* beside begin and commit (cmds: "abort", "save")
  Targets,     \* the banks the host updates
  MaxIdle      \* polls without data before FW_TIMEOUT_MS has passed

ASSUME SizeAssumption == N \in Nat \ {0} /\ Region \in Nat /\ N <= Region
ASSUME IdleAssumption == MaxIdle \in Nat
ASSUME UseAssumption == Uses \subseteq [vers: SUBSET Ver, cmds: SUBSET {"abort", "save"}]

VARIABLES
  s,        \* the statics of FwUpdate.c
  bank,     \* the two storage banks
  locked,   \* the flash controller is locked
  sock,     \* the data socket and what it has received
  armed,    \* the thread flag FW_FLAG_ARMED
  task,     \* fwTask: where it is, and its locals
  cli,      \* the command task: where it is, its arguments and locals
  recorded, \* bank_crc in the settings
  use,      \* how this instance is used
  raced     \* history: a fw.begin found the receiver in the middle of a chunk

vars == <<s, bank, locked, sock, armed, task, cli, recorded, use, raced>>

(***************************************************************************)
(* Images, banks and the data socket.                                      *)
(***************************************************************************)
Bank == 0..1
Chunk == Ver \X (1..N)
Image(v) == [k \in 1..N |-> <<v, k>>]
Erased == [k \in 1..Region |-> Blank]
Holding(v) == [k \in 1..Region |-> IF k <= N THEN <<v, k>> ELSE Blank]
Closed == [st |-> "closed", stream |-> <<>>]
NoAddr == <<0, 1>>

\* The host names banks the board has; "nothing" is no image, chunk or content.
ASSUME TargetAssumption == Targets \subseteq Bank
ASSUME MarkAssumption == None \notin Ver \cup Chunk

Init ==
  /\ s = [state |-> "idle", bank |-> 0, want |-> None, received |-> 0, written |-> 0,
          crc |-> <<>>, base |-> 0, erased |-> FALSE]
  /\ bank = [b \in Bank |-> Erased]
  /\ locked = TRUE /\ sock = Closed /\ armed = FALSE
  /\ task = [pc |-> "wait", sr |-> "closed", chunk |-> None, addr |-> NoAddr,
             crc |-> <<>>, idle |-> 0]
  /\ cli = [pc |-> "idle", bank |-> 0, ver |-> None, crc |-> None]
  /\ recorded = [b \in Bank |-> None]
  /\ use \in Uses /\ raced = FALSE

(***************************************************************************)
(* fwTask.  A local is cleared when it is no longer used.                  *)
(***************************************************************************)
At(l) == task.pc = l /\ UNCHANGED <<cli, recorded, use, raced>>
Go(l) == task' = [task EXCEPT !.pc = l]

\* osThreadFlagsWait
TakeFlag ==
  /\ At("wait") /\ armed
  /\ armed' = FALSE
  /\ task' = [task EXCEPT !.pc = "loop", !.idle = 0]
  /\ UNCHANGED <<s, bank, locked, sock>>

\* while (sState == FW_RECV)
Loop ==
  /\ At("loop")
  /\ task' = [task EXCEPT !.pc = IF s.state = "recv" THEN "poll" ELSE "wait", !.chunk = None]
  /\ UNCHANGED <<s, bank, locked, sock, armed>>

\* getSn_SR
Poll ==
  /\ At("poll")
  /\ task' = [task EXCEPT !.pc = "look", !.sr = sock.st]
  /\ UNCHANGED <<s, bank, locked, sock, armed>>

\* The time without data, and FW_TIMEOUT_MS.  (mutants: no timeout; the time
\* starts anew at every poll)
TimedOut_Never == FALSE
TimedOut == task.idle = MaxIdle
Elapsed_Renewed == 0
Elapsed == task.idle + 1

\* getSn_RX_RSR and recv, on the status read before; else the timeout.
Receive ==
  /\ At("look")
  /\ task.sr \in {"established", "close_wait"} /\ sock.stream # <<>>
  /\ task' = [task EXCEPT !.pc = "feed", !.sr = "closed", !.chunk = Head(sock.stream)]
  /\ sock' = [sock EXCEPT !.stream = Tail(@)]
  /\ UNCHANGED <<s, bank, locked, armed>>

NoData ==
  /\ At("look")
  /\ task.sr \in {"listen", "closed"} \/ sock.stream = <<>>
  /\ task' = IF task.sr \in {"close_wait", "closed"} \/ TimedOut
               THEN [task EXCEPT !.pc = "fail", !.sr = "closed"]
               ELSE [task EXCEPT !.pc = "loop", !.sr = "closed", !.idle = Elapsed]
  /\ UNCHANGED <<s, bank, locked, sock, armed>>

\* A stream longer than an image never has the CRC of one: its length is
\* counted no further than N + 1.
crc32Feed(run, x) == IF Len(run) > N THEN run ELSE Append(run, x)

\* fwFeed: the size check and the running CRC, computed from sCrcRun ...
Feed ==
  /\ At("feed")
  /\ task' = IF s.received + 1 > N
               THEN [task EXCEPT !.pc = "fail"]
               ELSE [task EXCEPT !.pc = "crc", !.crc = crc32Feed(s.crc, task.chunk)]
  /\ UNCHANGED <<s, bank, locked, sock, armed>>

\* ... and stored back when crc32Feed returns.
StoreCrc ==
  /\ At("crc")
  /\ s' = [s EXCEPT !.crc = task.crc]
  /\ task' = [task EXCEPT !.pc = "count", !.crc = <<>>]
  /\ UNCHANGED <<bank, locked, sock, armed>>

Count ==
  /\ At("count") /\ Go("write")
  /\ s' = [s EXCEPT !.received = @ + 1]
  /\ UNCHANGED <<bank, locked, sock, armed>>

\* fwFlashWrite: the bounds, the address, and whether the sector is erased.
Write ==
  /\ At("write")
  /\ IF s.written + 1 > Region
       THEN Go("fail")
       ELSE task' = [task EXCEPT !.pc = IF s.erased THEN "program" ELSE "erase",
                                 !.addr = <<s.base, s.written + 1>>]
  /\ UNCHANGED <<s, bank, locked, sock, armed>>

\* The flash controller refuses an operation when it is locked, and the HAL
\* when the other task is in the middle of one.
Refused == locked \/ cli.pc \in {"save.write", "commit.write"}

FlashRefuses ==
  /\ At("erase") \/ At("program")
  /\ Refused
  /\ task' = [task EXCEPT !.pc = "fail", !.addr = NoAddr]
  /\ UNCHANGED <<s, bank, locked, sock, armed>>

fwEraseSector ==
  /\ At("erase") /\ ~locked /\ Go("erased")
  /\ bank' = [bank EXCEPT ![s.base] = Erased]
  /\ UNCHANGED <<s, locked, sock, armed>>

MarkErased ==
  /\ At("erased") /\ Go("program")
  /\ s' = [s EXCEPT !.erased = TRUE]
  /\ UNCHANGED <<bank, locked, sock, armed>>

\* Program the words at the address computed before, and read them back.
Program ==
  /\ At("program") /\ ~locked
  /\ LET same == bank[task.addr[1]][task.addr[2]] \in {Blank, task.chunk}
     IN  /\ bank' = [bank EXCEPT ![task.addr[1]][task.addr[2]] =
                       IF same THEN task.chunk ELSE Garbled]
         /\ task' = [task EXCEPT !.pc = IF same THEN "advance" ELSE "fail", !.addr = NoAddr]
  /\ UNCHANGED <<s, locked, sock, armed>>

Advance ==
  /\ At("advance") /\ Go("check")
  /\ s' = [s EXCEPT !.written = @ + 1]
  /\ UNCHANGED <<bank, locked, sock, armed>>

\* The end of fwFeed: the last byte finishes the stream.
Check ==
  /\ At("check")
  /\ task' = [task EXCEPT !.pc = IF s.received = N THEN "finish.lock" ELSE "loop", !.idle = 0]
  /\ UNCHANGED <<s, bank, locked, sock, armed>>

\* fwFinishStream and fwFail both lock the controller and close the socket.
FlashEnd ==
  /\ \/ At("finish.lock") /\ Go("finish.close")
     \/ At("fail.lock") /\ Go("fail.close")
  /\ locked' = TRUE
  /\ UNCHANGED <<s, bank, sock, armed>>

\* After fwFail, fwFeed goes back to the loop; the other callers leave it.
CloseSocket ==
  /\ \/ At("finish.close") /\ Go("compare")
     \/ At("fail.close") /\ Go(IF task.chunk = None THEN "wait" ELSE "loop")
  /\ sock' = Closed
  /\ UNCHANGED <<s, bank, locked, armed>>

\* (mutant: only the length of the stream is compared)
CrcMatches_Length == Len(s.crc) = N
CrcMatches == s.want # None /\ s.crc = Image(s.want)

FinishCompare ==
  /\ At("compare") /\ Go(IF CrcMatches THEN "done" ELSE "error")
  /\ UNCHANGED <<s, bank, locked, sock, armed>>

FinishState ==
  /\ At("done") \/ At("error")
  /\ Go("loop")
  /\ s' = [s EXCEPT !.state = task.pc]
  /\ UNCHANGED <<bank, locked, sock, armed>>

\* fwFail sets the state first.  (mutant: the controller is not locked)
FailState_NoLock ==
  /\ At("fail") /\ Go("fail.close")
  /\ s' = [s EXCEPT !.state = "error"]
  /\ UNCHANGED <<bank, locked, sock, armed>>

FailState ==
  /\ At("fail") /\ Go("fail.lock")
  /\ s' = [s EXCEPT !.state = "error"]
  /\ UNCHANGED <<bank, locked, sock, armed>>

fwTask ==
  \/ TakeFlag \/ Loop \/ Poll \/ Receive \/ NoData
  \/ Feed \/ StoreCrc \/ Count
  \/ Write \/ FlashRefuses \/ fwEraseSector \/ MarkErased \/ Program \/ Advance \/ Check
  \/ FlashEnd \/ CloseSocket \/ FinishCompare \/ FinishState \/ FailState

(***************************************************************************)
(* The command task.                                                       *)
(***************************************************************************)
Cmd(from, to) ==
  cli.pc = from /\ cli' = [cli EXCEPT !.pc = to] /\ UNCHANGED <<task, use, raced>>

\* FwUpdateBegin: refused while receiving; else the listener is opened ...
Begin(b, v) ==
  /\ cli.pc = "idle" /\ s.state # "recv"
  /\ cli' = [cli EXCEPT !.pc = "begin.reset", !.bank = b, !.ver = v]
  /\ sock' = [st |-> "listen", stream |-> <<>>]
  /\ raced' = (raced \/ task.pc \notin {"wait", "loop", "poll", "look"})
  /\ UNCHANGED <<s, bank, locked, armed, task, recorded, use>>

\* ... the counters are reset ...
BeginReset ==
  /\ Cmd("begin.reset", "begin.flash")
  /\ s' = [s EXCEPT !.bank = cli.bank, !.want = cli.ver,
                    !.received = 0, !.written = 0, !.crc = <<>>]
  /\ UNCHANGED <<bank, locked, sock, armed, recorded>>

\* ... the flash session is opened (fwFlashBegin) ...
BeginFlash ==
  /\ cli.pc = "begin.flash"
  /\ cli' = [cli EXCEPT !.pc = "begin.state", !.bank = 0, !.ver = None]
  /\ s' = [s EXCEPT !.base = cli.bank, !.erased = FALSE]
  /\ locked' = FALSE
  /\ UNCHANGED <<bank, sock, armed, task, recorded, use, raced>>

\* ... and fwTask is started.
BeginState ==
  /\ Cmd("begin.state", "begin.flag")
  /\ s' = [s EXCEPT !.state = "recv"]
  /\ UNCHANGED <<bank, locked, sock, armed, recorded>>

BeginFlag ==
  /\ Cmd("begin.flag", "idle")
  /\ armed' = TRUE
  /\ UNCHANGED <<s, bank, locked, sock, recorded>>

\* FwUpdateAbort: fwFail from this task while receiving, then idle.
Abort ==
  /\ "abort" \in use.cmds
  /\ IF s.state = "recv"
       THEN Cmd("idle", "abort.lock") /\ s' = [s EXCEPT !.state = "error"]
       ELSE Cmd("idle", "idle") /\ s' = [s EXCEPT !.state = "idle"]
  /\ UNCHANGED <<bank, locked, sock, armed, recorded>>

AbortLock ==
  /\ Cmd("abort.lock", "abort.close")
  /\ locked' = TRUE
  /\ UNCHANGED <<s, bank, sock, armed, recorded>>

AbortClose ==
  /\ Cmd("abort.close", "session.end")
  /\ sock' = Closed
  /\ UNCHANGED <<s, bank, locked, armed, recorded>>

\* The last assignment of an abort and of a commit.
SessionIdle ==
  /\ Cmd("session.end", "idle")
  /\ s' = [s EXCEPT !.state = "idle"]
  /\ UNCHANGED <<bank, locked, sock, armed, recorded>>

\* FwUpdateCommit: the state and the vectors, then the CRC of the bank.
\* (mutants: any session can be committed; the CRC recorded is that of the
\* image announced, not of the bank)
ValidVectors == \E v \in Ver : bank[s.bank][1] = <<v, 1>>
Committable_AnyState == s.state # "idle" /\ ValidVectors
Committable == s.state = "done" /\ ValidVectors
RegionCrc_Announced == Holding(s.want)
RegionCrc == bank[s.bank]

Commit ==
  /\ cli.pc = "idle" /\ Committable
  /\ cli' = [cli EXCEPT !.pc = "commit.write", !.crc = RegionCrc]
  /\ locked' = FALSE
  /\ UNCHANGED <<s, bank, sock, armed, task, recorded, use, raced>>

\* SettingsSave, up to write_slot's unlock.
Save ==
  /\ "save" \in use.cmds
  /\ Cmd("idle", "save.write")
  /\ locked' = FALSE
  /\ UNCHANGED <<s, bank, sock, armed, recorded>>

\* write_slot between unlock and lock, as one flash operation.  fwTask may
\* have locked the controller or hold the HAL: then it reports an error.
WriteSlotOk ==
  /\ ~locked
  /\ \/ Cmd("save.write", "save.lock") /\ UNCHANGED recorded
     \/ /\ cli.pc = "commit.write"
        /\ cli' = [cli EXCEPT !.pc = "commit.lock", !.crc = None]
        /\ recorded' = [recorded EXCEPT ![s.bank] = cli.crc]
        /\ UNCHANGED <<task, use, raced>>
  /\ UNCHANGED <<s, bank, locked, sock, armed>>

WriteSlotFail ==
  /\ locked \/ task.pc \in {"erase", "program"}
  /\ cli.pc \in {"save.write", "commit.write"}
  /\ cli' = [cli EXCEPT !.pc = "save.lock", !.crc = None]
  /\ UNCHANGED <<s, bank, locked, sock, armed, task, recorded, use, raced>>

\* HAL_FLASH_Lock; only a commit that was saved ends the session.
WriteSlotEnd ==
  /\ Cmd("save.lock", "idle") \/ Cmd("commit.lock", "session.end")
  /\ locked' = TRUE
  /\ UNCHANGED <<s, bank, sock, armed, recorded>>

InCommand ==
  \/ BeginReset \/ BeginFlash \/ BeginState \/ BeginFlag
  \/ AbortLock \/ AbortClose \/ SessionIdle
  \/ WriteSlotOk \/ WriteSlotFail \/ WriteSlotEnd

cliTask ==
  \/ \E b \in Targets, v \in use.vers : Begin(b, v)
  \/ Abort \/ Commit \/ Save
  \/ InCommand

(***************************************************************************)
(* The host's data connection (external), made once fw.begin has answered: *)
(* the image announced, a part of it, or other bytes; then it closes.      *)
(***************************************************************************)
HostStreams ==
  {Image(v) : v \in use.vers} \cup {SubSeq(Image(s.want), 1, k) : k \in 0..(N - 1)}

HostSend ==
  /\ sock.st = "listen"
  /\ cli.pc \notin {"begin.reset", "begin.flash", "begin.state", "begin.flag"}
  /\ \E x \in HostStreams : sock' = [st |-> "established", stream |-> x]
  /\ UNCHANGED <<s, bank, locked, armed, task, cli, recorded, use, raced>>

HostClose ==
  /\ sock.st = "established"
  /\ sock' = [sock EXCEPT !.st = "close_wait"]
  /\ UNCHANGED <<s, bank, locked, armed, task, cli, recorded, use, raced>>

Next == fwTask \/ cliTask \/ HostSend \/ HostClose

\* Equal priority and time slicing: neither task starves.
Spec == Init /\ [][Next]_vars /\ WF_vars(fwTask) /\ WF_vars(InCommand)

-----------------------------------------------------------------------------
(***************************************************************************)
(* Properties.                                                             *)
(***************************************************************************)
\* The types of the session, the hardware and the locals of the two tasks.
State == {"idle", "recv", "done", "error"}
Status == {"closed", "listen", "established", "close_wait"}
Place == Bank \X (1..Region)
Content == [1..Region -> Chunk \cup {Blank, Garbled}]
ReceiverPc ==
  {"wait", "loop", "poll", "look", "feed", "crc", "count", "write", "erase", "erased",
   "program", "advance", "check", "finish.lock", "finish.close", "compare", "done", "error",
   "fail", "fail.lock", "fail.close"}
CommandPc ==
  {"idle", "begin.reset", "begin.flash", "begin.state", "begin.flag", "abort.lock",
   "abort.close", "session.end", "save.write", "save.lock", "commit.write", "commit.lock"}

Statics ==
  [state : State, bank : Bank, want : Ver \cup {None}, received : 0..N, written : 0..Region,
   crc : Seq(Chunk), base : Bank, erased : BOOLEAN]
Socket == [st : Status, stream : Seq(Chunk)]
Receiver ==
  [pc : ReceiverPc, sr : Status, chunk : Chunk \cup {None}, addr : Place, crc : Seq(Chunk),
   idle : 0..MaxIdle]
Command ==
  [pc : CommandPc, bank : Bank, ver : Ver \cup {None}, crc : Content \cup {None}]

TypeOK ==
  /\ s \in Statics /\ bank \in [Bank -> Content] /\ locked \in BOOLEAN /\ sock \in Socket
  /\ armed \in BOOLEAN /\ task \in Receiver /\ cli \in Command
  /\ recorded \in [Bank -> Content \cup {None}] /\ use \in Uses /\ raced \in BOOLEAN
  /\ Len(s.crc) <= N + 1 /\ Len(task.crc) <= N + 1

\* A session is done only when the bank it named holds the announced image,
\* every chunk at its place, whatever save, abort or failure ran beside it -
\* unless a fw.begin found the receiver in the middle of a chunk.
DoneMeansWritten ==
  s.state = "done" /\ cli.pc \notin {"begin.flash", "begin.state"} /\ ~raced =>
    bank[s.bank] = Holding(s.want)

\* FwUpdate.h: fw.commit refuses anything but a fully received image.  What it
\* records is the CRC of a bank that holds one whole image.
CommittedWhole ==
  \A b \in Bank : recorded[b] = None \/ \E v \in Ver : recorded[b] = Holding(v)

\* That holds of every session, aborts between two chunks included, up to the
\* first fw.begin that finds the receiver in the middle of one.
CommittedWholeUnraced == raced \/ CommittedWhole

\* The CRC that is recorded is that of the bank as it is at that moment:
\* nothing is programmed between computing it and saving it.
RecordsWhatIsThere ==
  [][recorded' # recorded => \E b \in Bank : recorded' = [recorded EXCEPT ![b] = bank[b]]]_vars

\* When no session runs and both tasks are at rest, the controller is locked,
\* however the session ended and whatever saved beside it.
FlashLockedAtRest ==
  task.pc = "wait" /\ ~armed /\ cli.pc = "idle" /\ s.state # "recv" /\ ~raced => locked

\* A session always ends: received, failed, timed out or aborted.
SessionEnds == s.state = "recv" ~> s.state # "recv"
=============================================================================
