------------------------------ MODULE Console ------------------------------
(***************************************************************************)
(* The application's command line on its two ports (Protocol.c): RS-485,   *)
(* served by protocolTask over USART1 (usart.c), and TCP, served by        *)
(* netCliTask over one socket of the W5500 (NetCli.c).  One mutex keeps    *)
(* the commands of the two apart.  NetTask (Net.c) prints its log on the   *)
(* same USART, and its lease opens and closes the socket.                  *)
(*                                                                         *)
(* A byte is the body of a command, named by its number on its port, or a  *)
(* terminator.  A line of two bodies stands for what a lost terminator     *)
(* glues together: its checksum is wrong.  The queries of the host carry   *)
(* no blank line.                                                          *)
(***************************************************************************)
EXTENDS Integers, Sequences

CONSTANTS
  Ring,     \* RS485_RX_RING: bytes in the ring the DMA writes
  LineMax,  \* PROTOCOL_LINE_MAX
  Uses      \* bounds: lines of each port, connections, prints, line errors, sends of an
            \* answer; and which commands restart the board

Ports == {"rs485", "tcp"}
Bounds == [lines: [Ports -> Nat], conns: Nat, prints: Nat, noises: Nat, bursts: Nat \ {0},
           resets: SUBSET (Ports \X Nat)]

ASSUME ConsoleAssumption == Ring \in Nat \ {0, 1} /\ LineMax \in Nat \ {0, 1}
ASSUME UseAssumption == Uses \subseteq Bounds

VARIABLES
  use,         \* what may still happen
  peer,        \* of each port: the lines sent and what is left of the last one
  rx,          \* the DMA ring: its bytes, where the DMA and where the task is
  uart,        \* USART1: gState, the DE pin, the TX-done semaphore
  sock,        \* socket 1: its status, what has arrived, whether a send awaits its ACK
  net,         \* NetTask: where it is in DebugPrint, and netState = LEASED
  asm,         \* of each port: the line under way, its last terminator, the last command
  task,        \* of each port: its task
  sProtoMutex, \* the port whose task holds it
  sAction,     \* what the command asks of its task
  ran,         \* history: how often each command ran
  lost,        \* history: bytes on RS-485 were lost
  overlapped   \* history: a print overlaps the burst on the wire

vars == <<use, peer, rx, uart, sock, net, asm, task, sProtoMutex, sAction, ran, lost, overlapped>>

CR == -1
LF == -2
Ends == {CR, LF}
None == "none"
Body(p) == 1..use.lines[p]
Byte == Ends \cup Body("rs485") \cup Body("tcp")

Polling == [at |-> "poll", chunk |-> <<>>, head |-> 0, work |-> <<>>, bursts |-> 0]
NoSocket == [sr |-> "closed", open |-> FALSE, queue |-> <<>>, sending |-> FALSE]

Init ==
  /\ use \in Uses
  /\ peer = [p \in Ports |-> [sent |-> 0, rest |-> <<>>]]
  /\ rx = [ring |-> [i \in 0..(Ring - 1) |-> CR], head |-> 0, sRxTail |-> 0]
  /\ uart = [gState |-> "ready", de |-> FALSE, sTxDone |-> 0]
  /\ sock = NoSocket
  /\ net = [at |-> "idle", leased |-> FALSE, down |-> FALSE]
  /\ asm = [p \in Ports |-> [sLine |-> <<>>, sPendEOL |-> 0, last |-> <<>>]]
  /\ task = [p \in Ports |-> Polling]
  /\ sProtoMutex = None /\ sAction = None
  /\ ran = [p \in Ports |-> [i \in Body(p) |-> 0]]
  /\ lost = FALSE /\ overlapped = FALSE

Goes(p, where) == task' = [task EXCEPT ![p].at = where]

(***************************************************************************)
(* Reception on RS-485.  /RE is tied to DE: the board hears nothing while  *)
(* it drives the line.  The task compares its tail with the DMA's head, so *)
(* a lap of the ring is as if nothing had come.                            *)
(***************************************************************************)
Says(p, b) ==
  \/ /\ peer[p].rest # <<>> /\ b = Head(peer[p].rest)
     /\ peer' = [peer EXCEPT ![p].rest = Tail(@)]
  \/ /\ peer[p].rest = <<>> /\ peer[p].sent < use.lines[p] /\ b = peer[p].sent + 1
     /\ \E end \in {<<CR>>, <<CR, LF>>} : peer' = [peer EXCEPT ![p] = [sent |-> b, rest |-> end]]

Next1(i) == (i + 1) % Ring

Hear ==
  \E b \in Byte :
    /\ ~uart.de /\ Says("rs485", b)
    /\ rx' = [rx EXCEPT !.ring[rx.head] = b, !.head = Next1(@)]
    /\ lost' = (lost \/ Next1(rx.head) = rx.sRxTail)
    /\ UNCHANGED <<use, uart, sock, net, asm, task, sProtoMutex, sAction, ran, overlapped>>

TalkOver ==
  \E b \in Byte :
    /\ uart.de /\ Says("rs485", b)
    /\ lost' = TRUE
    /\ UNCHANGED <<use, rx, uart, sock, net, asm, task, sProtoMutex, sAction, ran, overlapped>>

\* HAL_UART_ErrorCallback: reception restarts at the beginning of the ring, under the reader.
LineError ==
  \E b \in Byte :
    /\ ~uart.de /\ use.noises > 0 /\ Says("rs485", b)
    /\ use' = [use EXCEPT !.noises = @ - 1]
    /\ rx' = [rx EXCEPT !.head = 0, !.sRxTail = 0]
    /\ lost' = TRUE
    /\ UNCHANGED <<uart, sock, net, asm, task, sProtoMutex, sAction, ran, overlapped>>

\* Rs485RxDrain reads the head, then copies up to it; the interrupt may come in between.
Drain ==
  /\ task["rs485"].at = "poll" /\ rx.sRxTail # rx.head
  /\ task' = [task EXCEPT !["rs485"].at = "copy", !["rs485"].head = rx.head]
  /\ UNCHANGED <<use, peer, rx, uart, sock, net, asm, sProtoMutex, sAction, ran, lost, overlapped>>

Copy ==
  LET n == (task["rs485"].head - rx.sRxTail) % Ring
  IN /\ task["rs485"].at = "copy"
     /\ task' = [task EXCEPT !["rs485"].at = "feed", !["rs485"].head = 0,
                   !["rs485"].chunk = [i \in 1..n |-> rx.ring[(rx.sRxTail + i - 1) % Ring]]]
     /\ rx' = [rx EXCEPT !.sRxTail = task["rs485"].head]
     /\ UNCHANGED <<use, peer, uart, sock, net, asm, sProtoMutex, sAction, ran, lost, overlapped>>

(***************************************************************************)
(* The connection.  Its peer may stop reading, or vanish without a word.   *)
(***************************************************************************)
PeerKeeps == UNCHANGED <<rx, uart, net, asm, task, sProtoMutex, sAction, ran, lost, overlapped>>

Connect ==
  /\ sock.sr = "listen" /\ net.leased /\ use.conns > 0
  /\ use' = [use EXCEPT !.conns = @ - 1]
  /\ sock' = [sock EXCEPT !.sr = "established"]
  /\ peer' = [peer EXCEPT !["tcp"].rest = <<>>]
  /\ PeerKeeps

Receive ==
  \E b \in Byte :
    /\ sock.sr = "established" /\ net.leased /\ Says("tcp", b)
    /\ sock' = [sock EXCEPT !.queue = Append(@, b)]
    /\ UNCHANGED use /\ PeerKeeps

Fin ==
  /\ sock.sr = "established" /\ sock' = [sock EXCEPT !.sr = "close_wait"]
  /\ UNCHANGED <<use, peer>> /\ PeerKeeps

\* A reset by the peer, or the chip gives up resending.
Broken ==
  /\ sock.sr \in {"established", "close_wait"}
  /\ sock' = [sock EXCEPT !.sr = "closed", !.sending = FALSE]
  /\ UNCHANGED <<use, peer>> /\ PeerKeeps

Ack ==
  /\ sock.sending /\ sock' = [sock EXCEPT !.sending = FALSE]
  /\ UNCHANGED <<use, peer>> /\ PeerKeeps

(***************************************************************************)
(* One pass of netCliTask.                                                 *)
(***************************************************************************)
Pass == task["tcp"].at = "poll" /\ UNCHANGED <<use, peer, rx, uart, net, sProtoMutex, sAction, ran, lost, overlapped>>
resetConnState == asm' = [asm EXCEPT !["tcp"].sLine = <<>>, !["tcp"].sPendEOL = 0]

CloseUnleased ==
  /\ Pass /\ ~net.leased /\ sock.open
  /\ sock' = NoSocket
  /\ UNCHANGED <<asm, task>>

Listen ==
  /\ Pass /\ net.leased /\ ~sock.open
  /\ sock' = [NoSocket EXCEPT !.open = TRUE, !.sr = "listen"]
  /\ UNCHANGED <<asm, task>>

Recv ==
  /\ Pass /\ net.leased /\ sock.sr = "established" /\ sock.queue # <<>>
  /\ task' = [task EXCEPT !["tcp"].at = "feed", !["tcp"].chunk = sock.queue]
  /\ sock' = [sock EXCEPT !.queue = <<>>]
  /\ UNCHANGED asm

\* What the peer sent before it closed and was not read is gone.
CloseWait ==
  /\ Pass /\ net.leased /\ sock.sr = "close_wait"
  /\ sock' = [NoSocket EXCEPT !.open = TRUE] /\ resetConnState
  /\ UNCHANGED task

Closed ==
  /\ Pass /\ net.leased /\ sock.open /\ sock.sr = "closed"
  /\ sock' = NoSocket /\ resetConnState
  /\ UNCHANGED task

(***************************************************************************)
(* Line assembly, the same on both ports (ProtocolFeedByte, feedByte).     *)
(***************************************************************************)
Completes_NoSwallow(a, b) == b \in Ends

Completes(a, b) == b \in Ends /\ (a.sLine # <<>> \/ a.sPendEOL \in {0, b})

Fed_Unbounded(a, b) ==
  IF b \in Ends
  THEN [a EXCEPT !.sLine = <<>>, !.sPendEOL = IF a.sLine # <<>> THEN b ELSE 0]
  ELSE [a EXCEPT !.sLine = Append(@, b), !.sPendEOL = 0]

Fed(a, b) ==
  IF b \in Ends
  THEN [a EXCEPT !.sLine = <<>>, !.sPendEOL = IF a.sLine # <<>> THEN b ELSE 0]
  ELSE [a EXCEPT !.sLine = IF Len(@) < LineMax THEN Append(@, b) ELSE @, !.sPendEOL = 0]

TaskKeeps == UNCHANGED <<use, peer, rx, net, lost>>

FeedByte(p) ==
  /\ task[p].at = "feed" /\ task[p].chunk # <<>>
  /\ LET b == Head(task[p].chunk)
     IN /\ asm' = [asm EXCEPT ![p] = Fed(@, b)]
        /\ task' = [task EXCEPT ![p].chunk = Tail(@),
                      ![p].at = IF Completes(asm[p], b) THEN "lock" ELSE "feed",
                      ![p].work = IF Completes(asm[p], b) THEN asm[p].sLine ELSE @]
  /\ TaskKeeps /\ UNCHANGED <<uart, sock, sProtoMutex, sAction, ran, overlapped>>

ChunkDone(p) ==
  /\ task[p].at = "feed" /\ task[p].chunk = <<>>
  /\ Goes(p, "poll")
  /\ TaskKeeps /\ UNCHANGED <<uart, sock, asm, sProtoMutex, sAction, ran, overlapped>>

(***************************************************************************)
(* ProtocolProcessLine.                                                    *)
(***************************************************************************)
Lock(p) ==
  /\ task[p].at = "lock" /\ sProtoMutex = None
  /\ sProtoMutex' = p /\ sAction' = None
  /\ Goes(p, "run")
  /\ TaskKeeps /\ UNCHANGED <<uart, sock, asm, ran, overlapped>>

Answers(p, n) == task' = [task EXCEPT ![p].at = "write", ![p].work = <<>>, ![p].bursts = n]

\* A handler runs; its answer takes one send or several.
Execute(p, i) ==
  /\ ran' = [ran EXCEPT ![p][i] = @ + 1]
  /\ sAction' = IF <<p, i>> \in use.resets THEN "handoff" ELSE sAction
  /\ \E n \in 1..use.bursts : Answers(p, n)

Command(p) ==
  /\ Len(task[p].work) = 1
  /\ asm' = [asm EXCEPT ![p].last = task[p].work]
  /\ Execute(p, task[p].work[1])

\* A blank line repeats the last command.
Repeat(p) ==
  /\ task[p].work = <<>> /\ asm[p].last # <<>>
  /\ Execute(p, asm[p].last[1])
  /\ UNCHANGED asm

\* "no previous command", "bad checksum"
Refuse(p) ==
  /\ \/ task[p].work = <<>> /\ asm[p].last = <<>>
     \/ Len(task[p].work) > 1
  /\ Answers(p, 1)
  /\ UNCHANGED <<asm, ran, sAction>>

Dispatch(p) ==
  /\ task[p].at = "run"
  /\ Command(p) \/ Repeat(p) \/ Refuse(p)
  /\ TaskKeeps /\ UNCHANGED <<uart, sock, sProtoMutex, overlapped>>

\* The answer is out: the action is read, then the mutex released.
Finish(p) ==
  /\ task[p].at = "write" /\ task[p].bursts = 0
  /\ sProtoMutex' = None
  /\ Goes(p, IF sAction = "handoff" THEN "handoff" ELSE "feed")
  /\ TaskKeeps /\ UNCHANGED <<uart, sock, asm, sAction, ran, overlapped>>

\* After a moment for the line, or the peer, the board restarts.
Handoff(p) ==
  /\ task[p].at = "handoff"
  /\ Goes(p, "gone")
  /\ sock' = IF p = "tcp" THEN NoSocket ELSE sock
  /\ TaskKeeps /\ UNCHANGED <<uart, asm, sProtoMutex, sAction, ran, overlapped>>

ProtocolProcessLine(p) == FeedByte(p) \/ ChunkDone(p) \/ Lock(p) \/ Dispatch(p) \/ Finish(p) \/ Handoff(p)

(***************************************************************************)
(* Rs485Send: DE, the transmit, and the wait for the TC interrupt.  The    *)
(* HAL refuses a transmit while another is under way.                      *)
(***************************************************************************)
SendKeeps == TaskKeeps /\ UNCHANGED <<sock, asm, sProtoMutex, sAction, ran>>
Sent(p) == task' = [task EXCEPT ![p].at = "write", ![p].bursts = @ - 1]

AssertDe ==
  /\ task["rs485"].at = "write" /\ task["rs485"].bursts > 0
  /\ uart' = [uart EXCEPT !.de = TRUE]
  /\ overlapped' = (net.at # "idle")
  /\ Goes("rs485", "start")
  /\ SendKeeps

TransmitIt_NoWait ==
  /\ task["rs485"].at = "start"
  /\ uart' = IF uart.gState = "ready" THEN [uart EXCEPT !.gState = "it"] ELSE [uart EXCEPT !.de = FALSE]
  /\ Sent("rs485")
  /\ SendKeeps /\ UNCHANGED overlapped

TransmitIt ==
  /\ task["rs485"].at = "start"
  /\ \/ /\ uart.gState = "ready"
        /\ uart' = [uart EXCEPT !.gState = "it"]
        /\ Goes("rs485", "wait")
     \/ /\ uart.gState # "ready"
        /\ uart' = [uart EXCEPT !.de = FALSE]
        /\ Sent("rs485")
  /\ SendKeeps /\ UNCHANGED overlapped

Transmitted ==
  /\ task["rs485"].at = "wait" /\ uart.sTxDone = 1
  /\ uart' = [uart EXCEPT !.sTxDone = 0]
  /\ Sent("rs485")
  /\ SendKeeps /\ UNCHANGED overlapped

Rs485Send == AssertDe \/ TransmitIt \/ Transmitted

\* HAL_UART_TxCpltCallback
TxCplt ==
  /\ uart.gState = "it"
  /\ uart' = [gState |-> "ready", de |-> FALSE, sTxDone |-> 1]
  /\ SendKeeps /\ UNCHANGED <<task, overlapped>>

(***************************************************************************)
(* tcpFlush: a segment waits for the ACK of the one before it, until the   *)
(* deadline.                                                               *)
(***************************************************************************)
FlushKeeps ==
  /\ task["tcp"].at = "write" /\ task["tcp"].bursts > 0
  /\ Sent("tcp")
  /\ TaskKeeps /\ UNCHANGED <<uart, asm, sProtoMutex, sAction, ran, overlapped>>

Send ==
  /\ sock.sr \in {"established", "close_wait"} /\ ~sock.sending
  /\ sock' = [sock EXCEPT !.sending = TRUE]
  /\ FlushKeeps

Drop == sock.sr \notin {"established", "close_wait"} /\ UNCHANGED sock /\ FlushKeeps

Deadline_Retries == task["tcp"].at = "write" /\ sock.sending /\ UNCHANGED vars

Deadline ==
  /\ sock.sending
  /\ sock' = [NoSocket EXCEPT !.open = TRUE]
  /\ FlushKeeps

tcpFlush == Send \/ Drop \/ Deadline

(***************************************************************************)
(* NetTask: the lease comes and goes, and each time DebugPrint tells.      *)
(***************************************************************************)
NetKeeps == UNCHANGED <<peer, rx, sock, asm, task, sProtoMutex, sAction, ran, lost>>

Report ==
  /\ net.at = "idle" /\ use.prints > 0
  /\ use' = [use EXCEPT !.prints = @ - 1]
  /\ net' = [at |-> "start", leased |-> TRUE, down |-> net.leased]
  /\ uart' = [uart EXCEPT !.de = TRUE]
  /\ overlapped' = TRUE
  /\ NetKeeps

\* The blocking transmit begins, or the HAL refuses it.
PrintStarts ==
  /\ net.at = "start"
  /\ net' = [net EXCEPT !.at = IF uart.gState = "ready" THEN "print" ELSE "stop"]
  /\ uart' = [uart EXCEPT !.gState = IF @ = "ready" THEN "print" ELSE @]
  /\ UNCHANGED <<use, overlapped>> /\ NetKeeps

PrintEnds ==
  /\ net.at \in {"print", "stop"}
  /\ net' = [at |-> "idle", leased |-> ~net.down, down |-> FALSE]
  /\ uart' = [uart EXCEPT !.de = FALSE, !.gState = IF net.at = "print" THEN "ready" ELSE @]
  /\ UNCHANGED <<use, overlapped>> /\ NetKeeps

NetTask == Report \/ PrintStarts \/ PrintEnds

Up == \A p \in Ports : task[p].at # "gone"

protocolTask == Drain \/ Copy \/ ProtocolProcessLine("rs485") \/ Rs485Send
netCliTask == CloseUnleased \/ Listen \/ Recv \/ CloseWait \/ Closed \/ ProtocolProcessLine("tcp") \/ tcpFlush

Next ==
  /\ Up
  /\ \/ Hear \/ TalkOver \/ LineError
     \/ Connect \/ Receive \/ Fin \/ Broken \/ Ack
     \/ protocolTask \/ netCliTask \/ NetTask \/ TxCplt

\* The tasks and the interrupt are scheduled, and the deadline of a flush passes.  The hosts
\* may stop at any point.
Fairness ==
  /\ WF_vars(Up /\ protocolTask) /\ WF_vars(Up /\ netCliTask)
  /\ WF_vars(Up /\ TxCplt) /\ WF_vars(Up /\ (PrintStarts \/ PrintEnds))

Spec == Init /\ [][Next]_vars /\ Fairness

(***************************************************************************)
(* What is promised.                                                       *)
(***************************************************************************)
Bodies == Nat \ {0}
Char == Ends \cup Bodies
Places == {"poll", "copy", "feed", "lock", "run", "write", "start", "wait", "handoff", "gone"}
Sender == [sent: Nat, rest: {<<>>, <<CR>>, <<LF>>, <<CR, LF>>}]
Receiver == [ring: [0..(Ring - 1) -> Char], head: 0..(Ring - 1),
             sRxTail: 0..(Ring - 1)]
Uart == [gState: {"ready", "it", "print"}, de: BOOLEAN, sTxDone: {0, 1}]
Socket == [sr: {"closed", "listen", "established", "close_wait"}, open: BOOLEAN,
           queue: Seq(Char), sending: BOOLEAN]
Printer == [at: {"idle", "start", "print", "stop"}, leased: BOOLEAN, down: BOOLEAN]
Assembly == [sLine: Seq(Bodies), sPendEOL: Ends \cup {0}, last: Seq(Bodies)]
Task == [at: Places, chunk: Seq(Char), head: 0..(Ring - 1), work: Seq(Bodies),
         bursts: Nat]

TypeOK ==
  /\ use \in Bounds /\ peer \in [Ports -> Sender] /\ rx \in Receiver /\ uart \in Uart
  /\ sock \in Socket /\ net \in Printer /\ asm \in [Ports -> Assembly]
  /\ task \in [Ports -> Task]
  /\ sProtoMutex \in Ports \cup {None} /\ sAction \in {None, "handoff"}
  /\ \A p \in Ports :
       /\ peer[p].sent <= use.lines[p] /\ task[p].bursts <= use.bursts
       /\ Len(asm[p].sLine) <= LineMax /\ Len(asm[p].last) <= 1
       /\ ran[p] \in [Body(p) -> Nat]
  /\ DOMAIN ran = Ports /\ lost \in BOOLEAN /\ overlapped \in BOOLEAN

\* A command runs no more often than it was sent: through CR LF pairs cut anywhere, connections
\* that end in the middle of a line, and lines left over from the last one.  On RS-485, as long
\* as nothing was lost there.
OncePerSend ==
  /\ \A i \in Body("tcp") : ran["tcp"][i] <= 1
  /\ ~lost => \A i \in Body("rs485") : ran["rs485"][i] <= 1

\* The half-duplex line: whoever asserts DE is about to send or sending, so that the board never
\* stays deaf, and DE stays up for a whole burst that no print overlaps.
LineDiscipline ==
  /\ uart.de => uart.gState = "it" \/ net.at # "idle" \/ task["rs485"].at = "start"
  /\ uart.gState = "it" /\ ~overlapped => uart.de

Heard(i) == peer["rs485"].sent > i \/ (peer["rs485"].sent = i /\ peer["rs485"].rest = <<>>)
Quiet ==
  /\ \A p \in Ports : task[p].at = "poll"
  /\ ~lost => \A i \in Body("rs485") : Heard(i) => ran["rs485"][i] > 0

\* Neither port holds up the other for ever: not a peer that stops reading, nor a print over an
\* answer.  However much was sent, the board comes back to listening on both, and what was sent
\* on RS-485, where nothing was lost, has run.
Serves == []<>(Quiet \/ ~Up)
=============================================================================
