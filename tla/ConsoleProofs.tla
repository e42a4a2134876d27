---------------------------- MODULE ConsoleProofs ----------------------------
(***************************************************************************)
(* The theorems about Console, for any size of the ring and of a line, any *)
(* number of lines on either port, and any interleaving of the two tasks,  *)
(* the interrupts, the prints, and connections that come and go.           *)
(***************************************************************************)
EXTENDS Console, TLAPS

(***************************************************************************)
(* The inductive invariant.                                                *)
(***************************************************************************)
\* A task that sends a burst on the wire has one to send, and is that of RS-485.
SendTask == \A p \in Ports : task[p].at \in {"start", "wait"} => p = "rs485" /\ task[p].bursts > 0

\* The transmitter: the interrupt of a transmit comes while the task waits for it, the task
\* drives the line that no print has touched, and a print is told of.
LineInv ==
  /\ SendTask /\ LineDiscipline
  /\ net.at # "idle" => overlapped
  /\ task["rs485"].at = "start" /\ ~overlapped => uart.de
  /\ uart.gState = "it" => task["rs485"].at = "wait" /\ uart.sTxDone = 0
  /\ uart.sTxDone = 1 => task["rs485"].at = "wait"

\* The bytes of a port that are on their way to its line assembly, in order: taken by the task,
\* received, and still to be said of the line under way.
Size(i, j) == (j - i) % Ring
Place(i, k) == (i + k - 1) % Ring
Held(ring, i, j) == [k \in 1..Size(i, j) |-> ring[Place(i, k)]]
Ringed == Held(rx.ring, rx.sRxTail, rx.head)
Connected == sock.sr = "established"
Arrived(p) == IF p = "rs485" THEN Ringed ELSE IF Connected THEN sock.queue ELSE <<>>
Expected(p) == IF p = "tcp" /\ ~Connected THEN <<>> ELSE peer[p].rest
Coming(p) == (task[p].chunk \o Arrived(p)) \o Expected(p)

\* Every terminator that comes ends a line, or is the LF of a CR that does.
Paired(x, line, pend) ==
  \A k \in DOMAIN x : x[k] \in Ends =>
    IF k = 1 THEN line # <<>> \/ (x[1] = LF /\ pend = CR)
    ELSE x[k - 1] \notin Ends \/ (x[k] = LF /\ x[k - 1] = CR)

\* A command that was sent and has not run, ahead of every one that still comes.
Unrun(b, x, sent, r) ==
  b <= sent /\ r[b] = 0 /\ \A k \in DOMAIN x : x[k] \notin Ends => b < x[k]

Ascending(x, sent, r) ==
  \A k \in DOMAIN x : x[k] \notin Ends =>
    /\ x[k] <= sent /\ r[x[k]] = 0
    /\ \A j \in DOMAIN x : j < k /\ x[j] \notin Ends => x[j] < x[k]

Counted(sent, r) == \A i \in DOMAIN r : r[i] <= 1 /\ (i > sent => r[i] = 0)

\* Of the commands sent, those that come, those of the line under way and those in hand have
\* not run.
Once(x, line, pend, job, sent, r) ==
  /\ Paired(x, line, pend) /\ Ascending(x, sent, r)
  /\ \A m \in DOMAIN line : Unrun(line[m], x, sent, r)
  /\ \A m \in DOMAIN job : Unrun(job[m], x, sent, r)
  /\ Counted(sent, r)

InHand(p) == IF task[p].at \in {"lock", "run"} THEN task[p].work ELSE <<>>

LinesOnce(p) ==
  /\ Once(Coming(p), asm[p].sLine, asm[p].sPendEOL, InHand(p), peer[p].sent, ran[p])
  /\ task[p].at \in {"lock", "run"} => task[p].work # <<>> /\ asm[p].sLine = <<>>

OnceInv == LinesOnce("tcp") /\ (~lost => LinesOnce("rs485"))

\* The tasks take bytes only when they have dealt with all they took, from what was received.
TakenInv ==
  /\ \A p \in Ports : task[p].at \in {"poll", "copy"} => task[p].chunk = <<>>
  /\ task["rs485"].at = "copy" =>
       Size(rx.sRxTail, task["rs485"].head) <= Size(rx.sRxTail, rx.head) \/ lost
  /\ sock.sr = "listen" => sock.queue = <<>> /\ task["tcp"].chunk = <<>>

IInv == TypeOK /\ LineInv /\ TakenInv /\ OnceInv

(***************************************************************************)
(* Types.                                                                  *)
(***************************************************************************)
LEMMA Constants ==
  /\ Ring \in Nat \ {0} /\ Ring > 1 /\ LineMax \in Nat \ {0} /\ 0 \in 0..(Ring - 1)
  /\ "rs485" \in Ports /\ "tcp" \in Ports /\ \A p \in Ports : p = "rs485" \/ p = "tcp"
BY ConsoleAssumption DEF Ports

\* An index into the ring.
LEMMA InRing ==
  ASSUME NEW x \in Int
  PROVE  x % Ring \in 0..(Ring - 1) /\ x % Ring \in Nat
<1>1. Ring \in Nat \ {0}
  BY Constants
<1> QED BY <1>1

\* A byte is a terminator or a body, never both.
LEMMA Bytes ==
  /\ Ends \subseteq Char /\ Bodies \subseteq Char /\ Char \subseteq Int
  /\ \A b \in Char : b \notin Ends <=> b \in Bodies
  /\ CR \in Ends /\ LF \in Ends /\ CR # LF /\ \A b \in Ends : b = CR \/ b = LF
  /\ \A b \in Bodies : b # 0 /\ b \in Nat
  /\ <<>> \in Seq(Char) /\ <<>> \in Seq(Bodies)
BY DEF Char, Ends, Bodies, CR, LF

\* What is left of a line is what ends it.
Endings == {<<>>, <<CR>>, <<LF>>, <<CR, LF>>}

\* A terminator is the next of what ends a line.
LEMMA EndingsTyped ==
  ASSUME NEW r \in Endings
  PROVE  r \in Seq(Char) /\ (r # <<>> => Head(r) \in Ends /\ Tail(r) \in Endings)
<1>1. CR \in Char /\ LF \in Char /\ CR \in Ends /\ LF \in Ends
  BY Bytes
<1>2. CASE r = <<>>
  BY <1>2
<1>3. CASE r = <<CR>>
  BY <1>1, <1>3 DEF Endings
<1>4. CASE r = <<LF>>
  BY <1>1, <1>4 DEF Endings
<1>5. CASE r = <<CR, LF>>
  BY <1>1, <1>5 DEF Endings
<1> QED BY <1>2, <1>3, <1>4, <1>5 DEF Endings

\* The fields of a task.
LEMMA TaskFields ==
  ASSUME TypeOK, NEW p \in Ports
  PROVE  /\ task[p] \in Task /\ task[p].at \in Places /\ task[p].chunk \in Seq(Char)
         /\ task[p].head \in 0..(Ring - 1) /\ task[p].work \in Seq(Bodies) /\ task[p].bursts \in Nat
         /\ task[p].bursts <= use.bursts
BY DEF TypeOK, Task

\* The fields of a line assembly.
LEMMA AsmFields ==
  ASSUME TypeOK, NEW p \in Ports
  PROVE  /\ asm[p] \in Assembly /\ asm[p].sLine \in Seq(Bodies) /\ asm[p].last \in Seq(Bodies)
         /\ asm[p].sPendEOL \in Ends \cup {0} /\ Len(asm[p].sLine) <= LineMax
         /\ Len(asm[p].last) <= 1
BY DEF TypeOK, Assembly

\* The fields of a host.
LEMMA PeerFields ==
  ASSUME TypeOK, NEW p \in Ports
  PROVE  /\ peer[p] \in Sender /\ peer[p].sent \in Nat /\ peer[p].sent <= use.lines[p]
         /\ peer[p].rest \in Endings /\ peer[p].rest \in Seq(Char)
         /\ use.lines[p] \in Nat
<1>1. peer[p] \in Sender /\ peer[p].sent <= use.lines[p] /\ use \in Bounds
  BY DEF TypeOK
<1>2. use.lines[p] \in Nat
  BY <1>1 DEF Bounds
<1>3. peer[p].sent \in Nat /\ peer[p].rest \in Endings
  BY <1>1 DEF Sender, Endings
<1> QED BY <1>1, <1>2, <1>3, EndingsTyped

\* What bounds the ports is set at the start.
BoundsKept == use' \in Bounds /\ use'.lines = use.lines /\ use'.bursts = use.bursts

\* A bound that counts down leaves the others.
LEMMA BoundsCounted ==
  ASSUME TypeOK, NEW n \in Nat,
         \/ use' = [use EXCEPT !.noises = n] \/ use' = [use EXCEPT !.conns = n]
         \/ use' = [use EXCEPT !.prints = n]
  PROVE  BoundsKept
<1>1. use \in Bounds
  BY DEF TypeOK
<1> QED BY <1>1 DEF Bounds, BoundsKept

\* The bounds.
LEMMA BoundsTyped ==
  ASSUME TypeOK
  PROVE  use \in Bounds /\ use.noises \in Nat /\ use.conns \in Nat /\ use.prints \in Nat
         /\ use.bursts \in Nat \ {0}
BY DEF TypeOK, Bounds

\* The types a step must still keep, when it keeps the rest.
LEMMA TypeKept ==
  ASSUME TypeOK, BoundsKept, peer' \in [Ports -> Sender], rx' \in Receiver, uart' \in Uart,
         sock' \in Socket, net' \in Printer, asm' \in [Ports -> Assembly],
         task' \in [Ports -> Task], sProtoMutex' \in Ports \cup {None},
         sAction' \in {None, "handoff"}, lost' \in BOOLEAN, overlapped' \in BOOLEAN,
         \A p \in Ports : peer'[p].sent <= use.lines[p] /\ task'[p].bursts <= use.bursts,
         \A p \in Ports : Len(asm'[p].sLine) <= LineMax /\ Len(asm'[p].last) <= 1,
         \A p \in Ports : ran'[p] \in [Body(p) -> Nat],
         DOMAIN ran' = Ports
  PROVE  TypeOK'
BY DEF TypeOK, BoundsKept, Body

(***************************************************************************)
(* What the hosts say.                                                     *)
(***************************************************************************)
\* Saying a byte: the next of the line under way, or the body of a new one.
SaysNext(p, b) ==
  /\ peer[p].rest # <<>> /\ b = Head(peer[p].rest) /\ b \in Ends
  /\ peer'[p].sent = peer[p].sent /\ peer'[p].rest = Tail(peer[p].rest)
SaysNew(p, b) ==
  /\ peer[p].rest = <<>> /\ b = peer[p].sent + 1 /\ b \in Bodies /\ b <= use.lines[p]
  /\ peer'[p].sent = b /\ peer'[p].rest \in {<<CR>>, <<CR, LF>>}

\* A host that says a byte keeps its types, and says a terminator or a new body.
LEMMA SaysTyped ==
  ASSUME TypeOK, NEW p \in Ports, NEW b, Says(p, b)
  PROVE  /\ peer' \in [Ports -> Sender] /\ b \in Char
         /\ \A q \in Ports : peer'[q].sent <= use.lines[q]
         /\ \A q \in Ports \ {p} : peer'[q] = peer[q]
         /\ SaysNext(p, b) \/ SaysNew(p, b)
<1>1. peer \in [Ports -> Sender] /\ peer[p].sent \in Nat /\ use.lines[p] \in Nat
      /\ peer[p].rest \in Endings
      /\ \A q \in Ports : peer[q].sent <= use.lines[q]
  BY PeerFields DEF TypeOK
<1>2. CASE /\ peer[p].rest # <<>> /\ b = Head(peer[p].rest)
           /\ peer' = [peer EXCEPT ![p].rest = Tail(@)]
  <2>1. b \in Ends /\ Tail(peer[p].rest) \in Endings
    BY <1>1, <1>2, EndingsTyped
  <2> DEFINE r == Tail(peer[p].rest)
  <2>2. peer' = [peer EXCEPT ![p].rest = r]
    BY <1>2
  <2> HIDE DEF r
  <2>3. r \in Endings
    BY <2>1 DEF r
  <2>4. peer' \in [Ports -> Sender] /\ peer'[p].sent = peer[p].sent /\ peer'[p].rest = r
        /\ \A q \in Ports \ {p} : peer'[q] = peer[q]
    BY <1>1, <2>2, <2>3 DEF Sender, Endings
  <2>5. SaysNext(p, b)
    BY <1>2, <2>1, <2>4 DEF SaysNext, r
  <2> QED BY <1>1, <2>1, <2>4, <2>5, Bytes
<1>3. CASE /\ peer[p].rest = <<>> /\ peer[p].sent < use.lines[p] /\ b = peer[p].sent + 1
           /\ \E end \in {<<CR>>, <<CR, LF>>} :
                peer' = [peer EXCEPT ![p] = [sent |-> b, rest |-> end]]
  <2>1. PICK end \in {<<CR>>, <<CR, LF>>} : peer' = [peer EXCEPT ![p] = [sent |-> b, rest |-> end]]
    BY <1>3
  <2>2. b \in Bodies /\ b \in Nat /\ b <= use.lines[p]
    BY <1>1, <1>3 DEF Bodies
  <2>3. peer' \in [Ports -> Sender] /\ peer'[p].sent = b /\ peer'[p].rest = end
        /\ \A q \in Ports \ {p} : peer'[q] = peer[q]
    BY <1>1, <2>1, <2>2 DEF Sender
  <2>4. SaysNew(p, b)
    BY <1>3, <2>2, <2>3 DEF SaysNew
  <2> QED BY <1>1, <2>2, <2>3, <2>4, Bytes
<1> QED BY <1>2, <1>3 DEF Says


\* The ring with one byte more, and its indices.
LEMMA RingTyped ==
  ASSUME TypeOK, NEW b \in Char
  PROVE  /\ rx \in Receiver /\ rx.head \in 0..(Ring - 1) /\ rx.sRxTail \in 0..(Ring - 1)
         /\ rx.ring \in [0..(Ring - 1) -> Char]
         /\ Next1(rx.head) \in 0..(Ring - 1)
         /\ [rx EXCEPT !.ring[rx.head] = b, !.head = Next1(@)] \in Receiver
         /\ [rx EXCEPT !.head = 0, !.sRxTail = 0] \in Receiver
<1>1. rx \in Receiver /\ rx.head \in 0..(Ring - 1) /\ rx.sRxTail \in 0..(Ring - 1)
      /\ rx.ring \in [0..(Ring - 1) -> Char]
  BY DEF TypeOK, Receiver
<1>2. Next1(rx.head) \in 0..(Ring - 1)
  <2>1. rx.head + 1 \in Int
    BY <1>1
  <2> QED BY <2>1, InRing DEF Next1
<1>3. [rx.ring EXCEPT ![rx.head] = b] \in [0..(Ring - 1) -> Char]
  BY <1>1
<1>4. [rx EXCEPT !.ring[rx.head] = b, !.head = Next1(@)] \in Receiver
  BY <1>1, <1>2, <1>3 DEF Receiver
<1>5. [rx EXCEPT !.head = 0, !.sRxTail = 0] \in Receiver
  BY <1>1, Constants DEF Receiver
<1> QED BY <1>1, <1>2, <1>4, <1>5

\* Reception on RS-485 keeps the types.
LEMMA HearTyped ==
  ASSUME TypeOK, Hear \/ TalkOver \/ LineError
  PROVE  TypeOK'
<1>1. PICK b \in Byte :
        /\ Says("rs485", b)
        /\ rx' \in {rx, [rx EXCEPT !.ring[rx.head] = b, !.head = Next1(@)],
                     [rx EXCEPT !.head = 0, !.sRxTail = 0]}
  BY DEF Hear, TalkOver, LineError
<1>2. peer' \in [Ports -> Sender] /\ b \in Char /\ \A q \in Ports : peer'[q].sent <= use.lines[q]
  BY <1>1, SaysTyped, Constants
<1>3. rx' \in Receiver
  BY <1>1, <1>2, RingTyped
<1>4. BoundsKept
  <2>1. CASE LineError
    <3>1. use.noises - 1 \in Nat /\ use' = [use EXCEPT !.noises = use.noises - 1]
      BY <2>1, BoundsTyped DEF LineError
    <3> QED BY <3>1, BoundsCounted
  <2>2. CASE Hear \/ TalkOver
    BY <2>2 DEF TypeOK, BoundsKept, Hear, TalkOver
  <2> QED BY <2>1, <2>2
<1>5. lost' \in BOOLEAN
  BY DEF TypeOK, Hear, TalkOver, LineError
<1> QED BY <1>2, <1>3, <1>4, <1>5 DEF Hear, TalkOver, LineError, TypeOK, BoundsKept, Body

\* Where the task of a port goes, with what it carries.
TaskMoves(p, at, chunk, work, bursts) ==
  /\ task' \in [Ports -> Task]
  /\ task'[p].at = at /\ task'[p].chunk = chunk /\ task'[p].work = work
  /\ task'[p].bursts = bursts /\ task'[p].head = task[p].head
  /\ \A q \in Ports \ {p} : task'[q] = task[q]

\* A task that goes somewhere carries what it holds.
LEMMA TaskGoes ==
  ASSUME TypeOK, NEW p \in Ports, NEW at \in Places, Goes(p, at)
  PROVE  TaskMoves(p, at, task[p].chunk, task[p].work, task[p].bursts)
<1>1. task \in [Ports -> Task] /\ task' = [task EXCEPT ![p].at = at]
  BY DEF TypeOK, Goes
<1> QED BY <1>1 DEF TaskMoves, Task

\* Draining the ring keeps the types.
LEMMA CopyTyped ==
  ASSUME TypeOK, Drain \/ Copy
  PROVE  TypeOK'
<1>1. task \in [Ports -> Task] /\ "rs485" \in Ports /\ rx \in Receiver
  BY Constants DEF TypeOK
<1>2. /\ rx.ring \in [0..(Ring - 1) -> Char]
      /\ rx.head \in 0..(Ring - 1) /\ rx.sRxTail \in 0..(Ring - 1)
  BY <1>1 DEF Receiver
<1>3. CASE Drain
  <2>1. task' \in [Ports -> Task] /\ \A p \in Ports : task'[p].bursts = task[p].bursts
    <3>1. "copy" \in Places
      BY DEF Places
    <3>2. task' = [task EXCEPT !["rs485"].at = "copy", !["rs485"].head = rx.head]
      BY <1>3 DEF Drain
    <3> QED BY <1>1, <1>2, <3>1, <3>2 DEF Task
  <2> QED BY <1>3, <2>1 DEF Drain, TypeOK, Body
<1>4. CASE Copy
  <2> DEFINE n == (task["rs485"].head - rx.sRxTail) % Ring
             c == [i \in 1..n |-> rx.ring[(rx.sRxTail + i - 1) % Ring]]
  <2>1. n \in Nat /\ task["rs485"].head \in 0..(Ring - 1)
    <3>1. task["rs485"].head \in 0..(Ring - 1)
      BY <1>1, TaskFields
    <3>2. task["rs485"].head - rx.sRxTail \in Int
      BY <1>2, <3>1
    <3> QED BY <3>1, <3>2, InRing
  <2>2. c \in Seq(Char)
    <3> HIDE DEF n
    <3>1. \A i \in 1..n : rx.ring[(rx.sRxTail + i - 1) % Ring] \in Char
      <4>1. \A i \in 1..n : rx.sRxTail + i - 1 \in Int
        BY <1>2, <2>1
      <4> QED BY <1>2, <4>1, InRing
    <3> QED BY <2>1, <3>1
  <2>3. task' \in [Ports -> Task] /\ \A p \in Ports : task'[p].bursts = task[p].bursts
    <3>1. "feed" \in Places /\ 0 \in 0..(Ring - 1)
      BY Constants DEF Places
    <3>2. task' = [task EXCEPT !["rs485"].at = "feed", !["rs485"].head = 0, !["rs485"].chunk = c]
      BY <1>4 DEF Copy
    <3> HIDE DEF c
    <3> QED BY <1>1, <2>2, <3>1, <3>2 DEF Task
  <2>4. rx' \in Receiver
    <3>1. rx' = [rx EXCEPT !.sRxTail = task["rs485"].head]
      BY <1>4 DEF Copy
    <3> QED BY <1>1, <2>1, <3>1 DEF Receiver
  <2> QED BY <1>4, <2>3, <2>4 DEF Copy, TypeOK, Body
<1> QED BY <1>3, <1>4

\* What the peer of the connection does keeps the types.
LEMMA PeerTyped ==
  ASSUME TypeOK, Connect \/ Receive \/ Fin \/ Broken \/ Ack
  PROVE  TypeOK'
<1>1. sock \in Socket /\ sock.queue \in Seq(Char) /\ use \in Bounds /\ peer \in [Ports -> Sender]
      /\ "tcp" \in Ports
  BY Constants DEF TypeOK, Socket
<1>2. CASE Connect
  <2>1. sock' \in Socket
    BY <1>1, <1>2 DEF Connect, Socket
  <2>2. BoundsKept
    <3>1. use.conns - 1 \in Nat /\ use' = [use EXCEPT !.conns = use.conns - 1]
      BY <1>2, BoundsTyped DEF Connect
    <3> QED BY <3>1, BoundsCounted
  <2>3. peer' \in [Ports -> Sender] /\ \A q \in Ports : peer'[q].sent = peer[q].sent
    BY <1>1, <1>2 DEF Connect, Sender
  <2> QED BY <1>2, <2>1, <2>2, <2>3 DEF Connect, PeerKeeps, TypeOK, BoundsKept, Body
<1>3. CASE Receive
  <2>1. PICK b \in Byte : Says("tcp", b) /\ sock' = [sock EXCEPT !.queue = Append(@, b)]
    BY <1>3 DEF Receive
  <2>2. peer' \in [Ports -> Sender] /\ b \in Char /\ \A q \in Ports : peer'[q].sent <= use.lines[q]
    BY <2>1, SaysTyped, Constants
  <2>3. sock' \in Socket
    <3>1. Append(sock.queue, b) \in Seq(Char)
      BY <1>1, <2>2
    <3> QED BY <1>1, <2>1, <3>1 DEF Socket
  <2> QED BY <1>3, <2>2, <2>3 DEF Receive, PeerKeeps, TypeOK, Body
<1>4. CASE Fin \/ Broken \/ Ack
  <2>1. sock' \in Socket
    BY <1>1, <1>4 DEF Fin, Broken, Ack, Socket
  <2> QED BY <1>4, <2>1 DEF Fin, Broken, Ack, PeerKeeps, TypeOK, Body
<1> QED BY <1>2, <1>3, <1>4

\* A socket that is closed, open or listening is a socket.
LEMMA NoSocketTyped ==
  /\ NoSocket \in Socket /\ [NoSocket EXCEPT !.open = TRUE] \in Socket
  /\ [NoSocket EXCEPT !.open = TRUE, !.sr = "listen"] \in Socket
<1>1. <<>> \in Seq(Char)
  BY Bytes
<1> QED BY <1>1 DEF NoSocket, Socket

\* A pass of netCliTask keeps the types.
LEMMA PassTyped ==
  ASSUME TypeOK, CloseUnleased \/ Listen \/ Recv \/ CloseWait \/ Closed
  PROVE  TypeOK'
<1>1. sock \in Socket /\ sock.queue \in Seq(Char) /\ "tcp" \in Ports
      /\ task \in [Ports -> Task] /\ asm \in [Ports -> Assembly]
  BY Constants DEF TypeOK, Socket
<1>2. sock' \in Socket
  <2>1. [sock EXCEPT !.queue = <<>>] \in Socket
    BY <1>1, Bytes DEF Socket
  <2> QED BY <2>1, NoSocketTyped DEF CloseUnleased, Listen, Recv, CloseWait, Closed
<1>3. /\ asm' \in [Ports -> Assembly]
      /\ \A p \in Ports : Len(asm'[p].sLine) <= LineMax /\ Len(asm'[p].last) <= 1
  <2>1. CASE asm' = asm
    BY <2>1 DEF TypeOK
  <2>2. CASE resetConnState
    <3>1. <<>> \in Seq(Bodies) /\ Len(<<>>) = 0 /\ 0 \in Ends \cup {0} /\ LineMax \in Nat
      BY Bytes, Constants
    <3>2. asm' = [asm EXCEPT !["tcp"].sLine = <<>>, !["tcp"].sPendEOL = 0]
      BY <2>2 DEF resetConnState
    <3>3. asm' \in [Ports -> Assembly] /\ asm'["tcp"].sLine = <<>>
          /\ asm'["tcp"].last = asm["tcp"].last
          /\ \A p \in Ports \ {"tcp"} : asm'[p] = asm[p]
      BY <1>1, <3>1, <3>2 DEF Assembly
    <3> QED BY <3>1, <3>3 DEF TypeOK
  <2> QED BY <2>1, <2>2 DEF CloseUnleased, Listen, Recv, CloseWait, Closed
<1>4. task' \in [Ports -> Task] /\ \A p \in Ports : task'[p].bursts = task[p].bursts
  <2>1. CASE task' = task
    BY <1>1, <2>1
  <2>2. CASE Recv
    <3>1. "feed" \in Places
      BY DEF Places
    <3> QED BY <1>1, <2>2, <3>1 DEF Recv, Task
  <2> QED BY <2>1, <2>2 DEF CloseUnleased, Listen, Recv, CloseWait, Closed
<1>5. UNCHANGED <<use, peer, rx, uart, net, sProtoMutex, sAction, ran, lost, overlapped>>
  BY DEF CloseUnleased, Listen, Recv, CloseWait, Closed, Pass
<1> QED BY <1>2, <1>3, <1>4, <1>5 DEF TypeOK, Body

\* What a step of line processing leaves alone.
Kept == UNCHANGED <<use, peer, rx, net, lost>>

\* Feeding a byte: the line assembly takes it, and a completed line is the work in hand.
FeedMoves(p) ==
  LET b == Head(task[p].chunk) IN
  /\ task[p].chunk # <<>> /\ b \in Char /\ task[p].at = "feed" /\ Kept
  /\ asm' \in [Ports -> Assembly] /\ \A q \in Ports \ {p} : asm'[q] = asm[q]
  /\ asm'[p].last = asm[p].last
  /\ b \in Ends => asm'[p].sLine = <<>>
                   /\ asm'[p].sPendEOL = (IF asm[p].sLine # <<>> THEN b ELSE 0)
  /\ b \notin Ends => asm'[p].sPendEOL = 0
       /\ asm'[p].sLine = (IF Len(asm[p].sLine) < LineMax THEN Append(asm[p].sLine, b)
                           ELSE asm[p].sLine)
  /\ TaskMoves(p, IF Completes(asm[p], b) THEN "lock" ELSE "feed", Tail(task[p].chunk),
               IF Completes(asm[p], b) THEN asm[p].sLine ELSE task[p].work, task[p].bursts)
  /\ UNCHANGED <<uart, sock, sProtoMutex, sAction, ran, overlapped>>

\* Feeding a byte moves it from what was taken to the line assembly, which never overflows.
LEMMA FeedTyped ==
  ASSUME TypeOK, NEW p \in Ports, FeedByte(p)
  PROVE  FeedMoves(p) /\ TypeOK'
<1> DEFINE b == Head(task[p].chunk)
           done == Completes(asm[p], b)
           w == IF done THEN asm[p].sLine ELSE task[p].work
           at == IF done THEN "lock" ELSE "feed"
           a == Fed(asm[p], b)
<1>1. /\ task \in [Ports -> Task] /\ asm \in [Ports -> Assembly] /\ task[p].chunk \in Seq(Char)
      /\ task[p].chunk # <<>> /\ asm[p] \in Assembly /\ asm[p].sLine \in Seq(Bodies)
      /\ Len(asm[p].sLine) <= LineMax /\ task[p].work \in Seq(Bodies) /\ LineMax \in Nat
  BY TaskFields, AsmFields, Constants DEF TypeOK, FeedByte
<1>2. b \in Char /\ Tail(task[p].chunk) \in Seq(Char)
  BY <1>1
<1>3. w \in Seq(Bodies) /\ at \in Places
  BY <1>1 DEF Places
<1>4. /\ a \in Assembly /\ a.last = asm[p].last /\ Len(a.sLine) <= LineMax
      /\ b \in Ends => a.sLine = <<>> /\ a.sPendEOL = (IF asm[p].sLine # <<>> THEN b ELSE 0)
      /\ b \notin Ends => a.sPendEOL = 0
           /\ a.sLine = (IF Len(asm[p].sLine) < LineMax THEN Append(asm[p].sLine, b)
                         ELSE asm[p].sLine)
  <2>1. CASE b \in Ends
    <3> DEFINE e == IF asm[p].sLine # <<>> THEN b ELSE 0
    <3>1. <<>> \in Seq(Bodies) /\ Len(<<>>) = 0 /\ e \in Ends \cup {0} /\ 0 <= LineMax
      BY <1>1, <2>1, Bytes
    <3>2. a = [asm[p] EXCEPT !.sLine = <<>>, !.sPendEOL = e]
      BY <2>1 DEF Fed
    <3>3. e = IF asm[p].sLine # <<>> THEN b ELSE 0
      OBVIOUS
    <3> HIDE DEF b, a, e
    <3>4. a \in Assembly /\ a.last = asm[p].last /\ a.sLine = <<>> /\ a.sPendEOL = e
      BY <1>1, <3>1, <3>2 DEF Assembly
    <3> QED BY <2>1, <3>1, <3>3, <3>4
  <2>2. CASE b \notin Ends
    <3> DEFINE l == IF Len(asm[p].sLine) < LineMax THEN Append(asm[p].sLine, b) ELSE asm[p].sLine
    <3>1. l \in Seq(Bodies) /\ Len(l) <= LineMax
      <4>1. b \in Bodies
        BY <1>2, <2>2, Bytes
      <4>2. Append(asm[p].sLine, b) \in Seq(Bodies)
            /\ Len(Append(asm[p].sLine, b)) = Len(asm[p].sLine) + 1 /\ Len(asm[p].sLine) \in Nat
        <5> HIDE DEF b
        <5> QED BY <1>1, <4>1
      <4> QED BY <1>1, <4>2
    <3>2. a = [asm[p] EXCEPT !.sLine = l, !.sPendEOL = 0]
      BY <2>2 DEF Fed
    <3>3. l = IF Len(asm[p].sLine) < LineMax THEN Append(asm[p].sLine, b) ELSE asm[p].sLine
      OBVIOUS
    <3> HIDE DEF b, a, l
    <3>4. a \in Assembly /\ a.last = asm[p].last /\ a.sLine = l /\ a.sPendEOL = 0
      BY <1>1, <3>1, <3>2 DEF Assembly
    <3> QED BY <2>2, <3>1, <3>3, <3>4
  <2> QED BY <2>1, <2>2
<1>5. /\ asm' = [asm EXCEPT ![p] = a]
      /\ task' = [task EXCEPT ![p].chunk = Tail(@), ![p].at = at, ![p].work = w]
      /\ Kept /\ task[p].at = "feed"
      /\ UNCHANGED <<uart, sock, sProtoMutex, sAction, ran, overlapped>>
  BY DEF FeedByte, TaskKeeps, Kept
<1> HIDE DEF w, at, a, done, b
<1>6. TaskMoves(p, at, Tail(task[p].chunk), w, task[p].bursts)
  BY <1>1, <1>2, <1>3, <1>5 DEF TaskMoves, Task
<1>7. asm' \in [Ports -> Assembly] /\ asm'[p] = a /\ \A q \in Ports \ {p} : asm'[q] = asm[q]
  BY <1>1, <1>4, <1>5
<1>8. FeedMoves(p)
  BY <1>1, <1>2, <1>4, <1>5, <1>6, <1>7 DEF FeedMoves, at, w, done, b
<1>9. TypeOK'
  BY <1>4, <1>5, <1>6, <1>7 DEF TaskMoves, TypeOK, Body, Kept
<1> QED BY <1>8, <1>9

\* The steps that move a task and touch neither the bytes that come nor the lines.
LEMMA GoesTyped ==
  ASSUME TypeOK, NEW p \in Ports, ChunkDone(p) \/ Lock(p) \/ Finish(p) \/ Handoff(p)
  PROVE  /\ TypeOK' /\ Kept /\ UNCHANGED <<uart, asm, ran, overlapped>>
         /\ \E at \in {"poll", "run", "handoff", "feed", "gone"} :
              TaskMoves(p, at, task[p].chunk, task[p].work, task[p].bursts)
         /\ sock' = sock \/ (sock' = NoSocket /\ p = "tcp")
<1>1. Kept /\ UNCHANGED <<uart, asm, ran, overlapped>>
  BY DEF ChunkDone, Lock, Finish, Handoff, TaskKeeps, Kept
<1>2. PICK at \in {"poll", "run", "handoff", "feed", "gone"} : Goes(p, at)
  BY DEF ChunkDone, Lock, Finish, Handoff
<1>3. TaskMoves(p, at, task[p].chunk, task[p].work, task[p].bursts)
  <2>1. at \in Places
    BY DEF Places
  <2> QED BY <1>2, <2>1, TaskGoes
<1>4. sock' = sock \/ (sock' = NoSocket /\ p = "tcp")
  BY DEF ChunkDone, Lock, Finish, Handoff
<1>5. sock' \in Socket /\ sProtoMutex' \in Ports \cup {None} /\ sAction' \in {None, "handoff"}
  BY <1>4, NoSocketTyped DEF ChunkDone, Lock, Finish, Handoff, TypeOK
<1>6. TypeOK'
  <2>1. task' \in [Ports -> Task] /\ \A q \in Ports : task'[q].bursts = task[q].bursts
    BY <1>3 DEF TaskMoves
  <2> QED BY <1>1, <1>5, <2>1 DEF TypeOK, Body, Kept
<1> QED BY <1>1, <1>3, <1>4, <1>6

\* Dispatching a line: an answer is to be sent, and one command may have run once more.
RunMoves(p) ==
  /\ task[p].at = "run" /\ Kept /\ UNCHANGED <<uart, sock, sProtoMutex, overlapped>>
  /\ \E n \in 1..use.bursts : TaskMoves(p, "write", task[p].chunk, <<>>, n)
  /\ asm' \in [Ports -> Assembly] /\ \A q \in Ports : asm'[q].sLine = asm[q].sLine
  /\ \A q \in Ports : asm'[q].sPendEOL = asm[q].sPendEOL
  /\ \/ Len(task[p].work) = 1 /\ ran' = [ran EXCEPT ![p][task[p].work[1]] = @ + 1]
     \/ task[p].work = <<>> /\ ran' = [ran EXCEPT ![p][asm[p].last[1]] = @ + 1]
     \/ ran' = ran

\* An answer leaves the task with nothing in hand.
LEMMA AnswersTyped ==
  ASSUME TypeOK, NEW p \in Ports, NEW n \in Nat, Answers(p, n)
  PROVE  TaskMoves(p, "write", task[p].chunk, <<>>, n)
<1>1. task \in [Ports -> Task] /\ <<>> \in Seq(Bodies) /\ "write" \in Places
  BY Bytes DEF TypeOK, Places
<1> QED BY <1>1 DEF Answers, TaskMoves, Task

\* A command that runs is counted, and no other.
LEMMA RanTyped ==
  ASSUME TypeOK, NEW p \in Ports, NEW i, ran' = [ran EXCEPT ![p][i] = @ + 1]
  PROVE  /\ \A q \in Ports : ran'[q] \in [Body(q) -> Nat]
         /\ DOMAIN ran' = Ports /\ \A q \in Ports \ {p} : ran'[q] = ran[q]
         /\ \A j \in Body(p) : ran'[p][j] = IF j = i THEN ran[p][i] + 1 ELSE ran[p][j]
<1>1. DOMAIN ran = Ports /\ \A q \in Ports : ran[q] \in [Body(q) -> Nat]
  BY DEF TypeOK
<1>2. DOMAIN ran' = Ports /\ \A q \in Ports \ {p} : ran'[q] = ran[q]
  BY <1>1
<1>3. ran'[p] = [ran[p] EXCEPT ![i] = ran[p][i] + 1]
  BY <1>1
<1>4. ran'[p] \in [Body(p) -> Nat]
  <2> DEFINE g == ran[p]
  <2>1. g \in [Body(p) -> Nat] /\ ran'[p] = [g EXCEPT ![i] = g[i] + 1]
    BY <1>1, <1>3
  <2> HIDE DEF g
  <2>2. CASE i \in Body(p)
    <3>1. g[i] + 1 \in Nat
      BY <2>1, <2>2
    <3> QED BY <2>1, <2>2, <3>1
  <2>3. CASE i \notin Body(p)
    BY <2>1, <2>3
  <2> QED BY <2>2, <2>3
<1>5. \A j \in Body(p) : ran'[p][j] = IF j = i THEN ran[p][i] + 1 ELSE ran[p][j]
  BY <1>1, <1>3
<1> QED BY <1>1, <1>2, <1>4, <1>5

\* Dispatching a line keeps the types.
LEMMA DispatchTyped ==
  ASSUME TypeOK, NEW p \in Ports, Dispatch(p)
  PROVE  RunMoves(p) /\ TypeOK'
<1>1. task[p].at = "run" /\ Kept /\ UNCHANGED <<uart, sock, sProtoMutex, overlapped>>
  BY DEF Dispatch, TaskKeeps, Kept
<1>2. PICK n \in 1..use.bursts : TaskMoves(p, "write", task[p].chunk, <<>>, n)
  <2>1. 1 \in 1..use.bursts /\ 1..use.bursts \subseteq Nat
    BY BoundsTyped
  <2>2. PICK n \in 1..use.bursts : Answers(p, n)
    BY <2>1 DEF Dispatch, Command, Repeat, Refuse, Execute
  <2> QED BY <2>1, <2>2, AnswersTyped
<1>3. /\ asm' \in [Ports -> Assembly]
      /\ \A q \in Ports : asm'[q].sLine = asm[q].sLine /\ asm'[q].sPendEOL = asm[q].sPendEOL
                         /\ Len(asm'[q].last) <= 1
  <2>1. CASE asm' = asm
    BY <2>1 DEF TypeOK
  <2>2. CASE Len(task[p].work) = 1 /\ asm' = [asm EXCEPT ![p].last = task[p].work]
    <3> DEFINE w == task[p].work
    <3>1. w \in Seq(Bodies) /\ Len(w) = 1 /\ asm' = [asm EXCEPT ![p].last = w]
      BY <2>2, TaskFields
    <3> HIDE DEF w
    <3>2. asm \in [Ports -> Assembly] /\ \A q \in Ports : Len(asm[q].last) <= 1
      BY DEF TypeOK
    <3>3. /\ asm' \in [Ports -> Assembly] /\ asm'[p].last = w
          /\ asm'[p].sLine = asm[p].sLine /\ asm'[p].sPendEOL = asm[p].sPendEOL
          /\ \A q \in Ports \ {p} : asm'[q] = asm[q]
      BY <3>1, <3>2 DEF Assembly
    <3>4. Len(asm'[p].last) <= 1
      <4>1. Len(w) <= 1
        BY <3>1
      <4>2. asm'[p].last = w
        BY <3>3
      <4> QED BY <4>1, <4>2, Zenon
    <3> QED BY <3>2, <3>3, <3>4
  <2> QED BY <2>1, <2>2 DEF Dispatch, Command, Repeat, Refuse
<1>4. \/ Len(task[p].work) = 1 /\ ran' = [ran EXCEPT ![p][task[p].work[1]] = @ + 1]
      \/ task[p].work = <<>> /\ ran' = [ran EXCEPT ![p][asm[p].last[1]] = @ + 1]
      \/ ran' = ran
  BY DEF Dispatch, Command, Repeat, Refuse, Execute
<1>5. DOMAIN ran' = Ports /\ \A q \in Ports : ran'[q] \in [Body(q) -> Nat]
  <2>1. CASE ran' = ran
    BY <2>1 DEF TypeOK
  <2>2. CASE \E i : ran' = [ran EXCEPT ![p][i] = @ + 1]
    BY <2>2, RanTyped
  <2> QED BY <1>4, <2>1, <2>2
<1>6. sAction' \in {None, "handoff"}
  BY DEF Dispatch, Command, Repeat, Refuse, Execute, TypeOK
<1>7. TypeOK'
  <2>1. \A q \in Ports : task'[q].bursts <= use.bursts
    BY <1>2, TaskFields DEF TaskMoves
  <2> QED BY <1>1, <1>2, <1>3, <1>5, <1>6, <2>1 DEF TaskMoves, TypeOK, Body, Kept
<1> QED BY <1>1, <1>2, <1>3, <1>4, <1>7 DEF RunMoves

\* One burst of an answer is out, or is given up.
SentMoves(p) == TaskMoves(p, "write", task[p].chunk, task[p].work, task[p].bursts - 1)

\* A burst sent is one burst fewer to send.
LEMMA SentTyped ==
  ASSUME TypeOK, NEW p \in Ports, task[p].bursts > 0, Sent(p)
  PROVE  SentMoves(p)
<1>1. task \in [Ports -> Task] /\ "write" \in Places /\ task[p].bursts - 1 \in Nat
  BY TaskFields DEF TypeOK, Places
<1> QED BY <1>1 DEF Sent, SentMoves, TaskMoves, Task

\* The transmitter and the flush of a connection: the task keeps what it took.
SendMoves(p) ==
  /\ Kept /\ UNCHANGED <<asm, sProtoMutex, sAction, ran>>
  /\ \/ task' = task
     \/ /\ task[p].at \in {"write", "start", "wait"}
        /\ \E at \in {"write", "start", "wait"}, n \in Nat :
             /\ TaskMoves(p, at, task[p].chunk, task[p].work, n) /\ n <= task[p].bursts
             /\ at # "write" => n > 0 /\ p = "rs485"

\* The transmitter keeps the types.
LEMMA WireTyped ==
  ASSUME TypeOK, SendTask, Rs485Send \/ TxCplt
  PROVE  TypeOK' /\ SendMoves("rs485") /\ sock' = sock
<1>1. uart \in Uart /\ "rs485" \in Ports /\ task["rs485"].bursts \in Nat
      /\ task["rs485"].bursts - 1 <= task["rs485"].bursts
  BY Constants, TaskFields DEF TypeOK
<1>2. Kept /\ UNCHANGED <<asm, sProtoMutex, sAction, ran, sock>>
  BY DEF Rs485Send, AssertDe, TransmitIt, Transmitted, TxCplt, SendKeeps, TaskKeeps, Kept
<1>3. uart' \in Uart
  <2>1. CASE AssertDe
    BY <1>1, <2>1 DEF AssertDe, Uart
  <2>2. CASE TransmitIt
    BY <1>1, <2>2 DEF TransmitIt, Uart
  <2>3. CASE Transmitted
    BY <1>1, <2>3 DEF Transmitted, Uart
  <2>4. CASE TxCplt
    BY <1>1, <2>4 DEF TxCplt, Uart
  <2> QED BY <2>1, <2>2, <2>3, <2>4 DEF Rs485Send
<1>4. overlapped' \in BOOLEAN
  BY DEF Rs485Send, AssertDe, TransmitIt, Transmitted, TxCplt, TypeOK
<1>5. CASE task' = task
  BY <1>2, <1>3, <1>4, <1>5 DEF SendMoves, TypeOK, Kept, Body
<1>6. CASE /\ task["rs485"].at \in {"write", "start"} /\ task["rs485"].bursts > 0
           /\ Goes("rs485", "start") \/ Goes("rs485", "wait")
  <2>1. PICK at \in {"start", "wait"} : Goes("rs485", at)
    BY <1>6
  <2>2. at \in Places
    BY DEF Places
  <2>3. TaskMoves("rs485", at, task["rs485"].chunk, task["rs485"].work, task["rs485"].bursts)
    BY <1>1, <2>1, <2>2, TaskGoes
  <2>4. SendMoves("rs485")
    BY <1>1, <1>2, <1>6, <2>3 DEF SendMoves
  <2>5. task' \in [Ports -> Task] /\ \A q \in Ports : task'[q].bursts = task[q].bursts
    BY <2>3 DEF TaskMoves
  <2> QED BY <1>2, <1>3, <1>4, <2>4, <2>5 DEF TypeOK, Kept, Body
<1>7. CASE task["rs485"].at \in {"start", "wait"} /\ task["rs485"].bursts > 0 /\ Sent("rs485")
  <2>1. SentMoves("rs485") /\ task["rs485"].bursts - 1 \in Nat
    BY <1>1, <1>7, SentTyped
  <2>2. SendMoves("rs485")
    BY <1>1, <1>2, <1>7, <2>1 DEF SendMoves, SentMoves
  <2>3. task' \in [Ports -> Task] /\ \A q \in Ports : task'[q].bursts <= task[q].bursts
    BY <1>1, <2>1, TaskFields DEF TaskMoves, SentMoves
  <2>4. \A q \in Ports : task'[q].bursts <= use.bursts
    <3> SUFFICES ASSUME NEW q \in Ports PROVE task'[q].bursts <= use.bursts
      OBVIOUS
    <3>1. task'[q].bursts \in Nat
      BY <2>3 DEF Task
    <3> QED BY <2>3, <3>1, TaskFields, BoundsTyped
  <2> QED BY <1>2, <1>3, <1>4, <2>2, <2>3, <2>4 DEF TypeOK, Kept, Body
<1> QED BY <1>1, <1>5, <1>6, <1>7
     DEF Rs485Send, AssertDe, TransmitIt, Transmitted, TxCplt, SendKeeps, SendTask

\* The flush of a connection keeps the types.
LEMMA FlushTyped ==
  ASSUME TypeOK, tcpFlush
  PROVE  /\ TypeOK' /\ SendMoves("tcp") /\ UNCHANGED <<uart, overlapped>>
         /\ sock' \in {sock, [sock EXCEPT !.sending = TRUE], [NoSocket EXCEPT !.open = TRUE]}
<1>1. "tcp" \in Ports /\ sock \in Socket /\ task["tcp"].bursts \in Nat
  BY Constants, TaskFields DEF TypeOK
<1>2. FlushKeeps
      /\ sock' \in {sock, [sock EXCEPT !.sending = TRUE], [NoSocket EXCEPT !.open = TRUE]}
  BY DEF tcpFlush, Send, Drop, Deadline
<1>3. Kept /\ UNCHANGED <<uart, asm, sProtoMutex, sAction, ran, overlapped>>
  BY <1>2 DEF FlushKeeps, TaskKeeps, Kept
<1>4. SentMoves("tcp") /\ task["tcp"].bursts - 1 \in Nat /\ task["tcp"].at = "write"
  BY <1>1, <1>2, SentTyped DEF FlushKeeps
<1>5. SendMoves("tcp")
  BY <1>1, <1>3, <1>4 DEF SendMoves, SentMoves
<1>6. sock' \in Socket
  <2>1. [sock EXCEPT !.sending = TRUE] \in Socket
    BY <1>1 DEF Socket
  <2> QED BY <1>1, <1>2, <2>1, NoSocketTyped
<1>7. task' \in [Ports -> Task] /\ \A q \in Ports : task'[q].bursts <= use.bursts
  <2>1. task' \in [Ports -> Task] /\ task'["tcp"].bursts = task["tcp"].bursts - 1
        /\ \A q \in Ports \ {"tcp"} : task'[q] = task[q]
    BY <1>4 DEF SentMoves, TaskMoves
  <2>2. task["tcp"].bursts - 1 <= use.bursts
    BY <1>1, TaskFields, BoundsTyped
  <2> QED BY <2>1, <2>2, TaskFields
<1> QED BY <1>2, <1>3, <1>5, <1>6, <1>7 DEF TypeOK, Kept, Body

\* NetTask keeps the types.
LEMMA NetTyped ==
  ASSUME TypeOK, NetTask
  PROVE  TypeOK'
<1>1. uart \in Uart /\ net \in Printer
  BY DEF TypeOK
<1>2. uart' \in Uart
  BY <1>1 DEF NetTask, Report, PrintStarts, PrintEnds, Uart
<1>3. net' \in Printer
  <2>1. CASE Report
    BY <1>1, <2>1 DEF Report, Printer
  <2>2. CASE PrintStarts
    BY <1>1, <2>2 DEF PrintStarts, Printer
  <2>3. CASE PrintEnds
    <3> DEFINE up == ~net.down
    <3>1. up \in {TRUE, FALSE}
      BY Zenon
    <3>2. net' = [at |-> "idle", leased |-> up, down |-> FALSE]
      BY <2>3 DEF PrintEnds
    <3> HIDE DEF up
    <3> QED BY <3>1, <3>2 DEF Printer
  <2> QED BY <2>1, <2>2, <2>3 DEF NetTask
<1>4. BoundsKept
  <2>1. CASE Report
    <3>1. use.prints - 1 \in Nat /\ use' = [use EXCEPT !.prints = use.prints - 1]
      BY <2>1, BoundsTyped DEF Report
    <3> QED BY <3>1, BoundsCounted
  <2>2. CASE PrintStarts \/ PrintEnds
    BY <2>2 DEF PrintStarts, PrintEnds, BoundsKept, TypeOK
  <2> QED BY <2>1, <2>2 DEF NetTask
<1>5. overlapped' \in BOOLEAN
  BY DEF NetTask, Report, PrintStarts, PrintEnds, TypeOK
<1> QED BY <1>2, <1>3, <1>4, <1>5
     DEF NetTask, Report, PrintStarts, PrintEnds, NetKeeps, TypeOK, BoundsKept, Body

\* The types hold at start.
LEMMA InitTyped == Init => TypeOK
<1> SUFFICES ASSUME Init PROVE TypeOK
  OBVIOUS
<1>1. use \in Bounds /\ use.bursts \in Nat /\ \A p \in Ports : use.lines[p] \in Nat
  BY UseAssumption DEF Init, Bounds
<1>2. peer \in [Ports -> Sender] /\ \A p \in Ports : peer[p].sent <= use.lines[p]
  BY <1>1 DEF Init, Sender
<1>3. rx \in Receiver
  BY Constants, Bytes DEF Init, Receiver
<1>4. uart \in Uart /\ net \in Printer /\ sock \in Socket
  BY NoSocketTyped DEF Init, Uart, Printer
<1>5. asm \in [Ports -> Assembly]
      /\ \A p \in Ports : Len(asm[p].sLine) <= LineMax /\ Len(asm[p].last) <= 1
  BY Bytes, Constants DEF Init, Assembly
<1>6. task \in [Ports -> Task] /\ \A p \in Ports : task[p].bursts <= use.bursts
  BY <1>1, Bytes, Constants DEF Init, Polling, Task, Places
<1>7. DOMAIN ran = Ports /\ \A p \in Ports : ran[p] \in [Body(p) -> Nat]
  BY DEF Init
<1> QED BY <1>1, <1>2, <1>3, <1>4, <1>5, <1>6, <1>7 DEF Init, TypeOK

(***************************************************************************)
(* The half-duplex line.                                                   *)
(***************************************************************************)
\* What a step may do without touching the line: the tasks go from places where they do not send
\* to places where they do not.
OffLine ==
  /\ UNCHANGED <<uart, overlapped>> /\ (net'.at # "idle" => net.at # "idle")
  /\ (net.at # "idle" => net'.at # "idle")
  /\ \A p \in Ports : \/ task'[p] = task[p]
                      \/ task[p].at \notin {"start", "wait"} /\ task'[p].at \notin {"start", "wait"}

\* What does not touch the line keeps its discipline.
LEMMA OffLineHeld ==
  ASSUME LineInv, OffLine
  PROVE  LineInv'
<1>1. "rs485" \in Ports
  BY Constants
<1>2. SendTask'
  <2> SUFFICES ASSUME NEW p \in Ports, task'[p].at \in {"start", "wait"}
               PROVE  p = "rs485" /\ task'[p].bursts > 0
    BY DEF SendTask
  <2>1. task'[p] = task[p]
    BY DEF OffLine
  <2> QED BY <2>1 DEF LineInv, SendTask
<1>3. \/ task'["rs485"].at = task["rs485"].at
      \/ /\ task["rs485"].at # "start" /\ task["rs485"].at # "wait"
         /\ task'["rs485"].at # "start" /\ task'["rs485"].at # "wait"
  BY <1>1 DEF OffLine
<1> QED BY <1>2, <1>3 DEF LineInv, LineDiscipline, OffLine

\* The places a task goes from and to when it does not send.
LEMMA AwayFromLine ==
  ASSUME TypeOK,
         \/ Hear \/ TalkOver \/ LineError \/ Connect \/ Receive \/ Fin \/ Broken \/ Ack
         \/ Drain \/ Copy \/ CloseUnleased \/ Listen \/ Recv \/ CloseWait \/ Closed
         \/ \E p \in Ports : ProtocolProcessLine(p)
  PROVE  OffLine
<1>1. task \in [Ports -> Task] /\ "tcp" \in Ports /\ "rs485" \in Ports
  BY Constants DEF TypeOK
<1>2. CASE Hear \/ TalkOver \/ LineError \/ Connect \/ Receive \/ Fin \/ Broken \/ Ack
  BY <1>2 DEF Hear, TalkOver, LineError, Connect, Receive, Fin, Broken, Ack, PeerKeeps, OffLine
<1>3. CASE Drain \/ Copy
  <2>1. /\ task["rs485"].at \notin {"start", "wait"} /\ task'["rs485"].at \notin {"start", "wait"}
        /\ \A q \in Ports \ {"rs485"} : task'[q] = task[q]
    BY <1>1, <1>3 DEF Drain, Copy, Task
  <2> QED BY <1>3, <2>1 DEF Drain, Copy, OffLine
<1>4. CASE CloseUnleased \/ Listen \/ Recv \/ CloseWait \/ Closed
  <2>1. UNCHANGED <<uart, overlapped, net>> /\ task["tcp"].at \notin {"start", "wait"}
    BY <1>4 DEF CloseUnleased, Listen, Recv, CloseWait, Closed, Pass
  <2>2. CASE task' = task
    BY <2>1, <2>2 DEF OffLine
  <2>3. CASE Recv
    <3>1. /\ task'["tcp"].at \notin {"start", "wait"}
          /\ \A q \in Ports \ {"tcp"} : task'[q] = task[q]
      BY <1>1, <2>3 DEF Recv, Task
    <3> QED BY <2>1, <3>1 DEF OffLine
  <2> QED BY <1>4, <2>2, <2>3 DEF CloseUnleased, Listen, CloseWait, Closed
<1>5. CASE \E p \in Ports : ProtocolProcessLine(p)
  <2>1. PICK p \in Ports : ProtocolProcessLine(p)
    BY <1>5
  <2>2. CASE FeedByte(p)
    BY <2>2, FeedTyped DEF FeedMoves, TaskMoves, Kept, OffLine
  <2>3. CASE Dispatch(p)
    BY <2>3, DispatchTyped DEF RunMoves, TaskMoves, Kept, OffLine
  <2>4. CASE ChunkDone(p) \/ Lock(p) \/ Finish(p) \/ Handoff(p)
    <3>1. task[p].at \notin {"start", "wait"}
      BY <2>4 DEF ChunkDone, Lock, Finish, Handoff
    <3> QED BY <2>4, <3>1, GoesTyped DEF TaskMoves, Kept, OffLine
  <2> QED BY <2>1, <2>2, <2>3, <2>4 DEF ProtocolProcessLine
<1> QED BY <1>2, <1>3, <1>4, <1>5

\* A task that sends keeps a burst to send for as long as it sends.
LEMMA SendTaskHeld ==
  ASSUME SendTask, NEW p \in Ports, SendMoves(p)
  PROVE  SendTask'
<1>1. CASE task' = task
  BY <1>1 DEF SendTask
<1>2. CASE \E at \in {"write", "start", "wait"}, n \in Nat :
             /\ TaskMoves(p, at, task[p].chunk, task[p].work, n) /\ n <= task[p].bursts
             /\ at # "write" => n > 0 /\ p = "rs485"
  BY <1>2 DEF SendTask, TaskMoves
<1> QED BY <1>1, <1>2 DEF SendMoves

\* Each step of a burst on the wire.
LEMMA WireHeld ==
  ASSUME TypeOK, LineInv, Rs485Send \/ TxCplt
  PROVE  LineInv'
<1>1. "rs485" \in Ports /\ task \in [Ports -> Task] /\ uart \in Uart /\ SendTask
      /\ overlapped \in BOOLEAN
  BY Constants DEF TypeOK, LineInv
<1>2. SendTask'
  BY <1>1, WireTyped, SendTaskHeld
<1>3. net' = net
  BY DEF Rs485Send, AssertDe, TransmitIt, Transmitted, TxCplt, SendKeeps, TaskKeeps
<1>4. CASE AssertDe
  <2>1. task["rs485"].at = "write" /\ task'["rs485"].at = "start" /\ uart'.de = TRUE
        /\ uart'.gState = uart.gState /\ uart'.sTxDone = uart.sTxDone
    BY <1>1, <1>4 DEF AssertDe, Goes, Task, Uart
  <2>2. net.at # "idle" => overlapped'
    BY <1>4 DEF AssertDe
  <2> QED BY <1>2, <1>3, <2>1, <2>2 DEF LineInv, LineDiscipline
<1>5. CASE TransmitIt
  <2>1. task["rs485"].at = "start" /\ overlapped' = overlapped
    BY <1>5 DEF TransmitIt
  <2>2. CASE uart.gState = "ready" /\ uart' = [uart EXCEPT !.gState = "it"] /\ Goes("rs485", "wait")
    <3>1. task'["rs485"].at = "wait" /\ uart'.gState = "it" /\ uart'.de = uart.de
          /\ uart'.sTxDone = uart.sTxDone /\ uart.sTxDone \in {0, 1}
      BY <1>1, <2>2 DEF Goes, Task, Uart
    <3> QED BY <1>2, <1>3, <2>1, <3>1 DEF LineInv, LineDiscipline
  <2>3. CASE uart.gState # "ready" /\ uart' = [uart EXCEPT !.de = FALSE] /\ Sent("rs485")
    <3>1. task'["rs485"].at = "write" /\ uart'.gState = uart.gState /\ uart'.de = FALSE
          /\ uart'.sTxDone = uart.sTxDone
      BY <1>1, <2>3 DEF Sent, Task, Uart
    <3> QED BY <1>2, <1>3, <2>1, <3>1 DEF LineInv, LineDiscipline
  <2> QED BY <1>5, <2>2, <2>3 DEF TransmitIt
<1>6. CASE Transmitted
  <2>1. task["rs485"].at = "wait" /\ overlapped' = overlapped /\ uart.sTxDone = 1
    BY <1>6 DEF Transmitted
  <2>2. task'["rs485"].at = "write" /\ uart'.gState = uart.gState /\ uart'.de = uart.de
        /\ uart'.sTxDone = 0
    BY <1>1, <1>6 DEF Transmitted, Sent, Task, Uart
  <2> QED BY <1>2, <1>3, <2>1, <2>2 DEF LineInv, LineDiscipline
<1>7. CASE TxCplt
  BY <1>2, <1>3, <1>7 DEF TxCplt, LineInv, LineDiscipline
<1> QED BY <1>4, <1>5, <1>6, <1>7 DEF Rs485Send

\* A print takes the line at any moment, and says so.
LEMMA NetHeld ==
  ASSUME TypeOK, LineInv, NetTask
  PROVE  LineInv'
<1>1. uart \in Uart /\ net \in Printer /\ task' = task
  BY DEF TypeOK, NetTask, Report, PrintStarts, PrintEnds, NetKeeps
<1>2. SendTask'
  BY <1>1 DEF LineInv, SendTask
<1>3. CASE Report
  <2>1. net'.at = "start" /\ uart'.gState = uart.gState /\ uart'.sTxDone = uart.sTxDone
        /\ overlapped' = TRUE
    BY <1>1, <1>3 DEF Report, Uart
  <2> QED BY <1>1, <1>2, <2>1 DEF LineInv, LineDiscipline
<1>4. CASE PrintStarts
  <2>1. net.at = "start" /\ net'.at # "idle" /\ uart'.sTxDone = uart.sTxDone
        /\ overlapped' = overlapped /\ uart'.de = uart.de
        /\ (uart'.gState = "it" => uart.gState = "it")
    BY <1>1, <1>4 DEF PrintStarts, Uart, Printer
  <2> QED BY <1>1, <1>2, <2>1 DEF LineInv, LineDiscipline
<1>5. CASE PrintEnds
  <2>1. net.at # "idle" /\ net'.at = "idle" /\ uart'.sTxDone = uart.sTxDone
        /\ overlapped' = overlapped /\ uart'.de = FALSE
        /\ (uart'.gState = "it" => uart.gState = "it")
    BY <1>1, <1>5 DEF PrintEnds, Uart, Printer
  <2> QED BY <1>1, <1>2, <2>1 DEF LineInv, LineDiscipline
<1> QED BY <1>3, <1>4, <1>5 DEF NetTask

\* Every step keeps the types and the discipline of the line.
LEMMA LineKept ==
  ASSUME TypeOK, LineInv, Next
  PROVE  TypeOK' /\ LineInv'
<1>1. CASE Rs485Send \/ TxCplt
  BY <1>1, WireTyped, WireHeld DEF LineInv
<1>2. CASE NetTask
  BY <1>2, NetTyped, NetHeld
<1>3. CASE tcpFlush
  <2>1. TypeOK' /\ SendMoves("tcp") /\ UNCHANGED <<uart, overlapped>> /\ net' = net
    BY <1>3, FlushTyped DEF SendMoves, Kept
  <2>2. SendTask' /\ "tcp" \in Ports /\ "rs485" \in Ports
    BY <2>1, SendTaskHeld, Constants DEF LineInv
  <2>3. task'["rs485"] = task["rs485"]
    BY <2>1, <2>2 DEF SendMoves, TaskMoves
  <2> QED BY <2>1, <2>2, <2>3 DEF LineInv, LineDiscipline
<1>4. CASE Hear \/ TalkOver \/ LineError
  BY <1>4, HearTyped, AwayFromLine, OffLineHeld
<1>5. CASE Connect \/ Receive \/ Fin \/ Broken \/ Ack
  BY <1>5, PeerTyped, AwayFromLine, OffLineHeld
<1>6. CASE Drain \/ Copy
  BY <1>6, CopyTyped, AwayFromLine, OffLineHeld
<1>7. CASE CloseUnleased \/ Listen \/ Recv \/ CloseWait \/ Closed
  BY <1>7, PassTyped, AwayFromLine, OffLineHeld
<1>8. CASE \E p \in Ports : ProtocolProcessLine(p)
  <2>1. OffLine
    BY <1>8, AwayFromLine
  <2>2. TypeOK'
    BY <1>8, FeedTyped, DispatchTyped, GoesTyped DEF ProtocolProcessLine
  <2> QED BY <2>1, <2>2, OffLineHeld
<1> QED BY <1>1, <1>2, <1>3, <1>4, <1>5, <1>6, <1>7, <1>8, Constants
     DEF Next, protocolTask, netCliTask

(***************************************************************************)
(* Sequences.                                                              *)
(***************************************************************************)
\* The elements of a sequence are in its set.
LEMMA Elements ==
  ASSUME NEW S, NEW s \in Seq(S)
  PROVE  \A k \in DOMAIN s : s[k] \in S
OBVIOUS

\* Two sequences that agree everywhere are one.
LEMMA SameSeq ==
  ASSUME NEW S, NEW s \in Seq(S), NEW t \in Seq(S), Len(s) = Len(t),
         \A k \in 1..Len(s) : s[k] = t[k]
  PROVE  s = t
OBVIOUS

(***************************************************************************)
(* The bytes of a port and what has run: lemmas about sequences of bytes.  *)
(***************************************************************************)
\* Bytes that do not come any more hold up nothing.
LEMMA OncePrefix ==
  ASSUME NEW x \in Seq(Char), NEW y \in Seq(Char), NEW line, NEW pend, NEW job, NEW sent, NEW r,
         Once(x \o y, line, pend, job, sent, r)
  PROVE  Once(x, line, pend, job, sent, r)
<1> DEFINE z == x \o y
<1>1. /\ \A k \in DOMAIN x : k \in DOMAIN z /\ z[k] = x[k]
      /\ \A k \in DOMAIN x : k # 1 => k - 1 \in DOMAIN x
  OBVIOUS
<1> HIDE DEF z
<1>2. Once(z, line, pend, job, sent, r)
  BY DEF z
<1>3. Paired(x, line, pend)
  BY <1>1, <1>2 DEF Once, Paired
<1>4. Ascending(x, sent, r)
  BY <1>1, <1>2 DEF Once, Ascending
<1> QED BY <1>1, <1>2, <1>3, <1>4 DEF Once, Unrun

\* Nothing comes and no line is under way.
LEMMA OnceEmpty ==
  ASSUME NEW pend, NEW sent, NEW r, Counted(sent, r)
  PROVE  Once(<<>>, <<>>, pend, <<>>, sent, r)
BY DEF Once, Paired, Ascending

\* Less is in hand, or no line is under way and nothing comes.
LEMMA OnceDropped ==
  ASSUME NEW x, NEW line, NEW pend, NEW job, NEW sent, NEW r, Once(x, line, pend, job, sent, r)
  PROVE  Once(x, line, pend, <<>>, sent, r) /\ Counted(sent, r)
BY DEF Once

\* A place within two or three of the end.
LEMMA Beyond ==
  ASSUME NEW l \in Nat, NEW d, d = 2 \/ d = 3, NEW k \in Nat, k >= 1, k <= l + d
  PROVE  k \in 1..l \/ k = l + 1 \/ k = l + 2 \/ (k = l + 3 /\ d = 3)
OBVIOUS

\* A new command is sent.
LEMMA OnceSaid ==
  ASSUME NEW n \in Nat, NEW sent \in Nat, sent < n, NEW r \in [1..n -> Nat],
         NEW x \in Seq(Char), NEW line \in Seq(Bodies), NEW pend, NEW job \in Seq(Bodies),
         NEW end \in {<<CR>>, <<CR, LF>>},
         Once(x, line, pend, job, sent, r)
  PROVE  Once(x \o (<<sent + 1>> \o end), line, pend, job, sent + 1, r)
<1> DEFINE b == sent + 1
           y == <<b>> \o end
           z == x \o y
<1>1. b \in Nat /\ b \notin Ends /\ CR \in Int /\ LF \in Int /\ b \in Char /\ b \in Bodies
  BY DEF Ends, CR, LF, Char, Bodies
<1>2. /\ y \in Seq(Char) /\ Len(y) \in Nat /\ Len(y) \in {2, 3} /\ y[1] = b /\ y[2] = CR
      /\ Len(y) = 3 => y[3] = LF
  <2> HIDE DEF b
  <2>1. CR \in Char /\ LF \in Char
    BY Bytes
  <2>2. CASE end = <<CR>>
    BY <1>1, <2>1, <2>2
  <2>3. CASE end = <<CR, LF>>
    BY <1>1, <2>1, <2>3
  <2> QED BY <2>2, <2>3
<1> HIDE DEF y, b
<1>3. /\ z \in Seq(Char) /\ DOMAIN z = 1..(Len(x) + Len(y))
      /\ Len(x) \in Nat /\ DOMAIN x = 1..Len(x)
      /\ \A k \in DOMAIN x : k \in DOMAIN z /\ z[k] = x[k]
      /\ z[Len(x) + 1] = b /\ z[Len(x) + 2] = CR
      /\ Len(y) = 3 => z[Len(x) + 3] = LF
  BY <1>2
<1> HIDE DEF z
<1>4. \A k \in DOMAIN z : k \in DOMAIN x \/ k = Len(x) + 1 \/ k = Len(x) + 2
                          \/ (k = Len(x) + 3 /\ Len(y) = 3)
  <2> SUFFICES ASSUME NEW k \in DOMAIN z
               PROVE  k \in DOMAIN x \/ k = Len(x) + 1 \/ k = Len(x) + 2
                      \/ (k = Len(x) + 3 /\ Len(y) = 3)
    OBVIOUS
  <2> DEFINE lx == Len(x)
             ly == Len(y)
  <2>1. k \in 1..(lx + ly) /\ lx \in Nat /\ (ly = 2 \/ ly = 3) /\ DOMAIN x = 1..lx
    BY <1>2, <1>3
  <2> HIDE DEF lx, ly
  <2>2. k \in 1..lx \/ k = lx + 1 \/ k = lx + 2 \/ (k = lx + 3 /\ ly = 3)
    <3>1. lx \in Nat /\ ly \in Nat /\ k \in Nat /\ k >= 1 /\ k <= lx + ly
      BY <2>1
    <3> QED BY <2>1, <3>1, Beyond
  <2> QED BY <2>1, <2>2 DEF lx, ly
<1>5. \A k \in DOMAIN z : z[k] \notin Ends => k \in DOMAIN x \/ (k = Len(x) + 1 /\ z[k] = b)
  BY <1>3, <1>4, Bytes
<1>6. Counted(sent, r) /\ r[b] = 0 /\ b \in DOMAIN r /\ b > sent
  <2>1. b \in DOMAIN r /\ b > sent
    BY <1>1 DEF b
  <2> QED BY <2>1 DEF Once, Counted
<1>7. Paired(z, line, pend)
  <2> SUFFICES ASSUME NEW k \in DOMAIN z, z[k] \in Ends
               PROVE  IF k = 1 THEN line # <<>> \/ (z[1] = LF /\ pend = CR)
                      ELSE z[k - 1] \notin Ends \/ (z[k] = LF /\ z[k - 1] = CR)
    BY DEF Paired
  <2>1. CASE k \in DOMAIN x
    <3>1. /\ Paired(x, line, pend) /\ z[k] = x[k] /\ (k = 1 => z[1] = x[1])
          /\ k # 1 => k - 1 \in DOMAIN x /\ z[k - 1] = x[k - 1]
      <4>1. Paired(x, line, pend)
        BY DEF Once
      <4>2. z[k] = x[k] /\ (k = 1 => z[1] = x[1])
        BY <1>3, <2>1
      <4>3. k # 1 => k - 1 \in DOMAIN x
        BY <1>3, <2>1
      <4>4. k # 1 => z[k - 1] = x[k - 1]
        BY <1>3, <4>3, Zenon
      <4> QED BY <4>1, <4>2, <4>3, <4>4
    <3>2. x[k] \in Ends
      BY <3>1
    <3>3. IF k = 1 THEN line # <<>> \/ (x[1] = LF /\ pend = CR)
          ELSE x[k - 1] \notin Ends \/ (x[k] = LF /\ x[k - 1] = CR)
      BY <2>1, <3>1, <3>2 DEF Paired
    <3> QED BY <3>1, <3>3
  <2>2. CASE k = Len(x) + 1
    BY <1>1, <1>3, <2>2
  <2>3. CASE k = Len(x) + 2
    BY <1>1, <1>3, <2>3
  <2>4. CASE k = Len(x) + 3 /\ Len(y) = 3
    BY <1>1, <1>3, <2>4
  <2> QED BY <1>4, <2>1, <2>2, <2>3, <2>4
<1>8. \A k \in DOMAIN x : x[k] \notin Ends => x[k] \in Nat /\ x[k] <= sent
  <2>1. \A k \in DOMAIN x : x[k] \in Char
    OBVIOUS
  <2> QED BY <2>1, Bytes DEF Once, Ascending
<1>9. Ascending(z, b, r)
  <2> SUFFICES ASSUME NEW k \in DOMAIN z, z[k] \notin Ends
               PROVE  /\ z[k] <= b /\ r[z[k]] = 0
                      /\ \A j \in DOMAIN z : j < k /\ z[j] \notin Ends => z[j] < z[k]
    BY DEF Ascending
  <2>1. CASE k \in DOMAIN x
    <3>1. x[k] \notin Ends /\ z[k] = x[k] /\ Ascending(x, sent, r)
      BY <1>3, <2>1 DEF Once
    <3>2. r[x[k]] = 0 /\ x[k] <= b
      BY <1>6, <1>8, <2>1, <3>1, <1>1 DEF Ascending
    <3>3. \A j \in DOMAIN z : j < k => j \in DOMAIN x
      BY <1>3, <2>1
    <3> QED BY <1>3, <2>1, <3>1, <3>2, <3>3 DEF Ascending
  <2>2. CASE k = Len(x) + 1 /\ z[k] = b
    <3>1. \A j \in DOMAIN z : j < k => j \in DOMAIN x
      BY <1>3, <2>2
    <3>2. \A j \in DOMAIN x : z[j] = x[j] /\ (x[j] \notin Ends => x[j] < b)
      BY <1>1, <1>3, <1>6, <1>8
    <3>3. z[k] <= b /\ r[z[k]] = 0
      BY <1>1, <1>6, <2>2
    <3>4. \A j \in DOMAIN z : j < k /\ z[j] \notin Ends => z[j] < z[k]
      <4> SUFFICES ASSUME NEW j \in DOMAIN z, j < k, z[j] \notin Ends PROVE z[j] < z[k]
        OBVIOUS
      <4>1. j \in DOMAIN x
        BY <3>1
      <4> QED BY <2>2, <3>2, <4>1
    <3> QED BY <3>3, <3>4
  <2> QED BY <1>5, <2>1, <2>2
<1>10. \A c \in Nat : Unrun(c, x, sent, r) => Unrun(c, z, b, r)
  <2> SUFFICES ASSUME NEW c \in Nat, Unrun(c, x, sent, r) PROVE Unrun(c, z, b, r)
    OBVIOUS
  <2>1. c <= sent /\ r[c] = 0 /\ c < b
    BY <1>1, <1>6 DEF Unrun
  <2>2. \A k \in DOMAIN x : x[k] \notin Ends => c < x[k]
    BY DEF Unrun
  <2>3. \A k \in DOMAIN z : z[k] \notin Ends => c < z[k]
    <3> SUFFICES ASSUME NEW k \in DOMAIN z, z[k] \notin Ends PROVE c < z[k]
      OBVIOUS
    <3>1. CASE k \in DOMAIN x
      <4>1. z[k] = x[k]
        BY <1>3, <3>1
      <4> QED BY <2>2, <3>1, <4>1
    <3>2. CASE z[k] = b
      BY <2>1, <3>2
    <3> QED BY <1>5, <3>1, <3>2
  <2>4. c <= b
    BY <1>1, <2>1
  <2> QED BY <2>1, <2>3, <2>4 DEF Unrun
<1>11. Counted(b, r)
  BY <1>1, <1>6 DEF Counted
<1>12. /\ \A m \in DOMAIN line : line[m] \in Nat /\ Unrun(line[m], x, sent, r)
       /\ \A m \in DOMAIN job : job[m] \in Nat /\ Unrun(job[m], x, sent, r)
  <2>1. /\ \A m \in DOMAIN line : line[m] \in Bodies
        /\ \A m \in DOMAIN job : job[m] \in Bodies
    OBVIOUS
  <2> QED BY <2>1, Bytes DEF Once
<1>13. Once(z, line, pend, job, b, r)
  BY <1>7, <1>9, <1>10, <1>11, <1>12 DEF Once
<1> QED BY <1>13 DEF z, y, b

\* The assembly takes the next byte: what comes after it is one shorter.
LEMMA NextByte ==
  ASSUME NEW x \in Seq(Char), NEW b \in Char, NEW z, z = <<b>> \o x
  PROVE  /\ z \in Seq(Char) /\ 1 \in DOMAIN z /\ z[1] = b
         /\ \A k \in DOMAIN x : k \in Nat /\ k >= 1 /\ k + 1 \in DOMAIN z /\ z[k + 1] = x[k]
         /\ \A k \in DOMAIN x : k # 1 => k - 1 \in DOMAIN x
OBVIOUS

\* What comes after the next byte.
LEMMA OnceNext ==
  ASSUME NEW sent \in Nat, NEW r, NEW x \in Seq(Char), NEW b \in Char,
         NEW line \in Seq(Bodies), NEW pend, NEW job, Once(<<b>> \o x, line, pend, job, sent, r)
  PROVE  /\ Ascending(x, sent, r)
         /\ \A c \in Nat : Unrun(c, <<b>> \o x, sent, r) => Unrun(c, x, sent, r)
         /\ b \in Bodies => Unrun(b, x, sent, r)
         /\ b \in Ends => line # <<>> \/ (b = LF /\ pend = CR)
         /\ \A k \in DOMAIN x : x[k] \in Ends /\ k # 1 =>
              x[k - 1] \notin Ends \/ (x[k] = LF /\ x[k - 1] = CR)
         /\ 1 \in DOMAIN x /\ x[1] \in Ends => b \notin Ends \/ (x[1] = LF /\ b = CR)
<1> DEFINE z == <<b>> \o x
<1>1. /\ z \in Seq(Char) /\ 1 \in DOMAIN z /\ z[1] = b
      /\ \A k \in DOMAIN x : k \in Nat /\ k >= 1 /\ k + 1 \in DOMAIN z /\ z[k + 1] = x[k]
      /\ \A k \in DOMAIN x : k # 1 => k - 1 \in DOMAIN x
  BY NextByte
<1> HIDE DEF z
<1>2. Paired(z, line, pend) /\ Ascending(z, sent, r)
  BY DEF Once, z
<1>3. Ascending(x, sent, r)
  <2> SUFFICES ASSUME NEW k \in DOMAIN x, x[k] \notin Ends
               PROVE  /\ x[k] <= sent /\ r[x[k]] = 0
                      /\ \A j \in DOMAIN x : j < k /\ x[j] \notin Ends => x[j] < x[k]
    BY DEF Ascending
  <2>1. k + 1 \in DOMAIN z /\ z[k + 1] = x[k] /\ z[k + 1] \notin Ends
    BY <1>1
  <2>2. /\ z[k + 1] <= sent /\ r[z[k + 1]] = 0
        /\ \A j \in DOMAIN z : j < k + 1 /\ z[j] \notin Ends => z[j] < z[k + 1]
    BY <1>2, <2>1 DEF Ascending
  <2>3. \A j \in DOMAIN x : j < k => j + 1 \in DOMAIN z /\ j + 1 < k + 1 /\ z[j + 1] = x[j]
    BY <1>1
  <2> QED BY <2>1, <2>2, <2>3
<1>4. \A c \in Nat : Unrun(c, z, sent, r) => Unrun(c, x, sent, r)
  BY <1>1 DEF Unrun
<1>5. b \in Bodies => Unrun(b, x, sent, r)
  <2> SUFFICES ASSUME b \in Bodies PROVE Unrun(b, x, sent, r)
    OBVIOUS
  <2>1. b \notin Ends
    BY Bytes
  <2>2. b <= sent /\ r[b] = 0
    BY <1>1, <1>2, <2>1 DEF Ascending
  <2>3. \A k \in DOMAIN x : x[k] \notin Ends => b < x[k]
    <3> SUFFICES ASSUME NEW k \in DOMAIN x, x[k] \notin Ends PROVE b < x[k]
      OBVIOUS
    <3>1. k + 1 \in DOMAIN z /\ z[k + 1] = x[k] /\ 1 < k + 1
      BY <1>1
    <3> QED BY <1>1, <1>2, <2>1, <3>1 DEF Ascending
  <2> QED BY <2>2, <2>3 DEF Unrun
<1>6. b \in Ends => line # <<>> \/ (b = LF /\ pend = CR)
  BY <1>1, <1>2 DEF Paired
<1>7. \A k \in DOMAIN x : x[k] \in Ends =>
        z[k] \notin Ends \/ (x[k] = LF /\ z[k] = CR)
  <2> SUFFICES ASSUME NEW k \in DOMAIN x, x[k] \in Ends
               PROVE  z[k] \notin Ends \/ (x[k] = LF /\ z[k] = CR)
    OBVIOUS
  <2>1. k + 1 \in DOMAIN z /\ z[k + 1] = x[k] /\ k + 1 # 1 /\ (k + 1) - 1 = k
    BY <1>1
  <2> QED BY <1>2, <2>1 DEF Paired
<1>8. \A k \in DOMAIN x : k # 1 => z[k] = x[k - 1]
  <2> SUFFICES ASSUME NEW k \in DOMAIN x, k # 1 PROVE z[k] = x[k - 1]
    OBVIOUS
  <2>1. k - 1 \in DOMAIN x /\ (k - 1) + 1 = k
    BY <1>1
  <2> QED BY <1>1, <2>1
<1> QED BY <1>1, <1>3, <1>4, <1>5, <1>6, <1>7, <1>8 DEF z

\* A body joins the line, or finds it full.
LEMMA OnceBody ==
  ASSUME NEW sent \in Nat, NEW r, NEW x \in Seq(Char), NEW b \in Bodies,
         NEW line \in Seq(Bodies), NEW pend, NEW l2 \in Seq(Bodies), NEW job,
         l2 = Append(line, b) \/ (l2 = line /\ line # <<>>),
         Once(<<b>> \o x, line, pend, job, sent, r)
  PROVE  Once(x, l2, 0, <<>>, sent, r)
<1> DEFINE z == <<b>> \o x
<1>1. b \in Char /\ b \notin Ends
  BY Bytes
<1>2. /\ Ascending(x, sent, r) /\ Unrun(b, x, sent, r)
      /\ \A c \in Nat : Unrun(c, z, sent, r) => Unrun(c, x, sent, r)
      /\ \A k \in DOMAIN x : x[k] \in Ends /\ k # 1 =>
           x[k - 1] \notin Ends \/ (x[k] = LF /\ x[k - 1] = CR)
  BY <1>1, OnceNext
<1>3. Counted(sent, r) /\ \A m \in DOMAIN line : Unrun(line[m], z, sent, r)
  BY DEF Once
<1> HIDE DEF z
<1>4. \A m \in DOMAIN line : line[m] \in Nat
  <2>1. \A m \in DOMAIN line : line[m] \in Bodies
    OBVIOUS
  <2> QED BY <2>1, Bytes
<1>5. l2 # <<>> /\ \A m \in DOMAIN l2 : (m \in DOMAIN line /\ l2[m] = line[m]) \/ l2[m] = b
  <2>1. CASE l2 = Append(line, b)
    BY <2>1
  <2>2. CASE l2 = line /\ line # <<>>
    BY <2>2
  <2> QED BY <2>1, <2>2
<1>6. \A m \in DOMAIN l2 : Unrun(l2[m], x, sent, r)
  BY <1>2, <1>3, <1>4, <1>5
<1>7. Paired(x, l2, 0)
  BY <1>2, <1>5 DEF Paired
<1> QED BY <1>2, <1>3, <1>6, <1>7 DEF Once

\* A terminator completes the line under way, or is the LF of the CR that did.
LEMMA OnceEnd ==
  ASSUME NEW sent \in Nat, NEW r, NEW x \in Seq(Char), NEW b \in Ends,
         NEW line \in Seq(Bodies), NEW pend, NEW job,
         Once(<<b>> \o x, line, pend, job, sent, r)
  PROVE  /\ line # <<>> => Once(x, <<>>, b, line, sent, r)
         /\ line = <<>> => b = LF /\ pend = CR /\ Once(x, <<>>, 0, <<>>, sent, r)
<1> DEFINE z == <<b>> \o x
<1>1. b \in Char /\ CR # LF
  BY Bytes
<1>2. /\ Ascending(x, sent, r) /\ (line # <<>> \/ (b = LF /\ pend = CR))
      /\ \A c \in Nat : Unrun(c, z, sent, r) => Unrun(c, x, sent, r)
      /\ \A k \in DOMAIN x : x[k] \in Ends /\ k # 1 =>
           x[k - 1] \notin Ends \/ (x[k] = LF /\ x[k - 1] = CR)
      /\ 1 \in DOMAIN x /\ x[1] \in Ends => x[1] = LF /\ b = CR
  BY <1>1, OnceNext
<1>3. Counted(sent, r) /\ \A m \in DOMAIN line : Unrun(line[m], z, sent, r)
  BY DEF Once
<1> HIDE DEF z
<1>4. \A m \in DOMAIN line : line[m] \in Nat
  <2>1. \A m \in DOMAIN line : line[m] \in Bodies
    OBVIOUS
  <2> QED BY <2>1, Bytes
<1>5. \A m \in DOMAIN line : Unrun(line[m], x, sent, r)
  BY <1>2, <1>3, <1>4
<1>6. Paired(x, <<>>, b)
  BY <1>2 DEF Paired
<1>7. b = LF => Paired(x, <<>>, 0)
  BY <1>1, <1>2 DEF Paired
<1> QED BY <1>2, <1>3, <1>5, <1>6, <1>7 DEF Once

\* The command in hand runs: no other copy of it is on its way.
LEMMA OnceRuns ==
  ASSUME NEW n \in Nat, NEW sent \in Nat, sent <= n, NEW r \in [1..n -> Nat],
         NEW x \in Seq(Char), NEW pend, NEW job \in Seq(Bodies), Len(job) = 1,
         Once(x, <<>>, pend, job, sent, r)
  PROVE  /\ job[1] \in 1..n
         /\ Once(x, <<>>, pend, <<>>, sent, [r EXCEPT ![job[1]] = @ + 1])
<1> DEFINE c == job[1]
           s == [r EXCEPT ![c] = @ + 1]
<1>1. c \in Bodies /\ 1 \in DOMAIN job
  <2>1. DOMAIN job = 1..1
    OBVIOUS
  <2>2. 1 \in DOMAIN job
    BY <2>1
  <2>3. \A m \in DOMAIN job : job[m] \in Bodies
    BY Elements
  <2> QED BY <2>2, <2>3
<1>2. c \in Nat /\ c # 0 /\ Unrun(c, x, sent, r)
  BY <1>1, Bytes DEF Once
<1> HIDE DEF c
<1>3. c \in 1..n /\ r[c] = 0 /\ c <= sent
  BY <1>2 DEF Unrun
<1>4. s \in [1..n -> Nat] /\ s[c] = 1 /\ \A i \in 1..n : i # c => s[i] = r[i]
  BY <1>3
<1>5. \A k \in DOMAIN x : x[k] \notin Ends => x[k] \in 1..n /\ x[k] # c /\ r[x[k]] = 0
  <2> SUFFICES ASSUME NEW k \in DOMAIN x, x[k] \notin Ends
               PROVE  x[k] \in 1..n /\ x[k] # c /\ r[x[k]] = 0
    OBVIOUS
  <2>1. x[k] \in Char
    OBVIOUS
  <2>2. x[k] \in Bodies /\ x[k] \in Nat /\ x[k] # 0
    BY <2>1, Bytes
  <2>3. c < x[k] /\ x[k] <= sent /\ r[x[k]] = 0
    BY <1>2 DEF Unrun, Once, Ascending
  <2> QED BY <1>2, <2>2, <2>3
<1> HIDE DEF s
<1>6. Ascending(x, sent, s)
  BY <1>4, <1>5 DEF Once, Ascending
<1>7. Counted(sent, s)
  <2> SUFFICES ASSUME NEW i \in DOMAIN s PROVE s[i] <= 1 /\ (i > sent => s[i] = 0)
    BY DEF Counted
  <2>1. i \in 1..n /\ i \in DOMAIN r
    BY <1>4
  <2>2. CASE i = c
    BY <1>2, <1>3, <1>4, <2>2
  <2>3. CASE i # c
    BY <1>4, <2>1, <2>3 DEF Once, Counted
  <2> QED BY <2>2, <2>3
<1> QED BY <1>3, <1>6, <1>7 DEF Once, s, c

(***************************************************************************)
(* The ring.                                                               *)
(***************************************************************************)
\* A remainder within one lap of the ring.
LEMMA Lap ==
  ASSUME NEW x \in Int, x >= 0 - Ring, x < 2 * Ring
  PROVE  x % Ring = IF x < 0 THEN x + Ring ELSE IF x < Ring THEN x ELSE x - Ring
<1>1. Ring \in Nat /\ Ring > 0
  BY Constants
<1>2. PICK q \in Int : x = Ring * q + (x % Ring) /\ x % Ring \in Nat /\ x % Ring < Ring
  BY <1>1
<1> DEFINE m == x % Ring
<1>3. m \in Nat /\ m < Ring /\ x = Ring * q + m
  BY <1>2
<1> HIDE DEF m
<1>4. q = 0 \/ q = 1 \/ q = -1
  <2>1. q >= 2 => Ring * q >= 2 * Ring
    BY <1>1
  <2>2. q <= -2 => Ring * q <= 0 - 2 * Ring
    BY <1>1
  <2> QED BY <1>1, <1>3, <2>1, <2>2
<1>5. Ring * q = (IF q = 0 THEN 0 ELSE IF q = 1 THEN Ring ELSE 0 - Ring)
  BY <1>1, <1>4
<1>6. m = IF x < 0 THEN x + Ring ELSE IF x < Ring THEN x ELSE x - Ring
  BY <1>1, <1>3, <1>4, <1>5
<1> QED BY <1>6 DEF m

\* How much the ring holds from one place to another.
LEMMA SizeIs ==
  ASSUME NEW i \in 0..(Ring - 1), NEW j \in 0..(Ring - 1)
  PROVE  /\ Size(i, j) = IF i <= j THEN j - i ELSE j - i + Ring
         /\ Size(i, j) \in Nat /\ Size(i, j) < Ring
<1>1. Ring \in Nat /\ Ring > 0
  BY Constants
<1>2. j - i \in Int /\ j - i >= 0 - Ring /\ j - i < 2 * Ring
  BY <1>1
<1>3. (j - i) % Ring = IF j - i < 0 THEN j - i + Ring
                       ELSE IF j - i < Ring THEN j - i ELSE j - i - Ring
  BY <1>2, Lap
<1> QED BY <1>1, <1>3 DEF Size

\* The place of a byte the ring holds.
LEMMA PlaceIs ==
  ASSUME NEW i \in 0..(Ring - 1), NEW k \in 1..Ring
  PROVE  /\ Place(i, k) = IF i + k - 1 < Ring THEN i + k - 1 ELSE i + k - 1 - Ring
         /\ Place(i, k) \in 0..(Ring - 1)
<1>1. Ring \in Nat /\ Ring > 0
  BY Constants
<1>2. i + k - 1 \in Int /\ i + k - 1 >= 0 /\ i + k - 1 < 2 * Ring
  BY <1>1
<1>3. (i + k - 1) % Ring = IF i + k - 1 < 0 THEN i + k - 1 + Ring
                           ELSE IF i + k - 1 < Ring THEN i + k - 1 ELSE i + k - 1 - Ring
  BY <1>1, <1>2, Lap
<1> QED BY <1>1, <1>2, <1>3 DEF Place

\* What the ring holds, from one place to another.
LEMMA HeldTyped ==
  ASSUME NEW ring \in [0..(Ring - 1) -> Char], NEW i \in 0..(Ring - 1), NEW j \in 0..(Ring - 1)
  PROVE  /\ Held(ring, i, j) \in Seq(Char) /\ Len(Held(ring, i, j)) = Size(i, j)
         /\ \A k \in 1..Size(i, j) : Held(ring, i, j)[k] = ring[Place(i, k)]
<1> DEFINE n == Size(i, j)
<1>1. n \in Nat /\ n < Ring /\ Ring \in Nat
  BY SizeIs, Constants
<1>2. \A k \in 1..n : ring[Place(i, k)] \in Char
  <2> SUFFICES ASSUME NEW k \in 1..n PROVE ring[Place(i, k)] \in Char
    OBVIOUS
  <2>1. k \in 1..Ring
    BY <1>1
  <2> QED BY <2>1, PlaceIs
<1> HIDE DEF n
<1>3. [k \in 1..n |-> ring[Place(i, k)]] \in Seq(Char)
      /\ Len([k \in 1..n |-> ring[Place(i, k)]]) = n
  BY <1>1, <1>2
<1> QED BY <1>3 DEF Held, n

\* A byte written at the head is the last the ring holds, unless the head laps the tail.
LEMMA HeldMore ==
  ASSUME NEW ring \in [0..(Ring - 1) -> Char], NEW i \in 0..(Ring - 1), NEW j \in 0..(Ring - 1),
         NEW b \in Char, Next1(j) # i
  PROVE  /\ Size(i, Next1(j)) = Size(i, j) + 1
         /\ Held([ring EXCEPT ![j] = b], i, Next1(j)) = Append(Held(ring, i, j), b)
<1>1. Ring \in Nat /\ Ring > 1
  BY Constants
<1>2. Next1(j) = (IF j + 1 < Ring THEN j + 1 ELSE 0) /\ Next1(j) \in 0..(Ring - 1)
  <2>1. j + 1 \in Int /\ j + 1 >= 0 - Ring /\ j + 1 < 2 * Ring
    BY <1>1
  <2> DEFINE x == j + 1
  <2>2. x \in Int /\ x >= 0 - Ring /\ x < 2 * Ring
    BY <2>1
  <2> HIDE DEF x
  <2>3. x % Ring = IF x < 0 THEN x + Ring ELSE IF x < Ring THEN x ELSE x - Ring
    BY <2>2, Lap
  <2>4. x = j + 1
    BY DEF x
  <2>5. Next1(j) = x % Ring
    BY <2>4 DEF Next1
  <2> QED BY <1>1, <2>3, <2>4, <2>5
<1> DEFINE h == Next1(j)
           r2 == [ring EXCEPT ![j] = b]
           s == Held(ring, i, j)
           t == Held(r2, i, h)
           n == Size(i, j)
<1>3. /\ n = (IF i <= j THEN j - i ELSE j - i + Ring) /\ n \in Nat /\ n < Ring
      /\ Size(i, h) = (IF i <= h THEN h - i ELSE h - i + Ring)
  BY <1>2, SizeIs
<1>4. Size(i, h) = n + 1 /\ n + 1 < Ring
  <2> HIDE DEF n
  <2> QED BY <1>1, <1>2, <1>3
<1>5. /\ r2 \in [0..(Ring - 1) -> Char] /\ r2[j] = b
      /\ \A k \in 0..(Ring - 1) : k # j => r2[k] = ring[k]
  OBVIOUS
<1>6. /\ s \in Seq(Char) /\ Len(s) = n /\ \A k \in 1..n : s[k] = ring[Place(i, k)]
      /\ t \in Seq(Char) /\ Len(t) = n + 1 /\ \A k \in 1..(n + 1) : t[k] = r2[Place(i, k)]
  <2>1. s \in Seq(Char) /\ Len(s) = n /\ \A k \in 1..n : s[k] = ring[Place(i, k)]
    BY HeldTyped
  <2>2. t \in Seq(Char) /\ Len(t) = Size(i, h) /\ \A k \in 1..Size(i, h) : t[k] = r2[Place(i, k)]
    <3> HIDE DEF r2, h
    <3> QED BY <1>2, <1>5, HeldTyped DEF h
  <2> QED BY <1>4, <2>1, <2>2
<1>7. Place(i, n + 1) = j
  <2>1. n + 1 \in 1..Ring
    BY <1>1, <1>3, <1>4
  <2>2. Place(i, n + 1) = IF i + (n + 1) - 1 < Ring THEN i + (n + 1) - 1 ELSE i + (n + 1) - 1 - Ring
    BY <2>1, PlaceIs
  <2> HIDE DEF n
  <2> QED BY <1>1, <1>3, <2>2
<1>8. \A k \in 1..n : Place(i, k) # j /\ Place(i, k) \in 0..(Ring - 1)
  <2> SUFFICES ASSUME NEW k \in 1..n PROVE Place(i, k) # j /\ Place(i, k) \in 0..(Ring - 1)
    OBVIOUS
  <2>1. k \in 1..Ring
    BY <1>1, <1>3
  <2>2. /\ Place(i, k) = IF i + k - 1 < Ring THEN i + k - 1 ELSE i + k - 1 - Ring
        /\ Place(i, k) \in 0..(Ring - 1)
    BY <2>1, PlaceIs
  <2> HIDE DEF n
  <2> QED BY <1>1, <1>3, <2>2
<1> HIDE DEF n, h, r2, s, t
<1>9. t = Append(s, b)
  <2>1. \A k \in 1..n : t[k] = s[k]
    <3> SUFFICES ASSUME NEW k \in 1..n PROVE t[k] = s[k]
      OBVIOUS
    <3>1. k \in 1..(n + 1)
      BY <1>3
    <3>2. t[k] = r2[Place(i, k)] /\ s[k] = ring[Place(i, k)]
      BY <1>6, <3>1
    <3>3. r2[Place(i, k)] = ring[Place(i, k)]
      BY <1>5, <1>8
    <3> QED BY <3>2, <3>3
  <2>2. t[n + 1] = b
    BY <1>3, <1>5, <1>6, <1>7
  <2>3. Len(Append(s, b)) = n + 1 /\ Append(s, b) \in Seq(Char)
        /\ \A k \in 1..n : Append(s, b)[k] = s[k]
        /\ Append(s, b)[n + 1] = b
    BY <1>3, <1>6
  <2>4. \A k \in 1..(n + 1) : t[k] = Append(s, b)[k]
    <3> SUFFICES ASSUME NEW k \in 1..(n + 1) PROVE t[k] = Append(s, b)[k]
      OBVIOUS
    <3>1. k \in 1..n \/ k = n + 1
      BY <1>3
    <3> QED BY <2>1, <2>2, <2>3, <3>1
  <2> QED BY <1>6, <2>3, <2>4, SameSeq
<1> QED BY <1>4, <1>9 DEF n, h, r2, s, t

\* What the task takes up to a place it read before is the first of what the ring holds.
LEMMA HeldSplit ==
  ASSUME NEW ring \in [0..(Ring - 1) -> Char], NEW i \in 0..(Ring - 1), NEW m \in 0..(Ring - 1),
         NEW j \in 0..(Ring - 1), Size(i, m) <= Size(i, j)
  PROVE  Held(ring, i, j) = Held(ring, i, m) \o Held(ring, m, j)
<1>1. Ring \in Nat /\ Ring > 1
  BY Constants
<1> DEFINE a == Size(i, m)
           b == Size(m, j)
           c == Size(i, j)
           x == Held(ring, i, m)
           y == Held(ring, m, j)
           z == Held(ring, i, j)
<1>2. /\ a = (IF i <= m THEN m - i ELSE m - i + Ring) /\ a \in Nat /\ a < Ring
      /\ b = (IF m <= j THEN j - m ELSE j - m + Ring) /\ b \in Nat /\ b < Ring
      /\ c = (IF i <= j THEN j - i ELSE j - i + Ring) /\ c \in Nat /\ c < Ring
      /\ a <= c
  BY SizeIs
<1>3. /\ x \in Seq(Char) /\ Len(x) = a /\ \A k \in 1..a : x[k] = ring[Place(i, k)]
      /\ y \in Seq(Char) /\ Len(y) = b /\ \A k \in 1..b : y[k] = ring[Place(m, k)]
      /\ z \in Seq(Char) /\ Len(z) = c /\ \A k \in 1..c : z[k] = ring[Place(i, k)]
  BY HeldTyped
<1> HIDE DEF a, b, c, x, y, z
<1>4. c = a + b
  BY <1>1, <1>2
<1>5. \A k \in 1..b : Place(i, a + k) = Place(m, k)
  <2> SUFFICES ASSUME NEW k \in 1..b PROVE Place(i, a + k) = Place(m, k)
    OBVIOUS
  <2>1. k \in 1..Ring /\ a + k \in 1..Ring
    BY <1>1, <1>2, <1>4
  <2>2. Place(m, k) = IF m + k - 1 < Ring THEN m + k - 1 ELSE m + k - 1 - Ring
    BY <2>1, PlaceIs
  <2>3. Place(i, a + k) = IF i + (a + k) - 1 < Ring THEN i + (a + k) - 1 ELSE i + (a + k) - 1 - Ring
    BY <2>1, PlaceIs
  <2> QED BY <1>1, <1>2, <2>1, <2>2, <2>3
<1>6. z = x \o y
  <2> DEFINE w == x \o y
  <2>1. /\ w \in Seq(Char) /\ Len(w) = a + b
        /\ \A k \in 1..a : w[k] = x[k]
        /\ \A k \in 1..b : w[a + k] = y[k]
    <3>1. x \in Seq(Char) /\ y \in Seq(Char) /\ Len(x) = a /\ Len(y) = b
      BY <1>3
    <3>2. x \o y \in Seq(Char) /\ Len(x \o y) = Len(x) + Len(y)
          /\ \A k \in 1..Len(x) : (x \o y)[k] = x[k]
      BY <3>1
    <3>3. \A k \in 1..Len(y) : (x \o y)[Len(x) + k] = y[k]
      BY <3>1
    <3> QED BY <3>1, <3>2, <3>3, Zenon
  <2> HIDE DEF w
  <2>2. \A k \in 1..c : z[k] = w[k]
    <3> SUFFICES ASSUME NEW k \in 1..c PROVE z[k] = w[k]
      OBVIOUS
    <3>1. CASE k \in 1..a
      BY <1>3, <2>1, <3>1
    <3>2. CASE k - a \in 1..b
      <4> DEFINE l == k - a
      <4>1. l \in 1..b /\ k = a + l
        BY <1>2, <3>2
      <4> HIDE DEF l
      <4>2. w[a + l] = y[l]
        BY <2>1, <4>1
      <4>3. y[l] = ring[Place(m, l)] /\ Place(i, a + l) = Place(m, l)
        BY <1>3, <1>5, <4>1
      <4>4. z[k] = ring[Place(i, k)]
        BY <1>3
      <4> QED BY <4>1, <4>2, <4>3, <4>4
    <3> QED BY <1>2, <1>4, <3>1, <3>2
  <2>3. z = w
    BY <1>3, <1>4, <2>1, <2>2, SameSeq
  <2> QED BY <2>3 DEF w
<1> QED BY <1>6 DEF x, y, z

(***************************************************************************)
(* Each step keeps, of the commands sent, those that have not run apart    *)
(* from those that have.                                                   *)
(***************************************************************************)
LEMMA ComingTyped ==
  ASSUME TypeOK, NEW p \in Ports
  PROVE  /\ task[p].chunk \in Seq(Char) /\ Arrived(p) \in Seq(Char) /\ Expected(p) \in Seq(Char)
         /\ Coming(p) \in Seq(Char) /\ sock.queue \in Seq(Char)
         /\ rx.ring \in [0..(Ring - 1) -> Char]
         /\ rx.head \in 0..(Ring - 1) /\ rx.sRxTail \in 0..(Ring - 1)
         /\ InHand(p) \in Seq(Bodies) /\ ran[p] \in [1..use.lines[p] -> Nat]
<1>1. task[p].chunk \in Seq(Char) /\ peer[p].rest \in Seq(Char) /\ task[p].work \in Seq(Bodies)
  BY TaskFields, PeerFields
<1>2. sock.queue \in Seq(Char) /\ ran[p] \in [1..use.lines[p] -> Nat]
  BY DEF TypeOK, Socket, Body
<1>3. /\ rx.ring \in [0..(Ring - 1) -> Char]
      /\ rx.head \in 0..(Ring - 1) /\ rx.sRxTail \in 0..(Ring - 1)
  BY DEF TypeOK, Receiver
<1>4. Ringed \in Seq(Char)
  BY <1>3, HeldTyped DEF Ringed
<1>5. Arrived(p) \in Seq(Char) /\ Expected(p) \in Seq(Char) /\ InHand(p) \in Seq(Bodies)
  BY <1>1, <1>2, <1>4, Bytes DEF Arrived, Expected, InHand
<1> QED BY <1>1, <1>2, <1>3, <1>5 DEF Coming

ComingSeqs == \A p \in Ports : Coming(p) \in Seq(Char)

\* What comes is a sequence of bytes.
LEMMA ComingNext == TypeOK => ComingSeqs
BY ComingTyped DEF ComingSeqs

\* A step that does not reach a port.
LEMMA Untouched ==
  ASSUME NEW p \in Ports, LinesOnce(p), task'[p] = task[p], asm'[p] = asm[p], peer'[p] = peer[p],
         ran'[p] = ran[p], p = "rs485" => rx' = rx,
         p = "tcp" => sock'.sr = sock.sr /\ sock'.queue = sock.queue
  PROVE  LinesOnce(p)'
<1>1. Arrived(p)' = Arrived(p) /\ Expected(p)' = Expected(p) /\ InHand(p)' = InHand(p)
  BY Constants DEF Arrived, Expected, Ringed, Connected, InHand
<1>2. Coming(p)' = Coming(p)
  BY <1>1 DEF Coming
<1> QED BY <1>1, <1>2 DEF LinesOnce

\* What the task holds moves along, and the rest of the port stays.
Stays(p) ==
  /\ peer'[p].sent = peer[p].sent /\ ran'[p] = ran[p]
  /\ asm'[p].sLine = asm[p].sLine /\ asm'[p].sPendEOL = asm[p].sPendEOL
  /\ \/ task'[p].at \notin {"lock", "run"}
     \/ task[p].at \in {"lock", "run"} /\ task'[p].work = task[p].work

\* What comes stays the same, wherever it is.
LEMMA ComesTheSame ==
  ASSUME NEW p \in Ports, LinesOnce(p), Stays(p), Coming(p)' = Coming(p)
  PROVE  LinesOnce(p)'
<1>1. CASE task'[p].at \notin {"lock", "run"}
  <2>1. InHand(p)' = <<>>
    BY <1>1 DEF InHand
  <2>2. Once(Coming(p), asm[p].sLine, asm[p].sPendEOL, <<>>, peer[p].sent, ran[p])
    BY OnceDropped DEF LinesOnce
  <2> QED BY <1>1, <2>1, <2>2 DEF LinesOnce, Stays
<1>2. CASE task'[p].at \in {"lock", "run"}
  <2>1. InHand(p)' = InHand(p) /\ task[p].at \in {"lock", "run"} /\ task'[p].work = task[p].work
    BY <1>2 DEF InHand, Stays
  <2> QED BY <2>1 DEF LinesOnce, Stays
<1> QED BY <1>1, <1>2

\* The last of what comes does not come.
LEMMA ComesLess ==
  ASSUME TypeOK, TypeOK', NEW p \in Ports, LinesOnce(p), Stays(p), NEW y \in Seq(Char),
         Coming(p) = Coming(p)' \o y
  PROVE  LinesOnce(p)'
<1> DEFINE x == Coming(p)'
<1>1. x \in Seq(Char) /\ Coming(p) = x \o y
  <2>1. TypeOK' => ComingSeqs'
    BY ComingNext, PTL
  <2> QED BY <2>1 DEF ComingSeqs
<1> HIDE DEF x
<1>2. \A job : Once(x \o y, asm[p].sLine, asm[p].sPendEOL, job, peer[p].sent, ran[p]) =>
               Once(x, asm[p].sLine, asm[p].sPendEOL, job, peer[p].sent, ran[p])
  BY <1>1, OncePrefix
<1>3. Once(x, asm[p].sLine, asm[p].sPendEOL, InHand(p), peer[p].sent, ran[p])
  BY <1>1, <1>2 DEF LinesOnce
<1>4. CASE task'[p].at \notin {"lock", "run"}
  <2>1. InHand(p)' = <<>>
    BY <1>4 DEF InHand
  <2>2. Once(x, asm[p].sLine, asm[p].sPendEOL, <<>>, peer[p].sent, ran[p])
    BY <1>3, OnceDropped
  <2> QED BY <1>4, <2>1, <2>2 DEF LinesOnce, Stays, x
<1>5. CASE task'[p].at \in {"lock", "run"}
  <2>1. InHand(p)' = InHand(p) /\ task[p].at \in {"lock", "run"} /\ task'[p].work = task[p].work
    BY <1>5 DEF InHand, Stays
  <2> QED BY <1>3, <2>1 DEF LinesOnce, Stays, x
<1> QED BY <1>4, <1>5

\* Nothing comes any more.
LEMMA ComesNothing ==
  ASSUME NEW p \in Ports, LinesOnce(p), peer'[p].sent = peer[p].sent, ran'[p] = ran[p],
         task'[p].at \notin {"lock", "run"}, asm'[p].sLine = <<>>, Coming(p)' = <<>>
  PROVE  LinesOnce(p)'
<1>1. InHand(p)' = <<>>
  BY DEF InHand
<1>2. Counted(peer[p].sent, ran[p])
  BY DEF LinesOnce, Once
<1>3. Once(<<>>, <<>>, asm'[p].sPendEOL, <<>>, peer[p].sent, ran[p])
  BY <1>2, OnceEmpty
<1> QED BY <1>1, <1>3 DEF LinesOnce

\* A port hears its host: a terminator that was expected, or a new command.
LEMMA Heard1 ==
  ASSUME TypeOK, TypeOK', NEW p \in Ports, NEW b, Says(p, b), LinesOnce(p),
         task'[p] = task[p], asm'[p] = asm[p], ran'[p] = ran[p],
         Expected(p) = peer[p].rest, Expected(p)' = peer'[p].rest,
         Arrived(p)' = Append(Arrived(p), b)
  PROVE  LinesOnce(p)'
<1> DEFINE c == task[p].chunk
           a == Arrived(p)
<1>1. /\ c \in Seq(Char) /\ a \in Seq(Char) /\ peer[p].rest \in Seq(Char) /\ b \in Char
      /\ Coming(p) = (c \o a) \o peer[p].rest
      /\ Coming(p)' = (c \o Append(a, b)) \o peer'[p].rest
      /\ InHand(p)' = InHand(p) /\ Coming(p) \in Seq(Char) /\ InHand(p) \in Seq(Bodies)
      /\ ran[p] \in [1..use.lines[p] -> Nat]
  BY ComingTyped, SaysTyped, PeerFields DEF Coming, InHand
<1> HIDE DEF c, a
<1>2. CASE SaysNext(p, b)
  <2>1. peer[p].rest = <<b>> \o peer'[p].rest /\ peer'[p].rest \in Seq(Char)
    <3>1. peer[p].rest # <<>> /\ b = Head(peer[p].rest) /\ peer'[p].rest = Tail(peer[p].rest)
      BY <1>2 DEF SaysNext
    <3> DEFINE r == peer[p].rest
    <3>2. r \in Seq(Char) /\ r # <<>>
      BY <1>1, <3>1
    <3> HIDE DEF r
    <3>3. r = <<Head(r)>> \o Tail(r) /\ Tail(r) \in Seq(Char)
      BY <3>2
    <3> QED BY <3>1, <3>3 DEF r
  <2>2. (c \o Append(a, b)) \o peer'[p].rest = (c \o a) \o (<<b>> \o peer'[p].rest)
    <3> DEFINE r == peer'[p].rest
    <3>1. r \in Seq(Char)
      BY <2>1
    <3> HIDE DEF r
    <3>2. (c \o Append(a, b)) \o r = (c \o a) \o (<<b>> \o r)
      <4> DEFINE d == <<b>>
      <4>1. d \in Seq(Char) /\ Append(a, b) = a \o d
        BY <1>1
      <4> HIDE DEF d
      <4>2. c \in Seq(Char) /\ a \in Seq(Char) /\ d \in Seq(Char) /\ r \in Seq(Char)
        BY <1>1, <3>1, <4>1
      <4>3. (c \o (a \o d)) \o r = (c \o a) \o (d \o r)
        BY <4>2
      <4> QED BY <4>1, <4>3 DEF d
    <3> QED BY <3>2 DEF r
  <2>3. Coming(p)' = Coming(p)
    BY <1>1, <2>1, <2>2
  <2>4. peer'[p].sent = peer[p].sent
    BY <1>2 DEF SaysNext
  <2> QED BY <1>1, <2>3, <2>4 DEF LinesOnce
<1>3. CASE SaysNew(p, b)
  <2> DEFINE end == peer'[p].rest
             n == use.lines[p]
             sent == peer[p].sent
             r == ran[p]
             line == asm[p].sLine
             pend == asm[p].sPendEOL
             job == InHand(p)
             x == Coming(p)
  <2>1. /\ end \in {<<CR>>, <<CR, LF>>} /\ peer[p].rest = <<>> /\ b = sent + 1 /\ b <= n
        /\ peer'[p].sent = sent + 1 /\ n \in Nat /\ sent \in Nat /\ sent < n
        /\ r \in [1..n -> Nat] /\ x \in Seq(Char) /\ line \in Seq(Bodies) /\ job \in Seq(Bodies)
    BY <1>1, <1>3, PeerFields, AsmFields DEF SaysNew
  <2>2. Once(x, line, pend, job, sent, r)
    BY DEF LinesOnce
  <2>3. x = c \o a
    BY <1>1, <2>1
  <2>4. Coming(p)' = x \o (<<b>> \o end)
    <3>1. Coming(p)' = (c \o Append(a, b)) \o end
      BY <1>1
    <3>2. end \in Seq(Char)
      <4>1. end \in Endings
        BY <2>1 DEF Endings
      <4> QED BY <4>1, EndingsTyped
    <3> HIDE DEF end, x
    <3>3. (c \o Append(a, b)) \o end = (c \o a) \o (<<b>> \o end)
      <4> DEFINE d == <<b>>
      <4>1. d \in Seq(Char) /\ Append(a, b) = a \o d
        BY <1>1
      <4> HIDE DEF d
      <4>2. c \in Seq(Char) /\ a \in Seq(Char) /\ d \in Seq(Char) /\ end \in Seq(Char)
        BY <1>1, <3>2, <4>1
      <4>3. (c \o (a \o d)) \o end = (c \o a) \o (d \o end)
        BY <4>2
      <4> QED BY <4>1, <4>3 DEF d
    <3> QED BY <2>3, <3>1, <3>3
  <2> HIDE DEF end, n, sent, r, line, pend, job, x
  <2>5. Once(x \o (<<sent + 1>> \o end), line, pend, job, sent + 1, r)
    BY <2>1, <2>2, OnceSaid
  <2>6. Once(Coming(p)', line, pend, job, peer'[p].sent, r)
    BY <2>1, <2>4, <2>5
  <2> QED BY <1>1, <2>6 DEF LinesOnce, line, pend, job, r
<1> QED BY <1>2, <1>3, SaysTyped

\* The connection ends: what was received, and what was still to be said, does not come.
LEMMA CutOff ==
  ASSUME TypeOK, TypeOK', LinesOnce("tcp"), Stays("tcp"), task'["tcp"].chunk = task["tcp"].chunk,
         sock'.sr # "established"
  PROVE  LinesOnce("tcp")'
<1> DEFINE c == task["tcp"].chunk
           a == Arrived("tcp")
           e == Expected("tcp")
<1>1. c \in Seq(Char) /\ a \in Seq(Char) /\ e \in Seq(Char) /\ "tcp" \in Ports
  BY ComingTyped, Constants
<1>2. Coming("tcp") = (c \o a) \o e /\ Coming("tcp")' = (c \o <<>>) \o <<>>
  BY DEF Coming, Arrived, Expected, Connected
<1> HIDE DEF c, a, e
<1>3. (c \o a) \o e = c \o (a \o e) /\ a \o e \in Seq(Char) /\ (c \o <<>>) \o <<>> = c
  BY <1>1
<1>4. Coming("tcp") = Coming("tcp")' \o (a \o e)
  BY <1>2, <1>3
<1> QED BY <1>1, <1>3, <1>4, ComesLess

\* The line assembly takes a byte.
LEMMA FeedOnce ==
  ASSUME TypeOK, TypeOK', NEW p \in Ports, LinesOnce(p), FeedByte(p)
  PROVE  LinesOnce(p)'
<1> DEFINE b == Head(task[p].chunk)
           d == Tail(task[p].chunk)
           a == Arrived(p)
           e == Expected(p)
           x == Coming(p)'
           line == asm[p].sLine
           pend == asm[p].sPendEOL
           job == InHand(p)
           sent == peer[p].sent
           r == ran[p]
           done == Completes(asm[p], b)
<1>1. FeedMoves(p)
  BY FeedTyped
<1>2. /\ task[p].chunk \in Seq(Char) /\ task[p].chunk # <<>> /\ a \in Seq(Char) /\ e \in Seq(Char)
      /\ line \in Seq(Bodies) /\ Len(line) <= LineMax /\ sent \in Nat
      /\ LineMax \in Nat \ {0} /\ b \in Char
  BY <1>1, ComingTyped, AsmFields, PeerFields, Constants DEF FeedMoves
<1>3. d \in Seq(Char) /\ task[p].chunk = <<b>> \o d
  <2> DEFINE c == task[p].chunk
  <2>1. c \in Seq(Char) /\ c # <<>>
    BY <1>2
  <2> HIDE DEF c
  <2>2. Tail(c) \in Seq(Char) /\ c = <<Head(c)>> \o Tail(c)
    BY <2>1
  <2> QED BY <2>2 DEF c
<1>4. /\ peer' = peer /\ rx' = rx /\ sock' = sock /\ ran' = ran
      /\ asm'[p].last = asm[p].last
      /\ task'[p].chunk = d /\ task'[p].at = (IF done THEN "lock" ELSE "feed")
      /\ task'[p].work = (IF done THEN line ELSE task[p].work)
  BY <1>1 DEF FeedMoves, Kept, TaskMoves
<1>5. Arrived(p)' = a /\ Expected(p)' = e
  BY <1>4 DEF Arrived, Expected, Ringed, Connected
<1>6. Coming(p) = (task[p].chunk \o a) \o e /\ x = (d \o a) \o e
  BY <1>4, <1>5 DEF Coming
<1>7. x \in Seq(Char) /\ Coming(p) = <<b>> \o x
  <2> DEFINE f == <<b>>
  <2>1. f \in Seq(Char) /\ task[p].chunk = f \o d
    BY <1>2, <1>3
  <2> HIDE DEF b, d, a, e, x, f
  <2>2. f \in Seq(Char) /\ d \in Seq(Char) /\ a \in Seq(Char) /\ e \in Seq(Char)
    BY <1>2, <1>3, <2>1
  <2>3. ((f \o d) \o a) \o e = f \o ((d \o a) \o e) /\ (d \o a) \o e \in Seq(Char)
    BY <2>2
  <2> QED BY <1>6, <2>1, <2>3 DEF f
<1>8. Once(<<b>> \o x, line, pend, job, sent, r)
  BY <1>7 DEF LinesOnce
<1>9. ASSUME b \in Bodies
      PROVE  LinesOnce(p)'
  <2> DEFINE l2 == asm'[p].sLine
  <2>1. b \notin Ends /\ ~done
    BY <1>9, Bytes DEF Completes
  <2>2. asm'[p].sPendEOL = 0
        /\ l2 = (IF Len(line) < LineMax THEN Append(line, b) ELSE line)
    BY <1>1, <2>1 DEF FeedMoves
  <2>3. InHand(p)' = <<>> /\ task'[p].at = "feed"
    BY <1>4, <2>1 DEF InHand
  <2> HIDE DEF b, l2, line, done, x, pend, job, sent, r
  <2>4. l2 \in Seq(Bodies) /\ (l2 = Append(line, b) \/ (l2 = line /\ line # <<>>))
    <3>1. CASE Len(line) < LineMax
      BY <1>2, <1>9, <2>2, <3>1
    <3>2. CASE ~(Len(line) < LineMax)
      <4>1. l2 = line
        BY <2>2, <3>2
      <4>2. line # <<>>
        <5> SUFFICES ASSUME line = <<>> PROVE FALSE
          OBVIOUS
        <5>1. Len(line) = 0
          OBVIOUS
        <5> QED BY <1>2, <3>2, <5>1
      <4> QED BY <1>2, <4>1, <4>2
    <3> QED BY <3>1, <3>2
  <2>5. Once(x, l2, 0, <<>>, sent, r)
    BY <1>2, <1>7, <1>8, <1>9, <2>4, OnceBody
  <2> QED BY <1>4, <2>2, <2>3, <2>5 DEF LinesOnce, l2, sent, r, x
<1>10. ASSUME b \in Ends
       PROVE  LinesOnce(p)'
  <2>1. asm'[p].sLine = <<>> /\ asm'[p].sPendEOL = (IF line # <<>> THEN b ELSE 0)
    BY <1>1, <1>10 DEF FeedMoves
  <2>2. done <=> (line # <<>> \/ pend \in {0, b})
    BY <1>10 DEF Completes
  <2> HIDE DEF b, line, x, pend, job, sent, r, done
  <2>3. /\ line # <<>> => Once(x, <<>>, b, line, sent, r)
        /\ line = <<>> => b = LF /\ pend = CR /\ Once(x, <<>>, 0, <<>>, sent, r)
    BY <1>2, <1>7, <1>8, <1>10, OnceEnd
  <2>4. CASE line # <<>>
    <3>1. task'[p].at = "lock" /\ task'[p].work = line /\ asm'[p].sPendEOL = b
      BY <1>4, <2>1, <2>2, <2>4
    <3>2. InHand(p)' = line
      BY <3>1 DEF InHand
    <3> QED BY <1>4, <2>1, <2>3, <2>4, <3>1, <3>2 DEF LinesOnce, sent, r, x
  <2>5. CASE line = <<>>
    <3>1. ~done
      <4>1. CR # LF /\ CR # 0
        BY DEF CR, LF
      <4> QED BY <2>2, <2>3, <2>5, <4>1
    <3>2. task'[p].at = "feed" /\ asm'[p].sPendEOL = 0
      BY <1>4, <2>1, <2>5, <3>1
    <3>3. InHand(p)' = <<>>
      BY <3>2 DEF InHand
    <3> QED BY <1>4, <2>1, <2>3, <2>5, <3>2, <3>3 DEF LinesOnce, sent, r, x
  <2> QED BY <2>4, <2>5
<1> QED BY <1>2, <1>9, <1>10, Bytes

\* The command in hand runs, once, or is refused.
LEMMA DispatchOnce ==
  ASSUME TypeOK, TypeOK', NEW p \in Ports, LinesOnce(p), Dispatch(p)
  PROVE  LinesOnce(p)'
<1>1. RunMoves(p)
  BY DispatchTyped
<1>2. /\ task[p].at = "run" /\ task'[p].at = "write" /\ task'[p].chunk = task[p].chunk
      /\ peer' = peer /\ rx' = rx /\ sock' = sock
      /\ asm'[p].sLine = asm[p].sLine /\ asm'[p].sPendEOL = asm[p].sPendEOL
  BY <1>1 DEF RunMoves, TaskMoves, Kept
<1>3. Coming(p)' = Coming(p) /\ InHand(p) = task[p].work /\ InHand(p)' = <<>>
  BY <1>2 DEF Coming, Arrived, Expected, Ringed, Connected, InHand
<1>4. task[p].work # <<>> /\ asm[p].sLine = <<>>
  BY <1>2 DEF LinesOnce
<1>5. CASE ran' = ran
  <2>1. Stays(p)
    BY <1>2, <1>5 DEF Stays
  <2> QED BY <1>3, <2>1, ComesTheSame
<1>6. CASE Len(task[p].work) = 1 /\ ran' = [ran EXCEPT ![p][task[p].work[1]] = @ + 1]
  <2> DEFINE r == ran[p]
             job == task[p].work
             n == use.lines[p]
             s == [r EXCEPT ![job[1]] = @ + 1]
             x == Coming(p)
             pend == asm[p].sPendEOL
             sent == peer[p].sent
  <2>1. /\ n \in Nat /\ sent \in Nat /\ sent <= n /\ r \in [1..n -> Nat] /\ x \in Seq(Char)
        /\ job \in Seq(Bodies) /\ Len(job) = 1
    BY <1>6, ComingTyped, PeerFields, TaskFields
  <2>2. ran'[p] = s
    <3>1. p \in DOMAIN ran
      BY DEF TypeOK
    <3> QED BY <1>6, <3>1
  <2>3. Once(x, <<>>, pend, job, sent, r)
    BY <1>3, <1>4 DEF LinesOnce
  <2> HIDE DEF r, job, n, x, pend, sent
  <2>4. Once(x, <<>>, pend, <<>>, sent, s)
    BY <2>1, <2>3, OnceRuns
  <2> HIDE DEF s
  <2> QED BY <1>2, <1>3, <1>4, <2>2, <2>4 DEF LinesOnce, x, pend, sent
<1> QED BY <1>1, <1>4, <1>5, <1>6 DEF RunMoves

\* The task goes on to its next place.
LEMMA GoesOnce ==
  ASSUME TypeOK, TypeOK', NEW p \in Ports, LinesOnce(p),
         ChunkDone(p) \/ Lock(p) \/ Finish(p) \/ Handoff(p)
  PROVE  LinesOnce(p)'
<1>1. /\ Kept /\ UNCHANGED <<uart, asm, ran, overlapped>>
      /\ \E at \in {"poll", "run", "handoff", "feed", "gone"} :
           TaskMoves(p, at, task[p].chunk, task[p].work, task[p].bursts)
      /\ sock' = sock \/ (sock' = NoSocket /\ p = "tcp")
  BY GoesTyped
<1>2. task'[p].chunk = task[p].chunk /\ task'[p].work = task[p].work
  BY <1>1 DEF TaskMoves
<1>3. task'[p].at \notin {"lock", "run"} \/ task[p].at \in {"lock", "run"}
  <2>1. task \in [Ports -> Task]
    BY DEF TypeOK
  <2>2. CASE Lock(p)
    BY <2>2 DEF Lock
  <2>3. CASE ChunkDone(p) \/ Finish(p) \/ Handoff(p)
    BY <2>1, <2>3 DEF ChunkDone, Finish, Handoff, Goes, Task
  <2> QED BY <2>2, <2>3
<1>4. Stays(p)
  BY <1>1, <1>2, <1>3 DEF Stays, Kept
<1>5. CASE sock' = sock
  <2>1. Coming(p)' = Coming(p)
    BY <1>1, <1>2, <1>5 DEF Coming, Arrived, Expected, Ringed, Connected, Kept
  <2> QED BY <1>4, <2>1, ComesTheSame
<1>6. CASE sock' = NoSocket /\ p = "tcp"
  <2>1. sock'.sr # "established"
    BY <1>6 DEF NoSocket
  <2> QED BY <1>2, <1>4, <1>6, <2>1, CutOff
<1> QED BY <1>1, <1>5, <1>6

\* Every step of the line processing.
LEMMA ProcessOnce ==
  ASSUME TypeOK, TypeOK', NEW p \in Ports, LinesOnce(p), ProtocolProcessLine(p)
  PROVE  LinesOnce(p)'
BY FeedOnce, DispatchOnce, GoesOnce DEF ProtocolProcessLine

\* The steps of a task that sends an answer.
LEMMA SendOnce ==
  ASSUME TypeOK, TypeOK', NEW p \in Ports, LinesOnce(p), SendMoves(p),
         p = "tcp" /\ sock'.sr = sock.sr => sock'.queue = sock.queue,
         p = "tcp" /\ sock'.sr # sock.sr => sock'.sr # "established"
  PROVE  LinesOnce(p)'
<1>1. Kept /\ asm' = asm /\ ran' = ran
  BY DEF SendMoves
<1>2. task'[p].chunk = task[p].chunk /\ Stays(p)
  BY <1>1 DEF SendMoves, TaskMoves, Kept, Stays
<1>3. CASE p = "tcp" /\ sock'.sr # sock.sr
  BY <1>2, <1>3, CutOff
<1>4. CASE p = "tcp" => sock'.sr = sock.sr
  <2>1. Coming(p)' = Coming(p)
    BY <1>1, <1>2, <1>4, Constants DEF Coming, Arrived, Expected, Ringed, Connected, Kept
  <2> QED BY <1>2, <2>1, ComesTheSame
<1> QED BY <1>3, <1>4

\* A byte comes into the ring.
LEMMA HearOnce ==
  ASSUME TypeOK, TypeOK', LinesOnce("rs485"), Hear, ~lost'
  PROVE  LinesOnce("rs485")'
<1>1. PICK b \in Byte : /\ Says("rs485", b)
                        /\ rx' = [rx EXCEPT !.ring[rx.head] = b, !.head = Next1(@)]
                        /\ lost' = (lost \/ Next1(rx.head) = rx.sRxTail)
                        /\ UNCHANGED <<asm, task, ran>>
  BY DEF Hear
<1>2. /\ rx \in Receiver /\ rx.ring \in [0..(Ring - 1) -> Char] /\ b \in Char
      /\ rx.head \in 0..(Ring - 1) /\ rx.sRxTail \in 0..(Ring - 1) /\ "rs485" \in Ports
      /\ "rs485" # "tcp"
  BY <1>1, ComingTyped, SaysTyped, Constants DEF TypeOK
<1>3. Next1(rx.head) # rx.sRxTail
  BY <1>1
<1>4. rx'.ring = [rx.ring EXCEPT ![rx.head] = b] /\ rx'.head = Next1(rx.head)
      /\ rx'.sRxTail = rx.sRxTail
  BY <1>1, <1>2 DEF Receiver
<1>5. Held([rx.ring EXCEPT ![rx.head] = b], rx.sRxTail, Next1(rx.head))
      = Append(Held(rx.ring, rx.sRxTail, rx.head), b)
  BY <1>2, <1>3, HeldMore
<1>6. Arrived("rs485")' = Append(Arrived("rs485"), b)
  BY <1>4, <1>5 DEF Arrived, Ringed
<1>7. Expected("rs485") = peer["rs485"].rest /\ Expected("rs485")' = peer'["rs485"].rest
  BY <1>2 DEF Expected
<1> QED BY <1>1, <1>2, <1>6, <1>7, Heard1

\* The task takes what the ring held when it read where the DMA was.
LEMMA CopyOnce ==
  ASSUME TypeOK, TypeOK', TakenInv, LinesOnce("rs485"), Drain \/ Copy, ~lost
  PROVE  LinesOnce("rs485")'
<1>1. /\ task \in [Ports -> Task] /\ rx \in Receiver /\ rx.ring \in [0..(Ring - 1) -> Char]
      /\ rx.head \in 0..(Ring - 1) /\ rx.sRxTail \in 0..(Ring - 1) /\ "rs485" \in Ports
      /\ task["rs485"].head \in 0..(Ring - 1)
  BY ComingTyped, TaskFields, Constants DEF TypeOK
<1>2. CASE Drain
  <2>1. task'["rs485"].at = "copy" /\ task'["rs485"].chunk = task["rs485"].chunk
        /\ peer' = peer /\ rx' = rx /\ asm' = asm /\ ran' = ran
    BY <1>1, <1>2 DEF Drain, Task
  <2>2. Stays("rs485")
    BY <2>1 DEF Stays
  <2>3. Coming("rs485")' = Coming("rs485")
    BY <2>1 DEF Coming, Arrived, Expected, Ringed
  <2> QED BY <1>1, <2>2, <2>3, ComesTheSame
<1>3. CASE Copy
  <2> DEFINE h == task["rs485"].head
             ring == rx.ring
             i == rx.sRxTail
             j == rx.head
             m == Held(ring, i, h)
             l == Held(ring, h, j)
             e == peer["rs485"].rest
  <2>1. task["rs485"].at = "copy" /\ peer' = peer /\ asm' = asm /\ ran' = ran
    BY <1>3 DEF Copy
  <2>2. /\ rx'.ring = ring /\ rx'.head = j /\ rx'.sRxTail = h
    BY <1>1, <1>3 DEF Copy, Receiver
  <2>3. task'["rs485"].at = "feed" /\ task'["rs485"].chunk = m
    <3> DEFINE n == (task["rs485"].head - rx.sRxTail) % Ring
               k == [q \in 1..n |-> rx.ring[(rx.sRxTail + q - 1) % Ring]]
    <3>1. task' = [task EXCEPT !["rs485"].at = "feed", !["rs485"].head = 0, !["rs485"].chunk = k]
      BY <1>3 DEF Copy
    <3>2. k = m
      BY DEF Held, Size, Place
    <3> HIDE DEF k, m, n
    <3> QED BY <1>1, <3>1, <3>2 DEF Task
  <2>4. task["rs485"].chunk = <<>> /\ Size(i, h) <= Size(i, j)
    BY <1>1, <2>1 DEF TakenInv
  <2>5. Held(ring, i, j) = m \o l /\ m \in Seq(Char) /\ l \in Seq(Char) /\ e \in Seq(Char)
        /\ Held(ring, i, j) \in Seq(Char)
    BY <1>1, <2>4, HeldSplit, HeldTyped, PeerFields
  <2>6. Stays("rs485")
    BY <2>1, <2>3 DEF Stays
  <2>7. Coming("rs485") = (<<>> \o Held(ring, i, j)) \o e
        /\ Coming("rs485")' = (m \o l) \o e
    BY <2>1, <2>2, <2>3, <2>4 DEF Coming, Arrived, Expected, Ringed
  <2>8. <<>> \o Held(ring, i, j) = Held(ring, i, j)
    <3> DEFINE f == Held(ring, i, j)
    <3>1. f \in Seq(Char)
      BY <2>5
    <3> HIDE DEF f
    <3>2. <<>> \o f = f
      BY <3>1
    <3> QED BY <3>2 DEF f
  <2>9. Coming("rs485")' = Coming("rs485")
    BY <2>5, <2>7, <2>8, Zenon
  <2> QED BY <1>1, <2>6, <2>9, ComesTheSame
<1> QED BY <1>2, <1>3

\* RS-485, as long as nothing is lost there.
LEMMA SerialOnce ==
  ASSUME TypeOK, TypeOK', TakenInv, LinesOnce("rs485"), SendTask, Next, ~lost, ~lost'
  PROVE  LinesOnce("rs485")'
<1>1. "rs485" \in Ports /\ "tcp" \in Ports /\ "rs485" # "tcp" /\ "tcp" # "rs485"
  BY Constants
<1>2. CASE Hear
  BY <1>2, HearOnce
<1>3. CASE TalkOver \/ LineError
  BY <1>3 DEF TalkOver, LineError
<1>4. CASE Connect \/ Receive \/ Fin \/ Broken \/ Ack
  <2>1. peer'["rs485"] = peer["rs485"]
    <3>1. CASE Receive
      BY <1>1, <3>1, SaysTyped DEF Receive
    <3>2. CASE Connect \/ Fin \/ Broken \/ Ack
      BY <1>1, <3>2 DEF Connect, Fin, Broken, Ack, TypeOK
    <3> QED BY <1>4, <3>1, <3>2
  <2>2. UNCHANGED <<rx, asm, task, ran>>
    BY <1>4 DEF Connect, Receive, Fin, Broken, Ack, PeerKeeps
  <2> QED BY <1>1, <2>1, <2>2, Untouched
<1>5. CASE Drain \/ Copy
  BY <1>5, CopyOnce
<1>6. CASE ProtocolProcessLine("rs485")
  BY <1>1, <1>6, ProcessOnce
<1>7. CASE Rs485Send \/ TxCplt
  BY <1>1, <1>7, WireTyped, SendOnce
<1>8. CASE CloseUnleased \/ Listen \/ Recv \/ CloseWait \/ Closed
  <2>1. task'["rs485"] = task["rs485"] /\ asm'["rs485"] = asm["rs485"]
    BY <1>1, <1>8 DEF CloseUnleased, Listen, Recv, CloseWait, Closed, resetConnState, TypeOK
  <2>2. UNCHANGED <<peer, rx, ran>>
    BY <1>8 DEF CloseUnleased, Listen, Recv, CloseWait, Closed, Pass
  <2> QED BY <1>1, <2>1, <2>2, Untouched
<1>9. CASE ProtocolProcessLine("tcp")
  <2>1. task'["rs485"] = task["rs485"] /\ asm'["rs485"] = asm["rs485"]
        /\ ran'["rs485"] = ran["rs485"] /\ UNCHANGED <<peer, rx>>
    <3>1. CASE FeedByte("tcp")
      BY <1>1, <3>1, FeedTyped DEF FeedMoves, TaskMoves, Kept
    <3>2. CASE ChunkDone("tcp") \/ Lock("tcp") \/ Finish("tcp") \/ Handoff("tcp")
      BY <1>1, <3>2, GoesTyped DEF TaskMoves, Kept
    <3>3. CASE Dispatch("tcp")
      <4>1. RunMoves("tcp")
        BY <1>1, <3>3, DispatchTyped
      <4>2. task'["rs485"] = task["rs485"] /\ UNCHANGED <<peer, rx>>
        BY <1>1, <4>1 DEF RunMoves, TaskMoves, Kept
      <4>3. asm'["rs485"] = asm["rs485"]
        BY <1>1, <3>3 DEF Dispatch, Command, Repeat, Refuse, TypeOK
      <4>4. ran'["rs485"] = ran["rs485"]
        BY <1>1, <4>1, RanTyped DEF RunMoves
      <4> QED BY <4>2, <4>3, <4>4
    <3> QED BY <1>9, <3>1, <3>2, <3>3 DEF ProtocolProcessLine
  <2> QED BY <1>1, <2>1, Untouched
<1>10. CASE tcpFlush
  <2>1. SendMoves("tcp")
    BY <1>10, FlushTyped
  <2>2. task'["rs485"] = task["rs485"] /\ UNCHANGED <<peer, rx, asm, ran>>
    BY <1>1, <2>1 DEF SendMoves, TaskMoves, Kept
  <2> QED BY <1>1, <2>2, Untouched
<1>11. CASE NetTask
  <2>1. UNCHANGED <<peer, rx, asm, task, ran>>
    BY <1>11 DEF NetTask, Report, PrintStarts, PrintEnds, NetKeeps
  <2> QED BY <1>1, <2>1, Untouched
<1> QED BY <1>2, <1>3, <1>4, <1>5, <1>6, <1>7, <1>8, <1>9, <1>10, <1>11
     DEF Next, protocolTask, netCliTask

\* TCP, through connections that end anywhere.
LEMMA SocketOnce ==
  ASSUME TypeOK, TypeOK', TakenInv, LinesOnce("tcp"), SendTask, Next
  PROVE  LinesOnce("tcp")'
<1>1. /\ "rs485" \in Ports /\ "tcp" \in Ports /\ "rs485" # "tcp" /\ "tcp" # "rs485"
      /\ sock \in Socket /\ peer \in [Ports -> Sender] /\ task \in [Ports -> Task]
      /\ asm \in [Ports -> Assembly]
  BY Constants DEF TypeOK
<1>2. CASE Hear \/ TalkOver \/ LineError
  <2>1. peer'["tcp"] = peer["tcp"]
    BY <1>1, <1>2, SaysTyped DEF Hear, TalkOver, LineError
  <2>2. UNCHANGED <<sock, asm, task, ran>>
    BY <1>2 DEF Hear, TalkOver, LineError
  <2> QED BY <1>1, <2>1, <2>2, Untouched
<1>3. CASE Connect
  <2>1. UNCHANGED <<asm, task, ran>> /\ peer'["tcp"].sent = peer["tcp"].sent
        /\ peer'["tcp"].rest = <<>> /\ sock'.queue = sock.queue /\ sock'.sr = "established"
    BY <1>1, <1>3 DEF Connect, PeerKeeps, Sender, Socket
  <2>2. sock.queue = <<>> /\ task["tcp"].chunk = <<>> /\ sock.sr = "listen"
    BY <1>3 DEF Connect, TakenInv
  <2>3. Coming("tcp") = Coming("tcp")'
    BY <1>1, <2>1, <2>2 DEF Coming, Arrived, Expected, Connected
  <2>4. Stays("tcp")
    BY <2>1 DEF Stays
  <2> QED BY <1>1, <2>3, <2>4, ComesTheSame
<1>4. CASE Receive
  <2>1. PICK b \in Byte : Says("tcp", b) /\ sock' = [sock EXCEPT !.queue = Append(@, b)]
    BY <1>4 DEF Receive
  <2>2. sock'.queue = Append(sock.queue, b) /\ sock'.sr = "established" /\ sock.sr = "established"
        /\ UNCHANGED <<asm, task, ran>>
    BY <1>1, <1>4, <2>1 DEF Receive, PeerKeeps, Socket
  <2>3. /\ Arrived("tcp")' = Append(Arrived("tcp"), b)
        /\ Expected("tcp") = peer["tcp"].rest /\ Expected("tcp")' = peer'["tcp"].rest
    BY <1>1, <2>2 DEF Arrived, Expected, Connected
  <2> QED BY <1>1, <2>1, <2>2, <2>3, Heard1
<1>5. CASE Fin \/ Broken
  <2>1. UNCHANGED <<peer, asm, task, ran>> /\ sock'.sr # "established"
    BY <1>1, <1>5 DEF Fin, Broken, PeerKeeps, Socket
  <2>2. Stays("tcp")
    BY <2>1 DEF Stays
  <2> QED BY <2>1, <2>2, CutOff
<1>6. CASE Ack
  <2>1. UNCHANGED <<peer, asm, task, ran>> /\ sock'.sr = sock.sr /\ sock'.queue = sock.queue
    BY <1>1, <1>6 DEF Ack, PeerKeeps, Socket
  <2> QED BY <1>1, <2>1, Untouched
<1>7. CASE Drain \/ Copy
  <2>1. UNCHANGED <<peer, asm, ran, sock>> /\ task'["tcp"] = task["tcp"]
    BY <1>1, <1>7 DEF Drain, Copy
  <2> QED BY <1>1, <2>1, Untouched
<1>8. CASE ProtocolProcessLine("rs485")
  <2>1. task'["tcp"] = task["tcp"] /\ asm'["tcp"] = asm["tcp"]
        /\ ran'["tcp"] = ran["tcp"] /\ UNCHANGED <<peer, sock>>
    <3>1. CASE FeedByte("rs485")
      BY <1>1, <3>1, FeedTyped DEF FeedMoves, TaskMoves, Kept
    <3>2. CASE ChunkDone("rs485") \/ Lock("rs485") \/ Finish("rs485") \/ Handoff("rs485")
      BY <1>1, <3>2, GoesTyped DEF TaskMoves, Kept
    <3>3. CASE Dispatch("rs485")
      <4>1. RunMoves("rs485")
        BY <1>1, <3>3, DispatchTyped
      <4>2. task'["tcp"] = task["tcp"] /\ UNCHANGED <<peer, sock>>
        BY <1>1, <4>1 DEF RunMoves, TaskMoves, Kept
      <4>3. asm'["tcp"] = asm["tcp"]
        BY <1>1, <3>3 DEF Dispatch, Command, Repeat, Refuse
      <4>4. ran'["tcp"] = ran["tcp"]
        BY <1>1, <4>1, RanTyped DEF RunMoves
      <4> QED BY <4>2, <4>3, <4>4
    <3> QED BY <1>8, <3>1, <3>2, <3>3 DEF ProtocolProcessLine
  <2> QED BY <1>1, <2>1, Untouched
<1>9. CASE Rs485Send \/ TxCplt
  <2>1. SendMoves("rs485") /\ sock' = sock
    BY <1>9, WireTyped
  <2>2. task'["tcp"] = task["tcp"] /\ UNCHANGED <<peer, asm, ran>>
    BY <1>1, <2>1 DEF SendMoves, TaskMoves, Kept
  <2> QED BY <1>1, <2>1, <2>2, Untouched
<1>10. CASE CloseUnleased \/ CloseWait \/ Closed
  <2>1. /\ task' = task /\ peer' = peer /\ ran' = ran /\ task["tcp"].at = "poll"
        /\ sock'.sr # "established"
    BY <1>10 DEF CloseUnleased, CloseWait, Closed, Pass, NoSocket
  <2>2. CASE asm' = asm
    <3>1. Stays("tcp")
      BY <2>1, <2>2 DEF Stays
    <3> QED BY <2>1, <3>1, CutOff
  <2>3. CASE resetConnState
    <3>1. asm'["tcp"].sLine = <<>>
      BY <1>1, <2>3 DEF resetConnState, Assembly
    <3>2. task["tcp"].chunk = <<>>
      BY <1>1, <2>1 DEF TakenInv
    <3>3. Coming("tcp")' = <<>>
      BY <1>1, <2>1, <3>2 DEF Coming, Arrived, Expected, Connected
    <3> QED BY <1>1, <2>1, <3>1, <3>3, ComesNothing
  <2> QED BY <1>10, <2>2, <2>3 DEF CloseUnleased, CloseWait, Closed
<1>11. CASE Listen
  <2>1. /\ task' = task /\ peer' = peer /\ ran' = ran /\ asm' = asm /\ task["tcp"].at = "poll"
        /\ sock'.sr # "established"
    BY <1>11 DEF Listen, Pass, NoSocket
  <2>2. Stays("tcp")
    BY <2>1 DEF Stays
  <2> QED BY <2>1, <2>2, CutOff
<1>12. CASE Recv
  <2>1. /\ task["tcp"].at = "poll" /\ peer' = peer /\ ran' = ran /\ asm' = asm
        /\ sock.sr = "established"
    BY <1>12 DEF Recv, Pass
  <2>2. task'["tcp"].chunk = sock.queue /\ task'["tcp"].at = "feed"
        /\ sock'.queue = <<>> /\ sock'.sr = sock.sr
    BY <1>1, <1>12 DEF Recv, Task, Socket
  <2>3. task["tcp"].chunk = <<>>
    BY <1>1, <2>1 DEF TakenInv
  <2>4. Stays("tcp")
    BY <2>1, <2>2 DEF Stays
  <2>5. Coming("tcp")' = Coming("tcp")
    <3> DEFINE q == sock.queue
               e == peer["tcp"].rest
    <3>1. Coming("tcp") = (<<>> \o q) \o e /\ Coming("tcp")' = (q \o <<>>) \o e
      BY <1>1, <2>1, <2>2, <2>3 DEF Coming, Arrived, Expected, Connected
    <3>2. q \in Seq(Char)
      BY <1>1 DEF Socket
    <3> HIDE DEF q, e
    <3>3. <<>> \o q = q /\ q \o <<>> = q
      BY <3>2
    <3> QED BY <3>1, <3>3, Zenon
  <2> QED BY <1>1, <2>4, <2>5, ComesTheSame
<1>13. CASE ProtocolProcessLine("tcp")
  BY <1>1, <1>13, ProcessOnce
<1>14. CASE tcpFlush
  <2>1. /\ SendMoves("tcp")
        /\ sock' \in {sock, [sock EXCEPT !.sending = TRUE], [NoSocket EXCEPT !.open = TRUE]}
    BY <1>14, FlushTyped
  <2>2. (sock'.sr = sock.sr /\ sock'.queue = sock.queue) \/ sock'.sr = "closed"
    BY <1>1, <2>1 DEF Socket, NoSocket
  <2>3. CASE sock'.sr = sock.sr /\ sock'.queue = sock.queue
    BY <1>1, <2>1, <2>3, SendOnce
  <2>4. CASE sock'.sr = "closed"
    <3>1. Kept /\ asm' = asm /\ ran' = ran
      BY <2>1 DEF SendMoves
    <3>2. task'["tcp"].chunk = task["tcp"].chunk /\ Stays("tcp")
      BY <2>1, <3>1 DEF SendMoves, TaskMoves, Kept, Stays
    <3> QED BY <2>4, <3>2, CutOff
  <2> QED BY <2>2, <2>3, <2>4
<1>15. CASE NetTask
  <2>1. UNCHANGED <<peer, sock, asm, task, ran>>
    BY <1>15 DEF NetTask, Report, PrintStarts, PrintEnds, NetKeeps
  <2> QED BY <1>1, <2>1, Untouched
<1> QED BY <1>2, <1>3, <1>4, <1>5, <1>6, <1>7, <1>8, <1>9, <1>10, <1>11, <1>12, <1>13, <1>14, <1>15
     DEF Next, protocolTask, netCliTask

(***************************************************************************)
(* What the tasks take.                                                    *)
(***************************************************************************)
LEMMA TakenKept ==
  ASSUME TypeOK, TypeOK', SendTask, TakenInv, Next
  PROVE  TakenInv'
<1>1. /\ "rs485" \in Ports /\ "tcp" \in Ports /\ "rs485" # "tcp" /\ "tcp" # "rs485"
      /\ sock \in Socket /\ task \in [Ports -> Task] /\ lost \in BOOLEAN
      /\ \A p \in Ports : p = "rs485" \/ p = "tcp"
  BY Constants DEF TypeOK
<1>2. CASE Hear \/ TalkOver \/ LineError
  <2>1. UNCHANGED <<sock, task>>
    BY <1>2 DEF Hear, TalkOver, LineError
  <2>2. ASSUME task["rs485"].at = "copy", ~lost'
        PROVE  Size(rx'.sRxTail, task["rs485"].head) <= Size(rx'.sRxTail, rx'.head)
    <3>1. ~lost
      BY <1>2, <2>2 DEF Hear, TalkOver, LineError
    <3>2. Size(rx.sRxTail, task["rs485"].head) <= Size(rx.sRxTail, rx.head)
      BY <2>2, <3>1 DEF TakenInv
    <3>3. Hear
      BY <1>2, <2>2 DEF TalkOver, LineError
    <3>4. PICK b \in Byte : /\ Says("rs485", b)
                            /\ rx' = [rx EXCEPT !.ring[rx.head] = b, !.head = Next1(@)]
                            /\ lost' = (lost \/ Next1(rx.head) = rx.sRxTail)
      BY <3>3 DEF Hear
    <3>5. rx'.head = Next1(rx.head) /\ rx'.sRxTail = rx.sRxTail /\ Next1(rx.head) # rx.sRxTail
      <4>1. rx \in Receiver
        BY DEF TypeOK
      <4> QED BY <2>2, <3>4, <4>1 DEF Receiver
    <3>6. Size(rx.sRxTail, Next1(rx.head)) = Size(rx.sRxTail, rx.head) + 1
      <4>1. b \in Char /\ rx.ring \in [0..(Ring - 1) -> Char]
            /\ rx.head \in 0..(Ring - 1) /\ rx.sRxTail \in 0..(Ring - 1)
        BY <1>1, <3>4, SaysTyped, ComingTyped
      <4> QED BY <3>5, <4>1, HeldMore
    <3>7. Size(rx.sRxTail, task["rs485"].head) \in Nat /\ Size(rx.sRxTail, rx.head) \in Nat
      BY <1>1, SizeIs, ComingTyped, TaskFields
    <3> QED BY <3>2, <3>5, <3>6, <3>7
  <2> QED BY <1>1, <2>1, <2>2 DEF TakenInv
<1>3. CASE Connect \/ Receive \/ Fin \/ Broken \/ Ack
  <2>1. /\ UNCHANGED <<rx, task, lost>>
        /\ sock'.sr = "listen" => sock.sr = "listen" /\ sock'.queue = sock.queue
    BY <1>1, <1>3 DEF Connect, Receive, Fin, Broken, Ack, PeerKeeps, Socket
  <2> QED BY <2>1 DEF TakenInv
<1>4. CASE Drain
  <2>1. /\ task'["rs485"].at = "copy" /\ task'["rs485"].head = rx.head
        /\ task'["rs485"].chunk = task["rs485"].chunk /\ task["rs485"].at = "poll"
        /\ task'["tcp"] = task["tcp"] /\ UNCHANGED <<rx, sock>>
    BY <1>1, <1>4 DEF Drain, Task
  <2>2. Size(rx.sRxTail, rx.head) \in Nat
    BY <1>1, SizeIs, ComingTyped
  <2> QED BY <1>1, <2>1, <2>2 DEF TakenInv
<1>5. CASE Copy
  <2>1. task'["rs485"].at = "feed" /\ task'["tcp"] = task["tcp"] /\ sock' = sock
    BY <1>1, <1>5 DEF Copy, Task
  <2> QED BY <1>1, <2>1 DEF TakenInv
<1>6. CASE \E p \in Ports : ProtocolProcessLine(p)
  <2>1. PICK p \in Ports : ProtocolProcessLine(p)
    BY <1>6
  <2>2. /\ \A q \in Ports \ {p} : task'[q] = task[q]
        /\ task'[p].at # "copy" /\ (task'[p].at = "poll" => task'[p].chunk = <<>>)
        /\ task[p].chunk = <<>> => task'[p].chunk = <<>>
        /\ rx' = rx /\ lost' = lost /\ sock' \in {sock, NoSocket}
    <3>1. CASE FeedByte(p)
      BY <3>1, FeedTyped DEF FeedMoves, TaskMoves, Kept
    <3>2. CASE Dispatch(p)
      BY <3>2, DispatchTyped DEF RunMoves, TaskMoves, Kept
    <3>3. CASE ChunkDone(p) \/ Lock(p) \/ Finish(p) \/ Handoff(p)
      <4>1. task'[p].at = "poll" => task[p].chunk = <<>>
        <5>1. CASE ChunkDone(p)
          BY <5>1 DEF ChunkDone
        <5>2. CASE Lock(p) \/ Finish(p) \/ Handoff(p)
          BY <1>1, <5>2 DEF Lock, Finish, Handoff, Goes, Task
        <5> QED BY <3>3, <5>1, <5>2
      <4> QED BY <3>3, <4>1, GoesTyped DEF TaskMoves, Kept
    <3> QED BY <2>1, <3>1, <3>2, <3>3 DEF ProtocolProcessLine
  <2>3. sock'.sr = "listen" => sock' = sock
    BY <2>2 DEF NoSocket
  <2> QED BY <1>1, <2>2, <2>3 DEF TakenInv
<1>7. CASE CloseUnleased \/ Listen \/ CloseWait \/ Closed
  <2>1. UNCHANGED <<rx, task, lost>> /\ task["tcp"].at = "poll"
        /\ (sock'.sr = "listen" => sock'.queue = <<>>)
    <3>1. CASE CloseUnleased \/ CloseWait \/ Closed
      BY <3>1 DEF CloseUnleased, CloseWait, Closed, Pass, NoSocket
    <3>2. CASE Listen
      BY <3>2 DEF Listen, Pass, NoSocket
    <3> QED BY <1>7, <3>1, <3>2
  <2> QED BY <1>1, <2>1 DEF TakenInv
<1>8. CASE Recv
  <2>1. UNCHANGED <<rx, lost>> /\ task'["rs485"] = task["rs485"] /\ task'["tcp"].at = "feed"
        /\ sock'.sr = "established"
    BY <1>1, <1>8 DEF Recv, Pass, Task, Socket
  <2> QED BY <1>1, <2>1 DEF TakenInv
<1>9. CASE Rs485Send \/ TxCplt \/ tcpFlush
  <2>1. PICK p \in Ports :
          /\ SendMoves(p)
          /\ sock'.sr = "listen" => sock.sr = "listen" /\ sock'.queue = sock.queue
    <3>1. CASE Rs485Send \/ TxCplt
      BY <1>1, <3>1, WireTyped
    <3>2. CASE tcpFlush
      BY <1>1, <3>2, FlushTyped DEF Socket, NoSocket
    <3> QED BY <1>9, <3>1, <3>2
  <2>2. CASE task' = task
    BY <2>1, <2>2 DEF SendMoves, Kept, TakenInv
  <2>3. CASE task' # task
    <3>1. /\ task'[p].at \notin {"poll", "copy"} /\ task'[p].chunk = task[p].chunk
          /\ \A q \in Ports \ {p} : task'[q] = task[q]
      BY <2>1, <2>3 DEF SendMoves, TaskMoves
    <3>2. UNCHANGED <<rx, lost>>
      BY <2>1 DEF SendMoves, Kept
    <3> QED BY <1>1, <2>1, <3>1, <3>2 DEF TakenInv
  <2> QED BY <2>2, <2>3
<1>10. CASE NetTask
  <2>1. UNCHANGED <<rx, sock, task, lost>>
    BY <1>10 DEF NetTask, Report, PrintStarts, PrintEnds, NetKeeps
  <2> QED BY <2>1 DEF TakenInv
<1> QED BY <1>1, <1>2, <1>3, <1>4, <1>5, <1>6, <1>7, <1>8, <1>9, <1>10
     DEF Next, protocolTask, netCliTask

(***************************************************************************)
(* The theorems.                                                           *)
(***************************************************************************)
LEMMA InitHolds == Init => IInv
<1> SUFFICES ASSUME Init PROVE IInv
  OBVIOUS
<1>1. TypeOK /\ "rs485" \in Ports /\ "tcp" \in Ports
  BY InitTyped, Constants
<1>2. \A p \in Ports : task[p] = Polling /\ asm[p].sLine = <<>> /\ peer[p].rest = <<>>
                      /\ peer[p].sent = 0 /\ ran[p] = [i \in Body(p) |-> 0]
  BY DEF Init
<1>3. LineInv
  BY <1>1, <1>2 DEF Init, LineInv, LineDiscipline, SendTask, Polling
<1>4. TakenInv
  BY <1>1, <1>2 DEF Init, TakenInv, Polling, NoSocket
<1>5. Ringed = <<>>
  <2>1. rx.head = 0 /\ rx.sRxTail = 0 /\ rx.ring \in [0..(Ring - 1) -> Char] /\ 0 \in 0..(Ring - 1)
    BY <1>1, ComingTyped, Constants DEF Init
  <2>2. Size(0, 0) = 0
    BY <2>1, SizeIs
  <2>3. Held(rx.ring, 0, 0) \in Seq(Char) /\ Len(Held(rx.ring, 0, 0)) = 0
    BY <2>1, <2>2, HeldTyped
  <2> HIDE DEF Held
  <2>4. Held(rx.ring, 0, 0) = <<>>
    BY <2>3
  <2> QED BY <2>1, <2>4 DEF Ringed
<1>6. \A p \in Ports : LinesOnce(p)
  <2> SUFFICES ASSUME NEW p \in Ports PROVE LinesOnce(p)
    OBVIOUS
  <2>1. task[p].at = "poll" /\ task[p].chunk = <<>> /\ InHand(p) = <<>>
    <3>1. task[p] = Polling
      BY <1>2
    <3>2. task[p].at = "poll" /\ task[p].chunk = <<>>
      BY <3>1 DEF Polling
    <3> QED BY <3>2 DEF InHand
  <2>2. Coming(p) = <<>>
    BY <1>2, <1>5, <2>1 DEF Coming, Arrived, Expected, Connected, Init, NoSocket
  <2>3. Counted(peer[p].sent, ran[p])
    <3>1. ran[p] = [i \in Body(p) |-> 0]
      BY <1>2
    <3> QED BY <3>1 DEF Counted
  <2>4. Once(<<>>, <<>>, asm[p].sPendEOL, <<>>, peer[p].sent, ran[p])
    BY <2>3, OnceEmpty
  <2> QED BY <1>2, <2>1, <2>2, <2>4 DEF LinesOnce
<1> QED BY <1>1, <1>3, <1>4, <1>6 DEF IInv, OnceInv

\* What was lost stays lost.
LEMMA LostStays ==
  ASSUME TypeOK, Next, lost
  PROVE  lost'
BY DEF Next, protocolTask, netCliTask, ProtocolProcessLine, Rs485Send, tcpFlush, NetTask,
       Hear, TalkOver, LineError, Connect, Receive, Fin, Broken, Ack, PeerKeeps, Drain, Copy,
       CloseUnleased, Listen, Recv, CloseWait, Closed, Pass, FeedByte, ChunkDone, Lock, Dispatch,
       Finish, Handoff, TaskKeeps, AssertDe, TransmitIt, Transmitted, SendKeeps, Send, Drop,
       Deadline, FlushKeeps, Report, PrintStarts, PrintEnds, NetKeeps, TxCplt

\* Every step keeps the invariant.
LEMMA NextHolds == IInv /\ Next => IInv'
<1> SUFFICES ASSUME IInv, Next PROVE IInv'
  OBVIOUS
<1>1. TypeOK /\ LineInv /\ TakenInv /\ OnceInv /\ SendTask
  BY DEF IInv, LineInv
<1>2. TypeOK' /\ LineInv'
  BY <1>1, LineKept
<1>3. TakenInv'
  BY <1>1, <1>2, TakenKept
<1>4. LinesOnce("tcp")'
  BY <1>1, <1>2, SocketOnce DEF OnceInv
<1>5. ~lost' => LinesOnce("rs485")'
  <2> SUFFICES ASSUME ~lost' PROVE LinesOnce("rs485")'
    OBVIOUS
  <2>1. ~lost
    BY <1>1, LostStays
  <2> QED BY <1>1, <1>2, <2>1, SerialOnce DEF OnceInv
<1> QED BY <1>2, <1>3, <1>4, <1>5 DEF IInv, OnceInv

\* The invariant holds in every state the program reaches.
THEOREM InvariantHolds == Spec => []IInv
<1>1. IInv /\ UNCHANGED vars => IInv'
  BY DEF IInv, TypeOK, LineInv, LineDiscipline, SendTask, TakenInv, OnceInv, LinesOnce, Coming,
         Arrived, Expected, Ringed, Connected, InHand, Body, vars
<1> QED BY InitHolds, NextHolds, <1>1, PTL DEF Spec

\* Every variable has its type, the ring is never indexed outside it, and a line never outgrows
\* its buffer.
THEOREM TypeCorrect == Spec => []TypeOK
<1>1. IInv => TypeOK
  BY DEF IInv
<1> QED BY <1>1, InvariantHolds, PTL

\* Whoever asserts DE is about to send or sending, and DE stays up for a whole burst that no print
\* overlaps.
THEOREM LineHeld == Spec => []LineDiscipline
<1>1. IInv => LineDiscipline
  BY DEF IInv, LineInv
<1> QED BY <1>1, InvariantHolds, PTL

\* No command runs more often than it was sent: on TCP whatever becomes of the connections, on
\* RS-485 as long as nothing was lost there.
THEOREM RunsOnce == Spec => []OncePerSend
<1>1. IInv => OncePerSend
  <2> SUFFICES ASSUME IInv PROVE OncePerSend
    OBVIOUS
  <2>1. \A p \in Ports : LinesOnce(p) => \A i \in Body(p) : ran[p][i] <= 1
    BY DEF IInv, TypeOK, LinesOnce, Once, Counted
  <2>2. LinesOnce("tcp") /\ (~lost => LinesOnce("rs485"))
    BY DEF IInv, OnceInv
  <2> QED BY <2>1, <2>2, Constants DEF OncePerSend
<1> QED BY <1>1, InvariantHolds, PTL

=============================================================================
