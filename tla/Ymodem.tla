------------------------------- MODULE Ymodem -------------------------------
(***************************************************************************)
(* The transfer of an image over RS-485: the host's ymodem_send            *)
(* (comms/ymodem.py) and the bootloader's ymodem_receive                   *)
(* (bootloader/src/ymodem.c).                                              *)
(*                                                                         *)
(* A packet arrives whole, garbled or not at all, an answer byte arrives   *)
(* or not.  A garbled packet that still begins with its first byte is read *)
(* to its end and answered once; of any other the receiver takes each byte *)
(* for the first of a packet (Misread), which may cancel the transfer, end *)
(* it, swallow the packets that follow or spend the sender's attempts.     *)
(*                                                                         *)
(* The receiver's time-out is the shorter one and either expires only      *)
(* while nothing is under way, except that the sender's may expire while   *)
(* the receiver erases the bank: the UART is polled, so what is sent       *)
(* meanwhile is an overrun.                                                *)
(***************************************************************************)
EXTENDS Integers, Sequences

CONSTANTS
  LastBlock,    \* data blocks of an image
  Retries,      \* sends of a block, or of EOT, until the sender gives up
  StartRetries, \* 'C's the receiver sends until it gives up
  MaxFaults,    \* losses, garbled packets, flash errors and slow erases (a bound)
  MaxDrifts     \* first bytes that are none (a bound)

ASSUME TransferAssumption ==
  /\ LastBlock \in Nat \ {0} /\ Retries \in Nat \ {0} /\ StartRetries \in Nat \ {0}
  /\ MaxFaults \in Nat /\ MaxDrifts \in Nat \ {0}

VARIABLES
  snd,    \* the sender: what it waits for, the block, its attempt
  rcv,    \* the receiver: what it waits for, the block it expects, its 'C's
  up,     \* packets on their way to the board
  down,   \* answer bytes on their way to the host
  faults, \* faults that may still happen
  adrift  \* history: how often a byte was taken for the first of a packet that is none, or the
          \* sender gave up on an answer that was yet to come

tvars == <<snd, rcv, up, down, faults, adrift>>

Off == [at |-> "off", blk |-> 0, try |-> 0]
At(s, b) == [at |-> s, blk |-> b, try |-> 1]

TransferInit ==
  /\ snd = Off /\ rcv = Off
  /\ up = <<>> /\ down = <<>>
  /\ faults = MaxFaults /\ adrift = 0

\* The packet of each block; block 0 is the header.
Packet(b) == [kind |-> "blk", blk |-> b]
Eot == [kind |-> "eot", blk |-> 0]
Null == [kind |-> "null", blk |-> 0]
Bad == [kind |-> "bad", blk |-> 0]
\* Bytes that do not begin with the first byte of a packet.
Stray == [kind |-> "stray", blk |-> 0]
Garbled(p) == IF p = Eot THEN {Stray} ELSE {Bad, Stray}

Receiving == rcv.at \notin {"off", "done", "failed"}
Sending == snd.at \notin {"off", "done", "failed"}

\* (The count stops at the bound.)
Drifts == adrift' = IF adrift < MaxDrifts THEN adrift + 1 ELSE adrift

(***************************************************************************)
(* The sender.                                                             *)
(***************************************************************************)
Transmit(p) ==
  up' = IF rcv.at = "erase" THEN <<Stray>> ELSE IF Receiving THEN Append(up, p) ELSE up
Heard(b) == down # <<>> /\ Head(down) = b /\ down' = Tail(down)
SenderKeeps == UNCHANGED <<rcv, faults>>

\* _wait_for 'C': before the header, before the first block, and before the null header.
WaitFor ==
  /\ snd.at \in {"hello", "ready", "tail"}
  /\ \/ /\ Heard("C")
        /\ \/ snd.at = "hello" /\ snd' = At("block", 0) /\ Transmit(Packet(0))
           \/ snd.at = "ready" /\ snd' = At("block", 1) /\ Transmit(Packet(1))
           \/ snd.at = "tail" /\ snd' = At("close", 0) /\ Transmit(Null)
     \/ \E b \in {"ACK", "NAK", "CAN"} : Heard(b) /\ UNCHANGED <<snd, up>>
  /\ UNCHANGED adrift /\ SenderKeeps

\* Its time-out: no 'C' is under way, and none will come (or only 'C's of a receiver that gives up).
NoC ==
  /\ snd.at \in {"hello", "ready", "tail"} /\ up = <<>>
  /\ \A k \in 1..Len(down) : down[k] # "C"
  /\ snd.at = "hello" => ~Receiving
  /\ snd' = [snd EXCEPT !.at = IF snd.at = "tail" THEN "done" ELSE "failed"]
  /\ down' = <<>>
  /\ UNCHANGED <<up, adrift>> /\ SenderKeeps

\* The next thing sent when a block is acknowledged.
Acked ==
  /\ snd.at \in {"block", "eot", "close"} /\ Heard("ACK")
  /\ CASE snd.at = "block" /\ snd.blk = 0 -> snd' = At("ready", 0) /\ UNCHANGED up
       [] snd.at = "block" /\ snd.blk \in 1..LastBlock - 1 ->
            snd' = At("block", snd.blk + 1) /\ Transmit(Packet(snd.blk + 1))
       [] snd.at = "block" /\ snd.blk = LastBlock -> snd' = At("eot", 0) /\ Transmit(Eot)
       [] snd.at = "eot" -> snd' = At("tail", 0) /\ UNCHANGED up
       [] snd.at = "close" -> snd' = At("done", 0) /\ UNCHANGED up
  /\ UNCHANGED adrift /\ SenderKeeps

\* What it waits for the answer to.
Latest ==
  CASE snd.at = "block" -> Packet(snd.blk) [] snd.at = "eot" -> Eot [] OTHER -> Null

\* (mutant: one attempt too many)
Resend_OneMore ==
  /\ snd' = IF snd.try > Retries
              THEN [snd EXCEPT !.at = IF snd.at = "close" THEN "done" ELSE "failed"]
              ELSE [snd EXCEPT !.try = @ + 1]
  /\ UNCHANGED up
\* _send_block, and the EOT loop: NAK or no answer.
Resend ==
  IF snd.try = Retries
    THEN /\ snd' = [snd EXCEPT !.at = IF snd.at = "close" THEN "done" ELSE "failed"]
         /\ UNCHANGED up
    ELSE /\ snd' = [snd EXCEPT !.try = @ + 1]
         /\ Transmit(Latest)

Naked ==
  /\ snd.at \in {"block", "eot", "close"}
  /\ Heard("NAK") \/ (snd.at = "eot" /\ Heard("CAN"))
  /\ Resend /\ UNCHANGED adrift /\ SenderKeeps

SenderTimesOut ==
  /\ snd.at \in {"block", "eot", "close"} /\ up = <<>> /\ down = <<>>
  /\ IF rcv.at = "erase" THEN faults > 0 /\ faults' = faults - 1 /\ Drifts
     ELSE UNCHANGED <<faults, adrift>>
  /\ Resend /\ UNCHANGED <<down, rcv>>

SenderCancelled ==
  /\ snd.at \in {"block", "close"} /\ Heard("CAN")
  /\ snd' = [snd EXCEPT !.at = "failed"]
  /\ UNCHANGED <<up, adrift>> /\ SenderKeeps

\* A 'C' is no answer.
Ignored ==
  /\ snd.at \in {"block", "eot", "close"} /\ Heard("C")
  /\ UNCHANGED <<snd, up, adrift>> /\ SenderKeeps

ymodem_send == WaitFor \/ NoC \/ Acked \/ Naked \/ SenderTimesOut \/ SenderCancelled \/ Ignored

(***************************************************************************)
(* The receiver.                                                           *)
(***************************************************************************)
\* Answers reach a sender that is there.
Answer(s) == down' = IF Sending THEN down \o s ELSE down
\* Nothing is under way, and nobody has an answer still to read.
Silence == up = <<>> /\ (down = <<>> \/ ~Sending)
ReceiverKeeps == UNCHANGED <<snd, adrift>>
Misreads == adrift < MaxDrifts /\ Drifts /\ UNCHANGED <<snd, faults>>
Loop(b) == [at |-> "loop", blk |-> b, try |-> 0]

\* (mutants: a garbled packet is acknowledged; a repeated block is not)
Take_AckBad(p) ==
  /\ rcv' = IF p.kind = "eot" THEN [rcv EXCEPT !.at = "eot"]
            ELSE Loop(IF p.kind = "blk" /\ p.blk = rcv.blk THEN p.blk + 1 ELSE rcv.blk)
  /\ Answer(IF p.kind = "eot" THEN <<"NAK">> ELSE <<"ACK">>)
  /\ UNCHANGED faults
Take_NakRepeated(p) ==
  /\ rcv' = IF p.kind = "eot" THEN [rcv EXCEPT !.at = "eot"]
            ELSE Loop(IF p.kind = "blk" /\ p.blk = rcv.blk THEN p.blk + 1 ELSE rcv.blk)
  /\ Answer(IF p.kind = "blk" /\ p.blk = rcv.blk THEN <<"ACK">> ELSE <<"NAK">>)
  /\ UNCHANGED faults

\* A packet in the main loop: the block that is due is programmed - the first one after an erase
\* - the one before is acknowledged again.
Take(p) ==
  IF p.kind = "blk" /\ p.blk = rcv.blk
    THEN \/ rcv' = [rcv EXCEPT !.at = "erase"] /\ p.blk = 1 /\ UNCHANGED <<down, faults>>
         \/ rcv' = Loop(p.blk + 1) /\ p.blk # 1 /\ Answer(<<"ACK">>) /\ UNCHANGED faults
         \/ rcv' = [rcv EXCEPT !.at = "failed"] /\ Answer(<<"CAN", "CAN">>)
            /\ faults > 0 /\ faults' = faults - 1
  ELSE /\ UNCHANGED faults
       /\ CASE p.kind = "eot" -> rcv' = [rcv EXCEPT !.at = "eot"] /\ Answer(<<"NAK">>)
            [] p.kind \in {"blk", "null"} /\ p.blk = rcv.blk - 1 ->
                 rcv' = Loop(rcv.blk) /\ Answer(<<"ACK">>)
            [] OTHER -> rcv' = Loop(rcv.blk) /\ Answer(<<"NAK">>)

ReceivePacket ==
  /\ rcv.at = "loop" /\ up # <<>>
  /\ Take(Head(up)) /\ up' = IF rcv'.at = "failed" THEN <<>> ELSE Tail(up)
  /\ ReceiverKeeps

\* One more byte of those that are left is taken for the first of a packet: for nothing it knows,
\* for that of a packet, which goes on past the end of this one, for CAN, or for EOT.
Misread ==
  /\ rcv.at = "loop" /\ up # <<>> /\ Head(up) = Stray
  /\ \/ Answer(<<"NAK">>) /\ UNCHANGED <<rcv, up>>
     \/ rcv' = [rcv EXCEPT !.at = "within"] /\ up' = Tail(up) /\ UNCHANGED down
     \/ rcv' = [rcv EXCEPT !.at = "failed"] /\ up' = <<>> /\ UNCHANGED down
     \/ rcv' = [rcv EXCEPT !.at = "eot"] /\ Answer(<<"NAK">>) /\ UNCHANGED up
  /\ Misreads
\* That packet ends by its time-out, or within the next one; it never has the right CRC.
Within ==
  /\ rcv.at = "within"
  /\ \/ /\ rcv' = Loop(rcv.blk) /\ Answer(<<"NAK">>)
        /\ \/ Silence /\ UNCHANGED up
           \/ up # <<>> /\ up' \in {Tail(up), <<Stray>> \o Tail(up)}
     \/ up # <<>> /\ up' = Tail(up) /\ UNCHANGED <<rcv, down>>
  /\ UNCHANGED faults /\ ReceiverKeeps

Erased ==
  /\ rcv.at = "erase"
  /\ rcv' = Loop(2) /\ Answer(<<"ACK">>)
  /\ UNCHANGED <<up, faults>> /\ ReceiverKeeps

\* The handshake: the header is answered with ACK and 'C', once.  (The host sends nothing else
\* first: an empty header, or a data block, is not modelled here.)
Handshake ==
  /\ rcv.at = "hello" /\ up # <<>> /\ Head(up) = Packet(0)
  /\ rcv' = Loop(1) /\ up' = Tail(up) /\ Answer(<<"ACK", "C">>)
  /\ UNCHANGED faults /\ ReceiverKeeps

\* Anything else, or nothing, in the handshake: the next 'C', or none is left.
NextTry ==
  IF rcv.try = StartRetries THEN rcv' = [rcv EXCEPT !.at = "failed"] /\ UNCHANGED down
  ELSE rcv' = [rcv EXCEPT !.try = @ + 1] /\ Answer(<<"C">>)
HelloAgain ==
  /\ rcv.at = "hello"
  /\ \/ Silence /\ UNCHANGED up
     \/ up # <<>> /\ Head(up) \in {Bad, Stray} /\ up' = Tail(up)
  /\ NextTry
  /\ UNCHANGED faults /\ ReceiverKeeps
\* Or each byte draws a 'C', unless it is taken for CAN.
HelloMisread ==
  /\ rcv.at = "hello" /\ up # <<>> /\ Head(up) = Stray
  /\ \/ NextTry /\ up' = IF rcv'.at = "failed" THEN <<>> ELSE up
     \/ rcv' = [rcv EXCEPT !.at = "failed"] /\ up' = <<>> /\ UNCHANGED down
  /\ Misreads

\* After the first EOT: the second ends the transfer, whatever the size in the header was; a
\* garbled one does not,
SecondEot ==
  /\ rcv.at = "eot" /\ up # <<>>
  /\ \/ Head(up) = Eot /\ rcv' = [rcv EXCEPT !.at = "tail"] /\ Answer(<<"ACK", "C">>)
     \/ Head(up) = Stray /\ rcv' = Loop(rcv.blk) /\ UNCHANGED down
  /\ up' = Tail(up)
  /\ UNCHANGED faults /\ ReceiverKeeps
\* a whole packet is read on from its second byte,
SecondLost ==
  /\ rcv.at = "eot" /\ up # <<>> /\ Head(up) \notin {Eot, Stray}
  /\ rcv' = Loop(rcv.blk) /\ up' = <<Stray>> \o Tail(up)
  /\ Drifts /\ UNCHANGED <<snd, down, faults>>
\* and a byte that is none may be taken for it.
SecondMisread ==
  /\ rcv.at = "eot" /\ up # <<>> /\ Head(up) = Stray
  /\ rcv' = [rcv EXCEPT !.at = "tail"] /\ up' \in {up, Tail(up)} /\ Answer(<<"ACK", "C">>)
  /\ Misreads

NullHeader ==
  /\ rcv.at = "tail" /\ up # <<>>
  /\ rcv' = [rcv EXCEPT !.at = "done"] /\ up' = <<>>
  /\ IF Head(up).kind \in {"blk", "null"} /\ Head(up).blk = 0
       THEN Answer(<<"ACK">>) ELSE UNCHANGED down
  /\ UNCHANGED faults /\ ReceiverKeeps

\* A second without a byte.  The main loop asks again, for ever.
ReceiverTimesOut ==
  /\ rcv.at \in {"loop", "eot", "tail"} /\ Silence
  /\ CASE rcv.at = "loop" -> Answer(<<"NAK">>) /\ UNCHANGED rcv
       [] rcv.at = "eot" -> rcv' = Loop(rcv.blk) /\ UNCHANGED down
       [] rcv.at = "tail" -> rcv' = [rcv EXCEPT !.at = "done"] /\ UNCHANGED down
  /\ UNCHANGED <<up, faults>> /\ ReceiverKeeps

ymodem_receive ==
  \/ ReceivePacket \/ Misread \/ Within \/ Erased \/ Handshake \/ HelloAgain \/ HelloMisread
  \/ SecondEot \/ SecondLost \/ SecondMisread \/ NullHeader \/ ReceiverTimesOut

(***************************************************************************)
(* The line.                                                               *)
(***************************************************************************)
LosePacket ==
  /\ faults > 0 /\ up # <<>> /\ Head(up) \notin {Bad, Stray}
  /\ \/ up' = Tail(up)
     \/ \E g \in Garbled(Head(up)) : up' = <<g>> \o Tail(up)
  /\ faults' = faults - 1
  /\ UNCHANGED <<snd, rcv, down, adrift>>
LoseAnswer ==
  /\ faults > 0 /\ down # <<>>
  /\ down' = Tail(down)
  /\ faults' = faults - 1
  /\ UNCHANGED <<snd, rcv, up, adrift>>

Transfer == ymodem_send \/ ymodem_receive \/ LosePacket \/ LoseAnswer

(***************************************************************************)
(* Properties.                                                             *)
(***************************************************************************)
Sender ==
  [at : {"off", "hello", "ready", "tail", "block", "eot", "close", "done", "failed"},
   blk : 0..LastBlock, try : 0..Retries]
Receiver ==
  [at : {"off", "hello", "loop", "within", "erase", "eot", "tail", "done", "failed"},
   blk : 0..LastBlock + 1, try : 0..StartRetries]
Packets == {Packet(b) : b \in 0..LastBlock} \cup {Eot, Null, Bad, Stray}
Answers == {"C", "ACK", "NAK", "CAN"}

TransferTypeOK ==
  /\ snd \in Sender /\ rcv \in Receiver
  /\ up \in Seq(Packets) /\ down \in Seq(Answers)
  /\ faults \in 0..MaxFaults /\ adrift \in 0..MaxDrifts

\* A transfer that either side takes for complete programmed every block, whatever was lost or
\* garbled - unless the receiver took the bytes of a packet for first bytes, or the sender gave up
\* on an answer yet to come: the size of the header is not compared.
CompleteIsWhole == adrift = 0 /\ (rcv.at = "done" \/ snd.at = "done") => rcv.blk = LastBlock + 1

\* With fewer faults than attempts, nothing ends a transfer among its data blocks but a flash
\* error - with the same exceptions.
LossesAreRecovered ==
  snd.at = "failed" /\ snd.blk > 0 /\ MaxFaults - faults < Retries /\ adrift = 0
    => rcv.at = "failed"
=============================================================================
