------------------------ MODULE StackUpdateProofs ------------------------
(***************************************************************************)
(* The theorems about StackUpdate and the transfer it is built on, for any *)
(* size of an image, any number of attempts, faults, releases, updates and *)
(* crashes.                                                                *)
(***************************************************************************)
EXTENDS StackUpdate, TLAPS

(***************************************************************************)
(* The inductive invariant.                                                *)
(***************************************************************************)
\* The packet, and the answer, that arrives next.
Next1(p) == up # <<>> /\ Head(up) = p
Says(b) == down # <<>> /\ Head(down) = b

Waits == snd.at \in {"block", "eot", "close"}
Replies ==
  {<<>>, <<"C">>, <<"ACK">>, <<"NAK">>, <<"CAN">>, <<"ACK", "C">>, <<"CAN", "CAN">>}

\* One packet, or the answer to it, is under way, and only the header and the last EOT are answered
\* with a 'C' behind the ACK.
OneWay ==
  /\ Len(up) <= 1 /\ down \in Replies
  /\ up # <<>> => down = <<>>
  /\ up # <<>> /\ Sending => Waits /\ (Next1(Bad) \/ Next1(Stray) \/ Next1(Latest))
  /\ rcv.at = "erase" => up = <<>> /\ down = <<>>
  /\ down = <<"ACK", "C">> /\ Sending => snd.at = "eot" \/ (snd.at = "block" /\ snd.blk = 0)

\* The receiver expects the block that was sent last, or the one after it if it has that one; an
\* ACK says that it has; and past the last block there is nothing it expects.
InStep ==
  /\ rcv.at = "hello" => rcv.blk = 1
  /\ rcv.at = "erase" => rcv.blk = 1 /\ (Sending => snd.at = "block" /\ snd.blk = 1)
  /\ rcv.at \in {"eot", "tail", "done"} \/ Next1(Eot) => rcv.blk = LastBlock + 1
  /\ snd.at \in {"eot", "tail", "close", "done"} => rcv.blk = LastBlock + 1
  /\ snd.at = "hello" => rcv.blk \in {0, 1}
  /\ snd.at = "ready" => rcv.blk = 1
  /\ snd.at = "block" => rcv.blk \in {snd.blk, snd.blk + 1}
  /\ snd.at = "block" /\ Says("ACK") => rcv.blk = snd.blk + 1

\* Among the data blocks the receiver is in its main loop, unless it failed; CAN says that it did.
InLoop ==
  /\ snd.at = "ready" => rcv.at \in {"loop", "failed"}
  /\ snd.at = "block" /\ Says("ACK") => rcv.at = "loop"
  /\ snd.at = "block" /\ snd.blk > 0 => rcv.at \in {"loop", "erase", "failed"}
  /\ Says("CAN") => rcv.at = "failed"

\* Every attempt at a data block but the first follows a fault, and the one under way has one
\* still to follow only if it may yet succeed.
GoesWell == Next1(Latest) \/ Says("ACK") \/ rcv.at = "erase"
Paid ==
  snd.at = "block" /\ snd.blk > 0 /\ rcv.at # "failed" =>
    /\ snd.try <= MaxFaults - faults + 1
    /\ ~GoesWell => snd.try <= MaxFaults - faults

NoBlock == snd.at \in {"off", "hello", "ready", "eot", "tail", "close"} => snd.blk = 0

\* A packet that is none is read only by a receiver that went adrift.
Afloat == rcv.at = "within" => adrift > 0

Orderly == OneWay /\ InStep /\ InLoop /\ Paid /\ LossesAreRecovered
TransferInv == NoBlock /\ Afloat /\ (adrift = 0 => Orderly)

\* The board is not receiving while a command of the flow is under way, and the flow knows the
\* bank it flashes.
FlowInv ==
  /\ pend.at \in {"info", "flash", "bank", "boot"} => board.at # "receive"
  /\ pend.at \in {"flash", "send", "bank"} => pend.bank # 0

\* No update before its image is whole has a marker, and no flash runs beside it.
StageInv ==
  ~crowded =>
    /\ MarkerNamesWhole
    /\ apply.at = "mark" => disk.image = apply.v
    /\ apply.at \in {"download", "copy", "mark"} => disk.marker = None
    /\ apply # Idle => pend = NoFlash

IInv == TypeOK /\ TransferInv /\ FlowInv /\ StageInv

(***************************************************************************)
(* Sequences.                                                              *)
(***************************************************************************)
LEMMA One ==
  ASSUME NEW S, NEW p \in S
  PROVE  /\ <<p>> \in Seq(S) /\ <<p>> # <<>> /\ Len(<<p>>) = 1
         /\ Head(<<p>>) = p /\ Tail(<<p>>) = <<>>
  OBVIOUS

\* What is left of a sequence once its head is taken.
LEMMA Rest ==
  ASSUME NEW S, NEW s \in Seq(S), s # <<>>
  PROVE  Head(s) \in S /\ Tail(s) \in Seq(S) /\ Len(Tail(s)) = Len(s) - 1
  OBVIOUS

\* Two sequences of the same set join to one.
LEMMA Joined ==
  ASSUME NEW S, NEW s \in Seq(S), NEW t \in Seq(S)
  PROVE  s \o t \in Seq(S)
  OBVIOUS

\* Two sequences of one element are equal when that element is.
LEMMA SameSeq ==
  ASSUME NEW S, NEW s \in Seq(S), NEW t \in Seq(S), Len(s) = 1, Len(t) = 1, s[1] = t[1]
  PROVE  s = t
  OBVIOUS

\* Appending, to a sequence and to the empty one.
LEMMA Added ==
  ASSUME NEW S, NEW s \in Seq(S), NEW p \in S
  PROVE  /\ Append(s, p) \in Seq(S)
         /\ s = <<>> => Append(s, p) = <<p>>
<1>1. Append(s, p) \in Seq(S) /\ <<p>> \in Seq(S)
  OBVIOUS
<1>2. ASSUME s = <<>> PROVE Append(s, p) = <<p>>
  <2>1. Len(Append(s, p)) = 1 /\ Append(s, p)[1] = p
    BY <1>2
  <2>2. Len(<<p>>) = 1 /\ <<p>>[1] = p
    OBVIOUS
  <2> QED BY <2>1, <2>2, <1>1, SameSeq
<1> QED BY <1>1, <1>2

\* The empty sequence.
LEMMA Nothing ==
  ASSUME NEW S
  PROVE  <<>> \in Seq(S) /\ \A s \in Seq(S) : <<>> \o s = s /\ (Len(s) = 0 <=> s = <<>>)
  OBVIOUS

\* Taking the only element leaves nothing.
LEMMA Last ==
  ASSUME NEW S, NEW s \in Seq(S), s # <<>>, Len(s) <= 1
  PROVE  Tail(s) = <<>>
  OBVIOUS

\* What a reply is made of, and what is left of it once its first byte is heard.
LEMMA Reply ==
  ASSUME NEW d \in Replies
  PROVE  /\ d \in Seq(Answers)
         /\ d # <<>> => /\ Tail(d) \in Replies
                        /\ Tail(d) # <<>> => \/ Head(Tail(d)) = "C" /\ Head(d) = "ACK"
                                             \/ Head(Tail(d)) = "CAN" /\ Head(d) = "CAN"
<1>1. d \in Seq(Answers)
  <2> DEFINE A == Answers
  <2>1. "C" \in A /\ "ACK" \in A /\ "NAK" \in A /\ "CAN" \in A
    BY DEF Answers
  <2> HIDE DEF A
  <2>2. <<>> \in Seq(A) /\ \A b \in A : <<b>> \in Seq(A)
    OBVIOUS
  <2>3. \A b, c \in A : <<b, c>> \in Seq(A)
    OBVIOUS
  <2>4. d \in Seq(A)
    BY <2>1, <2>2, <2>3 DEF Replies
  <2> QED BY <2>4 DEF A
<1>2. CASE d = <<>>
  BY <1>1, <1>2
<1>3. CASE d \in {<<"C">>, <<"ACK">>, <<"NAK">>, <<"CAN">>}
  <2>1. PICK b : d = <<b>>
    BY <1>3
  <2>2. Tail(d) = <<>>
    BY <2>1
  <2> QED BY <1>1, <2>2 DEF Replies
<1>4. CASE d = <<"ACK", "C">>
  <2>1. Head(d) = "ACK" /\ Tail(d) = <<"C">> /\ Head(Tail(d)) = "C"
    BY <1>4
  <2> QED BY <1>1, <2>1 DEF Replies
<1>5. CASE d = <<"CAN", "CAN">>
  <2>1. Head(d) = "CAN" /\ Tail(d) = <<"CAN">> /\ Head(Tail(d)) = "CAN"
    BY <1>5
  <2> QED BY <1>1, <2>1 DEF Replies
<1> QED BY <1>2, <1>3, <1>4, <1>5 DEF Replies

(***************************************************************************)
(* Types of the transfer.                                                  *)
(***************************************************************************)
\* What one reads off the two machines and the packets.
LEMMA Machines ==
  ASSUME TransferTypeOK
  PROVE  /\ snd.blk \in 0..LastBlock /\ snd.try \in 0..Retries
         /\ rcv.blk \in 0..LastBlock + 1 /\ rcv.try \in 0..StartRetries
         /\ LastBlock \in Nat /\ LastBlock >= 1 /\ Retries \in Nat /\ Retries >= 1
         /\ StartRetries \in Nat /\ StartRetries >= 1
         /\ MaxFaults \in Nat /\ faults \in Int
         /\ 0 \in 0..LastBlock /\ 1 \in 0..LastBlock
         /\ 1 \in 0..LastBlock + 1 /\ 2 \in 0..LastBlock + 1
  BY TransferAssumption DEF TransferTypeOK, Sender, Receiver

\* The states the steps of the two machines build.
LEMMA Built ==
  /\ Off \in Sender /\ Off \in Receiver /\ At("hello", 1) \in Receiver
  /\ \A s \in {"hello", "ready", "tail", "block", "eot", "close", "done"}, b \in 0..LastBlock :
       At(s, b) \in Sender
  /\ \A b \in 0..LastBlock + 1 : Loop(b) \in Receiver
  /\ \A s \in Sender : [s EXCEPT !.at = "done"] \in Sender /\ [s EXCEPT !.at = "failed"] \in Sender
  /\ \A s \in Sender : s.try < Retries => [s EXCEPT !.try = @ + 1] \in Sender
  /\ \A r \in Receiver, a \in {"within", "erase", "eot", "tail", "done", "failed"} :
       [r EXCEPT !.at = a] \in Receiver
  /\ \A r \in Receiver : r.try < StartRetries => [r EXCEPT !.try = @ + 1] \in Receiver
  BY TransferAssumption DEF Off, At, Loop, Sender, Receiver

\* Going adrift is counted, up to the bound.
LEMMA Drifted ==
  ASSUME TransferTypeOK, Drifts
  PROVE  adrift' \in 1..MaxDrifts
  BY TransferAssumption DEF TransferTypeOK, Drifts

\* Every packet the sender makes, or the line garbles, is a packet.
LEMMA PacketsTyped ==
  /\ \A b \in 0..LastBlock : Packet(b) \in Packets
  /\ Eot \in Packets /\ Null \in Packets /\ Bad \in Packets /\ Stray \in Packets
  /\ \A p \in Packets : Garbled(p) \subseteq {Bad, Stray}
  BY DEF Packets, Garbled

\* The kind of a packet, and its block, are what it was made with.
LEMMA Kinds ==
  /\ \A b : Packet(b).kind = "blk" /\ Packet(b).blk = b
  /\ Eot.kind = "eot" /\ Null.kind = "null" /\ Bad.kind = "bad" /\ Stray.kind = "stray"
  /\ Eot.blk = 0 /\ Null.blk = 0 /\ Bad.blk = 0 /\ Stray.blk = 0
  BY DEF Packet, Eot, Null, Bad, Stray

\* A packet is known by its kind and its block.
LEMMA KindOf ==
  ASSUME NEW p \in Packets
  PROVE  /\ p.blk \in 0..LastBlock
         /\ p.kind = "blk" => p = Packet(p.blk)
         /\ p.kind = "eot" => p = Eot
  BY Kinds, TransferAssumption DEF Packets

\* What the sender would repeat is a packet.
LEMMA LatestTyped == TransferTypeOK => Latest \in Packets
  BY Machines, PacketsTyped DEF Latest

\* Sending keeps the line to the receiver typed,
LEMMA TransmitTyped ==
  ASSUME TransferTypeOK, NEW p \in Packets, Transmit(p)
  PROVE  up' \in Seq(Packets)
  BY PacketsTyped, One, Added DEF TransferTypeOK, Transmit

\* so does hearing the line to the sender,
LEMMA HeardTyped ==
  ASSUME TransferTypeOK, NEW b, Heard(b)
  PROVE  down' \in Seq(Answers)
  BY Rest DEF TransferTypeOK, Heard

\* and so does answering on it.
LEMMA AnswerTyped ==
  ASSUME TransferTypeOK, NEW s \in Replies, Answer(s)
  PROVE  down' \in Seq(Answers)
  BY Reply, Joined DEF TransferTypeOK, Answer

\* Another attempt, or the end of them.
LEMMA ResendTyped ==
  ASSUME TransferTypeOK, Resend
  PROVE  snd' \in Sender /\ up' \in Seq(Packets)
<1>1. CASE snd.try = Retries
  BY <1>1, Built DEF Resend, TransferTypeOK
<1>2. CASE snd.try # Retries
  <2>1. snd.try < Retries
    BY <1>2, Machines
  <2>2. snd' = [snd EXCEPT !.try = @ + 1] /\ Transmit(Latest)
    BY <1>2 DEF Resend
  <2> QED BY <2>1, <2>2, Built, LatestTyped, TransmitTyped DEF TransferTypeOK
<1> QED BY <1>1, <1>2

\* What follows an acknowledged packet.
LEMMA AckedGoes ==
  ASSUME TransferTypeOK, Acked
  PROVE  \/ snd.at = "block" /\ snd.blk = 0 /\ snd' = At("ready", 0) /\ up' = up
         \/ /\ snd.at = "block" /\ snd.blk \in 1..LastBlock - 1
            /\ snd' = At("block", snd.blk + 1) /\ Transmit(Packet(snd.blk + 1))
         \/ snd.at = "block" /\ snd.blk = LastBlock /\ snd' = At("eot", 0) /\ Transmit(Eot)
         \/ snd.at = "eot" /\ snd' = At("tail", 0) /\ up' = up
         \/ snd.at = "close" /\ snd' = At("done", 0) /\ up' = up
<1>1. snd.blk = 0 \/ snd.blk \in 1..LastBlock - 1 \/ snd.blk = LastBlock
  BY Machines
<1>2. CASE snd.at = "block" /\ snd.blk = 0
  <2>1. snd.blk \notin 1..LastBlock - 1 /\ snd.blk # LastBlock
    BY <1>2, Machines
  <2> QED BY <1>2, <2>1 DEF Acked
<1>3. CASE snd.at = "block" /\ snd.blk \in 1..LastBlock - 1
  <2>1. snd.blk # 0 /\ snd.blk # LastBlock
    BY <1>3, Machines
  <2> QED BY <1>3, <2>1 DEF Acked
<1>4. CASE snd.at = "block" /\ snd.blk = LastBlock
  <2>1. snd.blk # 0 /\ snd.blk \notin 1..LastBlock - 1
    BY <1>4, Machines
  <2> QED BY <1>4, <2>1 DEF Acked
<1>5. CASE snd.at = "eot"
  BY <1>5 DEF Acked
<1>6. CASE snd.at = "close"
  BY <1>6 DEF Acked
<1> QED BY <1>1, <1>2, <1>3, <1>4, <1>5, <1>6 DEF Acked

\* Every step of the sender keeps the types,
LEMMA SendTyped ==
  ASSUME TransferTypeOK, ymodem_send
  PROVE  TransferTypeOK'
<1>1. CASE WaitFor
  <2>1. down' \in Seq(Answers)
    BY <1>1, HeardTyped DEF WaitFor
  <2>2. CASE snd.at = "hello" /\ snd' = At("block", 0) /\ Transmit(Packet(0))
    <3>1. snd' \in Sender /\ up' \in Seq(Packets)
      BY <2>2, Built, PacketsTyped, TransmitTyped, Machines
    <3> QED BY <1>1, <2>1, <3>1 DEF WaitFor, SenderKeeps, TransferTypeOK
  <2>3. CASE snd.at = "ready" /\ snd' = At("block", 1) /\ Transmit(Packet(1))
    <3>1. snd' \in Sender /\ up' \in Seq(Packets)
      BY <2>3, Built, PacketsTyped, TransmitTyped, Machines
    <3> QED BY <1>1, <2>1, <3>1 DEF WaitFor, SenderKeeps, TransferTypeOK
  <2>4. CASE snd.at = "tail" /\ snd' = At("close", 0) /\ Transmit(Null)
    <3>1. snd' \in Sender /\ up' \in Seq(Packets)
      BY <2>4, Built, PacketsTyped, TransmitTyped, Machines
    <3> QED BY <1>1, <2>1, <3>1 DEF WaitFor, SenderKeeps, TransferTypeOK
  <2>5. CASE UNCHANGED <<snd, up>>
    BY <1>1, <2>1, <2>5 DEF WaitFor, SenderKeeps, TransferTypeOK
  <2> QED BY <1>1, <2>2, <2>3, <2>4, <2>5 DEF WaitFor
<1>2. CASE NoC
  BY <1>2, Built, Nothing DEF NoC, SenderKeeps, TransferTypeOK
<1>3. CASE Acked
  <2>1. down' \in Seq(Answers)
    BY <1>3, HeardTyped DEF Acked
  <2>2. snd' \in Sender /\ up' \in Seq(Packets)
    <3>1. CASE \E c \in {"ready", "tail", "done"} : snd' = At(c, 0) /\ up' = up
      BY <3>1, Built, Machines DEF TransferTypeOK
    <3>2. CASE snd.blk \in 1..LastBlock - 1 /\ snd' = At("block", snd.blk + 1)
               /\ Transmit(Packet(snd.blk + 1))
      <4>1. snd.blk + 1 \in 0..LastBlock
        BY <3>2, Machines
      <4> QED BY <3>2, <4>1, Built, PacketsTyped, TransmitTyped
    <3>3. CASE snd' = At("eot", 0) /\ Transmit(Eot)
      BY <3>3, Built, Machines, PacketsTyped, TransmitTyped
    <3> QED BY <1>3, <3>1, <3>2, <3>3, AckedGoes
  <2> QED BY <1>3, <2>1, <2>2 DEF Acked, SenderKeeps, TransferTypeOK
<1>4. CASE Naked
  BY <1>4, HeardTyped, ResendTyped DEF Naked, SenderKeeps, TransferTypeOK
<1>5. CASE SenderTimesOut
  <2>1. faults' \in 0..MaxFaults
    BY <1>5, Machines DEF SenderTimesOut, TransferTypeOK
  <2>2. adrift' \in 0..MaxDrifts
    BY <1>5, Drifted DEF SenderTimesOut, TransferTypeOK
  <2> QED BY <1>5, <2>1, <2>2, ResendTyped DEF SenderTimesOut, TransferTypeOK
<1>6. CASE SenderCancelled
  BY <1>6, HeardTyped, Built DEF SenderCancelled, SenderKeeps, TransferTypeOK
<1>7. CASE Ignored
  BY <1>7, HeardTyped DEF Ignored, SenderKeeps, TransferTypeOK
<1> QED BY <1>1, <1>2, <1>3, <1>4, <1>5, <1>6, <1>7 DEF ymodem_send

\* A packet that the receiver has, and has dealt with.
LEMMA TakeTyped ==
  ASSUME TransferTypeOK, NEW p \in Packets, Take(p)
  PROVE  rcv' \in Receiver /\ down' \in Seq(Answers) /\ faults' \in 0..MaxFaults
<1>1. p.blk \in 0..LastBlock
  BY KindOf
<1>2. <<"ACK">> \in Replies /\ <<"NAK">> \in Replies /\ <<"CAN", "CAN">> \in Replies
  BY DEF Replies
<1>3. p.blk + 1 \in 0..LastBlock + 1
  BY <1>1, Machines
<1>4. CASE p.kind = "blk" /\ p.blk = rcv.blk
  <2>1. CASE rcv' = [rcv EXCEPT !.at = "erase"] /\ UNCHANGED <<down, faults>>
    BY <2>1, Built DEF TransferTypeOK
  <2>2. CASE rcv' = Loop(p.blk + 1) /\ Answer(<<"ACK">>) /\ UNCHANGED faults
    BY <2>2, <1>2, <1>3, Built, AnswerTyped DEF TransferTypeOK
  <2>3. CASE rcv' = [rcv EXCEPT !.at = "failed"] /\ Answer(<<"CAN", "CAN">>)
             /\ faults > 0 /\ faults' = faults - 1
    <3>1. faults' \in 0..MaxFaults
      BY <2>3, Machines DEF TransferTypeOK
    <3>2. rcv' \in Receiver
      BY <2>3, Built DEF TransferTypeOK
    <3> QED BY <2>3, <3>1, <3>2, <1>2, AnswerTyped
  <2> QED BY <1>4, <2>1, <2>2, <2>3 DEF Take
<1>5. CASE ~(p.kind = "blk" /\ p.blk = rcv.blk)
  <2>1. UNCHANGED faults /\ rcv' \in {[rcv EXCEPT !.at = "eot"], Loop(rcv.blk)}
        /\ (Answer(<<"ACK">>) \/ Answer(<<"NAK">>))
    BY <1>5 DEF Take
  <2> QED BY <2>1, <1>2, Built, AnswerTyped, Machines DEF TransferTypeOK
<1> QED BY <1>4, <1>5

\* so does every step of the receiver,
LEMMA ReceiveTyped ==
  ASSUME TransferTypeOK, ymodem_receive
  PROVE  TransferTypeOK'
<1> DEFINE R == {<<"ACK">>, <<"NAK">>, <<"C">>, <<"ACK", "C">>}
<1>a. R \subseteq Replies
  BY DEF Replies
<1>b. <<"ACK">> \in R /\ <<"NAK">> \in R /\ <<"C">> \in R /\ <<"ACK", "C">> \in R
  OBVIOUS
<1> HIDE DEF R
<1>c. up # <<>> => Head(up) \in Packets /\ Tail(up) \in Seq(Packets)
  BY Rest DEF TransferTypeOK
<1>d. \A s \in R : Answer(s) => down' \in Seq(Answers)
  BY <1>a, AnswerTyped
<1>e. <<>> \in Seq(Packets) /\ (up # <<>> => <<Stray>> \o Tail(up) \in Seq(Packets))
  BY <1>c, PacketsTyped, One, Joined, Nothing
<1>f. Misreads => adrift' \in 0..MaxDrifts /\ snd' = snd /\ faults' = faults
  BY Drifted DEF Misreads
<1>1. CASE ReceivePacket
  BY <1>1, <1>c, <1>e, TakeTyped DEF ReceivePacket, ReceiverKeeps, TransferTypeOK
<1>2. CASE Erased
  <2>1. rcv' \in Receiver
    BY <1>2, Built, Machines DEF Erased
  <2> QED BY <1>2, <1>b, <1>d, <2>1 DEF Erased, ReceiverKeeps, TransferTypeOK
<1>3. CASE Handshake
  <2>1. rcv' \in Receiver
    BY <1>3, Built, Machines DEF Handshake
  <2> QED BY <1>3, <1>b, <1>c, <1>d, <2>1 DEF Handshake, ReceiverKeeps, TransferTypeOK
<1>g. NextTry => rcv' \in Receiver /\ down' \in Seq(Answers)
  <2>1. CASE rcv.try = StartRetries
    BY <2>1, Built DEF NextTry, TransferTypeOK
  <2>2. CASE rcv.try # StartRetries
    <3>1. rcv.try < StartRetries
      BY <2>2, Machines
    <3> QED BY <1>b, <1>d, <2>2, <3>1, Built DEF NextTry, TransferTypeOK
  <2> QED BY <2>1, <2>2
<1>4. CASE HelloAgain
  <2>1. up' \in Seq(Packets)
    BY <1>4, <1>c DEF HelloAgain, TransferTypeOK
  <2> QED BY <1>4, <1>g, <2>1 DEF HelloAgain, ReceiverKeeps, TransferTypeOK
<1>5. CASE HelloMisread
  <2>1. (NextTry \/ (rcv' = [rcv EXCEPT !.at = "failed"] /\ UNCHANGED down)) /\ up' \in {<<>>, up}
    BY <1>5 DEF HelloMisread
  <2>2. rcv' \in Receiver /\ down' \in Seq(Answers)
    BY <1>g, <2>1, Built DEF TransferTypeOK
  <2>3. up' \in Seq(Packets)
    BY <1>e, <2>1 DEF TransferTypeOK
  <2> QED BY <1>5, <1>f, <2>2, <2>3 DEF HelloMisread, TransferTypeOK
<1>6. CASE Misread
  <2>1. rcv' \in Receiver
    BY <1>6, Built DEF Misread, TransferTypeOK
  <2>2. up' \in Seq(Packets)
    BY <1>6, <1>c, <1>e DEF Misread, TransferTypeOK
  <2>3. down' \in Seq(Answers)
    BY <1>6, <1>b, <1>d DEF Misread, TransferTypeOK
  <2> QED BY <1>6, <1>f, <2>1, <2>2, <2>3 DEF Misread, TransferTypeOK
<1>7. CASE Within
  <2>1. rcv' \in Receiver
    BY <1>7, Built, Machines DEF Within, TransferTypeOK
  <2>2. up' \in Seq(Packets)
    BY <1>7, <1>c, <1>e DEF Within, TransferTypeOK
  <2>3. down' \in Seq(Answers)
    BY <1>7, <1>b, <1>d DEF Within, TransferTypeOK
  <2> QED BY <1>7, <2>1, <2>2, <2>3 DEF Within, ReceiverKeeps, TransferTypeOK
<1>8. CASE SecondEot
  <2>1. rcv' \in Receiver
    BY <1>8, Built, Machines DEF SecondEot, TransferTypeOK
  <2>2. down' \in Seq(Answers)
    BY <1>8, <1>b, <1>d DEF SecondEot, TransferTypeOK
  <2> QED BY <1>8, <1>c, <2>1, <2>2 DEF SecondEot, ReceiverKeeps, TransferTypeOK
<1>9. CASE SecondLost
  <2>1. rcv' \in Receiver /\ adrift' \in 0..MaxDrifts
    BY <1>9, Built, Machines, Drifted DEF SecondLost
  <2> QED BY <1>9, <1>e, <2>1 DEF SecondLost, TransferTypeOK
<1>10. CASE SecondMisread
  <2>1. rcv' \in Receiver
    BY <1>10, Built DEF SecondMisread, TransferTypeOK
  <2> QED BY <1>10, <1>b, <1>c, <1>d, <1>f, <2>1 DEF SecondMisread, TransferTypeOK
<1>11. CASE NullHeader
  BY <1>11, <1>b, <1>d, <1>e, Built DEF NullHeader, ReceiverKeeps, TransferTypeOK
<1>12. CASE ReceiverTimesOut
  BY <1>12, <1>b, <1>d, Built, Machines DEF ReceiverTimesOut, ReceiverKeeps, TransferTypeOK
<1> QED BY <1>1, <1>2, <1>3, <1>4, <1>5, <1>6, <1>7, <1>8, <1>9, <1>10, <1>11, <1>12
       DEF ymodem_receive

\* and so does every step of a transfer.
LEMMA TransferTyped ==
  ASSUME TransferTypeOK, Transfer
  PROVE  TransferTypeOK'
<1>1. CASE LosePacket
  <2>1. Head(up) \in Packets /\ Tail(up) \in Seq(Packets)
    BY <1>1, Rest DEF LosePacket, TransferTypeOK
  <2>2. \A g \in {Bad, Stray} : <<g>> \o Tail(up) \in Seq(Packets)
    BY <2>1, PacketsTyped, One, Joined
  <2>3. up' \in Seq(Packets)
    BY <1>1, <2>1, <2>2, PacketsTyped DEF LosePacket
  <2> QED BY <1>1, <2>3, Machines DEF LosePacket, TransferTypeOK
<1>2. CASE LoseAnswer
  BY <1>2, Rest, Machines DEF LoseAnswer, TransferTypeOK
<1> QED BY <1>1, <1>2, SendTyped, ReceiveTyped DEF Transfer

(***************************************************************************)
(* The sender's steps.                                                     *)
(***************************************************************************)
LEMMA MadeAt ==
  /\ \A s, b : At(s, b).at = s /\ At(s, b).blk = b /\ At(s, b).try = 1
  /\ \A b : Loop(b).at = "loop" /\ Loop(b).blk = b
  /\ Off.at = "off" /\ Off.blk = 0
  BY DEF At, Loop, Off

\* A change of one field of a machine.
LEMMA Moved ==
  /\ \A a : \A s \in Sender :
       LET t == [s EXCEPT !.at = a] IN t.at = a /\ t.blk = s.blk /\ t.try = s.try
  /\ \A s \in Sender :
       LET t == [s EXCEPT !.try = @ + 1] IN t.at = s.at /\ t.blk = s.blk /\ t.try = s.try + 1
  /\ \A a : \A r \in Receiver : LET t == [r EXCEPT !.at = a] IN t.at = a /\ t.blk = r.blk
  /\ \A r \in Receiver : LET t == [r EXCEPT !.try = @ + 1] IN t.at = r.at /\ t.blk = r.blk
  BY DEF Sender, Receiver

\* The last attempt failed: the sender stops, except when it only closes the session.
LEMMA GivesUp ==
  ASSUME TransferTypeOK, Resend, snd.try = Retries
  PROVE  up' = up /\ snd'.blk = snd.blk /\ snd'.at = IF snd.at = "close" THEN "done" ELSE "failed"
<1> DEFINE a == IF snd.at = "close" THEN "done" ELSE "failed"
<1>1. up' = up /\ snd' = [snd EXCEPT !.at = a]
  BY DEF Resend
<1> HIDE DEF a
<1>2. snd'.at = a /\ snd'.blk = snd.blk
  BY <1>1, Moved DEF TransferTypeOK
<1> QED BY <1>1, <1>2 DEF a

\* Hearing an answer takes it off the line; only an ACK, or the first of two CANs, may leave one.
LEMMA Hears ==
  ASSUME TransferTypeOK, OneWay, NEW b, Heard(b)
  PROVE  /\ up = <<>> /\ Says(b) /\ rcv.at # "erase"
         /\ down' \in Replies
         /\ ~Says("ACK")' /\ (Says("CAN")' => b = "CAN")
         /\ down' # <<>> => b = "CAN" \/ (b = "ACK" /\ down = <<"ACK", "C">>)
<1>1. down # <<>> /\ Head(down) = b /\ down' = Tail(down)
  BY DEF Heard
<1>2. up = <<>> /\ rcv.at # "erase" /\ down \in Replies
  BY <1>1 DEF OneWay
<1>3. down' \in Replies /\ (down' # <<>> => \/ Head(down') = "C" /\ b = "ACK"
                                            \/ Head(down') = "CAN" /\ b = "CAN")
  BY <1>1, <1>2, Reply
<1>4. down' # <<>> => b = "CAN" \/ down = <<"ACK", "C">>
  <2>1. \A c : down = <<c>> => down' = <<>>
    BY <1>1
  <2>2. down = <<"CAN", "CAN">> => b = "CAN"
    BY <1>1
  <2> QED BY <1>1, <1>2, <2>1, <2>2 DEF Replies
<1> QED BY <1>1, <1>2, <1>3, <1>4 DEF Says

\* A packet that is sent arrives, if anybody receives.
LEMMA Sends ==
  ASSUME up = <<>>, rcv.at # "erase", NEW p \in Packets, Transmit(p)
  PROVE  /\ Len(up') <= 1
         /\ up' # <<>> => Next1(p)'
         /\ Receiving => Next1(p)'
<1>1. Append(up, p) = <<p>>
  <2>1. up \in Seq(Packets)
    BY Nothing
  <2> QED BY <2>1, Added
<1>2. Len(<<>>) = 0
  OBVIOUS
<1> QED BY <1>1, <1>2, One DEF Transmit, Next1

\* The blocks are counted only while they are sent.
LEMMA NoBlockKept ==
  ASSUME TransferTypeOK, NoBlock, ymodem_send
  PROVE  NoBlock'
<1>1. CASE WaitFor
  BY <1>1, MadeAt DEF WaitFor, NoBlock
<1>2. CASE NoC
  BY <1>2, Moved DEF NoC, NoBlock, TransferTypeOK
<1>3. CASE Acked
  BY <1>3, MadeAt, AckedGoes DEF NoBlock
<1>4. CASE Resend /\ Waits
  <2>1. CASE snd.try = Retries
    BY <1>4, <2>1, GivesUp DEF Resend, NoBlock, Waits
  <2>2. CASE snd.try # Retries
    <3>1. snd'.at = snd.at /\ snd'.blk = snd.blk
      BY <1>4, <2>2, Moved DEF Resend, TransferTypeOK
    <3> QED BY <3>1 DEF NoBlock
  <2> QED BY <2>1, <2>2
<1>5. CASE SenderCancelled
  BY <1>5, Moved DEF SenderCancelled, NoBlock, TransferTypeOK
<1>6. CASE Ignored
  BY <1>6 DEF Ignored, NoBlock
<1> QED BY <1>1, <1>2, <1>3, <1>4, <1>5, <1>6
       DEF ymodem_send, Naked, SenderTimesOut, Waits

\* The sender hears what it waits for, or something else before it.
LEMMA WaitForKept ==
  ASSUME TransferTypeOK, TransferTypeOK', NoBlock, Orderly, WaitFor
  PROVE  Orderly'
<1> USE DEF Orderly
<1>a. rcv' = rcv /\ faults' = faults /\ adrift' = adrift /\ snd.at \in {"hello", "ready", "tail"}
  BY DEF WaitFor, SenderKeeps
<1>1. ASSUME NEW b \in {"ACK", "NAK", "CAN"}, Heard(b), UNCHANGED <<snd, up>>
      PROVE  Orderly'
  <2>1. /\ up = <<>> /\ Says(b) /\ rcv.at # "erase" /\ down' \in Replies
        /\ ~Says("ACK")' /\ (Says("CAN")' => b = "CAN")
        /\ down' # <<>> => b = "CAN" \/ (b = "ACK" /\ down = <<"ACK", "C">>)
    BY <1>1, Hears
  <2>2. ~(down = <<"ACK", "C">>)
    BY <1>a DEF OneWay, Sending
  <2>3. down' # <<"ACK", "C">>
    BY <2>1 DEF Says
  <2>4. OneWay'
    BY <1>1, <1>a, <2>1, <2>3 DEF OneWay, Sending, Waits, Next1, Latest
  <2>5. InStep'
    BY <1>1, <1>a, <2>1 DEF InStep, Sending, Next1
  <2>6. InLoop'
    BY <1>1, <1>a, <2>1 DEF InLoop
  <2>7. Paid' /\ LossesAreRecovered'
    BY <1>1, <1>a DEF Paid, LossesAreRecovered
  <2> QED BY <2>4, <2>5, <2>6, <2>7
<1>2. ASSUME Heard("C"), NEW p \in Packets, Transmit(p), NEW b \in 0..LastBlock, NEW a,
             snd' = At(a, b),
             \/ snd.at = "hello" /\ a = "block" /\ b = 0 /\ p = Packet(0)
             \/ snd.at = "ready" /\ a = "block" /\ b = 1 /\ p = Packet(1)
             \/ snd.at = "tail" /\ a = "close" /\ b = 0 /\ p = Null
      PROVE  Orderly'
  <2>1. up = <<>> /\ Says("C") /\ rcv.at # "erase" /\ down' = <<>>
    BY <1>2, Hears
  <2>2. snd'.at = a /\ snd'.blk = b /\ snd'.try = 1
    BY <1>2, MadeAt
  <2>3. Len(up') <= 1 /\ (up' # <<>> => Next1(p)') /\ (Receiving => Next1(p)')
    BY <1>2, <2>1, Sends
  <2>4. Latest' = p
    BY <1>2, <2>2 DEF Latest
  <2>5. down' \in Replies /\ ~Says("ACK")' /\ ~Says("CAN")' /\ down' # <<"ACK", "C">>
    BY <2>1 DEF Replies, Says
  <2>6. OneWay'
    BY <1>2, <1>a, <2>1, <2>2, <2>3, <2>4, <2>5 DEF OneWay, Sending, Waits, Next1
  <2>7. ~Next1(Eot)'
    BY <1>2, <2>3, Kinds DEF Next1
  <2>8. InStep'
    BY <1>2, <1>a, <2>1, <2>2, <2>5, <2>7, Machines DEF InStep, Sending
  <2>9. InLoop'
    BY <1>2, <1>a, <2>2, <2>5 DEF InLoop
  <2>10. Paid' /\ LossesAreRecovered'
    <3>1. snd'.blk > 0 => snd.at = "ready"
      BY <1>2, <2>2
    <3>2. snd'.blk > 0 /\ rcv.at # "failed" => Next1(Latest)'
      BY <3>1, <2>3, <2>4 DEF InLoop, Receiving
    <3>3. 1 <= MaxFaults - faults + 1
      BY Machines DEF TransferTypeOK
    <3> QED BY <1>a, <1>2, <2>2, <3>2, <3>3 DEF Paid, LossesAreRecovered, GoesWell
  <2> QED BY <2>6, <2>8, <2>9, <2>10
<1>3. CASE Heard("C") /\ snd.at = "hello" /\ snd' = At("block", 0) /\ Transmit(Packet(0))
  BY <1>3, <1>2, Machines, PacketsTyped
<1>4. CASE Heard("C") /\ snd.at = "ready" /\ snd' = At("block", 1) /\ Transmit(Packet(1))
  BY <1>4, <1>2, Machines, PacketsTyped
<1>5. CASE Heard("C") /\ snd.at = "tail" /\ snd' = At("close", 0) /\ Transmit(Null)
  BY <1>5, <1>2, Machines, PacketsTyped
<1> QED BY <1>1, <1>3, <1>4, <1>5 DEF WaitFor

\* The sender gives up waiting for a 'C'.
LEMMA NoCKept ==
  ASSUME TransferTypeOK, TransferTypeOK', NoBlock, Orderly, NoC
  PROVE  Orderly'
<1> USE DEF Orderly
<1>1. rcv' = rcv /\ faults' = faults /\ adrift' = adrift /\ up' = <<>> /\ up = <<>> /\ down' = <<>>
  BY DEF NoC, SenderKeeps
<1>2. snd.at \in {"hello", "ready", "tail"} /\ snd.blk = 0
  BY DEF NoC, NoBlock
<1>3. /\ snd' = [snd EXCEPT !.at = IF snd.at = "tail" THEN "done" ELSE "failed"]
      /\ snd'.at = IF snd.at = "tail" THEN "done" ELSE "failed"
      /\ snd'.blk = 0
  BY <1>2, Moved DEF NoC, TransferTypeOK
<1>4. Len(<<>>) = 0 /\ <<>> \in Replies /\ <<>> # <<"ACK", "C">>
  BY DEF Replies
<1>5. OneWay'
  BY <1>1, <1>4 DEF OneWay
<1>6. ~Says("ACK")' /\ ~Says("CAN")' /\ ~Next1(Eot)'
  BY <1>1 DEF Says, Next1
<1>7. InStep'
  BY <1>1, <1>2, <1>3, <1>6 DEF InStep, Sending
<1>8. InLoop' /\ Paid' /\ LossesAreRecovered'
  BY <1>1, <1>2, <1>3, <1>6 DEF InLoop, Paid, LossesAreRecovered
<1> QED BY <1>5, <1>7, <1>8

\* An ACK answers the block that was sent, so the next one is the block expected.
LEMMA AckedKept ==
  ASSUME TransferTypeOK, TransferTypeOK', NoBlock, Orderly, Acked
  PROVE  Orderly'
<1> USE DEF Orderly
<1>1. rcv' = rcv /\ faults' = faults /\ adrift' = adrift
  BY DEF Acked, SenderKeeps
<1>2. /\ up = <<>> /\ Says("ACK") /\ rcv.at # "erase" /\ down' \in Replies
      /\ ~Says("ACK")' /\ ~Says("CAN")'
      /\ down' # <<>> => down = <<"ACK", "C">>
  BY Hears DEF Acked
<1>3. down' # <<"ACK", "C">>
  BY <1>2 DEF Says
<1>4. Len(<<>>) = 0
  OBVIOUS
<1>5. ASSUME NEW a \in {"ready", "tail", "done"}, snd' = At(a, 0), up' = up,
             \/ snd.at = "block" /\ snd.blk = 0 /\ a = "ready"
             \/ snd.at = "eot" /\ a = "tail"
             \/ snd.at = "close" /\ a = "done"
      PROVE  Orderly'
  <2>1. snd'.at = a /\ snd'.blk = 0
    BY <1>5, MadeAt
  <2>2. OneWay'
    BY <1>1, <1>2, <1>3, <1>4, <1>5, <2>1 DEF OneWay
  <2>3. ~Next1(Eot)'
    BY <1>2, <1>5 DEF Next1
  <2>4. InStep'
    BY <1>1, <1>2, <1>5, <2>1, <2>3 DEF InStep, Sending
  <2>5. InLoop' /\ Paid' /\ LossesAreRecovered'
    BY <1>1, <1>2, <1>5, <2>1 DEF InLoop, Paid, LossesAreRecovered
  <2> QED BY <2>2, <2>4, <2>5
<1>6. ASSUME NEW b \in 0..LastBlock, NEW a \in {"block", "eot"}, snd' = At(a, b),
             NEW p \in Packets, Transmit(p), snd.at = "block", snd.blk > 0, 
             \/ a = "block" /\ b = snd.blk + 1 /\ p = Packet(b)
             \/ a = "eot" /\ b = 0 /\ snd.blk = LastBlock /\ p = Eot
      PROVE  Orderly'
  <2>1. snd'.at = a /\ snd'.blk = b /\ snd'.try = 1
    BY <1>6, MadeAt
  <2>2. Len(up') <= 1 /\ (up' # <<>> => Next1(p)') /\ (Receiving => Next1(p)')
    BY <1>2, <1>6, Sends
  <2>3. Latest' = p
    BY <1>6, <2>1 DEF Latest
  <2>4. down' = <<>>
    <3>1. Sending /\ snd.at # "eot" /\ ~(snd.blk = 0)
      BY <1>6, Machines DEF Sending
    <3> QED BY <3>1, <1>2 DEF OneWay
  <2>5. OneWay'
    BY <1>1, <1>2, <1>3, <1>6, <2>1, <2>2, <2>3, <2>4 DEF OneWay, Sending, Waits, Next1
  <2>6. rcv.blk = snd.blk + 1 /\ rcv.at = "loop"
    BY <1>2, <1>6 DEF InStep, InLoop
  <2>7. Next1(Eot)' => snd.blk = LastBlock
    BY <1>6, <2>2, Kinds DEF Next1
  <2>8. InStep'
    BY <1>1, <1>2, <1>6, <2>1, <2>6, <2>7, Machines DEF InStep
  <2>9. InLoop'
    BY <1>1, <1>2, <2>1, <1>6, <2>6 DEF InLoop
  <2>10. Paid' /\ LossesAreRecovered'
    <3>1. GoesWell'
      BY <2>2, <2>3, <2>6 DEF GoesWell, Receiving
    <3>2. 1 <= MaxFaults - faults + 1
      BY Machines DEF TransferTypeOK
    <3> QED BY <1>1, <1>6, <2>1, <3>1, <3>2 DEF Paid, LossesAreRecovered
  <2> QED BY <2>5, <2>8, <2>9, <2>10
<1>7. CASE snd.at = "block" /\ snd.blk \in 1..LastBlock - 1 /\ snd' = At("block", snd.blk + 1)
           /\ Transmit(Packet(snd.blk + 1))
  <2>1. snd.blk + 1 \in 0..LastBlock /\ snd.blk > 0
    BY <1>7, Machines
  <2>2. Packet(snd.blk + 1) \in Packets
    BY <2>1, PacketsTyped
  <2> QED BY <1>6, <1>7, <2>1, <2>2
<1>8. CASE snd.at = "block" /\ snd.blk = LastBlock /\ snd' = At("eot", 0) /\ Transmit(Eot)
  <2>1. snd.blk > 0 /\ 0 \in 0..LastBlock /\ Eot \in Packets
    BY <1>8, Machines, PacketsTyped
  <2> QED BY <1>6, <1>8, <2>1
<1>9. (\E a \in {"ready", "tail", "done"} : snd' = At(a, 0) /\ up' = up /\
             (\/ snd.at = "block" /\ snd.blk = 0 /\ a = "ready"
              \/ snd.at = "eot" /\ a = "tail"
              \/ snd.at = "close" /\ a = "done")) => Orderly'
  BY <1>5
<1> QED BY <1>7, <1>8, <1>9, AckedGoes

\* Another attempt, where the one before it went wrong.
LEMMA ResendKept ==
  ASSUME TransferTypeOK, TransferTypeOK', NoBlock, Orderly, Resend, Waits, up = <<>>,
         rcv.at # "erase", ~GoesWell, rcv' = rcv, faults' = faults, adrift' = adrift,
         down' \in Replies, ~Says("ACK")', Says("CAN")' => rcv.at = "failed",
         down' # <<>> => rcv.at = "failed", down' # <<"ACK", "C">>
  PROVE  Orderly'
<1> USE DEF Orderly
<1>1. CASE snd.try = Retries
  <2>1. up' = up /\ snd'.blk = snd.blk /\ snd'.at = IF snd.at = "close" THEN "done" ELSE "failed"
    BY <1>1, GivesUp DEF Resend
  <2>2. Len(<<>>) = 0
    OBVIOUS
  <2>3. OneWay' /\ ~Next1(Eot)'
    BY <2>1, <2>2 DEF OneWay, Next1
  <2>4. InStep'
    BY <2>1, <2>3, Machines DEF InStep, Sending, Waits
  <2>5. InLoop' /\ Paid'
    BY <2>1 DEF InLoop, Paid, Waits
  <2>6. LossesAreRecovered'
    <3>1. snd.blk > 0 => snd.at = "block"
      BY Machines DEF NoBlock, Waits
    <3>2. snd.at = "block" /\ snd.blk > 0 /\ rcv.at # "failed" => Retries <= MaxFaults - faults
      BY <1>1 DEF Paid
    <3>3. ~(Retries <= MaxFaults - faults /\ MaxFaults - faults < Retries)
      BY Machines
    <3> QED BY <2>1, <3>1, <3>2, <3>3 DEF LossesAreRecovered
  <2> QED BY <2>3, <2>4, <2>5, <2>6
<1>2. CASE snd.try # Retries
  <2>1. Transmit(Latest) /\ snd'.at = snd.at /\ snd'.blk = snd.blk /\ snd'.try = snd.try + 1
    BY <1>2, Moved DEF Resend, TransferTypeOK
  <2>2. Len(up') <= 1 /\ (up' # <<>> => Next1(Latest)') /\ (Receiving => Next1(Latest)')
        /\ Latest' = Latest
    <3>1. Latest' = Latest
      BY <2>1 DEF Latest
    <3>2. \A p \in Packets : Transmit(p) =>
            Len(up') <= 1 /\ (up' # <<>> => Next1(p)') /\ (Receiving => Next1(p)')
      BY Sends
    <3> QED BY <2>1, <3>1, <3>2, LatestTyped DEF Next1
  <2>3. up' # <<>> => Receiving
    BY <2>1 DEF Transmit
  <2>4. OneWay'
    BY <2>1, <2>2, <2>3 DEF OneWay, Sending, Waits, Receiving
  <2>5. Next1(Eot)' => snd.at = "eot"
    BY <2>2, Kinds DEF Next1, Latest, Waits
  <2>6. InStep'
    BY <2>1, <2>5, Machines DEF InStep, Sending
  <2>7. InLoop'
    BY <2>1 DEF InLoop
  <2>8. Paid' /\ LossesAreRecovered'
    <3>1. snd.at = "block" /\ snd.blk > 0 /\ rcv.at # "failed" => GoesWell'
      BY <2>2 DEF GoesWell, Receiving, InLoop
    <3>2. snd.at = "block" /\ snd.blk > 0 /\ rcv.at # "failed" =>
            snd.try + 1 <= MaxFaults - faults + 1
      BY Machines DEF Paid
    <3> QED BY <2>1, <3>1, <3>2 DEF Paid, LossesAreRecovered, Waits
  <2> QED BY <2>4, <2>6, <2>7, <2>8
<1> QED BY <1>1, <1>2

\* A NAK, or a CAN, brings another attempt.
LEMMA NakedKept ==
  ASSUME TransferTypeOK, TransferTypeOK', NoBlock, Orderly, Naked
  PROVE  Orderly'
<1>1. PICK b \in {"NAK", "CAN"} : Heard(b)
  BY DEF Naked
<1>2. /\ up = <<>> /\ Says(b) /\ rcv.at # "erase" /\ down' \in Replies
      /\ ~Says("ACK")' /\ (Says("CAN")' => b = "CAN") /\ (down' # <<>> => b = "CAN")
  BY <1>1, Hears DEF Orderly
<1>3. b = "CAN" => rcv.at = "failed"
  BY <1>2 DEF Orderly, InLoop
<1>4. ~GoesWell /\ down' # <<"ACK", "C">>
  BY <1>2 DEF GoesWell, Next1, Says
<1>5. Resend /\ Waits /\ rcv' = rcv /\ faults' = faults /\ adrift' = adrift
  BY DEF Naked, Waits, SenderKeeps
<1> QED BY <1>2, <1>3, <1>4, <1>5, ResendKept

\* So does silence, when no answer is yet to come.
LEMMA SenderTimesOutKept ==
  ASSUME TransferTypeOK, TransferTypeOK', NoBlock, Orderly, SenderTimesOut, adrift' = 0
  PROVE  Orderly'
<1>1. rcv.at # "erase" /\ adrift' = adrift /\ faults' = faults /\ Resend /\ Waits /\ rcv' = rcv
      /\ up = <<>> /\ down' = <<>> /\ down = <<>>
  BY Drifted DEF SenderTimesOut, Waits, TransferTypeOK
<1>2. ~GoesWell /\ down' \in Replies /\ ~Says("ACK")' /\ ~Says("CAN")' /\ down' # <<"ACK", "C">>
  BY <1>1 DEF GoesWell, Next1, Says, Replies
<1> QED BY <1>1, <1>2, ResendKept

\* A CAN ends the transfer, and only a receiver that failed sends it.
LEMMA SenderCancelledKept ==
  ASSUME TransferTypeOK, TransferTypeOK', NoBlock, Orderly, SenderCancelled
  PROVE  Orderly'
<1> USE DEF Orderly
<1>1. /\ up = <<>> /\ Says("CAN") /\ rcv.at # "erase" /\ down' \in Replies /\ ~Says("ACK")'
  BY Hears DEF SenderCancelled
<1>2. rcv.at = "failed" /\ rcv' = rcv /\ faults' = faults /\ up' = up
  BY <1>1 DEF SenderCancelled, SenderKeeps, InLoop
<1>3. snd'.at = "failed"
  BY Moved DEF SenderCancelled, TransferTypeOK
<1>4. OneWay' /\ InStep' /\ InLoop' /\ Paid' /\ LossesAreRecovered'
  BY <1>1, <1>2, <1>3
     DEF OneWay, InStep, InLoop, Paid, LossesAreRecovered, Sending, Next1
<1> QED BY <1>4

\* A 'C' that nothing waits for is passed over.
LEMMA IgnoredKept ==
  ASSUME TransferTypeOK, TransferTypeOK', NoBlock, Orderly, Ignored
  PROVE  Orderly'
<1> USE DEF Orderly
<1>1. /\ up = <<>> /\ Says("C") /\ rcv.at # "erase" /\ down' \in Replies /\ ~Says("ACK")'
      /\ ~Says("CAN")' /\ down' = <<>>
  BY Hears DEF Ignored
<1>2. rcv' = rcv /\ faults' = faults /\ up' = up /\ snd' = snd /\ adrift' = adrift
  BY DEF Ignored, SenderKeeps
<1>3. OneWay'
  BY <1>1, <1>2 DEF OneWay, Sending, Next1
<1>4. InStep' /\ InLoop'
  BY <1>1, <1>2 DEF InStep, InLoop, Sending, Next1
<1>5. ~GoesWell
  BY <1>1 DEF GoesWell, Next1, Says
<1>6. Paid' /\ LossesAreRecovered'
  BY <1>2, <1>5 DEF Paid, LossesAreRecovered
<1> QED BY <1>3, <1>4, <1>6

\* Every step of the sender keeps the order.
LEMMA SendKept ==
  ASSUME TransferTypeOK, NoBlock, Orderly, ymodem_send, adrift' = 0
  PROVE  Orderly'
BY SendTyped, WaitForKept, NoCKept, AckedKept, NakedKept, SenderTimesOutKept, SenderCancelledKept,
   IgnoredKept
   DEF ymodem_send

(***************************************************************************)
(* The receiver's steps.                                                   *)
(***************************************************************************)
\* The packet in hand is what the sender sent last, or a garbled one.
LEMMA Gets ==
  ASSUME TransferTypeOK, OneWay, up # <<>>
  PROVE  /\ Head(up) \in Packets /\ Tail(up) = <<>> /\ down = <<>> /\ rcv.at # "erase"
         /\ Sending => Waits /\ (Head(up) \in {Bad, Stray} \/ Head(up) = Latest)
  BY Rest, Last DEF TransferTypeOK, OneWay, Next1

\* A reply is heard only by a sender that is there.
LEMMA Replied ==
  ASSUME down = <<>>, NEW s \in Replies, Answer(s)
  PROVE  down' = IF Sending THEN s ELSE <<>>
<1>1. <<>> \o s = s
  BY Reply, Nothing
<1> QED BY <1>1 DEF Answer

\* An answer says one thing first.
LEMMA Said ==
  /\ \A b : Head(<<b>>) = b /\ <<b>> # <<>> /\ <<b>> # <<"ACK", "C">>
  /\ \A b, c : Head(<<b, c>>) = b /\ <<b, c>> # <<>>
  /\ <<"CAN", "CAN">> # <<"ACK", "C">>
  OBVIOUS

\* The receiver answers: what the sender then hears is in step, if the answer is.
LEMMA Answering ==
  ASSUME TransferTypeOK, TransferTypeOK', Orderly, snd' = snd, up' = <<>>, down = <<>>,
         NEW s \in Replies, down' = (IF Sending THEN s ELSE <<>>), rcv'.at # "erase",
         s = <<"ACK", "C">> /\ Sending => snd.at = "eot" \/ (snd.at = "block" /\ snd.blk = 0)
  PROVE  /\ OneWay' /\ ~Next1(Eot)'
         /\ \A b : Says(b)' => Sending /\ s # <<>> /\ Head(s) = b
<1>1. Len(<<>>) = 0 /\ <<>> \in Replies /\ <<>> # <<"ACK", "C">>
  BY DEF Replies
<1>2. (Sending' <=> Sending) /\ down' \in Replies
  BY <1>1 DEF Sending
<1>3. down' = <<"ACK", "C">> /\ Sending => snd'.at = "eot" \/ (snd'.at = "block" /\ snd'.blk = 0)
  OBVIOUS
<1>4. OneWay'
  BY <1>1, <1>2, <1>3 DEF OneWay
<1> QED BY <1>4 DEF Next1, Says

\* The receiver answers one byte.
LEMMA AnsweringOnce ==
  ASSUME TransferTypeOK, TransferTypeOK', Orderly, snd' = snd, up' = <<>>, down = <<>>,
         NEW b \in {"C", "ACK", "NAK"}, Answer(<<b>>), rcv'.at # "erase"
  PROVE  /\ OneWay' /\ ~Next1(Eot)' /\ \A c : Says(c)' => c = b
         /\ Sending => Says(b)'
<1>1. <<b>> \in Replies /\ <<b>> # <<"ACK", "C">> /\ Head(<<b>>) = b /\ <<b>> # <<>>
  BY Said DEF Replies
<1> DEFINE s == <<b>>
<1> HIDE DEF s
<1>2. s \in Replies /\ s # <<"ACK", "C">> /\ Head(s) = b /\ s # <<>> /\ Answer(s)
  BY <1>1 DEF s
<1>3. down' = IF Sending THEN s ELSE <<>>
  BY <1>2, Replied
<1>4. OneWay' /\ ~Next1(Eot)' /\ \A c : Says(c)' => Sending /\ s # <<>> /\ Head(s) = c
  BY <1>2, <1>3, Answering
<1> QED BY <1>2, <1>3, <1>4 DEF Says

\* The receiver takes a packet in its main loop: the block it expects, the one before it again,
\* another, a garbled one, or the EOT.
LEMMA TakeKept ==
  ASSUME TransferTypeOK, TransferTypeOK', NoBlock, Orderly, ReceivePacket
  PROVE  Orderly'
<1> USE DEF Orderly
<1> DEFINE p == Head(up)
<1>1. /\ rcv.at = "loop" /\ p \in Packets /\ up' = <<>> /\ down = <<>> /\ up # <<>>
      /\ Sending => Waits /\ (p \in {Bad, Stray} \/ p = Latest)
      /\ snd' = snd /\ adrift' = adrift /\ Take(p)
  BY Gets DEF ReceivePacket, ReceiverKeeps
<1>2. Sending' = Sending /\ Latest' = Latest /\ p.blk \in 0..LastBlock
  BY <1>1, KindOf DEF Sending, Latest
<1>3. /\ snd.at \notin {"hello", "ready", "tail"}
      /\ snd.at = "block" /\ p \notin {Bad, Stray} => p.kind = "blk" /\ p.blk = snd.blk
      /\ snd.at = "eot" /\ p \notin {Bad, Stray} => p.kind = "eot"
      /\ snd.at = "close" /\ p \notin {Bad, Stray} => p.kind = "null"
  BY <1>1, Kinds DEF Sending, Waits, Latest
<1>4. p.kind \in {"blk", "eot", "null"} => p \notin {Bad, Stray}
  BY Kinds
<1>5. p.kind = "eot" => rcv.blk = LastBlock + 1
  BY <1>1, KindOf DEF InStep, Next1
<1>6. p \in {Bad, Stray} => ~GoesWell \/ snd.at # "block"
  BY <1>1, Kinds DEF GoesWell, Next1, Says, Latest
<1>7. snd.at \in {"block", "eot", "close"} => Sending
  BY DEF Sending
<1>8. /\ <<"ACK">> \in Replies /\ <<"NAK">> \in Replies /\ <<"CAN", "CAN">> \in Replies
      /\ Len(<<>>) = 0 /\ <<>> \in Replies /\ <<>> # <<"ACK", "C">>
  BY DEF Replies
<1>b. \A s : s \in Replies /\ Answer(s) => down' = IF Sending THEN s ELSE <<>>
  BY <1>1, Replied
<1> HIDE DEF p
<1>9. CASE p.kind = "blk" /\ p.blk = rcv.blk
  <2>1. CASE rcv' = [rcv EXCEPT !.at = "erase"] /\ p.blk = 1 /\ UNCHANGED <<down, faults>>
    <3>1. rcv'.at = "erase" /\ rcv'.blk = 1
      <4>1. rcv \in Receiver
        BY DEF TransferTypeOK
      <4>2. rcv'.at = "erase" /\ rcv'.blk = rcv.blk
        BY <2>1, <4>1, Moved
      <4> QED BY <1>9, <2>1, <4>2
    <3>2. OneWay' /\ ~Next1(Eot)' /\ \A b : ~Says(b)'
      BY <1>1, <1>8, <2>1 DEF OneWay, Next1, Says
    <3>3. InStep'
      <4>1. rcv.blk = 1 /\ LastBlock + 1 # 1
        BY <1>9, <2>1, Machines
      <4>2. Sending => snd.at = "block" /\ snd.blk = 1
        BY <1>1, <1>3, <1>4, <1>9, <2>1, Kinds DEF Waits
      <4> QED BY <1>1, <1>2, <3>1, <3>2, <4>1, <4>2 DEF InStep
    <3>4. InLoop' /\ Paid' /\ LossesAreRecovered'
      BY <1>1, <1>3, <2>1, <3>1, <3>2 DEF InLoop, Paid, LossesAreRecovered, GoesWell
    <3> QED BY <3>2, <3>3, <3>4
  <2>2. CASE rcv' = Loop(p.blk + 1) /\ p.blk # 1 /\ Answer(<<"ACK">>) /\ UNCHANGED faults
    <3>1. rcv'.at = "loop" /\ rcv'.blk = p.blk + 1
      BY <2>2, MadeAt
    <3>3. /\ OneWay' /\ ~Next1(Eot)' /\ \A b : Says(b)' => b = "ACK"
          /\ Sending => Says("ACK")'
      BY <1>1, <2>2, <3>1, AnsweringOnce
    <3>4. InStep'
      BY <1>1, <1>2, <1>3, <1>4, <1>9, <3>1, <3>3, Machines DEF InStep, Sending
    <3>5. InLoop'
      BY <1>1, <1>3, <3>1, <3>3 DEF InLoop
    <3>6. Says("ACK")' \/ snd.at # "block"
      BY <3>3, <1>7
    <3>7. Paid' /\ LossesAreRecovered'
      BY <1>1, <2>2, <3>6 DEF Paid, LossesAreRecovered, GoesWell
    <3> QED BY <3>3, <3>4, <3>5, <3>7
  <2>3. CASE rcv' = [rcv EXCEPT !.at = "failed"] /\ Answer(<<"CAN", "CAN">>)
             /\ faults > 0 /\ faults' = faults - 1
    <3>1. rcv'.at = "failed" /\ rcv'.blk = rcv.blk
      BY <2>3, Moved DEF TransferTypeOK
    <3>2. down' = IF Sending THEN <<"CAN", "CAN">> ELSE <<>>
      BY <1>b, <1>8, <2>3
    <3>3. OneWay' /\ ~Next1(Eot)' /\ \A b : Says(b)' => b = "CAN"
      BY <1>1, <1>8, <3>1, <3>2, Answering, Said
    <3>4. InStep'
      BY <1>1, <1>2, <1>3, <3>1, <3>3 DEF InStep, Sending
    <3>5. InLoop' /\ Paid' /\ LossesAreRecovered'
      BY <1>1, <3>1, <3>3 DEF InLoop, Paid, LossesAreRecovered
    <3> QED BY <3>3, <3>4, <3>5
  <2> QED BY <1>1, <1>9, <2>1, <2>2, <2>3 DEF Take
<1>10. CASE ~(p.kind = "blk" /\ p.blk = rcv.blk) /\ p.kind = "eot"
  <2>1. rcv' = [rcv EXCEPT !.at = "eot"] /\ Answer(<<"NAK">>) /\ faults' = faults
    BY <1>1, <1>10 DEF Take
  <2>2. rcv'.at = "eot" /\ rcv'.blk = rcv.blk
    BY <2>1, Moved DEF TransferTypeOK
  <2>4. /\ OneWay' /\ ~Next1(Eot)' /\ \A b : Says(b)' => b = "NAK"
        /\ Sending => Says("NAK")'
    BY <1>1, <2>1, <2>2, AnsweringOnce
  <2>5. InStep'
    BY <1>1, <1>2, <1>3, <1>5, <1>10, <2>2, <2>4 DEF InStep, Sending
  <2>6. InLoop' /\ Paid' /\ LossesAreRecovered'
    BY <1>1, <1>3, <1>4, <1>10, <2>1, <2>2, <2>4 DEF InLoop, Paid, LossesAreRecovered
  <2> QED BY <2>4, <2>5, <2>6
<1>11. CASE p.kind \in {"blk", "null"} /\ p.blk = rcv.blk - 1
  <2>1. rcv' = Loop(rcv.blk) /\ Answer(<<"ACK">>) /\ faults' = faults
    <3>1. p.blk # rcv.blk
      BY <1>11, Machines
    <3> QED BY <1>1, <1>11, <3>1 DEF Take
  <2>2. rcv'.at = "loop" /\ rcv'.blk = rcv.blk
    BY <2>1, MadeAt
  <2>4. /\ OneWay' /\ ~Next1(Eot)' /\ \A b : Says(b)' => b = "ACK"
        /\ Sending => Says("ACK")'
    BY <1>1, <2>1, <2>2, AnsweringOnce
  <2>5. InStep'
    BY <1>1, <1>2, <1>3, <1>4, <1>11, <2>2, <2>4, Machines DEF InStep, Sending
  <2>6. InLoop'
    BY <1>1, <1>3, <2>2, <2>4 DEF InLoop
  <2>7. Says("ACK")' \/ snd.at # "block"
    BY <2>4, <1>7
  <2>8. Paid' /\ LossesAreRecovered'
    BY <1>1, <2>1, <2>7 DEF Paid, LossesAreRecovered, GoesWell
  <2> QED BY <2>4, <2>5, <2>6, <2>8
<1>12. CASE /\ ~(p.kind = "blk" /\ p.blk = rcv.blk) /\ p.kind # "eot"
            /\ ~(p.kind \in {"blk", "null"} /\ p.blk = rcv.blk - 1)
  <2>1. rcv' = Loop(rcv.blk) /\ Answer(<<"NAK">>) /\ faults' = faults
    BY <1>1, <1>12 DEF Take
  <2>2. rcv'.at = "loop" /\ rcv'.blk = rcv.blk
    BY <2>1, MadeAt
  <2>4. /\ OneWay' /\ ~Next1(Eot)' /\ \A b : Says(b)' => b = "NAK"
        /\ Sending => Says("NAK")'
    BY <1>1, <2>1, <2>2, AnsweringOnce
  <2>5. InStep'
    BY <1>1, <1>2, <1>3, <2>2, <2>4 DEF InStep, Sending
  <2>6. snd.at = "block" => ~GoesWell
    <3>1. snd.at = "block" => p.kind # "blk" \/ p.blk # snd.blk
      BY <1>12, Machines DEF InStep
    <3> QED BY <1>3, <1>6, <3>1
  <2>7. InLoop' /\ Paid' /\ LossesAreRecovered'
    BY <1>1, <1>3, <2>1, <2>2, <2>4, <2>6 DEF InLoop, Paid, LossesAreRecovered
  <2> QED BY <2>4, <2>5, <2>7
<1> QED BY <1>9, <1>10, <1>11, <1>12

\* The receiver moves on with its block.
LEMMA RcvMoved ==
  ASSUME TransferTypeOK, NEW a, rcv' = [rcv EXCEPT !.at = a]
  PROVE  rcv'.at = a /\ rcv'.blk = rcv.blk
<1>1. rcv \in Receiver
  BY DEF TransferTypeOK
<1> QED BY <1>1, Moved

\* With no sender to hear it, the receiver may move on.
LEMMA Unheard ==
  ASSUME TransferTypeOK, TransferTypeOK', Orderly, ~Sending, rcv.at # "failed",
         snd' = snd, adrift' = adrift, faults' = faults, up' = <<>>, down' = down,
         rcv'.at # "erase", rcv'.blk = rcv.blk,
         rcv'.at = "hello" => rcv.at = "hello",
         rcv'.at \in {"eot", "tail", "done"} => rcv.at \in {"eot", "tail", "done"}
  PROVE  Orderly'
<1> USE DEF Orderly
<1>1. Len(<<>>) = 0 /\ snd.at \in {"off", "done", "failed"} /\ ~Says("CAN")
  BY DEF Sending, InLoop
<1>2. OneWay'
  BY <1>1 DEF OneWay, Sending
<1>3. ~Next1(Eot)' /\ ~Says("CAN")'
  BY <1>1 DEF Next1, Says
<1>4. InStep'
  BY <1>1, <1>3 DEF InStep
<1>5. InLoop' /\ Paid' /\ LossesAreRecovered'
  BY <1>1, <1>3 DEF InLoop, Paid, LossesAreRecovered
<1> QED BY <1>2, <1>4, <1>5

\* Once the receiver has seen the EOT, the sender is past its blocks.
LEMMA PastBlocks ==
  ASSUME TransferTypeOK, Orderly, rcv.at \in {"eot", "tail", "done"}
  PROVE  snd.at \notin {"hello", "ready", "block"} /\ rcv.blk = LastBlock + 1
<1>1. rcv.blk = LastBlock + 1 /\ LastBlock + 1 \notin {0, 1}
  BY Machines DEF Orderly, InStep
<1>2. snd.at = "block" => snd.blk > 0
  BY <1>1, Machines DEF Orderly, InStep
<1> QED BY <1>1, <1>2 DEF Orderly, InStep, InLoop

\* The bank is erased and the block that waited for it answered.
LEMMA ErasedKept ==
  ASSUME TransferTypeOK, TransferTypeOK', Orderly, Erased
  PROVE  Orderly'
<1> USE DEF Orderly
<1>1. /\ rcv.at = "erase" /\ rcv'.at = "loop" /\ rcv'.blk = 2 /\ faults' = faults /\ snd' = snd
      /\ adrift' = adrift /\ Answer(<<"ACK">>)
  BY MadeAt DEF Erased, ReceiverKeeps
<1>2. up' = <<>> /\ down = <<>> /\ rcv.blk = 1 /\ (Sending => snd.at = "block" /\ snd.blk = 1)
      /\ snd.at \notin {"eot", "tail", "close", "done", "ready", "hello"}
  <2>1. rcv.blk = 1 /\ LastBlock + 1 # 1
    BY <1>1, Machines DEF InStep
  <2> QED BY <1>1, <2>1 DEF Erased, OneWay, InStep, Sending
<1>3. OneWay' /\ ~Next1(Eot)' /\ (\A c : Says(c)' => c = "ACK") /\ (Sending => Says("ACK")')
  BY <1>1, <1>2, AnsweringOnce
<1>4. snd.at = "block" => Sending /\ snd.blk = 1
  BY <1>2 DEF Sending
<1>5. InStep' /\ InLoop' /\ Paid' /\ LossesAreRecovered'
  BY <1>1, <1>2, <1>3, <1>4 DEF InStep, InLoop, Paid, LossesAreRecovered, GoesWell
<1> QED BY <1>3, <1>5

\* The header is answered.
LEMMA HandshakeKept ==
  ASSUME TransferTypeOK, TransferTypeOK', NoBlock, Orderly, Handshake
  PROVE  Orderly'
<1> USE DEF Orderly
<1>1. /\ rcv.at = "hello" /\ rcv'.at = "loop" /\ rcv'.blk = 1 /\ faults' = faults /\ snd' = snd
      /\ adrift' = adrift /\ Answer(<<"ACK", "C">>) /\ up # <<>> /\ Head(up) = Packet(0)
  BY MadeAt DEF Handshake, ReceiverKeeps
<1>2. up' = <<>> /\ down = <<>> /\ (Sending => snd.at = "block" /\ snd.blk = 0)
  BY <1>1, Gets, Kinds DEF Handshake, Waits, Latest
<1>3. <<"ACK", "C">> \in Replies /\ Head(<<"ACK", "C">>) = "ACK"
  BY DEF Replies
<1>4. down' = IF Sending THEN <<"ACK", "C">> ELSE <<>>
  BY <1>1, <1>2, <1>3, Replied
<1>5. OneWay' /\ ~Next1(Eot)' /\ (\A c : Says(c)' => c = "ACK")
  BY <1>1, <1>2, <1>3, <1>4, Answering
<1>6. rcv.blk = 1
  BY <1>1 DEF InStep
<1>7. snd.at \in {"hello", "ready", "tail", "eot", "close", "block"} => Sending
  BY DEF Sending
<1>8. InStep' /\ InLoop'
  BY <1>1, <1>2, <1>5, <1>6, <1>7, Machines DEF InStep, InLoop
<1>9. Paid' /\ LossesAreRecovered'
  BY <1>1, <1>2, <1>7 DEF Paid, LossesAreRecovered
<1> QED BY <1>5, <1>8, <1>9

\* The receiver, with no header yet, sends its 'C' again or gives up.
LEMMA HelloAgainKept ==
  ASSUME TransferTypeOK, TransferTypeOK', NoBlock, Orderly, HelloAgain
  PROVE  Orderly'
<1> USE DEF Orderly
<1>1. rcv.at = "hello" /\ faults' = faults /\ snd' = snd /\ adrift' = adrift /\ rcv.blk = 1
  BY DEF HelloAgain, ReceiverKeeps, InStep
<1>2. up' = <<>> /\ (Sending => down = <<>>)
  BY Gets DEF HelloAgain, Silence
<1>3. CASE Sending /\ rcv.try = StartRetries
  <2>1. rcv'.at = "failed" /\ rcv'.blk = 1 /\ down' = <<>>
    <3>1. rcv' = [rcv EXCEPT !.at = "failed"] /\ down' = down
      BY <1>3 DEF HelloAgain, NextTry
    <3> QED BY <1>1, <1>2, <1>3, <3>1, RcvMoved
  <2>2. Len(<<>>) = 0 /\ <<>> \in Replies /\ <<>> # <<"ACK", "C">>
    BY DEF Replies
  <2>3. OneWay' /\ ~Next1(Eot)' /\ (\A c : ~Says(c)')
    BY <1>2, <2>1, <2>2 DEF OneWay, Next1, Says
  <2>4. InStep' /\ InLoop' /\ Paid' /\ LossesAreRecovered'
    BY <1>1, <2>1, <2>3 DEF InStep, InLoop, Paid, LossesAreRecovered
  <2> QED BY <2>3, <2>4
<1>4. CASE Sending /\ rcv.try # StartRetries
  <2>1. rcv'.at = "hello" /\ rcv'.blk = 1 /\ Answer(<<"C">>)
    BY <1>1, <1>4, Moved DEF HelloAgain, NextTry, TransferTypeOK
  <2>2. OneWay' /\ ~Next1(Eot)' /\ (\A c : Says(c)' => c = "C")
    BY <1>1, <1>2, <1>4, <2>1, AnsweringOnce
  <2>3. InStep' /\ InLoop' /\ Paid' /\ LossesAreRecovered'
    BY <1>1, <2>1, <2>2 DEF InStep, InLoop, Paid, LossesAreRecovered
  <2> QED BY <2>2, <2>3
<1>5. CASE ~Sending
  <2>1. rcv'.at \in {"failed", "hello"} /\ rcv'.blk = rcv.blk /\ down' = down
    BY <1>1, <1>5, Moved, RcvMoved DEF HelloAgain, NextTry, Answer, TransferTypeOK
  <2> QED BY <1>1, <1>2, <1>5, <2>1, Unheard
<1> QED BY <1>3, <1>4, <1>5

\* The receiver in the handshake of the end, whatever it answers.
LEMMA EndKept ==
  ASSUME TransferTypeOK, TransferTypeOK', Orderly, rcv.at \in {"eot", "tail"}, snd' = snd,
         adrift' = adrift, faults' = faults, rcv'.at \in {"loop", "tail", "done"},
         rcv'.blk = rcv.blk,
         OneWay', ~Next1(Eot)', ~Says("CAN")'
  PROVE  Orderly'
<1> USE DEF Orderly
<1>1. snd.at \notin {"hello", "ready", "block"} /\ rcv.blk = LastBlock + 1
  BY PastBlocks
<1>2. InStep' /\ InLoop' /\ Paid' /\ LossesAreRecovered'
  BY <1>1 DEF InStep, InLoop, Paid, LossesAreRecovered
<1> QED BY <1>2

\* The EOT comes again.
LEMMA SecondEotKept ==
  ASSUME TransferTypeOK, TransferTypeOK', NoBlock, Orderly, SecondEot
  PROVE  Orderly'
<1> USE DEF Orderly
<1>1. rcv.at = "eot" /\ faults' = faults /\ snd' = snd /\ adrift' = adrift /\ up # <<>>
  BY DEF SecondEot, ReceiverKeeps
<1>2. /\ Tail(up) = <<>> /\ down = <<>>
      /\ Sending => Waits /\ (Head(up) \in {Bad, Stray} \/ Head(up) = Latest)
  BY <1>1, Gets
<1>3. CASE Head(up) = Eot
  <2>1. rcv'.at = "tail" /\ rcv'.blk = rcv.blk /\ up' = <<>> /\ Answer(<<"ACK", "C">>)
    <3>1. rcv' = [rcv EXCEPT !.at = "tail"] /\ up' = Tail(up) /\ Answer(<<"ACK", "C">>)
      BY <1>3, Kinds DEF SecondEot
    <3> QED BY <1>2, <3>1, RcvMoved
  <2>2. Sending => snd.at = "eot"
    BY <1>2, <1>3, Kinds DEF Waits, Latest
  <2>3. <<"ACK", "C">> \in Replies /\ Head(<<"ACK", "C">>) = "ACK"
    BY DEF Replies
  <2>4. down' = IF Sending THEN <<"ACK", "C">> ELSE <<>>
    BY <1>2, <2>1, <2>3, Replied
  <2>5. OneWay' /\ ~Next1(Eot)' /\ (\A c : Says(c)' => c = "ACK")
    BY <1>1, <1>2, <2>1, <2>2, <2>3, <2>4, Answering
  <2> QED BY <1>1, <2>1, <2>5, EndKept
<1>4. CASE Head(up) # Eot
  <2>1. rcv'.at = "loop" /\ rcv'.blk = rcv.blk /\ down' = <<>> /\ up' = <<>>
    BY <1>1, <1>2, <1>4, MadeAt DEF SecondEot
  <2>2. Len(<<>>) = 0 /\ <<>> \in Replies /\ <<>> # <<"ACK", "C">>
    BY DEF Replies
  <2>3. OneWay' /\ ~Next1(Eot)' /\ ~Says("CAN")'
    BY <2>1, <2>2 DEF OneWay, Next1, Says
  <2> QED BY <1>1, <2>1, <2>3, EndKept
<1> QED BY <1>3, <1>4

\* The empty header ends the session, and so does waiting for it.
LEMMA NullHeaderKept ==
  ASSUME TransferTypeOK, TransferTypeOK', NoBlock, Orderly, NullHeader
  PROVE  Orderly'
<1>1. rcv.at = "tail" /\ faults' = faults /\ snd' = snd /\ adrift' = adrift /\ up # <<>>
  BY DEF NullHeader, ReceiverKeeps
<1>2. rcv'.at = "done" /\ rcv'.blk = rcv.blk
  BY Moved DEF NullHeader, TransferTypeOK
<1>3. up' = <<>> /\ down = <<>>
  BY <1>1, Gets DEF NullHeader, Orderly
<1>4. CASE Answer(<<"ACK">>)
  <2>1. OneWay' /\ ~Next1(Eot)' /\ (\A c : Says(c)' => c = "ACK")
    BY <1>1, <1>2, <1>3, <1>4, AnsweringOnce
  <2> QED BY <1>1, <1>2, <2>1, EndKept
<1>5. CASE down' = down
  <2>1. Len(<<>>) = 0 /\ <<>> \in Replies /\ <<>> # <<"ACK", "C">>
    BY DEF Replies
  <2>2. OneWay' /\ ~Next1(Eot)' /\ ~Says("CAN")'
    BY <1>2, <1>3, <1>5, <2>1 DEF OneWay, Next1, Says
  <2> QED BY <1>1, <1>2, <2>2, EndKept
<1> QED BY <1>4, <1>5 DEF NullHeader

\* The receiver has waited long enough.
LEMMA ReceiverTimesOutKept ==
  ASSUME TransferTypeOK, TransferTypeOK', NoBlock, Orderly, ReceiverTimesOut
  PROVE  Orderly'
<1> USE DEF Orderly
<1>1. /\ faults' = faults /\ snd' = snd /\ adrift' = adrift
      /\ up = <<>> /\ up' = <<>> /\ (Sending => down = <<>>)
  BY DEF ReceiverTimesOut, ReceiverKeeps, Silence
<1>2. Len(<<>>) = 0 /\ <<>> \in Replies /\ <<>> # <<"ACK", "C">>
  BY DEF Replies
<1>3. CASE Sending /\ rcv.at = "loop"
  <2>1. rcv' = rcv /\ Answer(<<"NAK">>)
    BY <1>3 DEF ReceiverTimesOut
  <2>2. OneWay' /\ ~Next1(Eot)' /\ (\A c : Says(c)' => c = "NAK")
    BY <1>1, <1>3, <2>1, AnsweringOnce
  <2>3. ~GoesWell
    BY <1>1, <1>3 DEF GoesWell, Next1, Says
  <2>4. InStep' /\ InLoop'
    BY <1>1, <1>3, <2>1, <2>2 DEF InStep, InLoop
  <2>5. Paid' /\ LossesAreRecovered'
    BY <1>1, <2>1, <2>3 DEF Paid, LossesAreRecovered
  <2> QED BY <2>2, <2>4, <2>5
<1>4. CASE Sending /\ rcv.at = "eot"
  <2>1. rcv'.at = "loop" /\ rcv'.blk = rcv.blk /\ down' = <<>>
    BY <1>1, <1>4, MadeAt DEF ReceiverTimesOut
  <2>2. OneWay' /\ ~Next1(Eot)' /\ ~Says("CAN")'
    BY <1>1, <1>2, <2>1 DEF OneWay, Next1, Says
  <2> QED BY <1>1, <1>4, <2>1, <2>2, EndKept
<1>5. CASE Sending /\ rcv.at = "tail"
  <2>1. rcv'.at = "done" /\ rcv'.blk = rcv.blk /\ down' = <<>>
    <3>1. rcv' = [rcv EXCEPT !.at = "done"] /\ down' = down
      BY <1>5 DEF ReceiverTimesOut
    <3> QED BY <1>1, <1>5, <3>1, RcvMoved
  <2>2. OneWay' /\ ~Next1(Eot)' /\ ~Says("CAN")'
    BY <1>1, <1>2, <2>1 DEF OneWay, Next1, Says
  <2> QED BY <1>1, <1>5, <2>1, <2>2, EndKept
<1>6. CASE ~Sending
  <2>1. \/ rcv' = rcv /\ rcv.at = "loop" /\ down' = down
        \/ rcv'.at = "loop" /\ rcv'.blk = rcv.blk /\ rcv.at = "eot" /\ down' = down
        \/ rcv' = [rcv EXCEPT !.at = "done"] /\ rcv.at = "tail" /\ down' = down
    BY <1>6, MadeAt DEF ReceiverTimesOut, Answer
  <2>2. rcv'.at \in {"loop", "done"} /\ rcv'.blk = rcv.blk /\ rcv.at # "failed" /\ down' = down
        /\ (rcv'.at = "done" => rcv.at = "tail")
    BY <2>1, RcvMoved
  <2> QED BY <1>1, <1>6, <2>2, Unheard
<1> QED BY <1>3, <1>4, <1>5, <1>6 DEF ReceiverTimesOut

\* Every step of the receiver keeps the order.
LEMMA ReceiveKept ==
  ASSUME TransferTypeOK, NoBlock, Afloat, Orderly, ymodem_receive, adrift = 0, adrift' = 0
  PROVE  Orderly'
<1>1. ~Misreads /\ ~Drifts
  BY Drifted DEF Misreads
<1>2. rcv.at # "within"
  BY DEF Afloat
<1> QED
  BY <1>1, <1>2, ReceiveTyped, TakeKept, ErasedKept, HandshakeKept, HelloAgainKept, SecondEotKept,
     NullHeaderKept, ReceiverTimesOutKept
     DEF ymodem_receive, Misread, HelloMisread, Within, SecondLost, SecondMisread

(***************************************************************************)
(* The line's faults, and the transfer as a whole.                         *)
(***************************************************************************)
LEMMA LosePacketKept ==
  ASSUME TransferTypeOK, TransferTypeOK', Orderly, LosePacket
  PROVE  Orderly'
<1> USE DEF Orderly
<1>1. /\ rcv' = rcv /\ snd' = snd /\ down' = down /\ adrift' = adrift /\ up # <<>>
      /\ faults' = faults - 1 /\ faults \in Int /\ MaxFaults \in Int
  BY Machines DEF LosePacket
<1>2. /\ Tail(up) = <<>> /\ down = <<>> /\ rcv.at # "erase"
      /\ Sending => Waits
  BY <1>1, Gets
<1>3. up' \in {<<>>, <<Bad>>, <<Stray>>}
  <2>1. \A g : <<g>> \o <<>> = <<g>>
    OBVIOUS
  <2>2. Garbled(Head(up)) \subseteq {Bad, Stray}
    BY <1>1, Gets, PacketsTyped
  <2> QED BY <1>2, <2>1, <2>2 DEF LosePacket
<1>4. /\ Len(<<>>) <= 1 /\ \A g : Len(<<g>>) <= 1 /\ Head(<<g>>) = g
      /\ <<>> \in Replies /\ <<>> # <<"ACK", "C">>
  BY DEF Replies
<1>5. up' # <<>> => Next1(Bad)' \/ Next1(Stray)'
  BY <1>3, <1>4 DEF Next1
<1>6. Len(up') <= 1 /\ ~Next1(Eot)'
  BY <1>3, <1>4, <1>5, Kinds DEF Next1
<1>7. OneWay'
  BY <1>1, <1>2, <1>4, <1>5, <1>6 DEF OneWay, Sending, Waits
<1>8. \A b : ~Says(b)'
  BY <1>1, <1>2 DEF Says
<1>9. InStep' /\ InLoop'
  BY <1>1, <1>6, <1>8 DEF InStep, InLoop, Sending
<1>10. Paid'
  <2>1. \A t \in Int : t <= MaxFaults - faults + 1 =>
          t <= MaxFaults - faults' /\ t <= MaxFaults - faults' + 1
    BY <1>1
  <2> QED BY <1>1, <2>1, Machines DEF Paid
<1>11. LossesAreRecovered'
  <2>1. MaxFaults - faults' < Retries => MaxFaults - faults < Retries
    BY <1>1, Machines
  <2> QED BY <1>1, <2>1 DEF LossesAreRecovered
<1> QED BY <1>7, <1>9, <1>10, <1>11

\* An answer is lost: that fault pays for the attempt that follows.
LEMMA LoseAnswerKept ==
  ASSUME TransferTypeOK, TransferTypeOK', Orderly, LoseAnswer
  PROVE  Orderly'
<1> USE DEF Orderly
<1>1. /\ rcv' = rcv /\ snd' = snd /\ up' = up /\ adrift' = adrift
      /\ down # <<>> /\ down' = Tail(down)
      /\ faults' = faults - 1 /\ faults \in Int /\ MaxFaults \in Int
  BY Machines DEF LoseAnswer
<1>2. /\ up = <<>> /\ rcv.at # "erase" /\ down' \in Replies
      /\ ~Says("ACK")' /\ (Says("CAN")' => Says("CAN"))
  <2>1. Heard(Head(down))
    BY <1>1 DEF Heard
  <2> QED BY <2>1, Hears DEF Says
<1>3. down' # <<"ACK", "C">> /\ ~Next1(Eot)'
  BY <1>1, <1>2, Said DEF Says, Next1
<1>4. OneWay'
  BY <1>1, <1>2, <1>3 DEF OneWay
<1>5. InStep' /\ InLoop'
  BY <1>1, <1>2, <1>3 DEF InStep, InLoop, Sending
<1>6. Paid'
  <2>1. \A t \in Int : t <= MaxFaults - faults + 1 =>
          t <= MaxFaults - faults' /\ t <= MaxFaults - faults' + 1
    BY <1>1
  <2> QED BY <1>1, <2>1, Machines DEF Paid
<1>7. LossesAreRecovered'
  <2>1. MaxFaults - faults' < Retries => MaxFaults - faults < Retries
    BY <1>1, Machines
  <2> QED BY <1>1, <2>1 DEF LossesAreRecovered
<1> QED BY <1>4, <1>5, <1>6, <1>7

\* Only bytes that are misread bring the receiver there.
LEMMA AfloatKept ==
  ASSUME TransferTypeOK, Afloat, Transfer
  PROVE  Afloat'
<1>a. adrift \in Nat /\ rcv \in Receiver
  BY TransferAssumption DEF TransferTypeOK
<1>b. Drifts => adrift' > 0
  BY Drifted, TransferAssumption
<1>1. CASE rcv'.at = rcv.at /\ (adrift' = adrift \/ Drifts)
  BY <1>1, <1>a, <1>b DEF Afloat
<1>2. CASE ymodem_send \/ LosePacket \/ LoseAnswer
  BY <1>1, <1>2 DEF ymodem_send, WaitFor, NoC, Acked, Naked, SenderTimesOut, SenderCancelled,
     Ignored, SenderKeeps, LosePacket, LoseAnswer
<1>3. CASE ReceivePacket
  <2>1. \/ rcv'.at = "loop" \/ \E a \in {"erase", "failed", "eot"} : rcv' = [rcv EXCEPT !.at = a]
    BY <1>3, MadeAt DEF ReceivePacket, Take
  <2> QED BY <2>1, RcvMoved DEF Afloat
<1>4. CASE Erased \/ Handshake \/ SecondLost
  BY <1>4, MadeAt DEF Erased, Handshake, SecondLost, Afloat
<1>5. CASE HelloAgain \/ HelloMisread
  <2>1. \/ rcv' = [rcv EXCEPT !.at = "failed"]
        \/ rcv' = [rcv EXCEPT !.try = @ + 1] /\ rcv.at = "hello"
    BY <1>5 DEF HelloAgain, HelloMisread, NextTry
  <2>2. rcv'.at \in {"failed", "hello"}
    BY <1>a, <2>1, RcvMoved, Moved
  <2> QED BY <2>2 DEF Afloat
<1>6. CASE Misread
  BY <1>6, <1>b DEF Misread, Misreads, Afloat
<1>7. CASE Within
  <2>1. rcv'.at = "loop" \/ (rcv' = rcv /\ adrift' = adrift)
    BY <1>7, MadeAt DEF Within, ReceiverKeeps
  <2> QED BY <2>1 DEF Afloat
<1>8. CASE SecondEot \/ SecondMisread \/ NullHeader \/ ReceiverTimesOut
  <2>1. SecondEot \/ SecondMisread => rcv'.at = "loop" \/ rcv' = [rcv EXCEPT !.at = "tail"]
    BY MadeAt DEF SecondEot, SecondMisread
  <2>2. NullHeader => rcv' = [rcv EXCEPT !.at = "done"]
    BY DEF NullHeader
  <2>3. ReceiverTimesOut => \/ rcv' = rcv /\ rcv.at = "loop"
                            \/ rcv'.at = "loop"
                            \/ rcv' = [rcv EXCEPT !.at = "done"]
    BY MadeAt DEF ReceiverTimesOut
  <2>4. rcv'.at \in {"loop", "tail", "done"}
    BY <1>8, <2>1, <2>2, <2>3, RcvMoved
  <2> QED BY <2>4 DEF Afloat
<1> QED BY <1>2, <1>3, <1>4, <1>5, <1>6, <1>7, <1>8 DEF Transfer, ymodem_receive

\* Every step of the transfer keeps what holds of it.
LEMMA TransferKept ==
  ASSUME TransferTypeOK, TransferInv, Transfer
  PROVE  TransferTypeOK' /\ TransferInv'
<1>1. TransferTypeOK'
  BY TransferTyped
<1>2. NoBlock'
  <2>1. CASE ymodem_send
    BY <2>1, NoBlockKept DEF TransferInv
  <2>2. CASE snd' = snd
    BY <2>2 DEF TransferInv, NoBlock
  <2> QED BY <2>1, <2>2 DEF Transfer, ymodem_receive, ReceivePacket, Misread, Within, Erased,
        Handshake, HelloAgain, HelloMisread, SecondEot, SecondLost, SecondMisread, NullHeader,
        ReceiverTimesOut, ReceiverKeeps, Misreads, LosePacket, LoseAnswer
<1>3. ASSUME adrift' = 0 PROVE Orderly'
  <2>1. adrift' = adrift \/ Drifts
    BY DEF Transfer, ymodem_send, WaitFor, NoC, Acked, Naked, SenderTimesOut, SenderCancelled,
        Ignored, ymodem_receive, ReceivePacket, Misread, Within, Erased, Handshake, HelloAgain,
        HelloMisread, SecondEot, SecondLost, SecondMisread, NullHeader, ReceiverTimesOut,
        ReceiverKeeps, Misreads, LosePacket, LoseAnswer
  <2>2. adrift = 0
    BY <1>3, <2>1, Drifted, TransferAssumption
  <2> QED BY <1>1, <1>3, <2>2, SendKept, ReceiveKept, LosePacketKept, LoseAnswerKept
             DEF TransferInv, Transfer
<1> QED BY <1>1, <1>2, <1>3, AfloatKept DEF TransferInv

(***************************************************************************)
(* The transfer, as the host and the board start and end it.               *)
(***************************************************************************)
LEMMA TransferSame ==
  ASSUME TransferTypeOK, TransferInv, UNCHANGED tvars
  PROVE  TransferTypeOK' /\ TransferInv' /\ Sending' = Sending /\ Receiving' = Receiving
  BY DEF tvars, TransferTypeOK, TransferInv, NoBlock, Afloat, Orderly, OneWay, InStep, InLoop, Paid,
         GoesWell,
         LossesAreRecovered, Sending, Receiving, Waits, Next1, Says, Latest

\* Nothing is sent any more.
LEMMA SenderGone ==
  ASSUME TransferTypeOK, TransferInv, snd' = Off, down' = down \/ down' = <<>>,
         UNCHANGED <<rcv, up, faults, adrift>>
  PROVE  TransferTypeOK' /\ TransferInv' /\ ~Sending' /\ Receiving' = Receiving
<1>1. TransferTypeOK'
  BY Built, Nothing DEF TransferTypeOK
<1>2. snd'.at = "off" /\ snd'.blk = 0
  BY MadeAt
<1>3. ~Sending' /\ Receiving' = Receiving
  BY <1>2 DEF Sending, Receiving
<1>4. <<>> \in Replies /\ <<>> # <<"ACK", "C">>
  BY DEF Replies
<1>5. OneWay => OneWay'
  BY <1>3, <1>4 DEF OneWay, Sending
<1>6. InStep => InStep'
  BY <1>2, <1>3 DEF InStep, Next1
<1>7. InLoop => InLoop'
  BY <1>2 DEF InLoop, Says
<1>8. Paid' /\ LossesAreRecovered' /\ NoBlock'
  BY <1>2 DEF Paid, LossesAreRecovered, NoBlock
<1> QED BY <1>1, <1>3, <1>5, <1>6, <1>7, <1>8 DEF TransferInv, Afloat, Orderly

\* A transfer begins, or what was left of one is gone.
LEMMA Begins ==
  ASSUME TransferTypeOK, TransferInv, snd' = Off \/ snd' = At("hello", 0),
         rcv' = Off \/ rcv' = At("hello", 1), up' = <<>>, down' = <<>> \/ down' = <<"C">>,
         adrift' = adrift, faults' = faults \/ (faults > 0 /\ faults' = faults - 1)
  PROVE  /\ TransferTypeOK' /\ TransferInv'
         /\ Sending' => snd' = At("hello", 0)
         /\ Receiving' <=> rcv' = At("hello", 1)
<1>1. faults' \in 0..MaxFaults
  BY Machines DEF TransferTypeOK
<1>2. <<>> \in Replies /\ <<"C">> \in Replies /\ <<"C">> # <<"ACK", "C">> /\ <<>> # <<"ACK", "C">>
  BY DEF Replies
<1>3. snd' \in Sender /\ rcv' \in Receiver /\ up' \in Seq(Packets) /\ down' \in Seq(Answers)
  BY <1>2, Built, Machines, Nothing, Reply
<1>4. TransferTypeOK'
  BY <1>1, <1>3 DEF TransferTypeOK
<1>5. snd'.at \in {"off", "hello"} /\ snd'.blk = 0
  BY MadeAt
<1>6. \/ rcv'.at = "off" /\ rcv'.blk = 0 /\ rcv' = Off
      \/ rcv'.at = "hello" /\ rcv'.blk = 1 /\ rcv' = At("hello", 1)
  BY MadeAt
<1>7. rcv' = At("hello", 1) => rcv'.at = "hello"
  BY MadeAt
<1>8. ~Says("ACK")' /\ ~Says("CAN")' /\ ~Next1(Eot)'
  BY Said DEF Says, Next1
<1>9. OneWay'
  <2>1. Len(<<>>) = 0
    OBVIOUS
  <2> QED BY <2>1, <1>2, <1>6 DEF OneWay
<1>10. InStep' /\ InLoop' /\ Paid' /\ LossesAreRecovered' /\ NoBlock'
  BY <1>5, <1>6, <1>8 DEF InStep, InLoop, Paid, LossesAreRecovered, NoBlock
<1>11. Sending' => snd' = At("hello", 0)
  BY MadeAt DEF Sending
<1>12. Receiving' <=> rcv' = At("hello", 1)
  BY <1>6, <1>7 DEF Receiving
<1> QED BY <1>4, <1>6, <1>9, <1>10, <1>11, <1>12 DEF TransferInv, Afloat, Orderly

(***************************************************************************)
(* Types of the host and the board.                                        *)
(***************************************************************************)
LEMMA Versions ==
  /\ Releases \in Nat /\ None \notin Version /\ Torn \notin Version /\ None # Torn
  /\ 0 \in Version /\ Version \subseteq Image /\ None \in Image /\ Torn \in Image
  BY ReleaseAssumption DEF Version, None, Torn, Image

\* The disk, and what the steps change of it.
LEMMA DiskTyped ==
  ASSUME NEW d \in Disk
  PROVE  /\ Cleared(d) \in Disk /\ Cleared(d).marker = None
         /\ d.software \in Version /\ d.image \in Image /\ d.marker \in Version \cup {None}
         /\ \A i \in Image :
              LET e == [d EXCEPT !.image = i] IN
              e \in Disk /\ e.image = i /\ e.marker = d.marker
         /\ \A v \in Version :
              /\ [d EXCEPT !.marker = v] \in Disk
              /\ [d EXCEPT !.marker = v].marker = v /\ [d EXCEPT !.marker = v].image = d.image
              /\ [d EXCEPT !.software = v] \in Disk
              /\ [d EXCEPT !.software = v].marker = d.marker
              /\ [d EXCEPT !.software = v].image = d.image
  BY Versions DEF Disk, Cleared

\* The flow, and what its steps change of it.
LEMMA FlashingTyped ==
  ASSUME NEW q \in Flashing
  PROVE  /\ q.bank \in 0..2 /\ q.v \in Version \cup {None}
         /\ \A a \in {"none", "start", "await", "info", "flash", "send", "bank", "boot", "clear"} :
              LET r == [q EXCEPT !.at = a] IN r \in Flashing /\ r.at = a /\ r.bank = q.bank
  BY DEF Flashing

\* The flow at rest, and as it starts.
LEMMA NoFlashTyped ==
  /\ NoFlash \in Flashing /\ NoFlash.at = "none"
  /\ [NoFlash EXCEPT !.at = "start"] \in Flashing /\ [NoFlash EXCEPT !.at = "start"].at = "start"
  BY DEF NoFlash, Flashing

\* Using up one of the bounds.
LEMMA BoundsTyped ==
  ASSUME NEW u \in Bounds
  PROVE  /\ u.updates > 0 => [u EXCEPT !.updates = @ - 1] \in Bounds
         /\ u.crashes > 0 => [u EXCEPT !.crashes = @ - 1] \in Bounds
         /\ u.lost > 0 => [u EXCEPT !.lost = @ - 1] \in Bounds
         /\ u.io > 0 => [u EXCEPT !.io = @ - 1] \in Bounds
  BY DEF Bounds

\* An update, and what its steps change of it.
LEMMA UpdateTyped ==
  /\ Idle \in Update /\ Idle.at = "idle"
  /\ \A u \in Update : u # Idle =>
       u.v \in Version /\ u.at \in {"download", "copy", "mark", "install", "reboot"}
  /\ \A u \in Update, a \in {"download", "copy", "mark", "install", "reboot"} :
       u # Idle => [u EXCEPT !.at = a] \in Update /\ [u EXCEPT !.at = a].at = a
                   /\ [u EXCEPT !.at = a].v = u.v
  BY DEF Update, Idle

\* The board, and what the steps change of it.
LEMMA BoardTyped ==
  ASSUME NEW b \in Board
  PROVE  /\ b.exec \in Image /\ b.bank \in [1..2 -> Image] /\ b.active \in 1..2 /\ b.loaded \in 1..2
         /\ b.into \in 0..2 /\ b.file \in Image /\ b.at \in {"app", "cli", "receive"}
         /\ \A a \in {"app", "cli"} : [b EXCEPT !.at = a] \in Board /\ [b EXCEPT !.at = a].at = a
         /\ \A k \in 1..2 : [b EXCEPT !.active = k] \in Board /\ [b EXCEPT !.active = k].at = b.at
         /\ \A k \in 0..2, i \in Image :
              LET c == [b EXCEPT !.at = "receive", !.into = k, !.file = i] IN
              c \in Board /\ c.at = "receive" /\ c.into = k
         /\ [b EXCEPT !.into = 0, !.file = None] \in Board
         /\ Ended(b) \in Board /\ Ended(b).at = "cli"
<1>1. /\ b.exec \in Image /\ b.bank \in [1..2 -> Image] /\ b.active \in 1..2 /\ b.loaded \in 1..2
      /\ b.into \in 0..2 /\ b.file \in Image /\ b.at \in {"app", "cli", "receive"}
  BY DEF Board
<1>2. \A a \in {"app", "cli"} : [b EXCEPT !.at = a] \in Board /\ [b EXCEPT !.at = a].at = a
  BY DEF Board
<1>3. \A k \in 1..2 : [b EXCEPT !.active = k] \in Board /\ [b EXCEPT !.active = k].at = b.at
  BY DEF Board
<1>4. \A k \in 0..2, i \in Image :
        LET c == [b EXCEPT !.at = "receive", !.into = k, !.file = i] IN
        c \in Board /\ c.at = "receive" /\ c.into = k
  BY DEF Board
<1>5. \A k \in 0..2, i \in Image : [b EXCEPT !.into = k, !.file = i] \in Board
  BY DEF Board
<1>6. \A k \in 0..2, i \in Image : LET c == [b EXCEPT !.at = "cli", !.into = k, !.file = i] IN
        c \in Board /\ c.at = "cli"
  BY DEF Board
<1>7. 0 \in 0..2
  OBVIOUS
<1>8. [b EXCEPT !.into = 0, !.file = None] \in Board
  BY <1>5, <1>7, Versions
<1>9. Ended(b) \in Board /\ Ended(b).at = "cli"
  BY <1>6, <1>7, Versions DEF Ended
<1> QED BY <1>1, <1>2, <1>3, <1>4, <1>8, <1>9

\* A boot copies the active bank only when there is an image in it.
LEMMA BootsTyped ==
  ASSUME NEW b \in Board
  PROVE  Boots(b) \in Board /\ Boots(b).at = "app"
<1>1. b.active \in 1..2 /\ b.bank[b.active] \in Image
  BY DEF Board
<1>2. \A e \in Image, l \in 1..2 :
        /\ [b EXCEPT !.at = "app", !.exec = e, !.loaded = l] \in Board
        /\ [b EXCEPT !.at = "app", !.exec = e, !.loaded = l].at = "app"
  BY DEF Board
<1>3. CASE b.active # b.loaded /\ b.bank[b.active] # None
  BY <1>1, <1>2, <1>3 DEF Boots
<1>4. CASE ~(b.active # b.loaded /\ b.bank[b.active] # None)
  <2>1. Boots(b) = [b EXCEPT !.at = "app"]
    BY <1>4 DEF Boots
  <2>2. [b EXCEPT !.at = "app"] \in Board /\ [b EXCEPT !.at = "app"].at = "app"
    BY DEF Board
  <2> QED BY <2>1, <2>2
<1> QED BY <1>3, <1>4

\* The erase, and the record at the end of a reception, change the bank that is flashed.
LEMMA BankTyped ==
  ASSUME NEW b \in Board, b.into # 0
  PROVE  /\ [b EXCEPT !.bank[b.into] = None] \in Board
         /\ [b EXCEPT !.bank[b.into] = None].at = b.at
         /\ [b EXCEPT !.bank[b.into] = None].into = b.into
         /\ \A c \in Recorded(b) : c \in Board /\ c.at = "cli"
<1>1. b.into \in 1..2 /\ b.bank \in [1..2 -> Image] /\ b.file \in Image
  BY DEF Board
<1>2. \A i \in Image : [b.bank EXCEPT ![b.into] = i] \in [1..2 -> Image]
  BY <1>1
<1>3. \A c \in Board, f \in [1..2 -> Image] :
        /\ [c EXCEPT !.bank = f] \in Board /\ [c EXCEPT !.bank = f].at = c.at
        /\ [c EXCEPT !.bank = f].into = c.into
  BY DEF Board
<1>4. [b EXCEPT !.bank[b.into] = None] = [b EXCEPT !.bank = [b.bank EXCEPT ![b.into] = None]]
  BY DEF Board
<1>5. Ended(b) \in Board /\ Ended(b).at = "cli" /\ Ended(b).bank = b.bank
  BY BoardTyped DEF Ended, Board
<1>6. Received(b) \subseteq Image
  BY <1>1, Versions DEF Received
<1>7. \A i \in Image : [Ended(b) EXCEPT !.bank[b.into] = i]
                        = [Ended(b) EXCEPT !.bank = [b.bank EXCEPT ![b.into] = i]]
  BY <1>5 DEF Board
<1>8. ASSUME NEW c \in Recorded(b) PROVE c \in Board /\ c.at = "cli"
  <2>1. PICK i \in Received(b) : c = [Ended(b) EXCEPT !.bank[b.into] = i]
    BY DEF Recorded
  <2>2. i \in Image /\ c = [Ended(b) EXCEPT !.bank = [b.bank EXCEPT ![b.into] = i]]
    BY <1>6, <1>7, <2>1
  <2> DEFINE f == [b.bank EXCEPT ![b.into] = i]
  <2>3. f \in [1..2 -> Image] /\ c = [Ended(b) EXCEPT !.bank = f]
    BY <1>2, <2>2
  <2> HIDE DEF f
  <2> QED BY <1>3, <1>5, <2>3
<1> QED BY <1>2, <1>3, <1>4, <1>8, Versions

(***************************************************************************)
(* The steps of StackUpdater, of PendingUpdateController and of restarts.  *)
(***************************************************************************)
LEMMA ApplyHolds ==
  ASSUME IInv, Apply
  PROVE  IInv'
<1> USE DEF IInv
<1>1. UNCHANGED tvars /\ use' = use /\ pend' = pend /\ board' = board /\ slipped' = slipped
  BY DEF Apply, StartUpdate, CopyImage, Copied, WriteMarker, Installed, ApplyFails, ApplyKeeps
<1>2. TransferTypeOK' /\ TransferInv' /\ Sending' = Sending /\ Receiving' = Receiving
  BY <1>1, TransferSame DEF TypeOK
<1>3. FlowInv'
  BY <1>1 DEF FlowInv
<1>4. disk \in Disk /\ apply \in Update /\ left \in Bounds /\ use \in Uses /\ crowded \in BOOLEAN
  BY DEF TypeOK
<1>5. ASSUME disk' \in Disk, apply' \in Update, left' \in Bounds, crowded' \in BOOLEAN
      PROVE  TypeOK'
  BY <1>1, <1>2, <1>5 DEF TypeOK
<1>6. CASE \E v \in Version : StartUpdate(v)
  <2>1. PICK v \in Version : StartUpdate(v)
    BY <1>6
  <2>2. apply = Idle
    BY <2>1, <1>4, UpdateTyped DEF StartUpdate, Steps
  <2>3. apply' \in Update /\ apply'.at = "download"
    BY <2>1 DEF StartUpdate, Update
  <2>4. left' \in Bounds
    BY <2>1, <1>4, BoundsTyped DEF StartUpdate
  <2>5. disk' = disk /\ crowded' = (crowded \/ disk.marker # None \/ pend # NoFlash)
    BY <2>1 DEF StartUpdate
  <2>6. crowded' \in BOOLEAN
    BY <2>5
  <2>7. StageInv'
    BY <1>1, <2>3, <2>5 DEF StageInv, MarkerNamesWhole
  <2> QED BY <1>2, <1>3, <1>4, <1>5, <2>3, <2>4, <2>5, <2>6, <2>7
<1>7. CASE CopyImage
  <2>1. apply # Idle /\ apply.at = "download"
    BY <1>7, UpdateTyped DEF CopyImage, Steps
  <2>2. apply' \in Update /\ apply'.at = "copy"
    BY <1>7, <1>4, <2>1, UpdateTyped DEF CopyImage, To
  <2>3. disk' \in Disk /\ disk'.marker = disk.marker
    BY <1>7, <1>4, DiskTyped, Versions DEF CopyImage
  <2>4. left' = left /\ crowded' = crowded
    BY <1>7 DEF CopyImage
  <2>5. StageInv'
    BY <1>1, <2>1, <2>2, <2>3, <2>4 DEF StageInv, MarkerNamesWhole
  <2> QED BY <1>2, <1>3, <1>4, <1>5, <2>2, <2>3, <2>4, <2>5
<1>8. CASE Copied
  <2>1. apply # Idle /\ apply.at = "copy" /\ apply.v \in Image
    BY <1>8, <1>4, UpdateTyped, Versions DEF Copied, Steps
  <2>2. apply' \in Update /\ apply'.at = "mark" /\ apply'.v = apply.v
    BY <1>8, <1>4, <2>1, UpdateTyped DEF Copied, To
  <2>3. disk' \in Disk /\ disk'.marker = disk.marker /\ disk'.image = apply.v
    BY <1>8, <1>4, <2>1, DiskTyped DEF Copied
  <2>4. left' = left /\ crowded' = crowded
    BY <1>8 DEF Copied
  <2>5. StageInv'
    BY <1>1, <2>1, <2>2, <2>3, <2>4 DEF StageInv, MarkerNamesWhole
  <2> QED BY <1>2, <1>3, <1>4, <1>5, <2>2, <2>3, <2>4, <2>5
<1>9. CASE WriteMarker
  <2>1. apply # Idle /\ apply.at = "mark" /\ apply.v \in Version
    BY <1>9, <1>4, UpdateTyped DEF WriteMarker, Steps
  <2>2. apply' \in Update /\ apply'.at = "install"
    BY <1>9, <1>4, <2>1, UpdateTyped DEF WriteMarker, To
  <2>3. disk' \in Disk /\ disk'.marker = apply.v /\ disk'.image = disk.image
    BY <1>9, <1>4, <2>1, DiskTyped DEF WriteMarker
  <2>4. left' = left /\ crowded' = crowded
    BY <1>9 DEF WriteMarker
  <2>5. StageInv'
    BY <1>1, <2>1, <2>2, <2>3, <2>4 DEF StageInv, MarkerNamesWhole
  <2> QED BY <1>2, <1>3, <1>4, <1>5, <2>2, <2>3, <2>4, <2>5
<1>10. CASE Installed
  <2>1. apply # Idle /\ apply.at = "install" /\ apply.v \in Version
    BY <1>10, <1>4, UpdateTyped DEF Installed, Steps
  <2>2. apply' \in Update /\ apply'.at = "reboot"
    BY <1>10, <1>4, <2>1, UpdateTyped DEF Installed, To
  <2>3. disk' \in Disk /\ disk'.marker = disk.marker /\ disk'.image = disk.image
    BY <1>10, <1>4, <2>1, DiskTyped DEF Installed
  <2>4. left' = left /\ crowded' = crowded
    BY <1>10 DEF Installed
  <2>5. StageInv'
    BY <1>1, <2>1, <2>2, <2>3, <2>4 DEF StageInv, MarkerNamesWhole
  <2> QED BY <1>2, <1>3, <1>4, <1>5, <2>2, <2>3, <2>4, <2>5
<1>11. CASE ApplyFails
  <2>1. apply' = Idle /\ apply' \in Update /\ apply'.at = "idle"
    BY <1>11, UpdateTyped DEF ApplyFails
  <2>2. disk' \in Disk /\ disk'.marker = None
    BY <1>11, <1>4, DiskTyped DEF ApplyFails
  <2>3. left' \in Bounds /\ crowded' = crowded
    BY <1>11, <1>4, BoundsTyped DEF ApplyFails
  <2>4. StageInv'
    BY <2>1, <2>2 DEF StageInv, MarkerNamesWhole
  <2> QED BY <1>2, <1>3, <1>4, <1>5, <2>1, <2>2, <2>3, <2>4
<1> QED BY <1>6, <1>7, <1>8, <1>9, <1>10, <1>11 DEF Apply

\* A flash is under way only while no update that is alone is.
LEMMA Alone ==
  ASSUME IInv, pend.at # "none", ~crowded
  PROVE  apply = Idle
  BY NoFlashTyped DEF IInv, StageInv

\* While the flow leaves the transfer alone, only its own steps, the disk and the board change.
LEMMA FlowStep ==
  ASSUME IInv, pend.at # "none", UNCHANGED tvars, FlashKeeps, pend.at # "send",
         left' \in Bounds, slipped' \in BOOLEAN, pend' \in Flashing, board' \in Board, FlowInv',
         board'.at = "receive" <=> board.at = "receive", board'.at = "receive" => board'.into # 0,
         disk' = disk \/ (disk' \in Disk /\ disk'.marker = None)
  PROVE  IInv'
<1>1. TransferTypeOK' /\ TransferInv' /\ Sending' = Sending /\ Receiving' = Receiving
  BY TransferSame DEF IInv, TypeOK
<1>2. use' = use /\ apply' = apply /\ crowded' = crowded
  BY DEF FlashKeeps
<1>3. TypeOK'
  BY <1>1, <1>2 DEF IInv, TypeOK
<1>4. ~crowded => apply = Idle
  BY Alone
<1>5. StageInv'
  BY <1>2, <1>4, UpdateTyped DEF IInv, StageInv, MarkerNamesWhole
<1> QED BY <1>1, <1>3, <1>5 DEF IInv

\* The start reads the marker, and finds no board or the version already there.
LEMMA ProbeHolds ==
  ASSUME IInv, pending_firmware_update \/ BoardAbsent \/ AlreadyThere
  PROVE  IInv'
<1>1. /\ UNCHANGED <<left, board, slipped>> /\ UNCHANGED tvars /\ FlashKeeps
      /\ pend.at \in {"start", "await"}
      /\ disk' = disk \/ disk' = Cleared(disk)
      /\ \/ pend' = NoFlash
         \/ pend' = [pend EXCEPT !.at = "await", !.v = disk.marker] /\ disk.marker # None
  BY DEF pending_firmware_update, BoardAbsent, AlreadyThere, Flashes, Ends
<1>2. /\ disk \in Disk /\ pend \in Flashing /\ board \in Board /\ left \in Bounds
      /\ slipped \in BOOLEAN
      /\ board.at = "receive" => board.into # 0
  BY DEF IInv, TypeOK
<1>3. pend' \in Flashing /\ pend'.at \in {"none", "await"}
  <2>1. \A v \in Version : /\ [pend EXCEPT !.at = "await", !.v = v] \in Flashing
                           /\ [pend EXCEPT !.at = "await", !.v = v].at = "await"
    BY <1>2 DEF Flashing
  <2>2. disk.marker # None => disk.marker \in Version
    BY <1>2, DiskTyped
  <2> QED BY <1>1, <2>1, <2>2, NoFlashTyped
<1>4. FlowInv'
  BY <1>3 DEF FlowInv
<1>5. disk' = disk \/ (disk' \in Disk /\ disk'.marker = None)
  BY <1>1, <1>2, DiskTyped
<1> QED BY <1>1, <1>2, <1>3, <1>4, <1>5, FlowStep

\* The command that enters the bootloader.
LEMMA EnterHolds ==
  ASSUME IInv, EnterBootloader
  PROVE  IInv'
<1>1. /\ UNCHANGED tvars /\ disk' = disk /\ FlashKeeps /\ pend.at = "await"
      /\ board.at \in {"app", "cli"}
      /\ pend' = NoFlash \/ pend' = [pend EXCEPT !.at = "info"]
      /\ board' \in {board, [board EXCEPT !.at = "cli"]}
      /\ UNCHANGED <<left, slipped>> \/ Unanswered
  BY DEF EnterBootloader, Flashes, Ends, Goes
<1>2. /\ pend \in Flashing /\ board \in Board /\ left \in Bounds /\ slipped \in BOOLEAN
  BY DEF IInv, TypeOK
<1>3. left' \in Bounds /\ slipped' \in BOOLEAN
  BY <1>1, <1>2, BoundsTyped DEF Unanswered
<1>4. pend' \in Flashing /\ pend'.at \in {"none", "info"}
  <2>1. [pend EXCEPT !.at = "info"] \in Flashing /\ [pend EXCEPT !.at = "info"].at = "info"
    BY <1>2 DEF Flashing
  <2> QED BY <1>1, <2>1, NoFlashTyped
<1>5. board' \in Board /\ board'.at \in {"app", "cli"}
  <2>1. [board EXCEPT !.at = "cli"] \in Board /\ [board EXCEPT !.at = "cli"].at = "cli"
    BY <1>2 DEF Board
  <2> QED BY <1>1, <1>2, <2>1
<1>6. FlowInv'
  BY <1>4, <1>5 DEF FlowInv
<1> QED BY <1>1, <1>3, <1>4, <1>5, <1>6, FlowStep

\* The command that asks which bank is active.
LEMMA InfoHolds ==
  ASSUME IInv, Info
  PROVE  IInv'
<1>1. /\ UNCHANGED tvars /\ disk' = disk /\ board' = board /\ FlashKeeps /\ pend.at = "info"
      /\ \E b \in {3 - board.active, 2} : pend' = [pend EXCEPT !.at = "flash", !.bank = b]
      /\ UNCHANGED <<left, slipped>> \/ Unanswered
  BY DEF Info, Flashes, Answered
<1>2. /\ pend \in Flashing /\ board \in Board /\ left \in Bounds /\ slipped \in BOOLEAN
      /\ board.at # "receive"
  BY <1>1 DEF IInv, TypeOK, FlowInv
<1>3. left' \in Bounds /\ slipped' \in BOOLEAN
  BY <1>1, <1>2, BoundsTyped DEF Unanswered
<1>4. PICK b \in 1..2 : pend' = [pend EXCEPT !.at = "flash", !.bank = b]
  <2>1. board.active \in 1..2
    BY <1>2 DEF Board
  <2>2. 3 - board.active \in 1..2 /\ 2 \in 1..2
    BY <2>1
  <2> QED BY <1>1, <2>2
<1>5. \A c \in 0..2 : LET q == [pend EXCEPT !.at = "flash", !.bank = c] IN
        q \in Flashing /\ q.at = "flash" /\ q.bank = c
  BY <1>2 DEF Flashing
<1>6. pend' \in Flashing /\ pend'.at = "flash" /\ pend'.bank # 0
  <2>1. b \in 0..2 /\ b # 0
    OBVIOUS
  <2> QED BY <1>4, <1>5, <2>1
<1>7. FlowInv'
  BY <1>1, <1>2, <1>6 DEF FlowInv
<1> QED BY <1>1, <1>2, <1>3, <1>6, <1>7, FlowStep

\* The command that makes the flashed bank the active one.
LEMMA BankHolds ==
  ASSUME IInv, Bank
  PROVE  IInv'
<1>1. /\ UNCHANGED tvars /\ disk' = disk /\ FlashKeeps /\ pend.at = "bank"
      /\ pend' = [pend EXCEPT !.at = "boot"]
      /\ board' \in {board, [board EXCEPT !.active = pend.bank]}
      /\ UNCHANGED <<left, slipped>> \/ Unanswered
  BY DEF Bank, Flashes, Goes, Answered
<1>2. /\ pend \in Flashing /\ board \in Board /\ left \in Bounds /\ slipped \in BOOLEAN
      /\ board.at # "receive" /\ pend.bank # 0
  BY <1>1 DEF IInv, TypeOK, FlowInv
<1>3. left' \in Bounds /\ slipped' \in BOOLEAN
  BY <1>1, <1>2, BoundsTyped DEF Unanswered
<1>4. pend' \in Flashing /\ pend'.at = "boot"
  BY <1>1, <1>2, FlashingTyped
<1>5. pend.bank \in 1..2
  <2>1. pend.bank \in 0..2
    BY <1>2 DEF Flashing
  <2> QED BY <1>2, <2>1
<1>6. board' \in Board /\ board'.at = board.at
  <2>1. \A k \in 1..2 : [board EXCEPT !.active = k] \in Board
                        /\ [board EXCEPT !.active = k].at = board.at
    BY <1>2 DEF Board
  <2> QED BY <1>1, <1>2, <1>5, <2>1
<1>7. FlowInv'
  BY <1>2, <1>4, <1>6 DEF FlowInv
<1> QED BY <1>1, <1>2, <1>3, <1>4, <1>6, <1>7, FlowStep

\* The command that boots it.
LEMMA BootHolds ==
  ASSUME IInv, Boot
  PROVE  IInv'
<1>1. /\ UNCHANGED tvars /\ disk' = disk /\ FlashKeeps /\ pend.at = "boot"
      /\ pend' = [pend EXCEPT !.at = "clear"]
      /\ board' = board \/ board' = Boots(board)
      /\ UNCHANGED <<left, slipped>> \/ Unanswered
  BY DEF Boot, Flashes, Goes
<1>2. /\ pend \in Flashing /\ board \in Board /\ left \in Bounds /\ slipped \in BOOLEAN
      /\ board.at # "receive"
  BY <1>1 DEF IInv, TypeOK, FlowInv
<1>3. left' \in Bounds /\ slipped' \in BOOLEAN
  BY <1>1, <1>2, BoundsTyped DEF Unanswered
<1>4. pend' \in Flashing /\ pend'.at = "clear"
  BY <1>1, <1>2, FlashingTyped
<1>5. board' \in Board /\ board'.at # "receive"
  BY <1>1, <1>2, BootsTyped
<1>6. FlowInv'
  BY <1>4 DEF FlowInv
<1> QED BY <1>1, <1>2, <1>3, <1>4, <1>5, <1>6, FlowStep

\* The marker goes once the board reports its version.
LEMMA ClearHolds ==
  ASSUME IInv, ClearPending
  PROVE  IInv'
<1>1. /\ UNCHANGED tvars /\ disk' = Cleared(disk) /\ board' = board /\ FlashKeeps
      /\ pend.at = "clear"
      /\ pend' = NoFlash /\ left' = left /\ slipped' = slipped
  BY DEF ClearPending, Flashes, Ends
<1>2. /\ disk \in Disk /\ board \in Board /\ left \in Bounds /\ slipped \in BOOLEAN
      /\ board.at = "receive" => board.into # 0
  BY DEF IInv, TypeOK
<1>3. disk' \in Disk /\ disk'.marker = None
  BY <1>1, <1>2, DiskTyped
<1>4. FlowInv'
  BY <1>1, NoFlashTyped DEF FlowInv
<1> QED BY <1>1, <1>2, <1>3, <1>4, NoFlashTyped, FlowStep

\* The flash command starts both ends of a transfer, or fails to.
LEMMA FlashHolds ==
  ASSUME IInv, Flash
  PROVE  IInv'
<1>1. /\ pend.at = "flash" /\ disk' = disk /\ FlashKeeps /\ left' = left /\ slipped' = slipped
      /\ \/ /\ rcv' = At("hello", 1) /\ down' = <<"C">> /\ faults' = faults
            /\ board' = [board EXCEPT !.at = "receive", !.into = pend.bank, !.file = disk.image]
         \/ /\ rcv' = Off /\ down' = <<>> /\ board' = board /\ faults > 0 /\ faults' = faults - 1
      /\ \/ pend' = NoFlash /\ snd' = Off
         \/ pend' = [pend EXCEPT !.at = "send"] /\ snd' = At("hello", 0)
      /\ up' = <<>> /\ adrift' = adrift
  BY DEF Flash, Flashes, Ends, Goes
<1>2. /\ disk \in Disk /\ pend \in Flashing /\ board \in Board /\ left \in Bounds
      /\ slipped \in BOOLEAN
      /\ board.at # "receive" /\ pend.bank # 0 /\ TransferTypeOK /\ TransferInv
  BY <1>1 DEF IInv, TypeOK, FlowInv
<1>3. /\ TransferTypeOK' /\ TransferInv' /\ (Sending' => snd' = At("hello", 0))
      /\ Receiving' <=> rcv' = At("hello", 1)
  BY <1>1, <1>2, Begins
<1>4. /\ pend' \in Flashing /\ pend'.at \in {"none", "send"}
      /\ pend'.at = "send" => pend'.bank # 0
      /\ snd' = At("hello", 0) => pend'.at = "send"
  <2>1. LET q == [pend EXCEPT !.at = "send"] IN
        q \in Flashing /\ q.at = "send" /\ q.bank = pend.bank
    BY <1>2 DEF Flashing
  <2>2. Off # At("hello", 0)
    BY MadeAt
  <2>3. CASE pend' = NoFlash /\ snd' = Off
    BY <2>2, <2>3, NoFlashTyped
  <2>4. CASE pend' = [pend EXCEPT !.at = "send"]
    BY <1>2, <2>1, <2>4
  <2> QED BY <1>1, <2>3, <2>4
<1>5. board' \in Board /\ (board'.at = "receive" => board'.into # 0)
      /\ (board'.at = "receive" <=> rcv' = At("hello", 1))
  <2>1. pend.bank \in 0..2 /\ disk.image \in Image
    BY <1>2, DiskTyped DEF Flashing
  <2>2. \A k \in 0..2, i \in Image :
          LET c == [board EXCEPT !.at = "receive", !.into = k, !.file = i] IN
          c \in Board /\ c.at = "receive" /\ c.into = k
    BY <1>2 DEF Board
  <2>3. Off # At("hello", 1)
    BY MadeAt
  <2>4. CASE /\ rcv' = At("hello", 1)
             /\ board' = [board EXCEPT !.at = "receive", !.into = pend.bank, !.file = disk.image]
    BY <1>2, <2>1, <2>2, <2>4
  <2>5. CASE rcv' = Off /\ board' = board
    BY <1>2, <2>3, <2>5
  <2> QED BY <1>1, <2>4, <2>5
<1>6. use' = use /\ apply' = apply /\ crowded' = crowded
  BY <1>1 DEF FlashKeeps
<1>7. TypeOK'
  BY <1>1, <1>2, <1>3, <1>4, <1>5, <1>6 DEF IInv, TypeOK
<1>8. ~crowded => apply = Idle
  BY <1>1, Alone
<1>9. StageInv'
  BY <1>1, <1>6, <1>8, UpdateTyped DEF IInv, StageInv, MarkerNamesWhole
<1>10. FlowInv'
  BY <1>4 DEF FlowInv
<1> QED BY <1>3, <1>7, <1>9, <1>10 DEF IInv

\* The transfer ends for the sender, well or not.
LEMMA FlashEndsHold ==
  ASSUME IInv, FlashDone \/ FlashFails
  PROVE  IInv'
<1>1. /\ pend.at = "send" /\ disk' = disk /\ board' = board /\ FlashKeeps /\ snd' = Off
      /\ UNCHANGED <<rcv, up, down, faults, adrift>>
      /\ UNCHANGED <<left, slipped>> \/ Unanswered
      /\ pend' = NoFlash \/ (rcv.at = "done" /\ pend' = [pend EXCEPT !.at = "bank"])
  BY DEF FlashDone, FlashFails, Flashes, Ends, Goes
<1>2. /\ pend \in Flashing /\ board \in Board /\ left \in Bounds /\ slipped \in BOOLEAN
      /\ pend.bank # 0 /\ TransferTypeOK /\ TransferInv /\ (Receiving <=> board.at = "receive")
  BY <1>1 DEF IInv, TypeOK, FlowInv
<1>3. TransferTypeOK' /\ TransferInv' /\ ~Sending' /\ Receiving' = Receiving
  BY <1>1, <1>2, SenderGone
<1>4. left' \in Bounds /\ slipped' \in BOOLEAN
  BY <1>1, <1>2, BoundsTyped DEF Unanswered
<1>5. /\ pend' \in Flashing /\ pend'.at \in {"none", "bank"}
      /\ pend'.at = "bank" => pend'.bank # 0 /\ board.at # "receive"
  <2>1. LET q == [pend EXCEPT !.at = "bank"] IN
        q \in Flashing /\ q.at = "bank" /\ q.bank = pend.bank
    BY <1>2 DEF Flashing
  <2>2. rcv.at = "done" => board.at # "receive"
    BY <1>2 DEF Receiving
  <2> QED BY <1>1, <1>2, <2>1, <2>2, NoFlashTyped
<1>6. use' = use /\ apply' = apply /\ crowded' = crowded
  BY <1>1 DEF FlashKeeps
<1>7. TypeOK'
  BY <1>1, <1>2, <1>3, <1>4, <1>5, <1>6 DEF IInv, TypeOK
<1>8. ~crowded => apply = Idle
  BY <1>1, Alone
<1>9. StageInv'
  BY <1>1, <1>6, <1>8, UpdateTyped DEF IInv, StageInv, MarkerNamesWhole
<1>10. FlowInv'
  BY <1>1, <1>5 DEF FlowInv
<1> QED BY <1>3, <1>7, <1>9, <1>10 DEF IInv

\* A step of the transfer neither starts a sender nor a receiver, and ends it only at its end.
LEMMA TransferEnds ==
  ASSUME TransferTypeOK, Transfer
  PROVE  /\ Sending' => Sending
         /\ \/ Receiving' = Receiving /\ (rcv'.at # rcv.at /\ ~Receiving => FALSE)
            \/ Receiving /\ rcv'.at \in {"done", "failed"}
<1>1. CASE ymodem_send
  <2>1. Sending /\ rcv' = rcv
    BY <1>1 DEF ymodem_send, WaitFor, NoC, Acked, Naked, SenderTimesOut, SenderCancelled, Ignored,
                SenderKeeps, Sending
  <2> QED BY <2>1 DEF Receiving
<1>2. CASE ymodem_receive
  <2>1. snd' = snd /\ Receiving
    BY <1>2 DEF ymodem_receive, ReceivePacket, Misread, Within, Erased, Handshake, HelloAgain,
                HelloMisread, SecondEot, SecondLost, SecondMisread, NullHeader, ReceiverTimesOut,
                ReceiverKeeps, Misreads, Receiving
  <2>2. rcv'.at # "off"
    <3>1. \A a : \A r \in Receiver : [r EXCEPT !.at = a].at = a
      BY DEF Receiver
    <3>2. rcv \in Receiver /\ [rcv EXCEPT !.try = @ + 1].at = rcv.at
      BY DEF TransferTypeOK, Receiver
    <3>3. ReceivePacket => \/ rcv'.at = "loop"
                           \/ \E a \in {"erase", "failed", "eot"} : rcv' = [rcv EXCEPT !.at = a]
      BY MadeAt DEF ReceivePacket, Take
    <3>4. Erased \/ Handshake \/ SecondLost => rcv'.at = "loop"
      BY MadeAt DEF Erased, Handshake, SecondLost
    <3>5. HelloAgain \/ HelloMisread =>
                        \/ rcv' = [rcv EXCEPT !.at = "failed"]
                        \/ rcv' = [rcv EXCEPT !.try = @ + 1] /\ rcv.at = "hello"
      BY DEF HelloAgain, HelloMisread, NextTry
    <3>6. SecondEot \/ SecondMisread => rcv'.at = "loop" \/ rcv' = [rcv EXCEPT !.at = "tail"]
      BY MadeAt DEF SecondEot, SecondMisread
    <3>7. NullHeader => rcv' = [rcv EXCEPT !.at = "done"]
      BY DEF NullHeader
    <3>8. ReceiverTimesOut => \/ rcv' = rcv /\ rcv.at = "loop"
                              \/ rcv'.at = "loop" \/ rcv' = [rcv EXCEPT !.at = "done"]
      BY MadeAt DEF ReceiverTimesOut
    <3>9. Misread \/ Within =>
             \/ rcv' = rcv /\ rcv.at \in {"loop", "within"}
             \/ rcv'.at = "loop"
             \/ \E a \in {"within", "failed", "eot"} : rcv' = [rcv EXCEPT !.at = a]
      BY MadeAt DEF Misread, Within
    <3>10. \A a : rcv' = [rcv EXCEPT !.at = a] => rcv'.at = a
      BY <3>1, <3>2
    <3>11. ReceivePacket \/ Erased \/ Handshake \/ HelloAgain \/ HelloMisread => rcv'.at # "off"
      BY <3>2, <3>3, <3>4, <3>5, <3>10
    <3>12. SecondEot \/ SecondLost \/ SecondMisread \/ NullHeader \/ ReceiverTimesOut
             => rcv'.at # "off"
      BY <3>4, <3>6, <3>7, <3>8, <3>10
    <3>13. Misread \/ Within => rcv'.at # "off"
      BY <3>9, <3>10
    <3> QED BY <1>2, <3>11, <3>12, <3>13 DEF ymodem_receive
  <2> QED BY <2>1, <2>2 DEF Receiving, Sending
<1>3. CASE LosePacket \/ LoseAnswer
  BY <1>3 DEF LosePacket, LoseAnswer, Receiving, Sending
<1> QED BY <1>1, <1>2, <1>3 DEF Transfer

\* A step of the transfer, with what the receiver does to the bank.
LEMMA TransferringHolds ==
  ASSUME IInv, Transferring
  PROVE  IInv'
<1>1. /\ TransferTypeOK /\ TransferInv /\ board \in Board /\ (Receiving <=> board.at = "receive")
      /\ board.at = "receive" => board.into # 0
      /\ Sending => pend.at = "send"
      /\ Transfer /\ Result /\ UNCHANGED <<use, left, disk, apply, pend, crowded, slipped>>
  BY DEF IInv, TypeOK, Transferring
<1>2. TransferTypeOK' /\ TransferInv'
  BY <1>1, TransferKept
<1>3. /\ Sending' => Sending
      /\ \/ Receiving' = Receiving /\ (rcv'.at # rcv.at /\ ~Receiving => FALSE)
         \/ Receiving /\ rcv'.at \in {"done", "failed"}
  BY <1>1, TransferEnds
<1>4. /\ board' \in Board /\ (Receiving' <=> board'.at = "receive")
      /\ board'.at = "receive" => board'.into # 0
  <2>1. CASE ~Receiving
    <3>1. rcv'.at = rcv.at
      BY <1>3, <2>1
    <3>2. board' = board
      BY <1>1, <3>1 DEF Result
    <3> QED BY <1>1, <1>3, <2>1, <3>2
  <2>2. CASE Receiving /\ rcv'.at \in {"done", "failed"}
    <3>1. rcv.at # rcv'.at /\ rcv'.at # "erase" /\ ~Receiving'
      BY <2>2 DEF Receiving
    <3>2. board' \in Recorded(board) \/ board' = Ended(board)
      BY <1>1, <2>2, <3>1 DEF Result
    <3>3. board.into # 0
      BY <1>1, <2>2
    <3>4. board' \in Board /\ board'.at = "cli"
      <4>1. \A c \in Recorded(board) : c \in Board /\ c.at = "cli"
        BY <1>1, <3>3, BankTyped
      <4>2. Ended(board) \in Board /\ Ended(board).at = "cli"
        BY <1>1, BoardTyped
      <4> QED BY <3>2, <4>1, <4>2
    <3> QED BY <3>1, <3>4
  <2>3. CASE Receiving /\ rcv'.at \notin {"done", "failed"}
    <3>1. board' = board \/ board' = [board EXCEPT !.bank[board.into] = None]
      BY <1>1, <2>3 DEF Result
    <3>2. board.into # 0 /\ Receiving'
      BY <1>1, <1>3, <2>3
    <3>3. board' \in Board /\ board'.at = board.at /\ board'.into = board.into
      BY <1>1, <3>1, <3>2, BankTyped
    <3> QED BY <1>1, <2>3, <3>2, <3>3
  <2> QED BY <2>1, <2>2, <2>3
<1>5. TypeOK'
  BY <1>1, <1>2, <1>3, <1>4 DEF IInv, TypeOK
<1>6. pend.at \in {"info", "flash", "bank", "boot"} => board'.at # "receive"
  BY <1>1, <1>3, <1>4 DEF IInv, FlowInv
<1>7. FlowInv'
  BY <1>1, <1>6 DEF IInv, FlowInv
<1>8. StageInv'
  BY <1>1 DEF IInv, StageInv, MarkerNamesWhole
<1> QED BY <1>2, <1>5, <1>7, <1>8 DEF IInv

\* The host crashes, the board loses power, or the stack starts again.
LEMMA RestartHolds ==
  ASSUME IInv, Reboot \/ Crash \/ PowerCycle
  PROVE  IInv'
<1>1. /\ snd' = Off /\ down' = <<>> /\ apply' = Idle /\ pend' = [NoFlash EXCEPT !.at = "start"]
      /\ UNCHANGED <<use, disk, crowded, slipped, faults, adrift>>
      /\ left' = left \/ (left.crashes > 0 /\ left' = [left EXCEPT !.crashes = @ - 1])
      /\ \/ UNCHANGED <<rcv, up, board>>
         \/ /\ rcv' = Off /\ up' = <<>>
            /\ board' = Boots([board EXCEPT !.into = 0, !.file = None])
  BY DEF Reboot, Crash, PowerCycle, HostStarts
<1>2. /\ board \in Board /\ left \in Bounds /\ TransferTypeOK /\ TransferInv
      /\ (Receiving <=> board.at = "receive") /\ (board.at = "receive" => board.into # 0)
  BY DEF IInv, TypeOK
<1>3. left' \in Bounds
  BY <1>1, <1>2, BoundsTyped
<1>4. /\ TransferTypeOK' /\ TransferInv' /\ ~Sending' /\ board' \in Board
      /\ (Receiving' <=> board'.at = "receive") /\ (board'.at = "receive" => board'.into # 0)
  <2>1. CASE UNCHANGED <<rcv, up, board>>
    BY <1>1, <1>2, <2>1, SenderGone
  <2>2. CASE rcv' = Off /\ up' = <<>> /\ board' = Boots([board EXCEPT !.into = 0, !.file = None])
    <3>1. board' \in Board /\ board'.at = "app"
      BY <1>2, <2>2, BoardTyped, BootsTyped
    <3>2. TransferTypeOK' /\ TransferInv' /\ (Receiving' <=> rcv' = At("hello", 1))
          /\ (Sending' => snd' = At("hello", 0))
      BY <1>1, <1>2, <2>2, Begins
    <3>3. Off # At("hello", 1) /\ Off # At("hello", 0)
      BY MadeAt
    <3> QED BY <1>1, <2>2, <3>1, <3>2, <3>3
  <2> QED BY <1>1, <2>1, <2>2
<1>5. TypeOK'
  BY <1>1, <1>3, <1>4, UpdateTyped, NoFlashTyped DEF IInv, TypeOK
<1>6. FlowInv' /\ StageInv'
  BY <1>1, UpdateTyped, NoFlashTyped DEF IInv, FlowInv, StageInv, MarkerNamesWhole
<1> QED BY <1>4, <1>5, <1>6 DEF IInv

(***************************************************************************)
(* The theorems.                                                           *)
(***************************************************************************)
LEMMA InitHolds == Init => IInv
<1> SUFFICES ASSUME Init PROVE IInv
  OBVIOUS
<1>1. snd = Off /\ rcv = Off /\ up = <<>> /\ down = <<>> /\ faults = MaxFaults /\ adrift = 0
  BY DEF Init, TransferInit
<1>2. TransferTypeOK
  <2>1. faults \in 0..MaxFaults /\ adrift \in 0..MaxDrifts
    <3>1. MaxFaults \in Nat /\ MaxDrifts \in Nat
      BY TransferAssumption
    <3>2. MaxFaults \in 0..MaxFaults /\ 0 \in 0..MaxDrifts
      BY <3>1
    <3> QED BY <1>1, <3>2
  <2>2. up \in Seq(Packets) /\ down \in Seq(Answers)
    BY <1>1, Nothing
  <2>3. snd \in Sender /\ rcv \in Receiver
    BY <1>1, Built
  <2> QED BY <2>1, <2>2, <2>3 DEF TransferTypeOK
<1>3. snd.at = "off" /\ snd.blk = 0 /\ rcv.at = "off" /\ rcv.blk = 0
  BY <1>1, MadeAt
<1>4. Len(<<>>) = 0 /\ <<>> \in Replies /\ <<>> # <<"ACK", "C">>
  BY DEF Replies
<1>5. TransferInv
  <2>1. OneWay
    BY <1>1, <1>3, <1>4 DEF OneWay
  <2>2. ~Says("ACK") /\ ~Says("CAN") /\ ~Next1(Eot)
    BY <1>1 DEF Says, Next1
  <2>3. InStep /\ InLoop /\ Paid /\ LossesAreRecovered /\ NoBlock
    BY <1>3, <2>2 DEF InStep, InLoop, Paid, LossesAreRecovered, NoBlock
  <2> QED BY <1>3, <2>1, <2>3 DEF TransferInv, Afloat, Orderly
<1>6. disk \in Disk /\ disk.marker = None
  BY Versions DEF Init, Disk
<1>7. board \in Board /\ board.at = "app"
  <2>1. <<0, 0>> \in [1..2 -> Image]
    BY Versions
  <2> DEFINE f == <<0, 0>>
  <2> HIDE DEF f
  <2>2. 0 \in Image /\ None \in Image /\ 1 \in 1..2 /\ 0 \in 0..2
    BY Versions
  <2>3. board = [at |-> "app", exec |-> 0, bank |-> f, active |-> 1, loaded |-> 1,
                 into |-> 0, file |-> None]
    BY DEF Init, f
  <2> QED BY <2>1, <2>2, <2>3 DEF Board, f
<1>8. /\ use \in Uses /\ left \in Bounds /\ apply = Idle /\ pend = NoFlash
      /\ crowded = FALSE /\ slipped = FALSE
  BY UseAssumption DEF Init
<1>9. ~Sending /\ ~Receiving
  BY <1>3 DEF Sending, Receiving
<1>10. TypeOK
  BY <1>2, <1>6, <1>7, <1>8, <1>9, UpdateTyped, NoFlashTyped DEF TypeOK
<1>11. FlowInv /\ StageInv
  BY <1>6, <1>8, UpdateTyped, NoFlashTyped DEF FlowInv, StageInv, MarkerNamesWhole
<1> QED BY <1>5, <1>10, <1>11 DEF IInv

\* The invariant is inductive.
LEMMA NextHolds == IInv /\ Next => IInv'
BY ApplyHolds, ProbeHolds, EnterHolds, InfoHolds, FlashHolds, FlashEndsHold, BankHolds, BootHolds,
   ClearHolds, TransferringHolds, RestartHolds
   DEF Next, Pending

\* The inductive invariant holds.
THEOREM InvariantHolds == Spec => []IInv
<1>1. IInv /\ UNCHANGED vars => IInv'
  <2> SUFFICES ASSUME IInv, UNCHANGED vars PROVE IInv'
    OBVIOUS
  <2>1. UNCHANGED tvars /\ UNCHANGED svars
    BY DEF vars
  <2>2. TransferTypeOK' /\ TransferInv' /\ Sending' = Sending /\ Receiving' = Receiving
    BY <2>1, TransferSame DEF IInv, TypeOK
  <2> QED BY <2>1, <2>2 DEF IInv, TypeOK, FlowInv, StageInv, MarkerNamesWhole, svars
<1> QED BY InitHolds, NextHolds, <1>1, PTL DEF Spec

\* Every variable has its type; only a flash that is under way sends, and the board receives exactly
\* when it knows a bank to receive into.
THEOREM TypeCorrect == Spec => []TypeOK
<1>1. IInv => TypeOK
  BY DEF IInv
<1> QED BY <1>1, InvariantHolds, PTL

\* Whatever is lost, garbled, repeated or cut off by a crash: a transfer that either side takes for
\* complete programmed every block, as long as no byte was taken for the first of a packet that is
\* none and the sender gave up on no answer yet to come.
THEOREM TransfersAreWhole == Spec => []CompleteIsWhole
<1>1. IInv => CompleteIsWhole
  BY DEF IInv, TransferInv, Orderly, InStep, CompleteIsWhole
<1> QED BY <1>1, InvariantHolds, PTL

\* Fewer faults than attempts never end a transfer among its data blocks, under the same condition,
\* unless the flash failed.
THEOREM LossesRecover == Spec => []LossesAreRecovered
<1>1. IInv => LossesAreRecovered
  BY DEF IInv, TransferInv, Orderly, LossesAreRecovered
<1> QED BY <1>1, InvariantHolds, PTL

\* As long as no update begins beside another, a marker on the disk names the image beside it,
\* whole.
THEOREM MarkersNameWhole == Spec => []StagedWhole
<1>1. IInv => StagedWhole
  BY DEF IInv, StageInv, StagedWhole
<1> QED BY <1>1, InvariantHolds, PTL
=============
