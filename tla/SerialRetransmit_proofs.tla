----------------------- MODULE SerialRetransmit_proofs -----------------------
(***************************************************************************)
(* What sending again respects, and what not sending again guarantees: how *)
(* often a block is sent again because of naks, which sending times may be *)
(* reported, who still waits for completion, that answers come first, and  *)
(* that receive_buf of the firmware never overflows.                       *)
(***************************************************************************)
EXTENDS SerialStream_proofs

------------------------------------------------------------------------------
(* Naks *)

\* Blocks that two naks had sent again are below ignore_nak_seq, and those
\* that one had are below retransmit_seq; a nak that is acted upon is for a
\* number above ignore_nak_seq.
NakInv ==
    /\ Len(naks) = Len(sent_queue)
    /\ \A i \in 1..Len(naks) :
          /\ naks[i] <= 2
          /\ naks[i] >= 1 => receive_seq + i - 1 < retransmit_seq
          /\ naks[i] >= 2 => receive_seq + i - 1 < ignore_nak_seq
    /\ retransmit_timer = "now" => receive_seq > ignore_nak_seq

\* The types that the arithmetic on naks needs.
LEMMA NakTypes ==
    ASSUME IInv
    PROVE  /\ naks \in Seq(Nat) /\ Len(naks) \in Nat /\ DOMAIN naks = 1..Len(naks)
           /\ \A i \in 1..Len(naks) : naks[i] \in Nat
           /\ ignore_nak_seq \in Nat /\ retransmit_seq \in Nat /\ receive_seq \in Nat
           /\ send_seq \in Nat /\ Len(sent_queue) = send_seq - receive_seq
           /\ receive_seq <= send_seq /\ 1 <= receive_seq
           /\ sent_queue \in Seq(Block) /\ Len(sent_queue) \in Nat
<1>1. naks \in Seq(Nat) BY DEF IInv, TypeOK, HostType
<1>2. \A i \in 1..Len(naks) : naks[i] \in Nat BY <1>1, Element
<1> QED BY <1>1, <1>2, Types DEF IInv, TypeOK, HostType, Numbers

\* A block sent for the first time has had no nak.
LEMMA NakSend ==
    ASSUME IInv, NakInv, SendIdentify \/ SendCommands PROVE NakInv'
<1>1. PICK upto, waiting : SendBlock(upto, waiting)
  BY DEF SendIdentify, SendCommands
<1>2. PICK b : sent_queue' = Append(sent_queue, b)
  BY <1>1 DEF SendBlock
<1>3. /\ naks' = Append(naks, 0)
      /\ UNCHANGED <<receive_seq, retransmit_seq, ignore_nak_seq>>
      /\ retransmit_timer' # "now"
  BY <1>1 DEF SendBlock
<1>4. Len(naks') = Len(naks) + 1 /\ Len(sent_queue') = Len(sent_queue) + 1
  BY <1>2, <1>3, NakTypes
<1>5. \A i \in 1..Len(naks') : \/ i \in 1..Len(naks) /\ naks'[i] = naks[i]
                               \/ naks'[i] = 0
  BY <1>3, <1>4, NakTypes, SMTT(30)
<1>6. ASSUME NEW i \in 1..Len(naks')
      PROVE  /\ naks'[i] <= 2
             /\ naks'[i] >= 1 => receive_seq + i - 1 < retransmit_seq
             /\ naks'[i] >= 2 => receive_seq + i - 1 < ignore_nak_seq
  <2>1. CASE i \in 1..Len(naks) /\ naks'[i] = naks[i] BY <2>1 DEF NakInv
  <2>2. CASE naks'[i] = 0 BY <2>2
  <2> QED BY <2>1, <2>2, <1>5
<1> QED BY <1>3, <1>4, <1>6 DEF NakInv

\* retransmit_event moves ignore_nak_seq over every block it sends a second
\* time because of a nak.
LEMMA NakResend ==
    ASSUME IInv, NakInv, ResendOnNak \/ ResendOnTimeout PROVE NakInv'
<1>0. PICK k : Resend(k) BY DEF ResendOnNak, ResendOnTimeout
<1>1. /\ UNCHANGED <<receive_seq, send_seq, sent_queue>> /\ retransmit_seq' = send_seq
      /\ retransmit_timer' = "set"
  BY <1>0 DEF Resend
<1>2. \A i \in 1..Len(naks) : receive_seq + i - 1 < send_seq
  BY NakTypes DEF NakInv
<1>3. CASE ResendOnTimeout
  <2>1. UNCHANGED naks /\ ignore_nak_seq' = send_seq BY <1>3 DEF ResendOnTimeout
  <2> QED BY <2>1, <1>1, <1>2 DEF NakInv
<1>4. CASE ResendOnNak
  <2>1. /\ naks' = [i \in 1..Len(naks) |-> naks[i] + 1]
        /\ ignore_nak_seq' = IgnoreNak /\ retransmit_timer = "now"
    BY <1>4, NakTypes DEF ResendOnNak
  <2>2. Len(naks') = Len(naks) /\ \A i \in 1..Len(naks) : naks'[i] = naks[i] + 1
    <3>1. \A i \in 1..Len(naks) : naks[i] + 1 \in Nat BY NakTypes
    <3> QED BY <2>1, <3>1, NakTypes
  <2>3. receive_seq > ignore_nak_seq BY <2>1 DEF NakInv
  <2>4. ASSUME NEW i \in 1..Len(naks)
        PROVE  /\ naks[i] + 1 <= 2
               /\ receive_seq + i - 1 < send_seq
               /\ naks[i] + 1 >= 2 => receive_seq + i - 1 < IgnoreNak
    <3>1. /\ naks[i] \in Nat /\ i \in Int /\ i >= 1 /\ receive_seq \in Nat
          /\ ignore_nak_seq \in Nat /\ retransmit_seq \in Nat
      BY NakTypes
    <3>2. /\ naks[i] >= 1 => receive_seq + i - 1 < retransmit_seq
          /\ naks[i] >= 2 => receive_seq + i - 1 < ignore_nak_seq
      BY DEF NakInv
    <3>3. ~(naks[i] >= 2) BY <3>1, <3>2, <2>3
    <3>4. ASSUME naks[i] >= 1 PROVE receive_seq + i - 1 < IgnoreNak
      BY <3>1, <3>2, <3>4 DEF IgnoreNak
    <3> QED BY <3>1, <3>3, <3>4, <1>2
  <2> QED BY <1>1, <2>1, <2>2, <2>4 DEF NakInv
<1> QED BY <1>3, <1>4

\* handle_message asks for a retransmission only above ignore_nak_seq.
LEMMA NakReceive ==
    ASSUME IInv, NakInv, HostReceive PROVE NakInv'
<1> DEFINE m == Head(to_host)
<1>1. to_host # <<>> /\ ReceivedSeq(m) = to_host[1].num /\ 1 \in 1..Len(to_host)
  BY ReceivedExact DEF HostReceive
<1>2. Handle(m) /\ UNCHANGED <<ignore_nak_seq, retransmit_seq>>
  BY <1>1, NeverDiscarded DEF NeverDiscards, HostReceive
<1>3. PICK r \in Nat : r = ReceivedSeq(m) /\ receive_seq <= r
  BY <1>1, Fields DEF IInv, Messages
<1>4. UpdateReceiveSeq(r) /\ UpdateTimer(m, r)
  BY <1>2, <1>3 DEF Handle
<1> HIDE DEF m
<1>5. receive_seq' = r BY <1>4 DEF UpdateReceiveSeq
<1>6. retransmit_timer' = "now" => r > ignore_nak_seq
  BY <1>3, <1>4, NakTypes DEF UpdateTimer, NakInv
<1>7. CASE r - receive_seq <= Len(sent_queue)
  <2>1. PICK k \in 0..Len(sent_queue) : k = r - receive_seq
    BY <1>3, <1>7, NakTypes
  <2>2. /\ naks' = SubSeq(naks, k + 1, Len(naks))
        /\ sent_queue' = SubSeq(sent_queue, k + 1, Len(sent_queue))
    BY <1>4, <1>7, <2>1 DEF UpdateReceiveSeq
  <2>3. k \in 0..Len(naks) BY DEF NakInv
  <2>4. /\ Len(naks') = Len(naks) - k /\ Len(sent_queue') = Len(sent_queue) - k
        /\ \A i \in 1..(Len(naks) - k) : naks'[i] = naks[i + k]
    BY <2>2, <2>3, NakTypes, DropProps
  <2>5. ASSUME NEW i \in 1..(Len(naks) - k)
        PROVE  /\ naks'[i] <= 2
               /\ naks'[i] >= 1 => r + i - 1 < retransmit_seq
               /\ naks'[i] >= 2 => r + i - 1 < ignore_nak_seq
    <3>1. i + k \in 1..Len(naks) /\ receive_seq + (i + k) - 1 = r + i - 1
      <4>1. k \in Nat /\ k = r - receive_seq /\ r \in Nat /\ receive_seq \in Nat
            /\ Len(naks) \in Nat /\ k <= Len(naks)
        BY <1>3, <2>1, <2>3, NakTypes
      <4> QED BY <4>1
    <3> QED BY <2>4, <3>1 DEF NakInv
  <2> QED BY <1>2, <1>5, <1>6, <2>4, <2>5 DEF NakInv
<1>8. CASE ~(r - receive_seq <= Len(sent_queue))
  <2>1. naks' = <<>> /\ sent_queue' = <<>>
    BY <1>4, <1>8 DEF UpdateReceiveSeq
  <2> QED BY <1>2, <1>5, <1>6, <2>1 DEF NakInv
<1> QED BY <1>7, <1>8

\* The steps that are not the queue's own leave it alone.
LEMMA OthersKeepQueue ==
    ASSUME \/ Submit \/ ConnectTimeout
           \/ McuAccept \/ McuRun \/ McuAck \/ McuNak \/ McuBad \/ McuReport
           \/ LoseBlock \/ GarbleBlock \/ LoseMessage \/ UNCHANGED vars
    PROVE  UNCHANGED <<seqs, queues>>
  BY DEF Submit, ConnectTimeout, McuAccept, McuRun, McuAck, McuNak, McuBad, McuReport,
         LoseBlock, GarbleBlock, LoseMessage, Fault, mcuOnly, vars

\* retransmit_event sends no block again more than twice because of naks.
THEOREM NaksAreBounded == Spec => []NoThirdNak
<1>1. Init => NakInv BY DEF Init, NakInv
<1>2. IInv /\ NakInv /\ [Next]_vars => NakInv'
  <2> SUFFICES ASSUME IInv, NakInv, [Next]_vars PROVE NakInv' OBVIOUS
  <2>1. CASE UNCHANGED <<seqs, queues>> BY <2>1 DEF NakInv, seqs, queues
  <2> QED BY <2>1, OthersKeepQueue, NakSend, NakResend, NakReceive DEF Next, Host, Mcu
<1>3. IInv /\ NakInv => NoThirdNak BY NakTypes DEF NakInv, NoThirdNak
<1> QED BY <1>1, <1>2, <1>3, Invariance, PTL DEF Spec

------------------------------------------------------------------------------
(* Sending times *)

\* The time kept is that of the last block acknowledged, blocks sent again are
\* below retransmit_seq, and a time already reported belongs to a block that
\* has been acknowledged and will not be sent again.
TimeInv ==
    /\ last_receive_sent_time # 0 => last_receive_sent_time = receive_seq - 1
    /\ retransmit_seq <= send_seq
    /\ \A x \in resent : x < retransmit_seq
    /\ \A a \in answered : a.sent # 0 => /\ a.sent = a.num - 1
                                         /\ a.sent < receive_seq
                                         /\ a.sent \notin resent

\* The types that the reasoning on sending times needs.
LEMMA TimeTypes ==
    ASSUME IInv
    PROVE  /\ last_receive_sent_time \in Nat /\ resent \subseteq Nat
           /\ receive_seq \in Nat /\ send_seq \in Nat /\ retransmit_seq \in Nat
           /\ \A a \in answered : a.sent \in Nat /\ a.num \in Nat
  BY DEF IInv, TypeOK, HostType

\* What is sent again is unacknowledged, so no time of it has been reported.
LEMMA TimeResend ==
    ASSUME IInv, TimeInv, ResendOnNak \/ ResendOnTimeout PROVE TimeInv'
<1>0. PICK k : Resend(k) BY DEF ResendOnNak, ResendOnTimeout
<1>1. /\ UNCHANGED <<receive_seq, last_receive_sent_time, answered>>
      /\ retransmit_seq' = send_seq
      /\ resent' = resent \cup {sent_queue[i].num : i \in DOMAIN sent_queue}
  BY <1>0 DEF Resend
<1>2. \A i \in DOMAIN sent_queue : /\ receive_seq <= sent_queue[i].num
                                   /\ sent_queue[i].num < send_seq
                                   /\ sent_queue[i].num \in Nat
  <2> TAKE i \in DOMAIN sent_queue
  <2>1. i \in 1..Len(sent_queue) BY Types DEF IInv
  <2>2. /\ receive_seq \in Nat /\ send_seq \in Nat
        /\ Len(sent_queue) = send_seq - receive_seq
    BY Types DEF IInv, Numbers
  <2>3. PICK x \in receive_seq..(send_seq - 1) : x - receive_seq + 1 = i
    <3>1. /\ receive_seq + i - 1 \in receive_seq..(send_seq - 1)
          /\ (receive_seq + i - 1) - receive_seq + 1 = i
      BY <2>1, <2>2
    <3> QED BY <3>1
  <2>4. sent_queue[i] = Sent(x) BY <2>3 DEF Sent
  <2>5. Sent(x).num = x BY <2>3 DEF IInv, Consecutive
  <2> QED BY <2>2, <2>3, <2>4, <2>5
<1>3. \A x \in resent' : x < send_seq
  <2> TAKE x \in resent'
  <2>1. CASE x \in resent BY <2>1, TimeTypes DEF TimeInv
  <2>2. CASE x \notin resent BY <2>2, <1>1, <1>2
  <2> QED BY <2>1, <2>2
<1>4. ASSUME NEW a \in answered, a.sent # 0
      PROVE  a.sent = a.num - 1 /\ a.sent < receive_seq /\ a.sent \notin resent'
  <2>1. /\ a.sent \in Nat /\ a.sent = a.num - 1 /\ a.sent < receive_seq
        /\ a.sent \notin resent
    BY <1>4, TimeTypes DEF TimeInv
  <2>2. \A i \in DOMAIN sent_queue : a.sent # sent_queue[i].num
    BY <2>1, <1>2, TimeTypes
  <2> QED BY <2>1, <2>2, <1>1
<1>5. send_seq' = send_seq /\ send_seq <= send_seq
  BY <1>0, TimeTypes DEF Resend
<1> QED BY <1>1, <1>3, <1>4, <1>5 DEF TimeInv

\* update_receive_seq keeps the time of the block before receive_seq.
LEMMA TimeReceive ==
    ASSUME IInv, TimeInv, HostReceive PROVE TimeInv'
<1> DEFINE m == Head(to_host)
<1>1. /\ to_host # <<>> /\ ReceivedSeq(m) = to_host[1].num /\ 1 \in 1..Len(to_host)
      /\ m = to_host[1]
  BY ReceivedExact DEF HostReceive
<1>2. Handle(m) /\ UNCHANGED <<retransmit_seq, resent>>
  BY <1>1, NeverDiscarded DEF NeverDiscards, HostReceive
<1>3. PICK r \in Nat : r = ReceivedSeq(m) /\ r = m.num /\ receive_seq <= r
  BY <1>1, Fields DEF IInv, Messages
<1>4. UpdateReceiveSeq(r)
  BY <1>2, <1>3 DEF Handle
<1> HIDE DEF m
<1>5. receive_seq' = r BY <1>4 DEF UpdateReceiveSeq
<1>6. (last_receive_sent_time' # 0 => last_receive_sent_time' = r - 1) /\ send_seq <= send_seq'
  <2>0. /\ receive_seq \in Nat /\ send_seq \in Nat /\ Len(sent_queue) = send_seq - receive_seq
    BY Types DEF IInv, Numbers
  <2>1. CASE ~(r - receive_seq <= Len(sent_queue))
    <3>1. last_receive_sent_time' = 0 /\ send_seq' = r BY <2>1, <1>4 DEF UpdateReceiveSeq
    <3> QED BY <2>0, <2>1, <3>1
  <2>2. CASE r - receive_seq <= Len(sent_queue) /\ r # receive_seq
    <3>1. last_receive_sent_time' = sent_queue[r - receive_seq].num /\ send_seq' = send_seq
      BY <2>0, <2>2, <1>3, <1>4 DEF UpdateReceiveSeq
    <3>2. PICK x \in receive_seq..(send_seq - 1) : x = r - 1
      BY <2>0, <2>2, <1>3
    <3>3. x - receive_seq + 1 = r - receive_seq BY <2>0, <3>2
    <3>4. sent_queue[r - receive_seq] = Sent(x) BY <3>3 DEF Sent
    <3>5. Sent(x).num = x BY <3>2 DEF IInv, Consecutive
    <3> QED BY <2>0, <3>1, <3>2, <3>4, <3>5
  <2>3. CASE r = receive_seq
    <3>1. UNCHANGED <<last_receive_sent_time, send_seq>>
      BY <2>0, <2>3, <1>4 DEF UpdateReceiveSeq
    <3> QED BY <2>0, <2>3, <3>1 DEF TimeInv
  <2> QED BY <2>1, <2>2, <2>3
<1>7. ASSUME NEW a \in answered', a.sent # 0
      PROVE  a.sent = a.num - 1 /\ a.sent < r /\ a.sent \notin resent
  <2>1. CASE a \in answered
    BY <2>1, <1>3, <1>7, TimeTypes DEF TimeInv
  <2>2. CASE a \notin answered
    <3>1. a = [cmd |-> m.cmd, num |-> m.num, sent |-> SentTime(r)]
      BY <2>2, <1>2, <1>3 DEF Handle
    <3>2. a.num = r /\ a.sent = SentTime(r) BY <3>1, <1>3
    <3>3. r > retransmit_seq /\ a.sent = last_receive_sent_time'
      BY <3>2, <1>7 DEF SentTime
    <3>4. a.sent = r - 1 BY <3>3, <1>6, <1>7
    <3>5. \A x \in resent : x < r - 1
      BY <3>3, <1>3, TimeTypes DEF TimeInv
    <3>6. r - 1 \notin resent BY <3>5, <1>3
    <3> QED BY <3>2, <3>4, <3>6, <1>3
  <2> QED BY <2>1, <2>2
<1>8. retransmit_seq <= send_seq'
  <2>1. send_seq' \in Nat BY TypeReceive DEF IInv, TypeOK, HostType
  <2> QED BY <2>1, <1>6, TimeTypes DEF TimeInv
<1>9. \A x \in resent : x < retransmit_seq BY DEF TimeInv
<1> QED BY <1>2, <1>5, <1>6, <1>7, <1>8, <1>9 DEF TimeInv

\* Sending a new block changes no time.
LEMMA TimeSend ==
    ASSUME IInv, TimeInv, SendIdentify \/ SendCommands PROVE TimeInv'
<1>1. PICK upto, waiting : SendBlock(upto, waiting)
  BY DEF SendIdentify, SendCommands
<1>2. /\ UNCHANGED <<receive_seq, retransmit_seq, last_receive_sent_time, resent, answered>>
      /\ send_seq' = send_seq + 1
  BY <1>1 DEF SendBlock
<1> QED BY <1>2, TimeTypes DEF TimeInv

\* handle_message reports a sending time only for an answer to the very block
\* it was taken of, and only if that block was sent once.
THEOREM TimesAreExact == Spec => []SentTimesExact
<1>1. Init => TimeInv BY DEF Init, TimeInv
<1>2. IInv /\ TimeInv /\ [Next]_vars => TimeInv'
  <2> SUFFICES ASSUME IInv, TimeInv, [Next]_vars PROVE TimeInv' OBVIOUS
  <2>1. CASE UNCHANGED <<seqs, queues>> BY <2>1 DEF TimeInv, seqs, queues
  <2> QED BY <2>1, OthersKeepQueue, TimeSend, TimeResend, TimeReceive DEF Next, Host, Mcu
<1>3. TimeInv => SentTimesExact BY DEF TimeInv, SentTimesExact
<1> QED BY <1>1, <1>2, <1>3, Invariance, PTL DEF Spec

------------------------------------------------------------------------------
(* Completion *)

\* An acknowledgement proper is never ahead of the highest number received.
LagInv == last_ack_seq <= receive_seq /\ NotifyLag

\* handle_message leaves a caller waiting behind receive_seq only if the number
\* came with an answer, and then only the callers of the block just before it.
LEMMA LagReceive ==
    ASSUME IInv, LagInv, HostReceive PROVE LagInv'
<1> DEFINE m == Head(to_host)
<1>1. /\ to_host # <<>> /\ ReceivedSeq(m) = to_host[1].num /\ 1 \in 1..Len(to_host)
      /\ m = to_host[1]
  BY ReceivedExact DEF HostReceive
<1>2. Handle(m)
  BY <1>1, NeverDiscarded DEF NeverDiscards, HostReceive
<1>3. PICK r \in Nat : r = ReceivedSeq(m) /\ receive_seq <= r
  BY <1>1, Fields DEF IInv, Messages
<1>4. m.kind \in {"ack", "data"}
  <2>1. m \in Message BY <1>1, Fields DEF IInv
  <2> QED BY <2>1 DEF Message
<1> HIDE DEF m
<1>5. /\ receive_seq' = r
      /\ last_ack_seq' = IF m.kind = "ack" /\ last_ack_seq < r THEN r ELSE last_ack_seq
      /\ notify_queue' = notify_queue \ {e \in notify_queue : e.num <= WakeSeq(m)}
      /\ WakeSeq(m) = r - 1 - (IF m.kind = "data" THEN 1 ELSE 0)
  BY <1>2, <1>3 DEF Handle, UpdateReceiveSeq, WakeSeq
<1>6. receive_seq \in Nat /\ last_ack_seq \in Nat /\ \A e \in notify_queue : e.num \in Nat
  BY Fields DEF IInv, TypeOK, HostType
<1>7. last_ack_seq' <= receive_seq'
  BY <1>3, <1>5, <1>6 DEF LagInv
<1>8. ASSUME NEW e \in notify_queue', e.num < r
      PROVE  e.num = r - 1 /\ last_ack_seq' < r
  <2>1. e \in notify_queue /\ e.num \in Nat /\ e.num > WakeSeq(m)
    BY <1>5, <1>6
  <2>2. m.kind = "data"
    BY <1>3, <1>4, <1>5, <1>8, <2>1
  <2>3. e.num = r - 1
    BY <1>3, <1>5, <1>8, <2>1, <2>2
  <2>4. last_ack_seq < r
    <3>1. CASE r = receive_seq BY <3>1, <2>1, <1>8 DEF LagInv, NotifyLag
    <3>2. CASE r # receive_seq BY <3>2, <1>3, <1>6 DEF LagInv
    <3> QED BY <3>1, <3>2
  <2> QED BY <2>2, <2>3, <2>4, <1>5
<1> QED BY <1>5, <1>7, <1>8 DEF LagInv, NotifyLag

\* A caller that starts to wait does so for a block that is not acknowledged.
LEMMA LagSend ==
    ASSUME IInv, LagInv, SendIdentify \/ SendCommands PROVE LagInv'
<1>1. PICK upto, waiting : SendBlock(upto, waiting)
  BY DEF SendIdentify, SendCommands
<1>2. /\ UNCHANGED <<receive_seq, last_ack_seq>>
      /\ notify_queue' = notify_queue \cup {[cmd |-> c, num |-> send_seq] : c \in waiting}
  BY <1>1 DEF SendBlock
<1>3. receive_seq <= send_seq /\ receive_seq \in Nat /\ send_seq \in Nat
  BY Types DEF IInv, Numbers
<1>4. \A e \in notify_queue' : e \in notify_queue \/ ~(e.num < receive_seq)
  BY <1>2, <1>3
<1> QED BY <1>2, <1>4 DEF LagInv, NotifyLag

\* last_ack_seq and notify_queue over every step.
LEMMA LagInvariance == Spec => []LagInv
<1>1. Init => LagInv BY DEF Init, LagInv, NotifyLag
<1>2. IInv /\ LagInv /\ [Next]_vars => LagInv'
  <2> SUFFICES ASSUME IInv, LagInv, [Next]_vars PROVE LagInv' OBVIOUS
  <2>1. CASE UNCHANGED <<seqs, queues>> BY <2>1 DEF LagInv, NotifyLag, seqs, queues
  <2>2. CASE ResendOnNak \/ ResendOnTimeout
    BY <2>2 DEF LagInv, NotifyLag, ResendOnNak, ResendOnTimeout, Resend
  <2> QED BY <2>1, <2>2, OthersKeepQueue, LagSend, LagReceive DEF Next, Host, Mcu
<1> QED BY <1>1, <1>2, Invariance, PTL DEF Spec

\* Of the callers whose block is known to have arrived, only those of the last
\* such block still wait, and an acknowledgement proper ends it.
THEOREM NotifyLagIsOne == Spec => []NotifyLag
<1>1. LagInv => NotifyLag BY DEF LagInv
<1> QED BY <1>1, LagInvariance, PTL

------------------------------------------------------------------------------
(* Answers *)

Answer(m) == m.kind = "data" /\ m.cmd \in Queries

\* While an answer is on the way nothing tells the completion of its command:
\* it has not been told, a caller that waits for it waits for the block the
\* answer belongs to or a later one, and the acknowledgement of that block is
\* behind the answer.
AnswersAhead ==
    /\ \A i \in 1..Len(to_host) : Answer(to_host[i]) =>
          /\ to_host[i].cmd <= Len(executed)
          /\ to_host[i].cmd \notin notified
          /\ \A e \in notify_queue :
                e.cmd = to_host[i].cmd => e.num >= to_host[i].num - 1
    /\ \A i, j \in 1..Len(to_host) :
          i < j /\ to_host[i].kind = "ack" /\ Answer(to_host[j])
             => to_host[i].num < to_host[j].num

\* Messages that were on the way, in their order, and nothing told: still ahead.
LEMMA AnswersKept ==
    ASSUME IInv, AnswersAhead, UNCHANGED <<notified, notify_queue, executed>>,
           NEW at, Len(to_host') \in Nat,
           \A j \in 1..Len(to_host') :
                at[j] \in 1..Len(to_host) /\ to_host'[j] = to_host[at[j]],
           \A j, k \in 1..Len(to_host') : j < k => at[j] < at[k]
    PROVE  AnswersAhead'
<1>1. ASSUME NEW j \in 1..Len(to_host'), Answer(to_host'[j])
      PROVE  /\ to_host'[j].cmd <= Len(executed)
             /\ to_host'[j].cmd \notin notified
             /\ \A e \in notify_queue :
                   e.cmd = to_host'[j].cmd => e.num >= to_host'[j].num - 1
  BY <1>1 DEF AnswersAhead
<1>2. ASSUME NEW j \in 1..Len(to_host'), NEW k \in 1..Len(to_host'), j < k,
             to_host'[j].kind = "ack", Answer(to_host'[k])
      PROVE  to_host'[j].num < to_host'[k].num
  <2>1. /\ at[j] \in 1..Len(to_host) /\ at[k] \in 1..Len(to_host) /\ at[j] < at[k]
        /\ to_host[at[j]].kind = "ack" /\ Answer(to_host[at[k]])
    BY <1>2
  <2>2. to_host[at[j]].num < to_host[at[k]].num
    BY <2>1 DEF AnswersAhead
  <2> QED BY <2>2
<1> QED BY <1>1, <1>2 DEF AnswersAhead

\* The firmware adds a message that answers no query.
LEMMA AnswersPost ==
    ASSUME IInv, AnswersAhead, UNCHANGED <<notified, notify_queue, executed>>,
           NEW m \in Message, ~Answer(m),
           to_host' \in {to_host, Post(to_host, m)}
    PROVE  AnswersAhead'
<1>1. /\ Len(to_host') \in Nat /\ Len(to_host) \in Nat
      /\ \A i \in 1..Len(to_host') :
            \/ i \in 1..Len(to_host) /\ to_host'[i] = to_host[i]
            \/ to_host'[i] = m /\ i > Len(to_host)
  <2>1. to_host \in Seq(Message) BY Types DEF IInv
  <2>2. CASE to_host' = to_host BY <2>1, <2>2
  <2>3. CASE to_host' = Post(to_host, m)
    <3>1. /\ Len(to_host') \in {Len(to_host), Len(to_host) + 1}
          /\ \A i \in 1..Len(to_host') :
                to_host'[i] = IF i <= Len(to_host) THEN to_host[i] ELSE m
      BY <2>1, <2>3, PostProps
    <3> QED BY <2>1, <3>1
  <2> QED BY <2>2, <2>3
<1>2. ASSUME NEW j \in 1..Len(to_host'), Answer(to_host'[j])
      PROVE  j \in 1..Len(to_host) /\ to_host'[j] = to_host[j]
  BY <1>1, <1>2
<1>3. ASSUME NEW i \in 1..Len(to_host'), NEW j \in 1..Len(to_host'), i < j,
             to_host'[i].kind = "ack", Answer(to_host'[j])
      PROVE  to_host'[i].num < to_host'[j].num
  <2>1. j \in 1..Len(to_host) /\ to_host'[j] = to_host[j] BY <1>2, <1>3
  <2>2. i \in 1..Len(to_host) /\ to_host'[i] = to_host[i] BY <2>1, <1>1, <1>3
  <2> QED BY <2>1, <2>2, <1>3 DEF AnswersAhead
<1> QED BY <1>2, <1>3 DEF AnswersAhead

\* An answer is sent while its block is being dispatched, before the command
\* counts as run and before the acknowledgement.
LEMMA AnswersRun ==
    ASSUME IInv, AnswersAhead, McuRun PROVE AnswersAhead'
<1> DEFINE m == Data(next_sequence, cursor)
<1>1. /\ UNCHANGED <<notified, notify_queue>>
      /\ dispatching /\ executed' = Append(executed, cursor)
      /\ to_host' \in {to_host, Post(to_host, m)}
  BY DEF McuRun, mcuOnly, queues
<1>2. /\ next_sequence \in Nat /\ cursor \in Nat /\ executed \in Seq(Nat)
      /\ Len(executed) \in Nat /\ cursor = Len(executed) + 1 /\ Held = 1
      /\ Len(executed') = Len(executed) + 1
  BY <1>1, Types DEF IInv, Progress, Held
<1>3. m \in Message /\ m.num = next_sequence /\ m.cmd = cursor /\ m.kind = "data"
  BY <1>2 DEF Data, Message
<1> HIDE DEF m
<1>4. /\ Len(to_host') \in Nat /\ Len(to_host) \in Nat
      /\ \A i \in 1..Len(to_host') :
            \/ i \in 1..Len(to_host) /\ to_host'[i] = to_host[i]
            \/ to_host'[i] = m /\ i = Len(to_host) + 1
  <2>1. to_host \in Seq(Message) BY Types DEF IInv
  <2>2. CASE to_host' = to_host BY <2>1, <2>2
  <2>3. CASE to_host' = Post(to_host, m)
    <3>1. /\ Len(to_host') \in {Len(to_host), Len(to_host) + 1}
          /\ \A i \in 1..Len(to_host') :
                to_host'[i] = IF i <= Len(to_host) THEN to_host[i] ELSE m
      BY <1>3, <2>1, <2>3, PostProps
    <3> QED BY <2>1, <3>1
  <2> QED BY <1>1, <2>2, <2>3
<1>5. /\ cursor <= Len(executed') /\ cursor \notin notified
      /\ \A e \in notify_queue : e.cmd = cursor => e.num >= next_sequence - 1
  <2>1. cursor \notin notified BY <1>2 DEF IInv, Told
  <2>2. ASSUME NEW e \in notify_queue, e.cmd = cursor
        PROVE  e.num >= next_sequence - 1
    <3>1. e.num < next_sequence - Held => e.cmd <= Len(executed)
      BY DEF IInv, Waiting
    <3>2. e.num \in Nat BY Fields DEF IInv
    <3> QED BY <3>1, <3>2, <2>2, <1>2
  <2> QED BY <2>1, <2>2, <1>2
<1>6. ASSUME NEW i \in 1..Len(to_host'), Answer(to_host'[i])
      PROVE  /\ to_host'[i].cmd <= Len(executed')
             /\ to_host'[i].cmd \notin notified
             /\ \A e \in notify_queue :
                   e.cmd = to_host'[i].cmd => e.num >= to_host'[i].num - 1
  <2>1. CASE i \in 1..Len(to_host) /\ to_host'[i] = to_host[i]
    <3>1. to_host[i].cmd \in Nat BY <2>1, <1>6, LinkAssumption DEF Answer
    <3> QED BY <2>1, <3>1, <1>2, <1>6 DEF AnswersAhead
  <2>2. CASE to_host'[i] = m BY <2>2, <1>3, <1>5
  <2> QED BY <2>1, <2>2, <1>4
<1>7. ASSUME NEW i \in 1..Len(to_host'), NEW j \in 1..Len(to_host'), i < j,
             to_host'[i].kind = "ack", Answer(to_host'[j])
      PROVE  to_host'[i].num < to_host'[j].num
  <2>1. i \in 1..Len(to_host) /\ to_host'[i] = to_host[i]
    BY <1>3, <1>4, <1>7
  <2>2. CASE j \in 1..Len(to_host) /\ to_host'[j] = to_host[j]
    BY <2>1, <2>2, <1>7 DEF AnswersAhead
  <2>3. CASE to_host'[j] = m
    <3>1. to_host[i].num \in Nat /\ to_host[i].num <= next_sequence - Held
      BY <2>1, <1>7, Fields DEF IInv, Messages
    <3> QED BY <2>1, <2>3, <3>1, <1>2, <1>3
  <2> QED BY <2>2, <2>3, <1>4
<1> QED BY <1>1, <1>6, <1>7 DEF AnswersAhead

\* A command that is packed now has no answer on the way.
LEMMA AnswersSend ==
    ASSUME IInv, AnswersAhead, SendIdentify \/ SendCommands PROVE AnswersAhead'
<1>1. PICK upto, waiting : SendBlock(upto, waiting)
  BY DEF SendIdentify, SendCommands
<1>2. /\ UNCHANGED <<notified, executed, to_host>>
      /\ notify_queue' = notify_queue \cup {[cmd |-> c, num |-> send_seq] : c \in waiting}
  BY <1>1 DEF SendBlock, mcu
<1>3. ASSUME NEW i \in 1..Len(to_host), Answer(to_host[i])
      PROVE  send_seq >= to_host[i].num - 1
  <2>1. executed # <<>>
    <3>1. to_host[i].cmd \in Nat \ {0} BY <1>3, LinkAssumption DEF Answer
    <3>2. to_host[i].cmd <= Len(executed) BY <1>3 DEF AnswersAhead
    <3> QED BY <3>1, <3>2
  <2>2. next_sequence <= send_seq BY <2>1 DEF IInv, InStep, Ahead
  <2>3. to_host[i].num \in Nat /\ to_host[i].num <= next_sequence
    BY <1>3, Fields DEF IInv, Messages
  <2>4. next_sequence \in Nat /\ send_seq \in Nat BY Types DEF IInv
  <2> QED BY <2>2, <2>3, <2>4
<1>4. ASSUME NEW i \in 1..Len(to_host), Answer(to_host[i]), NEW e \in notify_queue',
             e.cmd = to_host[i].cmd
      PROVE  e.num >= to_host[i].num - 1
  <2>1. CASE e \in notify_queue BY <2>1, <1>4 DEF AnswersAhead
  <2>2. CASE e \notin notify_queue
    <3>1. e.num = send_seq BY <2>2, <1>2
    <3> QED BY <3>1, <1>3, <1>4
  <2> QED BY <2>1, <2>2
<1> QED BY <1>2, <1>4 DEF AnswersAhead

\* The callers that a message wakes wait for blocks before the one that it, or
\* any answer behind it, belongs to.
LEMMA AnswersWake ==
    ASSUME IInv, AnswersAhead, HostReceive
    PROVE  /\ notified \subseteq notified' /\ notify_queue' \subseteq notify_queue
           /\ \A i \in 1..Len(to_host) :
                Answer(to_host[i]) => to_host[i].cmd \notin notified'
<1> DEFINE m == Head(to_host)
<1>1. /\ to_host # <<>> /\ ReceivedSeq(m) = to_host[1].num /\ 1 \in 1..Len(to_host)
      /\ m = to_host[1]
  BY ReceivedExact DEF HostReceive
<1>2. Handle(m)
  BY <1>1, NeverDiscarded DEF NeverDiscards, HostReceive
<1>3. PICK r \in Nat : r = ReceivedSeq(m) /\ r = m.num
  BY <1>1, Fields DEF IInv
<1>4. m.kind \in {"ack", "data"}
  <2>1. m \in Message BY <1>1, Fields DEF IInv
  <2> QED BY <2>1 DEF Message
<1> HIDE DEF m
<1> DEFINE woken == {e \in notify_queue : e.num <= WakeSeq(m)}
<1>5. /\ notify_queue' = notify_queue \ woken
      /\ notified' = notified \cup ({e.cmd : e \in woken} \ {0})
      /\ WakeSeq(m) = r - 1 - (IF m.kind = "data" THEN 1 ELSE 0)
  BY <1>2, <1>3 DEF Handle, WakeSeq
<1>6. ASSUME NEW i \in 1..Len(to_host), Answer(to_host[i]), NEW e \in woken,
             e.cmd = to_host[i].cmd
      PROVE  FALSE
  <2>1. e \in notify_queue /\ e.num \in Nat /\ e.num <= WakeSeq(m)
    BY Fields DEF IInv
  <2>2. to_host[i].num \in Nat /\ e.num >= to_host[i].num - 1
    BY <1>6, <2>1, Fields DEF IInv, AnswersAhead
  <2>3. r <= to_host[i].num
    <3>1. CASE i = 1 BY <3>1, <1>1, <1>3
    <3>2. CASE i # 1
      <4>1. 1 < i /\ i \in 1..Len(to_host) BY <3>2, Types DEF IInv
      <4> QED BY <4>1, <1>1, <1>3 DEF IInv, Messages
    <3> QED BY <3>1, <3>2
  <2>4. CASE m.kind = "data" BY <2>1, <2>2, <2>3, <2>4, <1>3, <1>5
  <2>5. CASE m.kind = "ack"
    <3>1. i # 1 BY <1>1, <1>6, <2>5 DEF Answer
    <3>2. 1 < i BY <3>1, Types DEF IInv
    <3>3. r < to_host[i].num BY <3>2, <1>1, <1>3, <1>6, <2>5 DEF AnswersAhead
    <3>4. WakeSeq(m) = r - 1 BY <2>5, <1>3, <1>5
    <3> QED BY <2>1, <2>2, <3>3, <3>4, <1>3
  <2> QED BY <2>4, <2>5, <1>4
<1>7. \A i \in 1..Len(to_host) : Answer(to_host[i]) => to_host[i].cmd \notin notified
  BY DEF AnswersAhead
<1> QED BY <1>5, <1>6, <1>7

\* The answers behind the message that is handled.
LEMMA AnswersReceive ==
    ASSUME IInv, AnswersAhead, HostReceive PROVE AnswersAhead'
<1>1. /\ to_host # <<>> /\ to_host' = Tail(to_host) /\ UNCHANGED executed
  BY DEF HostReceive, mcu
<1>2. /\ Len(to_host') = Len(to_host) - 1 /\ Len(to_host) \in Nat /\ Len(to_host) >= 1
      /\ \A i \in 1..Len(to_host') : to_host'[i] = to_host[i + 1]
  <2>1. to_host \in Seq(Message) BY Types DEF IInv
  <2> QED BY <1>1, <2>1, TailProps
<1>3. ASSUME NEW i \in 1..Len(to_host')
      PROVE  i + 1 \in 1..Len(to_host) /\ to_host'[i] = to_host[i + 1]
  BY <1>2
<1>4. ASSUME NEW i \in 1..Len(to_host'), Answer(to_host'[i])
      PROVE  /\ to_host'[i].cmd <= Len(executed)
             /\ to_host'[i].cmd \notin notified'
             /\ \A e \in notify_queue' :
                   e.cmd = to_host'[i].cmd => e.num >= to_host'[i].num - 1
  BY <1>3, <1>4, AnswersWake DEF AnswersAhead
<1>5. ASSUME NEW i \in 1..Len(to_host'), NEW j \in 1..Len(to_host'), i < j,
             to_host'[i].kind = "ack", Answer(to_host'[j])
      PROVE  to_host'[i].num < to_host'[j].num
  <2>1. i + 1 < j + 1 BY <1>2, <1>5
  <2> QED BY <2>1, <1>3, <1>5 DEF AnswersAhead
<1> QED BY <1>1, <1>4, <1>5 DEF AnswersAhead

\* A lost message changes nothing for the others.
LEMMA AnswersLose ==
    ASSUME IInv, AnswersAhead, LoseMessage PROVE AnswersAhead'
<1>1. UNCHANGED <<notified, notify_queue, executed>>
  BY DEF LoseMessage, Fault, queues, mcu
<1>2. PICK i \in 1..Len(to_host) : to_host' = Without(to_host, i)
  BY DEF LoseMessage
<1>3. /\ Len(to_host') = Len(to_host) - 1 /\ Len(to_host) \in Nat
      /\ \A j \in 1..Len(to_host') :
            to_host'[j] = IF j < i THEN to_host[j] ELSE to_host[j + 1]
  BY <1>2, WithoutProps, Types DEF IInv
<1> DEFINE at == [j \in 1..Len(to_host') |-> IF j < i THEN j ELSE j + 1]
<1>4. /\ Len(to_host') \in Nat
      /\ \A j \in 1..Len(to_host') :
            at[j] \in 1..Len(to_host) /\ to_host'[j] = to_host[at[j]]
      /\ \A j, k \in 1..Len(to_host') : j < k => at[j] < at[k]
  BY <1>3
<1> HIDE DEF at
<1> QED BY <1>1, <1>4, AnswersKept

\* The answers over every step.
LEMMA AnswersStep ==
    ASSUME IInv, AnswersAhead, [Next]_vars PROVE AnswersAhead'
<1>1. CASE \/ Submit \/ ConnectTimeout \/ ResendOnNak \/ ResendOnTimeout
           \/ LoseBlock \/ GarbleBlock \/ UNCHANGED vars
  <2>1. UNCHANGED <<to_host, executed, notified, notify_queue>>
    BY <1>1 DEF Submit, ConnectTimeout, ResendOnNak, ResendOnTimeout, Resend, LoseBlock,
        GarbleBlock, Fault, vars, queues, mcu, line
  <2> QED BY <2>1 DEF AnswersAhead
<1>2. CASE McuAccept \/ McuAck \/ McuNak \/ McuBad \/ McuReport
  <2>1. /\ UNCHANGED <<executed, notified, notify_queue>>
        /\ \E m \in {Data(next_sequence + 1, 0), Ack(next_sequence),
                     Data(next_sequence, NoCmd)} : to_host' \in {to_host, Post(to_host, m)}
    BY <1>2 DEF McuAccept, McuAck, McuNak, McuBad, McuReport, mcuOnly, queues, mcu
  <2>2. \A m \in {Data(next_sequence + 1, 0), Ack(next_sequence), Data(next_sequence, NoCmd)} :
            m \in Message /\ ~Answer(m)
    <3>1. next_sequence \in Nat BY Types DEF IInv
    <3>2. 0 \notin Queries /\ NoCmd \notin Queries
      BY LinkAssumption DEF NoCmd
    <3>3. NoCmd \in Int BY DEF NoCmd
    <3> QED BY <3>1, <3>2, <3>3 DEF Data, Ack, Message, Answer
  <2> QED BY <2>1, <2>2, AnswersPost
<1> QED
  BY <1>1, <1>2, AnswersRun, AnswersSend, AnswersReceive, AnswersLose DEF Next, Host, Mcu

\* The answer to a query is put on receive_queue before the completion of the
\* query is, whatever is lost and sent again: when SerialRetryCommand finds no
\* answer at completion there was none on the way.
THEOREM AnswerComesFirst == Spec => AnswerFirst
<1>1. Init => AnswersAhead BY DEF Init, AnswersAhead
<1>2. IInv /\ AnswersAhead /\ [Next]_vars => AnswersAhead' BY AnswersStep
<1>3. IInv /\ AnswersAhead /\ [Next]_vars
         => [\A a \in answered' \ answered : a.cmd \notin notified']_vars
  <2> SUFFICES ASSUME IInv, AnswersAhead, Next, NEW a \in answered' \ answered
               PROVE  a.cmd \notin notified'
    OBVIOUS
  <2>1. HostReceive
    <3>1. answered' # answered OBVIOUS
    <3> QED
      BY <3>1, OthersKeepQueue DEF Next, Host, Mcu, queues, SendIdentify, SendCommands,
         SendBlock, ResendOnNak, ResendOnTimeout, Resend
  <2>2. /\ to_host # <<>> /\ Head(to_host) = to_host[1] /\ 1 \in 1..Len(to_host)
    BY <2>1, ReceivedExact DEF HostReceive
  <2>3. Handle(Head(to_host))
    BY <2>1, <2>2, NeverDiscarded DEF NeverDiscards, HostReceive
  <2>4. Answer(to_host[1]) /\ a.cmd = to_host[1].cmd
    BY <2>2, <2>3 DEF Handle, Answer
  <2> QED BY <2>1, <2>2, <2>4, AnswersWake
<1> QED BY <1>1, <1>2, <1>3, Invariance, PTL DEF Spec, AnswerFirst

------------------------------------------------------------------------------
(* Room in the firmware's buffer *)

\* The block in front is old: a board in use before has answered with its own
\* number to an identify, and the identify is still to be dropped.
Stale == ~dispatching /\ to_mcu # <<>> /\ to_mcu[1].num < next_sequence
\* The host has not found the board's numbers, or such a block is left.
Foreign == next_sequence > send_seq \/ Stale

\* Then one identify at most is under way besides the old one, and none was answered.
ForeignInv ==
    /\ ~identified /\ session # "open"
    /\ receive_seq \in {1, next_sequence} /\ send_seq <= receive_seq + 1
    /\ session = "send" => send_seq = receive_seq /\ notify_queue = {}
    /\ \A e, f \in notify_queue : e = f
    /\ \A e \in notify_queue :
          e.cmd = 0 /\ (send_seq > receive_seq => e.num >= receive_seq)
    /\ \A i \in 1..Len(to_host) : ~(to_host[i].kind = "data" /\ to_host[i].cmd = 0)

\* Nothing was sent again: the line holds blocks in order, and all but the first
\* are still to come for the firmware.
Order ==
    /\ \A i, j \in 1..Len(to_mcu) : i < j => to_mcu[i].num < to_mcu[j].num
    /\ \A i \in 2..Len(to_mcu) : to_mcu[i].num >= next_sequence

\* A block on the line is as long as the one of that number in sent_queue.
Lengths ==
    /\ \A i \in 1..Len(to_mcu) :
          /\ BlockLen(to_mcu[i]) <= MaxLen
          /\ to_mcu[i].num >= receive_seq => BlockLen(to_mcu[i]) = BlockLen(Sent(to_mcu[i].num))
    /\ \A i \in 1..Len(sent_queue) : BlockLen(sent_queue[i]) <= MaxLen
    /\ last_ack_bytes <= MaxLen

\* The answer of the block being dispatched has overtaken its acknowledgement:
\* the host counts that block's bytes as not yet popped.
Overtaken ==
    dispatching /\ receive_seq = next_sequence
        => BlockLen(to_mcu[1]) = last_ack_bytes /\ last_ack_seq < receive_seq

\* What the host takes to be in receive_buf; it fits.
Needed == Bytes(sent_queue) + (IF last_ack_seq < receive_seq THEN last_ack_bytes ELSE 0)
Room == ReceiveWindow > 0 => Needed <= ReceiveWindow

\* All of it, until something is sent again.
RoomInv == resent = {} => Order /\ Lengths /\ Overtaken /\ Room /\ (Foreign => ForeignInv)

\* The types that the arithmetic on lengths needs.
LEMMA RoomTypes ==
    ASSUME IInv
    PROVE  /\ last_ack_bytes \in Nat /\ last_ack_seq \in Nat /\ MaxLen \in Nat
           /\ ReceiveWindow \in Nat /\ MaxLen >= 2
           /\ ReceiveWindow > 0 => ReceiveWindow >= MaxLen + MaxLen
           /\ Bytes(sent_queue) \in Nat /\ Bytes(to_mcu) \in Nat
           /\ \A i \in 1..Len(to_mcu) : BlockLen(to_mcu[i]) \in Nat
           /\ \A i \in 1..Len(sent_queue) : BlockLen(sent_queue[i]) \in Nat
<1> USE DEF IInv
<1>1. last_ack_bytes \in Nat /\ last_ack_seq \in Nat BY DEF TypeOK, HostType
<1>2. MaxLen \in Nat /\ ReceiveWindow \in Nat /\ MaxLen >= 2
      /\ (ReceiveWindow > 0 => ReceiveWindow >= MaxLen + MaxLen)
  BY LinkAssumption, BufferAssumption DEF MaxLen
<1>3. Bytes(sent_queue) \in Nat /\ Bytes(to_mcu) \in Nat BY Types, BytesType
<1>4. /\ \A i \in 1..Len(to_mcu) : BlockLen(to_mcu[i]) \in Nat
      /\ \A i \in 1..Len(sent_queue) : BlockLen(sent_queue[i]) \in Nat
  BY Fields, BlockLenType
<1> QED BY <1>1, <1>2, <1>3, <1>4

\* The blocks on the line fit when nothing was sent again.
LEMMA RoomSuffices == ASSUME IInv, RoomInv PROVE NoOverflow
<1> USE DEF IInv
<1>1. SUFFICES ASSUME resent = {}, ReceiveWindow > 0 PROVE Bytes(to_mcu) <= ReceiveWindow
  BY DEF NoOverflow
<1>2. Order /\ Lengths /\ Overtaken /\ Room /\ (Foreign => ForeignInv) BY <1>1 DEF RoomInv
<1>3. /\ send_seq \in Nat /\ receive_seq \in Nat /\ next_sequence \in Nat
      /\ sent_queue \in Seq(Block) /\ to_mcu \in Seq(Block)
      /\ Len(sent_queue) = send_seq - receive_seq /\ receive_seq <= send_seq
      /\ receive_seq <= next_sequence /\ Len(to_mcu) \in Nat
      /\ \A i \in 1..Len(to_mcu) : to_mcu[i].num \in Nat /\ to_mcu[i].num < send_seq
  BY Types, Fields DEF Numbers, Blocks
<1> DEFINE at == [i \in 1..Len(to_mcu) |->
                     IF to_mcu[i].num < receive_seq THEN 0 ELSE to_mcu[i].num - receive_seq + 1]
<1>4. at \in [1..Len(to_mcu) -> 0..Len(sent_queue)] BY <1>3
<1>5. ASSUME NEW i \in 1..Len(to_mcu), to_mcu[i].num < receive_seq PROVE i = 1
  <2>1. ASSUME i # 1 PROVE FALSE
    <3>1. i \in 2..Len(to_mcu) BY <2>1, <1>3
    <3>2. to_mcu[i].num >= next_sequence BY <3>1, <1>2 DEF Order
    <3> QED BY <3>2, <1>3, <1>5
  <2> QED BY <2>1
<1>6. ASSUME NEW i \in 1..Len(to_mcu), NEW j \in 1..Len(to_mcu), i < j PROVE at[i] < at[j]
  <2>1. to_mcu[i].num < to_mcu[j].num BY <1>2, <1>6 DEF Order
  <2>2. ~(to_mcu[j].num < receive_seq) BY <1>5, <1>6
  <2>3. at[j] = to_mcu[j].num - receive_seq + 1 BY <2>2
  <2>4. at[i] = 0 \/ at[i] = to_mcu[i].num - receive_seq + 1 OBVIOUS
  <2>5. /\ to_mcu[i].num \in Nat /\ to_mcu[j].num \in Nat /\ receive_seq \in Nat
        /\ to_mcu[j].num >= receive_seq
    BY <2>2, <1>3
  <2> HIDE DEF at
  <2> QED BY <2>1, <2>3, <2>4, <2>5
<1>7. ASSUME NEW i \in 1..Len(to_mcu), at[i] # 0
      PROVE  BlockLen(to_mcu[i]) = BlockLen(sent_queue[at[i]])
  <2>1. to_mcu[i].num >= receive_seq /\ at[i] = to_mcu[i].num - receive_seq + 1
    BY <1>3, <1>7
  <2> QED BY <2>1, <1>2 DEF Lengths, Sent
<1>8. ASSUME NEW i \in 1..Len(to_mcu), at[i] = 0 PROVE i = 1 /\ to_mcu[1].num < receive_seq
  <2>1. to_mcu[i].num < receive_seq BY <1>3, <1>8
  <2> QED BY <2>1, <1>5
<1> HIDE DEF at
\* The sum is bounded by that of sent_queue and what is in front of it.
<1>9. ASSUME NEW c \in Nat, \A i \in 1..Len(to_mcu) : at[i] = 0 => BlockLen(to_mcu[i]) <= c
      PROVE  Bytes(to_mcu) <= c + Bytes(sent_queue)
  BY <1>3, <1>4, <1>6, <1>7, <1>9, BytesWithin
<1>10. CASE \A i \in 1..Len(to_mcu) : at[i] # 0
  <2>1. Bytes(to_mcu) <= 0 + Bytes(sent_queue) BY <1>9, <1>10
  <2> QED BY <2>1, <1>1, <1>2, RoomTypes DEF Room, Needed
<1>11. CASE \E i \in 1..Len(to_mcu) : at[i] = 0
  <2>1. 1 \in 1..Len(to_mcu) /\ to_mcu[1].num < receive_seq /\ to_mcu[1].num < next_sequence
    BY <1>11, <1>8, <1>3
  <2>2. CASE dispatching
    <3>1. to_mcu[1].num = next_sequence - 1 BY <2>2 DEF Blocks
    <3>2. receive_seq = next_sequence BY <3>1, <2>1, <1>3
    <3>3. BlockLen(to_mcu[1]) = last_ack_bytes /\ last_ack_seq < receive_seq
      BY <3>2, <2>2, <1>2 DEF Overtaken
    <3>4. Bytes(to_mcu) <= last_ack_bytes + Bytes(sent_queue) BY <1>9, <3>3, <1>8, RoomTypes
    <3> QED BY <3>3, <3>4, <1>1, <1>2, RoomTypes DEF Room, Needed
  <2>3. CASE ~dispatching
    <3>1. Foreign BY <2>3, <2>1, <1>3 DEF Foreign, Stale
    <3>2. send_seq <= receive_seq + 1 BY <3>1, <1>2 DEF ForeignInv
    <3>3. Bytes(to_mcu) <= MaxLen + Bytes(sent_queue)
      BY <1>9, <1>2, <1>8, RoomTypes DEF Lengths
    <3>4. Bytes(sent_queue) <= MaxLen
      <4>1. ASSUME sent_queue # <<>> PROVE Bytes(sent_queue) <= MaxLen
        <5>1. Len(sent_queue) = 1 /\ 1 \in 1..Len(sent_queue) BY <4>1, <3>2, <1>3
        <5>2. BlockLen(sent_queue[1]) <= MaxLen BY <5>1, <1>2 DEF Lengths
        <5>3. sent_queue = Append(<<>>, sent_queue[1]) /\ sent_queue[1] \in Block
          BY <5>1, <1>3
        <5>4. <<>> \in Seq(Block) /\ Bytes(<<>>) = 0 BY BytesEmpty
        <5>5. Bytes(Append(<<>>, sent_queue[1])) = Bytes(<<>>) + BlockLen(sent_queue[1])
          BY <5>3, <5>4, BytesAppend
        <5> QED BY <5>1, <5>2, <5>3, <5>4, <5>5, RoomTypes
      <4> QED BY <4>1, BytesEmpty, RoomTypes
    <3> QED BY <3>3, <3>4, <1>1, RoomTypes
  <2> QED BY <2>2, <2>3
<1> QED BY <1>10, <1>11

\* Nothing is sent before the first step.
LEMMA RoomInit == Init => RoomInv
<1> SUFFICES ASSUME Init PROVE RoomInv OBVIOUS
<1>1. /\ to_mcu = <<>> /\ to_host = <<>> /\ sent_queue = <<>> /\ notify_queue = {}
      /\ receive_seq = 1 /\ send_seq = 1 /\ last_ack_seq = 0 /\ last_ack_bytes = 0
      /\ session = "send" /\ ~identified /\ ~dispatching
  BY DEF Init
<1>2. Order /\ Overtaken BY <1>1 DEF Order, Overtaken
<1>3. Lengths /\ Room BY <1>1, BytesEmpty, LinkAssumption DEF Lengths, Room, Needed, MaxLen
<1>4. ForeignInv BY <1>1 DEF ForeignInv
<1> QED BY <1>2, <1>3, <1>4 DEF RoomInv

\* Steps that leave the host queue and next_sequence alone, take blocks off the
\* line or garble them, and put no answer to an identify on it.
LEMMA RoomLine ==
    ASSUME IInv, RoomInv, UNCHANGED <<seqs, queues, next_sequence, identified>>,
           session' \in {session, "closed"},
           Len(to_mcu') \in Nat, NEW at,
           \A j \in 1..Len(to_mcu') :
              /\ at[j] \in 1..Len(to_mcu) /\ to_mcu'[j].num = to_mcu[at[j]].num
              /\ BlockLen(to_mcu'[j]) = BlockLen(to_mcu[at[j]]),
           \A j, k \in 1..Len(to_mcu') : j < k => at[j] < at[k],
           dispatching' => dispatching /\ BlockLen(to_mcu'[1]) = BlockLen(to_mcu[1]),
           dispatching /\ ~dispatching' => \A j \in 1..Len(to_mcu') : at[j] # 1,
           \A i \in 1..Len(to_host') :
              \/ \E j \in 1..Len(to_host) : to_host'[i] = to_host[j]
              \/ ~(to_host'[i].kind = "data" /\ to_host'[i].cmd = 0)
    PROVE  RoomInv'
<1> SUFFICES ASSUME resent = {}
             PROVE  Order' /\ Lengths' /\ Overtaken' /\ Room' /\ (Foreign => ForeignInv)'
  BY DEF RoomInv, queues
<1>1. Order /\ Lengths /\ Overtaken /\ Room /\ (Foreign => ForeignInv) BY DEF RoomInv
<1>2. /\ UNCHANGED <<send_seq, receive_seq, last_ack_seq, last_ack_bytes, sent_queue,
                     notify_queue>>
      /\ \A x : Sent(x)' = Sent(x)
  BY SameQueue DEF seqs, queues
<1>3. /\ Len(to_mcu) \in Nat /\ next_sequence \in Nat
      /\ to_mcu' # <<>> => 1 \in 1..Len(to_mcu')
      /\ \A i \in 1..Len(to_mcu) : to_mcu[i].num \in Nat
  <2>1. to_mcu' # <<>> => 1 \in 1..Len(to_mcu') OBVIOUS
  <2> QED BY <2>1, Types, Fields DEF IInv
<1>4. Order'
  <2>1. ASSUME NEW i \in 2..Len(to_mcu') PROVE to_mcu'[i].num >= next_sequence
    <3>1. 1 \in 1..Len(to_mcu') /\ i \in 1..Len(to_mcu') /\ 1 < i OBVIOUS
    <3>2. at[1] < at[i] /\ at[1] \in 1..Len(to_mcu) /\ at[i] \in 1..Len(to_mcu) BY <3>1
    <3>3. at[i] \in 2..Len(to_mcu) BY <3>2, <1>3
    <3> QED BY <3>1, <3>3, <1>1 DEF Order
  <2>2. ASSUME NEW i \in 1..Len(to_mcu'), NEW j \in 1..Len(to_mcu'), i < j
        PROVE  to_mcu'[i].num < to_mcu'[j].num
    BY <2>2, <1>1 DEF Order
  <2> QED BY <2>1, <2>2 DEF Order
<1>5. Lengths' BY <1>1, <1>2 DEF Lengths
<1>6. Overtaken' BY <1>1, <1>2 DEF Overtaken
<1>7. Room' BY <1>1, <1>2 DEF Room, Needed
<1>8. Foreign' => Foreign
  <2>1. ASSUME Stale' PROVE Stale
    <3>1. /\ ~dispatching' /\ 1 \in 1..Len(to_mcu') /\ to_mcu'[1].num < next_sequence
      BY <2>1, <1>3 DEF Stale
    <3>2. at[1] \in 1..Len(to_mcu) /\ to_mcu[at[1]].num < next_sequence BY <3>1
    <3>3. at[1] = 1
      <4>1. ASSUME NEW i \in 2..Len(to_mcu), i = at[1] PROVE FALSE
        <5>1. to_mcu[i].num >= next_sequence /\ to_mcu[i].num < next_sequence
          BY <4>1, <3>2, <1>1 DEF Order
        <5>2. i \in 1..Len(to_mcu) BY <1>3
        <5> QED BY <5>1, <5>2, <1>3
      <4> QED BY <3>2, <4>1, <1>3
    <3>4. ~dispatching BY <3>1, <3>3
    <3> QED BY <3>2, <3>3, <3>4 DEF Stale
  <2> QED BY <2>1, <1>2 DEF Foreign
<1>9. ForeignInv => ForeignInv' BY <1>2 DEF ForeignInv
<1> QED BY <1>1, <1>4, <1>5, <1>6, <1>7, <1>8, <1>9

\* The same when the blocks on the line stay.
LEMMA RoomSame ==
    ASSUME IInv, RoomInv, UNCHANGED <<seqs, queues, next_sequence, identified>>,
           session' \in {session, "closed"}, UNCHANGED <<to_mcu, dispatching>>,
           \A i \in 1..Len(to_host') :
              \/ \E j \in 1..Len(to_host) : to_host'[i] = to_host[j]
              \/ ~(to_host'[i].kind = "data" /\ to_host'[i].cmd = 0)
    PROVE  RoomInv'
<1> DEFINE at == [j \in 1..Len(to_mcu) |-> j]
<1>1. /\ \A j \in 1..Len(to_mcu) : at[j] = j
      /\ \A j, k \in 1..Len(to_mcu) : j < k => at[j] < at[k]
      /\ Len(to_mcu) \in Nat
  BY Types DEF IInv
<1> HIDE DEF at
<1> QED BY <1>1, RoomLine

\* A message that does not answer an identify.
LEMMA PostOther ==
    ASSUME IInv, NEW m \in Message, ~(m.kind = "data" /\ m.cmd = 0),
           to_host' \in {to_host, Post(to_host, m)}
    PROVE  \A i \in 1..Len(to_host') :
              \/ \E j \in 1..Len(to_host) : to_host'[i] = to_host[j]
              \/ ~(to_host'[i].kind = "data" /\ to_host'[i].cmd = 0)
<1>1. to_host \in Seq(Message) BY Types DEF IInv
<1>2. CASE to_host' = to_host BY <1>2
<1>3. CASE to_host' = Post(to_host, m)
  <2>1. \A i \in 1..Len(to_host') : to_host'[i] = IF i <= Len(to_host) THEN to_host[i] ELSE m
    BY <1>1, <1>3, PostProps
  <2>2. \A i \in 1..Len(to_host') : i <= Len(to_host) => i \in 1..Len(to_host) BY <1>1
  <2> QED BY <2>1, <2>2
<1> QED BY <1>2, <1>3

\* Commands, reports and the caller's steps.
LEMMA RoomOthers ==
    ASSUME IInv, RoomInv,
           Submit \/ ConnectTimeout \/ McuRun \/ McuReport \/ LoseMessage \/ UNCHANGED vars
    PROVE  RoomInv'
<1>1. /\ UNCHANGED <<seqs, queues, next_sequence, identified, to_mcu, dispatching>>
      /\ session' \in {session, "closed"}
  BY DEF Submit, ConnectTimeout, McuRun, McuReport, LoseMessage, Fault, vars, caller, mcu,
         mcuOnly, line
<1>2. CASE Submit \/ ConnectTimeout \/ UNCHANGED vars
  <2>1. to_host' = to_host BY <1>2 DEF Submit, ConnectTimeout, vars, line
  <2> QED BY <1>1, <2>1, RoomSame
<1>3. CASE McuRun \/ McuReport
  <2>1. PICK m \in Message : /\ ~(m.kind = "data" /\ m.cmd = 0)
                             /\ to_host' \in {to_host, Post(to_host, m)}
    <3>1. next_sequence \in Nat /\ cursor \in Nat BY Types DEF IInv
    <3>2. CASE McuRun /\ cursor \in Queries
      <4>1. Data(next_sequence, cursor) \in Message /\ cursor # 0
        BY <3>1, <3>2, LinkAssumption DEF Data, Message
      <4>2. to_host' = Post(to_host, Data(next_sequence, cursor)) BY <3>2 DEF McuRun
      <4> QED BY <4>1, <4>2 DEF Data
    <3>3. CASE McuRun /\ cursor \notin Queries
      <4>1. Ack(next_sequence) \in Message /\ Ack(next_sequence).kind # "data"
        BY <3>1 DEF Ack, Message
      <4>2. to_host' = to_host BY <3>3 DEF McuRun
      <4> QED BY <4>1, <4>2
    <3>4. CASE McuReport
      <4>1. Data(next_sequence, NoCmd) \in Message /\ Data(next_sequence, NoCmd).cmd # 0
        BY <3>1 DEF Data, Message, NoCmd
      <4>2. to_host' = Post(to_host, Data(next_sequence, NoCmd)) BY <3>4 DEF McuReport
      <4> QED BY <4>1, <4>2
    <3> QED BY <1>3, <3>2, <3>3, <3>4
  <2> QED BY <1>1, <2>1, PostOther, RoomSame
<1>4. CASE LoseMessage
  <2>1. PICK i \in 1..Len(to_host) : to_host' = Without(to_host, i) BY <1>4 DEF LoseMessage
  <2>2. /\ Len(to_host') = Len(to_host) - 1 /\ Len(to_host) \in Nat
        /\ \A j \in 1..Len(to_host') :
              to_host'[j] = IF j < i THEN to_host[j] ELSE to_host[j + 1]
    BY <2>1, WithoutProps, Types DEF IInv
  <2>3. \A j \in 1..Len(to_host') : j \in 1..Len(to_host) /\ j + 1 \in 1..Len(to_host)
    BY <2>2
  <2> QED BY <1>1, <2>2, <2>3, RoomSame
<1> QED BY <1>2, <1>3, <1>4

\* A block is taken off the line.
LEMMA RoomTail ==
    ASSUME IInv, RoomInv, McuAck \/ McuNak \/ McuBad PROVE RoomInv'
<1>1. /\ UNCHANGED <<seqs, queues, next_sequence, identified>> /\ session' = session
      /\ to_mcu' = Tail(to_mcu) /\ ~dispatching'
      /\ to_host' \in {to_host, Post(to_host, Ack(next_sequence))}
  BY DEF McuAck, McuNak, McuBad, mcuOnly, caller
<1>2. Ack(next_sequence) \in Message /\ Ack(next_sequence).kind # "data"
  BY Types DEF IInv, Ack, Message
<1>3. to_mcu # <<>> BY Types DEF McuAck, McuNak, McuBad, IInv, Blocks
<1>4. /\ Len(to_mcu') = Len(to_mcu) - 1 /\ Len(to_mcu) \in Nat /\ Len(to_mcu) >= 1
      /\ \A j \in 1..Len(to_mcu') : to_mcu'[j] = to_mcu[j + 1]
  BY <1>1, <1>3, TailProps, Types DEF IInv
<1> DEFINE at == [j \in 1..Len(to_mcu') |-> j + 1]
<1>5. /\ \A j \in 1..Len(to_mcu') :
            at[j] \in 1..Len(to_mcu) /\ at[j] # 1 /\ to_mcu'[j] = to_mcu[at[j]]
      /\ \A j, k \in 1..Len(to_mcu') : j < k => at[j] < at[k]
      /\ Len(to_mcu') \in Nat
  BY <1>4
<1> HIDE DEF at
<1>6. \A i \in 1..Len(to_host') :
              \/ \E j \in 1..Len(to_host) : to_host'[i] = to_host[j]
              \/ ~(to_host'[i].kind = "data" /\ to_host'[i].cmd = 0)
  BY <1>1, <1>2, PostOther
<1> QED BY <1>1, <1>5, <1>6, RoomLine

\* A block is lost or garbled.
LEMMA RoomFault ==
    ASSUME IInv, RoomInv, LoseBlock \/ GarbleBlock PROVE RoomInv'
<1>1. /\ UNCHANGED <<seqs, queues, next_sequence, identified, dispatching, to_host>>
      /\ session' = session
  BY DEF LoseBlock, GarbleBlock, Fault, caller, mcu
<1>2. \A i \in 1..Len(to_host') : \E j \in 1..Len(to_host) : to_host'[i] = to_host[j]
  BY <1>1
<1>3. CASE LoseBlock
  <2>1. PICK i \in (Held + 1)..Len(to_mcu) : to_mcu' = Without(to_mcu, i)
    BY <1>3 DEF LoseBlock
  <2>2. i \in 1..Len(to_mcu) /\ (dispatching => i # 1) BY HeldType, Types DEF IInv
  <2>3. /\ Len(to_mcu') = Len(to_mcu) - 1 /\ Len(to_mcu) \in Nat
        /\ \A j \in 1..Len(to_mcu') : to_mcu'[j] = IF j < i THEN to_mcu[j] ELSE to_mcu[j + 1]
    BY <2>1, <2>2, WithoutProps, Types DEF IInv
  <2> DEFINE at == [j \in 1..Len(to_mcu') |-> IF j < i THEN j ELSE j + 1]
  <2>4. /\ \A j \in 1..Len(to_mcu') :
              at[j] \in 1..Len(to_mcu) /\ to_mcu'[j] = to_mcu[at[j]]
        /\ \A j, k \in 1..Len(to_mcu') : j < k => at[j] < at[k]
        /\ Len(to_mcu') \in Nat
    BY <2>2, <2>3
  <2> HIDE DEF at
  <2>5. dispatching => to_mcu'[1] = to_mcu[1] BY <2>2, <2>3
  <2> QED BY <1>1, <1>2, <2>4, <2>5, RoomLine
<1>4. CASE GarbleBlock
  <2>1. PICK i \in (Held + 1)..Len(to_mcu) :
              to_mcu' = [to_mcu EXCEPT ![i] = Garbled(to_mcu[i])]
    BY <1>4 DEF GarbleBlock
  <2>2. i \in 1..Len(to_mcu) /\ to_mcu[i] \in Block BY HeldType, Types, Fields DEF IInv
  <2>3. Garbled(to_mcu[i]) \in Block BY <2>2 DEF Block, Garbled
  <2>4. /\ Len(to_mcu') = Len(to_mcu) /\ Len(to_mcu) \in Nat
        /\ \A j \in 1..Len(to_mcu) :
              to_mcu'[j] = IF j = i THEN Garbled(to_mcu[i]) ELSE to_mcu[j]
    BY <2>1, <2>2, <2>3, Types, ExceptSeq DEF IInv
  <2>5. \A j \in 1..Len(to_mcu) : /\ to_mcu'[j].num = to_mcu[j].num
                                  /\ BlockLen(to_mcu'[j]) = BlockLen(to_mcu[j])
    BY <2>4 DEF Garbled, BlockLen
  <2> DEFINE at == [j \in 1..Len(to_mcu) |-> j]
  <2>6. /\ \A j \in 1..Len(to_mcu) : at[j] = j
        /\ \A j, k \in 1..Len(to_mcu) : j < k => at[j] < at[k]
    BY <2>4
  <2> HIDE DEF at
  <2>7. dispatching => BlockLen(to_mcu'[1]) = BlockLen(to_mcu[1])
    BY <2>5, Types DEF IInv, Blocks
  <2>8. \A j \in 1..Len(to_mcu') :
            /\ at[j] \in 1..Len(to_mcu) /\ to_mcu'[j].num = to_mcu[at[j]].num
            /\ BlockLen(to_mcu'[j]) = BlockLen(to_mcu[at[j]])
    BY <2>4, <2>5, <2>6
  <2> QED BY <1>1, <1>2, <2>4, <2>6, <2>7, <2>8, RoomLine
<1> QED BY <1>3, <1>4

\* The firmware takes a block: the numbers agree from then on.
LEMMA RoomAccept ==
    ASSUME IInv, RoomInv, McuAccept PROVE RoomInv'
<1> SUFFICES ASSUME resent = {}
             PROVE  Order' /\ Lengths' /\ Overtaken' /\ Room' /\ ~Foreign'
  BY DEF RoomInv, McuAccept, mcuOnly, queues
<1>1. Order /\ Lengths /\ Overtaken /\ Room BY DEF RoomInv
<1>2. /\ UNCHANGED <<seqs, queues, to_mcu>> /\ next_sequence' = next_sequence + 1
      /\ UNCHANGED <<send_seq, receive_seq, last_ack_seq, last_ack_bytes, sent_queue>>
      /\ \A x : Sent(x)' = Sent(x)
      /\ dispatching'
  BY SameQueue DEF McuAccept, mcuOnly, seqs, queues
<1>3. /\ to_mcu[1].num = next_sequence /\ next_sequence < send_seq /\ Len(to_mcu) >= 1
      /\ receive_seq <= next_sequence /\ next_sequence \in Nat /\ receive_seq \in Nat
      /\ send_seq \in Nat /\ Len(to_mcu) \in Nat
      /\ \A i \in 1..Len(to_mcu) : to_mcu[i].num \in Nat
  BY Accepted, Types, Fields DEF IInv, Numbers
<1>4. Order'
  <2>1. ASSUME NEW i \in 2..Len(to_mcu) PROVE to_mcu[i].num >= next_sequence + 1
    <3>1. 1 \in 1..Len(to_mcu) /\ i \in 1..Len(to_mcu) /\ 1 < i BY <1>3
    <3>2. to_mcu[1].num < to_mcu[i].num BY <3>1, <1>1 DEF Order
    <3> QED BY <3>1, <3>2, <1>3
  <2> QED BY <2>1, <1>1, <1>2 DEF Order
<1>5. Lengths' /\ Room' BY <1>1, <1>2 DEF Lengths, Room, Needed
<1>6. Overtaken' /\ ~Foreign' BY <1>2, <1>3 DEF Overtaken, Foreign, Stale
<1> QED BY <1>4, <1>5, <1>6

\* From the first retransmission on, resent is not empty.
LEMMA RoomResend ==
    ASSUME IInv, TimerArmed, ResendOnNak \/ ResendOnTimeout PROVE RoomInv'
<1>1. PICK k : Resend(k) BY DEF ResendOnNak, ResendOnTimeout
<1>2. sent_queue # <<>> /\ sent_queue \in Seq(Block)
  BY Types DEF ResendOnNak, ResendOnTimeout, TimerArmed, IInv
<1>3. 1 \in DOMAIN sent_queue BY <1>2
<1>4. sent_queue[1].num \in resent' BY <1>1, <1>3 DEF Resend
<1> QED BY <1>4 DEF RoomInv

\* check_send_command leaves room for a block of any length.
LEMMA RoomSend ==
    ASSUME IInv, RoomInv, SendIdentify \/ SendCommands PROVE RoomInv'
<1> USE DEF IInv
<1>1. PICK upto, waiting :
        /\ upto \in Nat /\ built <= upto /\ upto <= built + PerBlock
        /\ SendBlock(upto, waiting)
        /\ session # "open" => session = "send" /\ session' = "wait" /\ waiting = {0}
  <2>1. built \in Nat /\ submitted \in Nat /\ built <= submitted /\ PerBlock \in Nat
    BY Types, LinkAssumption DEF Opened
  <2>2. CASE SendIdentify BY <2>1, <2>2 DEF SendIdentify
  <2>3. CASE SendCommands
    <3> DEFINE u == IF submitted - built <= PerBlock THEN submitted ELSE built + PerBlock
    <3>1. u \in Nat /\ built <= u /\ u <= built + PerBlock BY <2>1
    <3>2. SendBlock(u, (built + 1)..u \cap Queries) /\ session = "open"
      BY <2>3 DEF SendCommands
    <3> HIDE DEF u
    <3> QED BY <3>1, <3>2
  <2> QED BY <2>2, <2>3
<1> DEFINE b == [num |-> send_seq, from |-> built + 1, upto |-> upto, ok |-> TRUE]
<1>2. /\ UNCHANGED <<identified, receive_seq, last_ack_seq, last_ack_bytes, resent,
                     next_sequence, dispatching, to_host>>
      /\ send_seq' = send_seq + 1 /\ WindowOpen
      /\ sent_queue' = Append(sent_queue, b)
      /\ notify_queue' = notify_queue \cup {[cmd |-> c, num |-> send_seq] : c \in waiting}
      /\ to_mcu' = Write(to_mcu, <<b>>)
  BY <1>1 DEF SendBlock, mcu
<1>3. /\ send_seq \in Nat /\ receive_seq \in Nat /\ next_sequence \in Nat
      /\ built \in Nat /\ PerBlock \in Nat \ {0}
      /\ receive_seq <= send_seq /\ 1 <= receive_seq
      /\ sent_queue \in Seq(Block) /\ Len(sent_queue) = send_seq - receive_seq
      /\ to_mcu \in Seq(Block) /\ Len(to_mcu) \in Nat
      /\ \A i \in 1..Len(to_mcu) : to_mcu[i].num \in Nat /\ to_mcu[i].num < send_seq
                                   /\ 1 <= to_mcu[i].num
  BY <1>1, Types, Fields, LinkAssumption DEF Numbers, Blocks
<1>4. b \in Block /\ <<b>> \in Seq(Block) /\ Len(<<b>>) = 1 /\ <<b>>[1] = b
  BY <1>1, <1>3 DEF Block
<1>5. b.num = send_seq /\ BlockLen(b) \in Nat /\ BlockLen(b) <= MaxLen
  <2>1. b.num = send_seq /\ b.from = built + 1 /\ b.upto = upto OBVIOUS
  <2> HIDE DEF b
  <2> QED BY <2>1, <1>1, <1>3 DEF BlockLen, MaxLen
<1> HIDE DEF b
<1>6. /\ Len(sent_queue') = Len(sent_queue) + 1
      /\ \A i \in 1..Len(sent_queue) : sent_queue'[i] = sent_queue[i]
      /\ sent_queue'[Len(sent_queue) + 1] = b
  <2>1. sent_queue' = Append(sent_queue, b) /\ sent_queue \in Seq(Block) /\ b \in Block
    BY <1>2, <1>3, <1>4
  <2> QED BY <2>1
<1>7. /\ Len(to_mcu') \in Nat /\ Len(to_mcu') <= Len(to_mcu) + 1
      /\ Len(to_mcu) >= 1 => Len(to_mcu') >= 1
      /\ \A i \in 1..Len(to_mcu') :
            to_mcu'[i] = IF i <= Len(to_mcu) THEN to_mcu[i] ELSE b
  <2>1. /\ to_mcu' \in Seq(Block) /\ Len(to_mcu') <= Len(to_mcu) + Len(<<b>>)
        /\ Len(to_mcu) >= 1 => Len(to_mcu') >= 1
        /\ \A i \in 1..Len(to_mcu') :
              to_mcu'[i] = IF i <= Len(to_mcu) THEN to_mcu[i] ELSE <<b>>[i - Len(to_mcu)]
    <3>1. to_mcu' = Write(to_mcu, <<b>>) /\ to_mcu \in Seq(Block) /\ <<b>> \in Seq(Block)
      BY <1>2, <1>3, <1>4
    <3> DEFINE w == Write(to_mcu, <<b>>)
    <3>2. /\ w \in Seq(Block) /\ Len(w) <= Len(to_mcu) + Len(<<b>>)
          /\ Len(to_mcu) >= 1 => Len(w) >= 1
          /\ \A i \in 1..Len(w) :
                w[i] = IF i <= Len(to_mcu) THEN to_mcu[i] ELSE <<b>>[i - Len(to_mcu)]
      BY <3>1, WriteProps
    <3>3. to_mcu' = w BY <3>1
    <3> HIDE DEF w
    <3> QED BY <3>2, <3>3
  <2>2. Len(to_mcu') \in Nat BY <2>1
  <2>3. ASSUME NEW i \in 1..Len(to_mcu'), ~(i <= Len(to_mcu)) PROVE to_mcu'[i] = b
    <3>1. i - Len(to_mcu) = 1 BY <2>1, <2>2, <2>3, <1>3, <1>4
    <3> QED BY <3>1, <2>1, <2>3, <1>4
  <2> QED BY <2>1, <2>2, <2>3, <1>4
<1>8. ASSUME NEW i \in 1..Len(to_mcu')
      PROVE  \/ i \in 1..Len(to_mcu) /\ to_mcu'[i] = to_mcu[i]
             \/ i = Len(to_mcu) + 1 /\ to_mcu'[i] = b
  BY <1>7, <1>3
<1> SUFFICES ASSUME resent = {}
             PROVE  Order' /\ Lengths' /\ Overtaken' /\ Room' /\ (Foreign => ForeignInv)'
  BY <1>2 DEF RoomInv
<1>9. Order /\ Lengths /\ Overtaken /\ Room /\ (Foreign => ForeignInv) BY DEF RoomInv
\* a board whose numbers are not known yet is sent identify commands only
<1>10. ASSUME Foreign
       PROVE  /\ ForeignInv /\ session = "send" /\ session' = "wait" /\ waiting = {0}
              /\ send_seq = receive_seq /\ notify_queue = {}
  BY <1>1, <1>9, <1>10 DEF ForeignInv
<1>11. ASSUME to_mcu # <<>> PROVE next_sequence <= send_seq
  <2>1. SUFFICES ASSUME next_sequence > send_seq PROVE FALSE BY <1>3
  <2>2. Foreign BY <2>1 DEF Foreign
  <2>3. receive_seq = send_seq /\ receive_seq \in {1, next_sequence}
    BY <2>2, <1>10 DEF ForeignInv
  <2>4. send_seq = 1 BY <2>1, <2>3, <1>3
  <2>5. 1 \in 1..Len(to_mcu) BY <1>11, <1>3
  <2> QED BY <2>4, <2>5, <1>3
<1>12. Order'
  <2>1. ASSUME NEW i \in 1..Len(to_mcu'), NEW j \in 1..Len(to_mcu'), i < j
        PROVE  to_mcu'[i].num < to_mcu'[j].num
    <3>1. i \in 1..Len(to_mcu) /\ to_mcu'[i] = to_mcu[i] BY <1>7, <1>3, <1>8, <2>1
    <3>2. CASE j \in 1..Len(to_mcu) /\ to_mcu'[j] = to_mcu[j]
      BY <3>1, <3>2, <2>1, <1>9 DEF Order
    <3>3. CASE to_mcu'[j] = b BY <3>1, <3>3, <1>3, <1>5
    <3> QED BY <3>2, <3>3, <1>8
  <2>2. ASSUME NEW i \in 2..Len(to_mcu') PROVE to_mcu'[i].num >= next_sequence
    <3>1. i \in 1..Len(to_mcu') OBVIOUS
    <3>2. CASE i \in 1..Len(to_mcu) /\ to_mcu'[i] = to_mcu[i]
      <4>1. i \in 2..Len(to_mcu) BY <3>2
      <4> QED BY <3>2, <4>1, <1>9 DEF Order
    <3>3. CASE i = Len(to_mcu) + 1 /\ to_mcu'[i] = b
      <4>1. to_mcu # <<>> BY <3>3, <1>3
      <4> QED BY <3>3, <4>1, <1>11, <1>5, <1>3
    <3> QED BY <3>1, <3>2, <3>3, <1>8
  <2> QED BY <2>1, <2>2, <1>2 DEF Order
<1>13. \A x \in receive_seq..(send_seq - 1) : Sent(x)' = Sent(x)
  <2> TAKE x \in receive_seq..(send_seq - 1)
  <2>1. x - receive_seq + 1 \in 1..Len(sent_queue) BY <1>3
  <2>2. Sent(x)' = sent_queue'[x - receive_seq + 1] BY <1>2 DEF Sent
  <2> QED BY <2>1, <2>2, <1>6 DEF Sent
<1>14. ASSUME NEW x, x = send_seq PROVE Sent(x)' = b
  <2>1. x - receive_seq + 1 = Len(sent_queue) + 1 BY <1>14, <1>3
  <2>2. Sent(x)' = sent_queue'[x - receive_seq + 1] BY <1>2 DEF Sent
  <2> QED BY <2>1, <2>2, <1>6
<1>15. Lengths'
  <2>1. ASSUME NEW i \in 1..Len(to_mcu')
        PROVE  /\ BlockLen(to_mcu'[i]) <= MaxLen
               /\ to_mcu'[i].num >= receive_seq
                     => BlockLen(to_mcu'[i])
                          = BlockLen(sent_queue'[to_mcu'[i].num - receive_seq + 1])
    <3>1. PICK x : x = to_mcu'[i].num OBVIOUS
    <3>2. Sent(x)' = sent_queue'[x - receive_seq + 1] BY <1>2 DEF Sent
    <3>3. CASE i \in 1..Len(to_mcu) /\ to_mcu'[i] = to_mcu[i]
      <4>1. ASSUME x >= receive_seq PROVE Sent(x)' = Sent(x)
        <5>1. x \in receive_seq..(send_seq - 1) BY <3>1, <3>3, <4>1, <1>3
        <5> QED BY <5>1, <1>13
      <4> QED BY <3>1, <3>2, <3>3, <4>1, <1>9 DEF Lengths
    <3>4. CASE to_mcu'[i] = b
      <4>1. x = send_seq BY <3>1, <3>4, <1>5
      <4>2. Sent(x)' = b BY <4>1, <1>14
      <4> QED BY <3>1, <3>2, <3>4, <4>2, <1>5
    <3> QED BY <3>3, <3>4, <1>8
  <2>2. ASSUME NEW i \in 1..Len(sent_queue') PROVE BlockLen(sent_queue'[i]) <= MaxLen
    <3>1. i \in 1..Len(sent_queue) \/ i = Len(sent_queue) + 1 BY <1>6, <1>3
    <3> QED BY <3>1, <1>5, <1>6, <1>9 DEF Lengths
  <2> QED BY <2>1, <2>2, <1>2, <1>9 DEF Lengths, Sent
<1>16. Overtaken'
  <2>1. dispatching => to_mcu'[1] = to_mcu[1] BY <1>7, <1>3 DEF Blocks
  <2> QED BY <2>1, <1>2, <1>9 DEF Overtaken
<1>17. Room'
  <2>1. SUFFICES ASSUME ReceiveWindow > 0 PROVE Needed' <= ReceiveWindow BY DEF Room
  <2> DEFINE ack == IF last_ack_seq < receive_seq THEN last_ack_bytes ELSE 0
  <2>2. ack \in Nat /\ ack <= MaxLen BY RoomTypes, <1>9 DEF Lengths
  <2>3. Needed' = Bytes(sent_queue) + BlockLen(b) + ack
    BY <1>2, <1>3, <1>4, BytesAppend DEF Needed
  <2>4. send_seq > receive_seq => Bytes(sent_queue) + MaxLen + ack <= ReceiveWindow
    BY <2>1, <1>2 DEF WindowOpen
  <2>5. ~(send_seq > receive_seq) => Bytes(sent_queue) = 0
    <3>1. SUFFICES ASSUME ~(send_seq > receive_seq) PROVE sent_queue = <<>> BY BytesEmpty
    <3> QED BY <3>1, <1>3
  <2> HIDE DEF ack
  <2> QED BY <2>1, <2>2, <2>3, <2>4, <2>5, <1>5, RoomTypes
<1>18. (Foreign => ForeignInv)'
  <2>1. SUFFICES ASSUME Foreign' PROVE ForeignInv' OBVIOUS
  <2>2. Foreign
    <3>1. CASE next_sequence > send_seq + 1 BY <3>1, <1>3 DEF Foreign
    <3>2. CASE Stale'
      <4>1. ~dispatching /\ 1 \in 1..Len(to_mcu') /\ to_mcu'[1].num < next_sequence
        BY <3>2, <1>2, <1>7 DEF Stale
      <4>2. CASE 1 \in 1..Len(to_mcu) /\ to_mcu'[1] = to_mcu[1]
        BY <4>1, <4>2 DEF Foreign, Stale
      <4>3. CASE to_mcu'[1] = b BY <4>1, <4>3, <1>5, <1>3 DEF Foreign
      <4> QED BY <4>1, <4>2, <4>3, <1>8
    <3> QED BY <2>1, <3>1, <3>2, <1>2 DEF Foreign
  <2>3. notify_queue' = {[cmd |-> 0, num |-> send_seq]} BY <2>2, <1>2, <1>10
  <2>4. /\ ~identified' /\ session' = "wait" /\ receive_seq' \in {1, next_sequence'}
        /\ send_seq' <= receive_seq' + 1
    BY <2>2, <1>2, <1>3, <1>10 DEF ForeignInv
  <2>5. \A e \in notify_queue' : e.cmd = 0 /\ e.num >= receive_seq'
    BY <2>2, <2>3, <1>2, <1>3, <1>10
  <2>6. \A i \in 1..Len(to_host') : ~(to_host'[i].kind = "data" /\ to_host'[i].cmd = 0)
    BY <2>2, <1>2, <1>10 DEF ForeignInv
  <2>7. \A e, f \in notify_queue' : e = f BY <2>3
  <2> QED BY <2>4, <2>5, <2>6, <2>7 DEF ForeignInv
<1> QED BY <1>12, <1>15, <1>16, <1>17, <1>18

\* While the board's numbers are not known, update_receive_seq takes over the
\* number of the board or finds out nothing.
LEMMA ForeignReceive ==
    ASSUME IInv, Order, ForeignInv, Foreign', HostReceive,
           Foreign
    PROVE  ForeignInv'
<1> USE DEF IInv
<1> DEFINE m == Head(to_host)
<1>1. /\ to_host # <<>> /\ ReceivedSeq(m) = m.num /\ 1 \in 1..Len(to_host) /\ m = to_host[1]
  BY ReceivedExact DEF HostReceive
<1>2. Handle(m) /\ UNCHANGED <<next_sequence, dispatching, to_mcu>> /\ to_host' = Tail(to_host)
  BY <1>1, NeverDiscarded DEF NeverDiscards, HostReceive, mcu
<1>3. /\ m \in Message /\ receive_seq <= m.num /\ m.num <= next_sequence
      /\ ~(m.kind = "data" /\ m.cmd = 0)
  BY <1>1, Fields DEF Messages, ForeignInv
<1>4. PICK r \in Nat : r = m.num BY <1>1, Fields
<1> HIDE DEF m
<1>5. /\ send_seq \in Nat /\ receive_seq \in Nat /\ next_sequence \in Nat
      /\ receive_seq <= send_seq /\ 1 <= receive_seq /\ receive_seq <= r /\ r <= next_sequence
      /\ Len(sent_queue) = send_seq - receive_seq
  BY <1>3, <1>4, Types DEF Numbers
<1>6. /\ receive_seq' = r
      /\ send_seq' = IF r <= send_seq THEN send_seq ELSE r
  BY <1>1, <1>2, <1>4, <1>5 DEF Handle, UpdateReceiveSeq
<1> DEFINE woken == {e \in notify_queue : e.num <= WakeSeq(m)}
<1>7. /\ notify_queue' = notify_queue \ woken
      /\ IF \E e \in woken : e.cmd = 0 THEN AfterIdentify ELSE session' = session
      /\ identified' = (identified \/ (m.kind = "data" /\ m.cmd = 0))
  BY <1>2 DEF Handle
<1>8. WakeSeq(m) <= r - 1 /\ WakeSeq(m) \in Int BY <1>1, <1>4, <1>5 DEF WakeSeq
<1>9. ~identified' BY <1>3, <1>7 DEF ForeignInv
<1>10. session' # "open" BY <1>7 DEF ForeignInv, AfterIdentify
<1>11. r \in {1, next_sequence}
  <2>1. CASE next_sequence > send_seq
    <3>1. Ahead BY <2>1, <1>5 DEF InStep
    <3> QED BY <3>1, <1>1, <1>4 DEF Ahead
  <2>2. CASE ~(next_sequence > send_seq)
    <3>1. receive_seq \in {1, next_sequence} /\ send_seq <= receive_seq + 1
      BY DEF ForeignInv
    <3> QED BY <3>1, <2>2, <1>5
  <2> QED BY <2>1, <2>2
<1>12. send_seq' <= r + 1 BY <1>5, <1>6 DEF ForeignInv
<1>13. ASSUME NEW e \in notify_queue'
       PROVE  /\ e \in notify_queue /\ e \notin woken /\ e.cmd = 0
              /\ send_seq' > r => e.num >= r
  <2>1. e \in notify_queue /\ e \notin woken /\ e.cmd = 0 /\ e.num \in Nat
    BY <1>7, Fields DEF ForeignInv
  <2>2. ASSUME send_seq' > r PROVE e.num >= r
    <3>1. send_seq > r BY <2>2, <1>5, <1>6
    <3>2. r = receive_seq BY <3>1, <1>5 DEF ForeignInv
    <3> QED BY <3>1, <3>2, <2>1 DEF ForeignInv
  <2> QED BY <2>1, <2>2
<1>14. ASSUME session' = "send" PROVE send_seq' = r /\ notify_queue' = {}
  <2>1. CASE session = "send"
    <3>1. send_seq = receive_seq /\ notify_queue = {} BY <2>1 DEF ForeignInv
    <3> QED BY <3>1, <1>5, <1>6, <1>7
  <2>2. CASE session # "send"
    <3>1. PICK e \in woken : e.cmd = 0 BY <2>2, <1>7, <1>14
    <3>2. e \in notify_queue /\ e.num \in Nat /\ e.num <= r - 1 BY <3>1, <1>5, <1>8, Fields
    <3>3. notify_queue' = {}
      <4>1. ASSUME NEW f \in notify_queue' PROVE FALSE
        BY <4>1, <3>1, <3>2, <1>13 DEF ForeignInv
      <4> QED BY <4>1
    <3>4. ~(send_seq > r)
      <4>1. ASSUME send_seq > r PROVE FALSE
        <5>1. e.num >= receive_seq BY <4>1, <3>2, <1>5 DEF ForeignInv
        <5> QED BY <5>1, <4>1, <3>2, <1>5 DEF ForeignInv
      <4> QED BY <4>1
    <3> QED BY <3>3, <3>4, <1>5, <1>6
  <2> QED BY <2>1, <2>2
<1>15. \A i \in 1..Len(to_host') : ~(to_host'[i].kind = "data" /\ to_host'[i].cmd = 0)
  <2>1. /\ Len(to_host') = Len(to_host) - 1 /\ Len(to_host) \in Nat
        /\ \A i \in 1..Len(to_host') : to_host'[i] = to_host[i + 1]
    BY <1>1, <1>2, TailProps, Types
  <2>2. \A i \in 1..Len(to_host') : i + 1 \in 1..Len(to_host) BY <2>1
  <2> QED BY <2>1, <2>2 DEF ForeignInv
<1>16. \A e, f \in notify_queue' : e = f BY <1>13 DEF ForeignInv
<1> QED BY <1>2, <1>6, <1>9, <1>10, <1>11, <1>12, <1>13, <1>14, <1>15, <1>16 DEF ForeignInv

\* update_receive_seq takes the blocks acknowledged out of the count, and counts
\* the last of them until an acknowledgement proper.
LEMMA RoomReceive ==
    ASSUME IInv, LagInv, RoomInv, HostReceive PROVE RoomInv'
<1> USE DEF IInv
<1> DEFINE m == Head(to_host)
<1>1. /\ to_host # <<>> /\ ReceivedSeq(m) = m.num /\ 1 \in 1..Len(to_host) /\ m = to_host[1]
  BY ReceivedExact DEF HostReceive
<1>2. /\ Handle(m)
      /\ UNCHANGED <<next_sequence, dispatching, to_mcu, resent>>
  BY <1>1, NeverDiscarded DEF NeverDiscards, HostReceive, mcu
<1>3. /\ m.kind \in {"ack", "data"} /\ receive_seq <= m.num /\ m.num <= next_sequence
      /\ m.kind = "ack" => m.num <= next_sequence - Held
  <2>1. m \in Message BY <1>1, Fields
  <2> QED BY <2>1, <1>1 DEF Messages, Message
<1>4. PICK r \in Nat : r = m.num BY <1>1, Fields
<1> HIDE DEF m
<1>5. /\ send_seq \in Nat /\ receive_seq \in Nat /\ next_sequence \in Nat
      /\ receive_seq <= send_seq /\ 1 <= receive_seq /\ receive_seq <= r /\ r <= next_sequence
      /\ sent_queue \in Seq(Block) /\ Len(sent_queue) = send_seq - receive_seq
      /\ Len(to_mcu) \in Nat
      /\ \A i \in 1..Len(to_mcu) : to_mcu[i].num \in Nat /\ to_mcu[i].num < send_seq
      /\ last_ack_seq \in Nat /\ last_ack_seq <= receive_seq
  BY <1>3, <1>4, RoomTypes, Types, Fields DEF Numbers, Blocks, LagInv
<1>6. /\ UpdateReceiveSeq(r) /\ receive_seq' = r
      /\ last_ack_seq' = IF m.kind = "ack" /\ last_ack_seq < r THEN r ELSE last_ack_seq
  BY <1>1, <1>2, <1>4 DEF Handle, UpdateReceiveSeq
<1> SUFFICES ASSUME resent = {}
             PROVE  Order' /\ Lengths' /\ Overtaken' /\ Room' /\ (Foreign => ForeignInv)'
  BY <1>2 DEF RoomInv
<1>7. Order /\ Lengths /\ Overtaken /\ Room /\ (Foreign => ForeignInv) BY DEF RoomInv
<1>8. Order' BY <1>2, <1>7 DEF Order
<1>9. ASSUME Foreign' PROVE Foreign
  <2>1. send_seq <= send_seq' /\ send_seq' \in Nat BY <1>5, <1>6 DEF UpdateReceiveSeq
  <2>2. Stale' => Stale BY <1>2 DEF Stale
  <2> QED BY <1>9, <2>1, <2>2, <1>2, <1>5 DEF Foreign
<1>10. (Foreign => ForeignInv)'
  <2>1. SUFFICES ASSUME Foreign' PROVE ForeignInv' OBVIOUS
  <2> QED BY <2>1, <1>7, <1>9, ForeignReceive
\* the answer of the block being dispatched has just come in, or before
<1>11. ASSUME dispatching, r = next_sequence
       PROVE  m.kind = "data" /\ last_ack_seq' = last_ack_seq /\ to_mcu[1].num = r - 1
              /\ 1 \in 1..Len(to_mcu) /\ r <= send_seq
  <2>1. m.kind # "ack" BY <1>3, <1>4, <1>5, <1>11 DEF Held
  <2>2. next_sequence <= send_seq BY <1>11 DEF InStep, Ahead
  <2> QED BY <2>1, <2>2, <1>3, <1>5, <1>6, <1>11 DEF Blocks
<1>12. CASE r = receive_seq
  <2>1. /\ sent_queue' = sent_queue
        /\ UNCHANGED <<last_ack_bytes, send_seq>>
    <3>1. /\ r - receive_seq = 0 /\ 0 <= Len(sent_queue)
          /\ SubSeq(sent_queue, 0 + 1, Len(sent_queue)) = sent_queue
      BY <1>5, <1>12
    <3> QED BY <3>1, <1>6 DEF UpdateReceiveSeq
  <2>2. Lengths' BY <2>1, <1>2, <1>6, <1>7, <1>12 DEF Lengths, Sent
  <2>3. Overtaken' BY <2>1, <1>2, <1>6, <1>7, <1>11, <1>12 DEF Overtaken
  <2>4. Room'
    <3>1. Needed' <= Needed
      <4>1. last_ack_seq' < r => last_ack_seq < r BY <1>5, <1>6
      <4> QED BY <4>1, <2>1, <1>6, <1>12, RoomTypes DEF Needed
    <3>2. Needed \in Nat /\ Needed' \in Nat BY <2>1, RoomTypes DEF Needed
    <3> QED BY <3>1, <3>2, <1>7, RoomTypes DEF Room
  <2> QED BY <2>2, <2>3, <2>4, <1>8, <1>10
<1>13. CASE receive_seq < r /\ r <= send_seq
  <2>1. PICK k \in 1..Len(sent_queue) : k = r - receive_seq BY <1>5, <1>13
  <2>2. /\ sent_queue' = SubSeq(sent_queue, k + 1, Len(sent_queue))
        /\ last_ack_bytes' = BlockLen(sent_queue[k])
        /\ send_seq' = send_seq
    BY <2>1, <1>5, <1>6 DEF UpdateReceiveSeq
  <2>3. /\ sent_queue' \in Seq(Block) /\ Len(sent_queue') = Len(sent_queue) - k
        /\ \A i \in 1..(Len(sent_queue) - k) : sent_queue'[i] = sent_queue[i + k]
    <3>1. k \in 0..Len(sent_queue) BY <2>1
    <3> QED BY <3>1, <2>2, <1>5, DropProps
  <2>4. \A x \in r..(send_seq - 1) : Sent(x)' = Sent(x)
    <3> TAKE x \in r..(send_seq - 1)
    <3>1. x - r + 1 \in 1..(Len(sent_queue) - k) /\ (x - r + 1) + k = x - receive_seq + 1
      BY <2>1, <1>5
    <3>2. Sent(x)' = sent_queue'[x - r + 1] BY <1>6 DEF Sent
    <3>3. sent_queue'[x - r + 1] = sent_queue[(x - r + 1) + k] BY <3>1, <2>3
    <3>4. sent_queue[(x - r + 1) + k] = Sent(x) BY <3>1 DEF Sent
    <3> QED BY <3>2, <3>3, <3>4
  <2>5. Lengths'
    <3>1. ASSUME NEW i \in 1..Len(to_mcu), to_mcu[i].num >= r
          PROVE  BlockLen(to_mcu[i]) = BlockLen(sent_queue'[to_mcu[i].num - r + 1])
      <4>1. PICK x \in r..(send_seq - 1) : x = to_mcu[i].num BY <3>1, <1>5
      <4>2. Sent(x)' = Sent(x) /\ Sent(x)' = sent_queue'[x - r + 1] BY <2>4, <1>6 DEF Sent
      <4>3. x >= receive_seq BY <4>1, <1>5
      <4> QED BY <4>1, <4>2, <4>3, <1>7 DEF Lengths
    <3>2. ASSUME NEW i \in 1..Len(sent_queue') PROVE BlockLen(sent_queue'[i]) <= MaxLen
      <4>1. i \in 1..(Len(sent_queue) - k) BY <2>3
      <4>2. /\ Len(sent_queue) \in Nat /\ k \in 1..Len(sent_queue)
        BY <2>1, <1>5
      <4>3. i + k \in 1..Len(sent_queue) BY <4>1, <4>2
      <4> QED BY <4>1, <4>3, <2>3, <1>7 DEF Lengths
    <3>3. last_ack_bytes' <= MaxLen BY <2>2, <1>7 DEF Lengths
    <3> QED BY <3>1, <3>2, <3>3, <1>2, <1>6, <1>7 DEF Lengths, Sent
  <2>6. Overtaken'
    <3>1. SUFFICES ASSUME dispatching, r = next_sequence
                   PROVE  BlockLen(to_mcu[1]) = BlockLen(sent_queue[k]) /\ last_ack_seq < r
      BY <2>2, <1>2, <1>6, <1>11 DEF Overtaken
    <3>2. PICK x \in Nat : x = to_mcu[1].num /\ x = r - 1 BY <3>1, <1>5, <1>11
    <3>3. x >= receive_seq /\ x - receive_seq + 1 = k BY <3>2, <2>1, <1>5, <1>13
    <3>4. BlockLen(to_mcu[1]) = BlockLen(Sent(x))
      BY <3>1, <3>2, <3>3, <1>7, <1>11 DEF Lengths
    <3> QED BY <3>3, <3>4, <1>5, <1>13 DEF Sent
  <2>7. Room'
    <3>1. Bytes(sent_queue') + BlockLen(sent_queue[k]) <= Bytes(sent_queue)
      BY <2>1, <2>2, <1>5, BytesDrop
    <3>2. Bytes(sent_queue') \in Nat /\ BlockLen(sent_queue[k]) \in Nat
      BY <2>1, <2>3, BytesType, RoomTypes
    <3>3. Needed' <= Bytes(sent_queue') + BlockLen(sent_queue[k]) /\ Needed' \in Nat
      BY <3>2, <2>2 DEF Needed
    <3>4. Bytes(sent_queue) <= Needed /\ Needed \in Nat BY RoomTypes DEF Needed
    <3> QED BY <3>1, <3>2, <3>3, <3>4, <1>7, RoomTypes DEF Room
  <2> QED BY <2>5, <2>6, <2>7, <1>8, <1>10
\* the number of a board in use before is taken over
<1>14. CASE ~(r <= send_seq)
  <2>1. sent_queue' = <<>> /\ send_seq' = r /\ last_ack_bytes' = last_ack_bytes
    BY <1>5, <1>6, <1>14 DEF UpdateReceiveSeq
  <2>2. Lengths'
    <3>1. \A i \in 1..Len(to_mcu) : ~(to_mcu[i].num >= r) BY <1>5, <1>14
    <3> QED BY <3>1, <2>1, <1>2, <1>6, <1>7 DEF Lengths
  <2>3. Overtaken' BY <1>2, <1>6, <1>11, <1>14 DEF Overtaken
  <2>4. Room' BY <2>1, <1>7, BytesEmpty, RoomTypes DEF Room, Needed, Lengths
  <2> QED BY <2>2, <2>3, <2>4, <1>8, <1>10
<1> QED BY <1>5, <1>12, <1>13, <1>14

\* Room over every step.
LEMMA RoomStep ==
    ASSUME IInv, LagInv, TimerArmed, RoomInv, [Next]_vars PROVE RoomInv'
  BY RoomOthers, RoomTail, RoomFault, RoomAccept, RoomResend, RoomSend, RoomReceive
     DEF Next, Host, Mcu

\* Until something is sent again check_send_command never lets the host send
\* more than receive_buf of the firmware holds, although it learns of a block
\* that was popped only by the acknowledgement.
THEOREM BufferNeverOverflows == Spec => []NoOverflow
<1>1. Init => RoomInv BY RoomInit
<1>2. IInv /\ LagInv /\ TimerArmed /\ RoomInv /\ [Next]_vars => RoomInv' BY RoomStep
<1>3. IInv /\ RoomInv => NoOverflow BY RoomSuffices
<1> QED BY <1>1, <1>2, <1>3, Invariance, LagInvariance, TimerIsArmed, PTL DEF Spec
==============================================================================
