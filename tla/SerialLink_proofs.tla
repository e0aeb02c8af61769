-------------------------- MODULE SerialLink_proofs --------------------------
(***************************************************************************)
(* Proofs about SerialLink: arithmetic modulo the number of the blocks,    *)
(* the sequences that model the line, that every step keeps the types, and *)
(* how the length of a queue, a sum over its blocks, grows and shrinks.    *)
(* SerialStream_proofs and SerialRetransmit_proofs put them together.      *)
(***************************************************************************)
EXTENDS SerialLink, SequenceTheorems, WellFoundedInduction, TLAPS

\* The only multiple of m strictly between -m and m is 0.
LEMMA NoMultiple ==
    ASSUME NEW m \in Nat \ {0}, NEW k \in Int, m * k < m, - m < m * k PROVE k = 0
<1>1. CASE k >= 1
  <2>1. m * k >= m BY <1>1
  <2> QED BY <2>1
<1>2. CASE k <= -1
  <2>1. m * k <= - m BY <1>2
  <2> QED BY <2>1
<1> QED BY <1>1, <1>2

\* Two numbers less than m apart that agree modulo m are equal: why the four
\* bits of MESSAGE_SEQ_MASK are enough to tell blocks apart.
LEMMA ModUnique ==
    ASSUME NEW m \in Nat \ {0}, NEW x \in Int, NEW y \in Int, x % m = y % m,
           x - y < m, y - x < m
    PROVE  x = y
<1>1. x = m * (x \div m) + (x % m) /\ y = m * (y \div m) + (y % m)
  OBVIOUS
<1>2. x \div m \in Int /\ y \div m \in Int
  OBVIOUS
<1>3. x - y = m * ((x \div m) - (y \div m))
  BY <1>1, <1>2
<1>4. (x \div m) - (y \div m) = 0
  BY <1>2, <1>3, NoMultiple
<1> QED
  BY <1>1, <1>4, <1>2

\* From the remainder of a, the number a itself is found again if it is one of
\* the m numbers from r on: the decoding in handle_message.
LEMMA ModOffset ==
    ASSUME NEW m \in Nat \ {0}, NEW r \in Int, NEW a \in Int, 0 <= a - r, a - r < m
    PROVE  ((a % m) - r) % m = a - r
<1>1. a % m = a - m * (a \div m) /\ a \div m \in Int /\ a % m \in Int
  OBVIOUS
<1> DEFINE z == (a % m) - r
<1>2. z = m * (z \div m) + (z % m) /\ z \div m \in Int /\ z % m \in 0..(m-1)
  OBVIOUS
<1>3. (a - r) - (z % m) = m * ((a \div m) + (z \div m))
  BY <1>1, <1>2
<1>4. (a \div m) + (z \div m) = 0
  BY <1>1, <1>2, <1>3, NoMultiple
<1> QED
  BY <1>2, <1>3, <1>4

------------------------------------------------------------------------------
\* What is on the line after do_write.
LEMMA WriteProps ==
    ASSUME NEW q \in Seq(Block), NEW s \in Seq(Block)
    PROVE  /\ Write(q, s) \in Seq(Block)
           /\ Len(Write(q, s)) <= Len(q) + Len(s)
           /\ Len(q) >= 1 => Len(Write(q, s)) >= 1
           /\ \A i \in 1..Len(Write(q, s)) :
                 Write(q, s)[i] = IF i <= Len(q) THEN q[i] ELSE s[i - Len(q)]
<1> DEFINE n == IF Len(q) + Len(s) <= LineCap THEN Len(q) + Len(s) ELSE LineCap
           f == [i \in 1..n |-> IF i <= Len(q) THEN q[i] ELSE s[i - Len(q)]]
<1>1. n \in Nat /\ n <= Len(q) + Len(s) /\ (Len(q) >= 1 => n >= 1)
  BY LinkAssumption
<1>2. \A i \in 1..n : (IF i <= Len(q) THEN q[i] ELSE s[i - Len(q)]) \in Block
  BY <1>1
<1> HIDE DEF n
<1>3. f \in Seq(Block) /\ Len(f) = n
  BY <1>1, <1>2, LenProperties
<1>4. Write(q, s) = f
  BY DEF Write, n
<1> QED
  BY <1>1, <1>3, <1>4

\* What is left of the line after the flush of retransmit_event.
LEMMA PrefixProps ==
    ASSUME NEW q \in Seq(Block), NEW k \in 0..Len(q)
    PROVE  /\ [i \in 1..k |-> q[i]] \in Seq(Block)
           /\ Len([i \in 1..k |-> q[i]]) = k
           /\ \A j \in 1..k : [i \in 1..k |-> q[i]][j] = q[j]
<1>1. k \in Nat /\ \A i \in 1..k : q[i] \in Block
  OBVIOUS
<1> QED
  BY <1>1, LenProperties

\* What is left of a sequence without one element.
LEMMA WithoutProps ==
    ASSUME NEW S, NEW q \in Seq(S), NEW i \in 1..Len(q)
    PROVE  /\ Without(q, i) \in Seq(S)
           /\ Len(Without(q, i)) = Len(q) - 1
           /\ \A j \in 1..(Len(q) - 1) : Without(q, i)[j] = IF j < i THEN q[j] ELSE q[j + 1]
<1> DEFINE f == [j \in 1..(Len(q) - 1) |-> IF j < i THEN q[j] ELSE q[j + 1]]
<1>1. Len(q) - 1 \in Nat /\ \A j \in 1..(Len(q) - 1) : (IF j < i THEN q[j] ELSE q[j + 1]) \in S
  OBVIOUS
<1>2. f \in Seq(S) /\ Len(f) = Len(q) - 1
  BY <1>1, LenProperties
<1> QED
  BY <1>2 DEF Without

\* What is on the way to the host after console_sendf.
LEMMA PostProps ==
    ASSUME NEW q \in Seq(Message), NEW m \in Message
    PROVE  /\ Post(q, m) \in Seq(Message)
           /\ Len(Post(q, m)) \in {Len(q), Len(q) + 1}
           /\ \A i \in 1..Len(Post(q, m)) :
                Post(q, m)[i] = IF i <= Len(q) THEN q[i] ELSE m
  BY DEF Post

\* Head and tail of a sequence, by index.
LEMMA TailProps ==
    ASSUME NEW S, NEW q \in Seq(S), q # <<>>
    PROVE  /\ Tail(q) \in Seq(S) /\ Len(Tail(q)) = Len(q) - 1 /\ Len(q) >= 1
           /\ Head(q) = q[1] /\ q[1] \in S
           /\ \A i \in 1..Len(Tail(q)) : Tail(q)[i] = q[i + 1]
  OBVIOUS

------------------------------------------------------------------------------
\* The block being dispatched is still in receive_buf.
Working == dispatching => to_mcu # <<>>

\* Initially, every variable has its type.
LEMMA TypeInit == Init => TypeOK
<1> SUFFICES ASSUME Init PROVE TypeOK OBVIOUS
<1>1. CallerType
  <2>1. retries \in 0..Retries BY LinkAssumption DEF Init
  <2> QED BY <2>1 DEF Init, CallerType
<1>2. HostType
  BY DEF Init, HostType
<1>3. McuType
  <2>1. next_sequence \in Nat BY LinkAssumption DEF Init
  <2>2. cursor \in Nat /\ executed \in Seq(Nat) BY DEF Init
  <2>3. need_valid \in BOOLEAN /\ dispatching \in BOOLEAN BY DEF Init
  <2> QED BY <2>1, <2>2, <2>3 DEF McuType
<1>4. LineType
  BY DEF Init, LineType
<1> QED BY <1>1, <1>2, <1>3, <1>4 DEF TypeOK

\* The elements of a sequence over S are in S.
LEMMA Element == ASSUME NEW S, NEW q \in Seq(S), NEW i \in 1..Len(q) PROVE q[i] \in S
  OBVIOUS

\* The fields of a block.
LEMMA BlockFields ==
    ASSUME NEW b \in Block
    PROVE  b.num \in Nat /\ b.from \in Nat /\ b.upto \in Nat /\ b.ok \in BOOLEAN
  BY DEF Block

\* The length of a block is a number.
LEMMA BlockLenType == ASSUME NEW b \in Block PROVE BlockLen(b) \in Nat
  BY DEF Block, BlockLen

\* The type of the caller's variables, over steps that leave them alone.
LEMMA SameCaller == CallerType /\ UNCHANGED caller => CallerType'
  BY DEF CallerType, caller

\* The same for the host queue.
LEMMA SameHost == HostType /\ UNCHANGED <<seqs, queues>> => HostType'
  BY DEF HostType, seqs, queues

\* The same for the firmware.
LEMMA SameMcu == McuType /\ UNCHANGED mcu => McuType'
  BY DEF McuType, mcu

\* The same for the line.
LEMMA SameLine == LineType /\ UNCHANGED line => LineType'
  BY DEF LineType, line

\* Types over build_and_send_command.
LEMMA TypeSend ==
    ASSUME TypeOK, SendIdentify \/ SendCommands PROVE TypeOK'
<1> USE DEF TypeOK
<1> PICK upto, waiting : /\ upto \in Nat /\ waiting \subseteq Nat
                         /\ SendBlock(upto, waiting)
                         /\ session' \in {"wait", "open"}
  <2>1. CASE SendIdentify
    BY <2>1, built \in Nat, {0} \subseteq Nat DEF SendIdentify, HostType
  <2>2. CASE SendCommands
    <3> DEFINE u == IF submitted - built <= PerBlock THEN submitted ELSE built + PerBlock
    <3>1. u \in Nat /\ (built + 1)..u \cap Queries \subseteq Nat
      BY LinkAssumption DEF CallerType, HostType
    <3> QED BY <2>2, <3>1 DEF SendCommands
  <2> QED BY <2>1, <2>2
<1> DEFINE b == [num |-> send_seq, from |-> built + 1, upto |-> upto, ok |-> TRUE]
<1>1. b \in Block /\ <<b>> \in Seq(Block)
  BY DEF HostType, Block
<1>2. CallerType'
  BY DEF SendBlock, CallerType
<1>3. HostType'
  <2>1. sent_queue' \in Seq(Block) /\ naks' \in Seq(Nat)
    BY <1>1 DEF SendBlock, HostType
  <2>2. notify_queue' \subseteq [cmd : Nat, num : Nat]
    BY DEF SendBlock, HostType
  <2>3. retransmit_timer' \in {"never", "set", "now"}
    BY DEF SendBlock, HostType
  <2> QED
    BY <2>1, <2>2, <2>3 DEF SendBlock, HostType
<1>4. McuType'
  BY SameMcu DEF SendBlock
<1>5. LineType'
  BY <1>1, WriteProps DEF SendBlock, LineType
<1> QED BY <1>2, <1>3, <1>4, <1>5

\* Types over retransmit_event.
LEMMA TypeResend ==
    ASSUME TypeOK, ResendOnNak \/ ResendOnTimeout PROVE TypeOK'
<1> USE DEF TypeOK
<1> PICK k \in Held..Len(to_mcu) : Resend(k)
  BY DEF ResendOnNak, ResendOnTimeout
<1>1. k \in 0..Len(to_mcu)
  BY DEF Held, LineType
<1>2. CallerType' /\ McuType'
  BY SameCaller, SameMcu DEF Resend
<1>3. HostType'
  <2>1. naks' \in Seq(Nat)
    <3>1. CASE ResendOnTimeout
      BY <3>1 DEF ResendOnTimeout, HostType
    <3>2. CASE ResendOnNak
      <4>1. \A i \in 1..Len(naks) : naks[i] + 1 \in Nat
        BY DEF HostType
      <4>2. naks' = [i \in 1..Len(naks) |-> naks[i] + 1]
        BY <3>2 DEF ResendOnNak, HostType
      <4> QED BY <4>1, <4>2 DEF HostType
    <3> QED BY <3>1, <3>2
  <2>2. ignore_nak_seq' \in Nat
    BY DEF ResendOnNak, ResendOnTimeout, IgnoreNak, HostType
  <2>3. resent' \subseteq Nat
    <3>1. \A i \in DOMAIN sent_queue : sent_queue[i].num \in Nat
      BY Element, BlockFields DEF HostType
    <3> QED BY <3>1 DEF Resend, HostType
  <2> QED
    BY <2>1, <2>2, <2>3 DEF Resend, HostType
<1>4. LineType'
  <2>1. to_mcu' \in Seq(Block)
    BY <1>1, PrefixProps, WriteProps DEF Resend, LineType, HostType
  <2>2. faults' \in Nat
    BY DEF ResendOnNak, ResendOnTimeout, LineType
  <2> QED
    BY <2>1, <2>2 DEF Resend, LineType
<1> QED BY <1>2, <1>3, <1>4

\* Types over the steps of the firmware.
LEMMA TypeMcu ==
    ASSUME TypeOK, Working, Mcu \/ McuReport PROVE TypeOK'
<1> USE DEF TypeOK
<1>1. CallerType' /\ HostType' /\ reports' \in Nat /\ faults' \in Nat
  BY SameCaller, SameHost
     DEF Mcu, McuAccept, McuRun, McuAck, McuNak, McuBad, McuReport, mcuOnly, LineType
<1>a. /\ Ack(next_sequence) \in Message
      /\ Data(next_sequence, NoCmd) \in Message
      /\ Data(next_sequence + 1, 0) \in Message
      /\ Data(next_sequence, cursor) \in Message
  BY DEF Ack, Data, NoCmd, Message, McuType
<1> SUFFICES McuType' /\ to_mcu' \in Seq(Block) /\ to_host' \in Seq(Message)
  BY <1>1 DEF LineType
<1>2. CASE McuAccept
  <2>1. to_mcu[1] \in Block /\ to_mcu[1].from \in Nat
    <3>1. to_mcu # <<>> /\ to_mcu \in Seq(Block) BY <1>2 DEF McuAccept, LineType
    <3> QED BY <3>1, TailProps, BlockFields
  <2>2. to_host' \in Seq(Message)
    BY <1>2, <1>a, PostProps DEF McuAccept, LineType
  <2>3. McuType'
    <3>1. cursor' \in Nat BY <1>2, <2>1 DEF McuAccept
    <3>2. next_sequence' \in Nat /\ executed' \in Seq(Nat) BY <1>2 DEF McuAccept, McuType
    <3>3. need_valid' \in BOOLEAN /\ dispatching' \in BOOLEAN BY <1>2 DEF McuAccept
    <3> QED BY <3>1, <3>2, <3>3 DEF McuType
  <2> QED BY <1>2, <2>2, <2>3 DEF McuAccept, LineType
<1>3. CASE McuRun
  <2>1. to_host' \in Seq(Message)
    BY <1>3, <1>a, PostProps DEF McuRun, LineType
  <2>2. McuType'
    BY <1>3 DEF McuRun, McuType
  <2> QED BY <1>3, <2>1, <2>2 DEF McuRun, LineType
<1>4. CASE McuAck \/ McuNak \/ McuBad
  <2>1. to_mcu' \in Seq(Block)
    <3>1. \A q \in Seq(Block) : q # <<>> => Tail(q) \in Seq(Block)
      BY TailProps
    <3>2. to_mcu # <<>>
      BY <1>4 DEF McuAck, McuNak, McuBad, Working
    <3> QED
      BY <1>4, <3>1, <3>2 DEF McuAck, McuNak, McuBad, LineType
  <2>2. to_host' \in Seq(Message)
    BY <1>4, <1>a, PostProps DEF McuAck, McuNak, McuBad, LineType
  <2>3. McuType'
    BY <1>4 DEF McuAck, McuNak, McuBad, McuType
  <2> QED BY <2>1, <2>2, <2>3
<1>5. CASE McuReport
  <2>1. to_host' \in Seq(Message)
    BY <1>5, <1>a, PostProps DEF McuReport, LineType
  <2> QED BY <1>5, <2>1, SameMcu DEF McuReport, LineType
<1> QED
  BY <1>2, <1>3, <1>4, <1>5 DEF Mcu

\* Types over the faults of the line.
LEMMA TypeFault ==
    ASSUME TypeOK, LoseBlock \/ GarbleBlock \/ LoseMessage PROVE TypeOK'
<1> USE DEF TypeOK
<1>1. CallerType' /\ HostType' /\ McuType' /\ reports' \in Nat /\ faults' \in Nat
  BY SameCaller, SameHost, SameMcu
     DEF LoseBlock, GarbleBlock, LoseMessage, Fault, LineType
<1> SUFFICES to_mcu' \in Seq(Block) /\ to_host' \in Seq(Message)
  BY <1>1 DEF LineType
<1>2. CASE LoseBlock
  BY <1>2, WithoutProps DEF LoseBlock, Held, LineType
<1>3. CASE GarbleBlock
  <2> PICK i \in (Held + 1)..Len(to_mcu) :
              to_mcu' = [to_mcu EXCEPT ![i] = Garbled(to_mcu[i])]
    BY <1>3 DEF GarbleBlock
  <2>1. i \in 1..Len(to_mcu) BY DEF Held
  <2>2. to_mcu[i] \in Block BY <2>1 DEF LineType
  <2>3. Garbled(to_mcu[i]) \in Block BY <2>2 DEF Block, Garbled
  <2>4. to_mcu' \in Seq(Block) BY <2>1, <2>3, ExceptSeq DEF LineType
  <2> QED BY <1>3, <2>4 DEF GarbleBlock, LineType
<1>4. CASE LoseMessage
  BY <1>4, WithoutProps DEF LoseMessage, LineType
<1> QED BY <1>2, <1>3, <1>4

\* Types over the steps of the caller.
LEMMA TypeCaller ==
    ASSUME TypeOK, Submit \/ ConnectTimeout \/ UNCHANGED vars PROVE TypeOK'
<1> USE DEF TypeOK
<1>1. CallerType'
  BY DEF Submit, ConnectTimeout, vars, caller, CallerType
<1>2. HostType' /\ McuType' /\ LineType'
  BY SameHost, SameMcu, SameLine DEF Submit, ConnectTimeout, vars
<1> QED BY <1>1, <1>2

\* A sequence without its first k elements.
LEMMA DropProps ==
    ASSUME NEW S, NEW q \in Seq(S), NEW k \in 0..Len(q)
    PROVE  /\ SubSeq(q, k + 1, Len(q)) \in Seq(S)
           /\ Len(SubSeq(q, k + 1, Len(q))) = Len(q) - k
           /\ \A i \in 1..(Len(q) - k) : SubSeq(q, k + 1, Len(q))[i] = q[i + k]
  BY SubSeqProperties

\* The number decoded in handle_message is never below receive_seq.
LEMMA ReceivedSeqType ==
    ASSUME TypeOK, NEW m \in Message
    PROVE  ReceivedSeq(m) \in Nat /\ ReceivedSeq(m) >= receive_seq
<1> DEFINE x == Wire(m.num) - receive_seq
<1>1. SeqMod \in Nat \ {0} /\ receive_seq \in Nat /\ m.num \in Nat
  BY LinkAssumption DEF TypeOK, HostType, Message
<1>2. x \in Int
  BY <1>1 DEF Wire
<1> HIDE DEF x
<1>3. x % SeqMod \in Nat
  BY <1>1, <1>2
<1> QED BY <1>1, <1>3 DEF ReceivedSeq, x

\* Types over handle_message.
LEMMA TypeReceive ==
    ASSUME TypeOK, HostReceive PROVE TypeOK'
<1> USE DEF TypeOK
<1> DEFINE m == Head(to_host)
           r == ReceivedSeq(m)
<1>1. m \in Message /\ to_host' \in Seq(Message)
  BY TailProps DEF HostReceive, LineType
<1>2. McuType' /\ LineType'
  BY <1>1, SameMcu DEF HostReceive, LineType
<1>3. CASE NotSent(m)
  <2>1. CallerType'
    BY <1>3 DEF HostReceive, CallerType
  <2>2. HostType'
    BY <1>3 DEF HostReceive, HostType
  <2> QED BY <1>2, <2>1, <2>2
<1>4. CASE ~NotSent(m)
  <2>0. Handle(m)
    BY <1>4 DEF HostReceive
  <2>1. r \in Nat /\ r >= receive_seq
    BY <1>1, ReceivedSeqType
  <2> HIDE DEF m
  <2>2. UpdateReceiveSeq(r)
    BY <2>0 DEF Handle
  <2> HIDE DEF r
  <2>3. /\ sent_queue' \in Seq(Block) /\ naks' \in Seq(Nat) /\ send_seq' \in Nat
        /\ receive_seq' \in Nat /\ last_ack_bytes' \in Nat
        /\ last_receive_sent_time' \in Nat
    <3> DEFINE k == r - receive_seq
    <3>1. k \in Nat
      BY <2>1 DEF HostType
    <3>2. CASE k <= Len(sent_queue)
      <4>0. k \in 0..Len(sent_queue)
        BY <3>1, <3>2 DEF HostType
      <4>a. /\ sent_queue' = SubSeq(sent_queue, k + 1, Len(sent_queue))
            /\ naks' = SubSeq(naks, k + 1, Len(naks))
        BY <3>2, <2>2 DEF UpdateReceiveSeq
      <4>b. sent_queue \in Seq(Block) /\ naks \in Seq(Nat)
        BY DEF HostType
      <4>3. k # 0 => BlockLen(sent_queue[k]) \in Nat /\ sent_queue[k].num \in Nat
        <5> HIDE DEF k
        <5> SUFFICES ASSUME k # 0
                     PROVE  BlockLen(sent_queue[k]) \in Nat /\ sent_queue[k].num \in Nat
          OBVIOUS
        <5>1. k \in 1..Len(sent_queue) BY <4>0
        <5>2. sent_queue[k] \in Block BY <4>b, <5>1, Element
        <5> QED BY <5>2, BlockLenType, BlockFields
      <4>1. sent_queue' \in Seq(Block)
        <5> HIDE DEF k
        <5> QED BY <4>0, <4>a, <4>b, DropProps
      <4>2. naks' \in Seq(Nat)
        <5> HIDE DEF k
        <5>1. k + 1 \in Int /\ Len(naks) \in Int /\ \A i \in (k + 1)..Len(naks) : naks[i] \in Nat
          BY <3>1, <4>b
        <5> QED BY <4>a, <5>1, SubSeqProperties
      <4> QED
        BY <4>1, <4>2, <4>3, <2>1, <2>2, <3>2 DEF UpdateReceiveSeq, HostType
    <3>3. CASE ~(k <= Len(sent_queue))
      BY <3>3, <2>1, <2>2 DEF UpdateReceiveSeq, HostType
    <3> QED BY <3>2, <3>3
  <2>4. retransmit_timer' \in {"never", "set", "now"}
    BY <2>0 DEF Handle, UpdateTimer, HostType
  <2>5. CallerType'
    <3>1. retries' \in 0..Retries
      BY <2>0, LinkAssumption DEF Handle, AfterIdentify, CallerType
    <3>2. session' \in {"send", "wait", "open", "closed"}
      BY <2>0 DEF Handle, AfterIdentify, CallerType
    <3>3. identified' \in BOOLEAN
      BY <2>0 DEF Handle, CallerType
    <3> QED BY <3>1, <3>2, <3>3 DEF HostReceive, CallerType
  <2>6. /\ notify_queue' \subseteq [cmd : Nat, num : Nat] /\ notified' \subseteq Nat
        /\ last_ack_seq' \in Nat
    <3>1. notify_queue' \subseteq [cmd : Nat, num : Nat] 
      BY <2>0 DEF Handle, HostType
    <3>2. notified' \subseteq Nat
      BY <2>0 DEF Handle, HostType
    <3>3. last_ack_seq' \in Nat
      BY <2>0, <2>1 DEF Handle, HostType, r
    <3> QED BY <3>1, <3>2, <3>3
  <2>7. answered' \subseteq [cmd : Nat, num : Nat, sent : Nat]
    <3>1. SentTime(r) \in Nat
      BY <2>3 DEF SentTime
    <3>2. m.cmd \in Queries => [cmd |-> m.cmd, num |-> m.num, sent |-> SentTime(r)] 
             \in [cmd : Nat, num : Nat, sent : Nat]
      BY <1>1, <3>1, LinkAssumption DEF Message
    <3> QED BY <2>0, <3>2 DEF Handle, HostType, r
  <2> QED
    BY <1>2, <2>3, <2>4, <2>5, <2>6, <2>7 DEF HostReceive, HostType
<1> QED BY <1>3, <1>4

\* Types over every step.
LEMMA TypeStep == ASSUME TypeOK, Working, [Next]_vars PROVE TypeOK'
  BY TypeCaller, TypeReceive, TypeFault, TypeMcu, TypeResend, TypeSend
     DEF Next, Host, Mcu

------------------------------------------------------------------------------
(* The length of a queue: Bytes sums over it, and what holds of the sum for
   every queue is proved by induction on the number of blocks, as the absence
   of a least number for which it fails. *)

\* A set of numbers has a least one.
LEMMA LeastNumber ==
    ASSUME NEW T, T \subseteq Nat, T # {}
    PROVE  \E n \in T : \A m \in T : n <= m
<1>1. PICK n \in T : \A m \in T : ~(<<m, n>> \in OpToRel(<, Nat))
  BY NatLessThanWellFounded, WFMin
<1>2. \A m \in T : ~(m < n) BY <1>1 DEF OpToRel
<1> QED BY <1>2

\* Induction up to a number, for a set of numbers.
LEMMA UpTo ==
    ASSUME NEW n \in Nat, NEW S, 0 \in S,
           \A i \in 1..n : i - 1 \in S => i \in S
    PROVE  0..n \subseteq S
<1> DEFINE T == (0..n) \ S
<1>1. SUFFICES ASSUME T # {} PROVE FALSE OBVIOUS
<1>2. PICK i \in T : \A m \in T : i <= m
  <2> HIDE DEF T
  <2>1. T \subseteq Nat BY DEF T
  <2> QED BY <1>1, <2>1, LeastNumber
<1>3. i \in 1..n /\ i - 1 \in 0..n /\ i - 1 \notin T BY <1>2
<1> QED BY <1>2, <1>3

\* f sums the lengths of the first blocks of q.
Sums(q, n, f) ==
    /\ f \in [0..n -> Int]
    /\ f[0] = 0
    /\ \A i \in 1..n : f[i] = f[i - 1] + BlockLen(q[i])

\* ... in the form in which Bytes defines its sum.
SumEq(q, n, f) == f = [i \in 0..n |-> IF i = 0 THEN 0 ELSE f[i - 1] + BlockLen(q[i])]

\* The two say the same,
LEMMA SumsEq ==
    ASSUME NEW q \in Seq(Block), NEW n \in 0..Len(q), NEW f, Sums(q, n, f)
    PROVE  SumEq(q, n, f)
<1> DEFINE g == [i \in 0..n |-> IF i = 0 THEN 0 ELSE f[i - 1] + BlockLen(q[i])]
<1>1. \A i \in 0..n : f[i] = g[i] BY DEF Sums
<1>2. f = g BY <1>1 DEF Sums
<1> QED BY <1>2 DEF SumEq

\* and there is such a function for every number of blocks.
LEMMA SumsExist ==
    ASSUME NEW q \in Seq(Block), NEW n \in 0..Len(q)
    PROVE  \E f : Sums(q, n, f)
<1> DEFINE S == {k \in 0..Len(q) : \E f : Sums(q, k, f)}
<1>1. 0 \in S
  <2>1. Sums(q, 0, [i \in 0..0 |-> 0]) BY DEF Sums
  <2> QED BY <2>1
<1>2. ASSUME NEW k \in 1..Len(q), k - 1 \in S PROVE k \in S
  <2>1. PICK f : Sums(q, k - 1, f) BY <1>2
  <2> DEFINE g == [i \in 0..k |-> IF i = k THEN f[k - 1] + BlockLen(q[k]) ELSE f[i]]
  <2>2. BlockLen(q[k]) \in Nat /\ k \in Nat /\ k - 1 \in 0..(k - 1) BY BlockLenType
  <2>3. g \in [0..k -> Int] /\ g[0] = 0 BY <2>1, <2>2 DEF Sums
  <2>4. ASSUME NEW i \in 1..k PROVE g[i] = g[i - 1] + BlockLen(q[i])
    <3>1. CASE i = k BY <3>1, <2>2
    <3>2. CASE i # k BY <3>2, <2>1 DEF Sums
    <3> QED BY <3>1, <3>2
  <2>5. Sums(q, k, g) BY <2>3, <2>4 DEF Sums
  <2> QED BY <2>5
<1>3. Len(q) \in Nat OBVIOUS
<1>4. 0..Len(q) \subseteq S
  <2> HIDE DEF S
  <2> QED BY <1>1, <1>2, <1>3, UpTo
<1> QED BY <1>4

\* There is one such function, so the sum is what Bytes says.
LEMMA BytesSum ==
    ASSUME NEW q \in Seq(Block), NEW f, Sums(q, Len(q), f)
    PROVE  Bytes(q) = f[Len(q)]
<1> DEFINE h == CHOOSE g : SumEq(q, Len(q), g)
<1>1. Bytes(q) = h[Len(q)] BY DEF Bytes, SumEq
<1>2. Len(q) \in Nat /\ Len(q) \in 0..Len(q) OBVIOUS
<1>3. SumEq(q, Len(q), h) BY <1>2, SumsEq
<1>4. DEFINE S == {k \in 0..Len(q) : h[k] = f[k]}
<1> HIDE DEF h
<1>5. 0 \in S
  <2>1. 0 \in 0..Len(q) BY <1>2
  <2>2. h[0] = 0 BY <2>1, <1>3 DEF SumEq
  <2> QED BY <2>1, <2>2 DEF Sums
<1>6. ASSUME NEW k \in 1..Len(q), k - 1 \in S PROVE k \in S
  <2>1. h[k] = h[k - 1] + BlockLen(q[k]) BY <1>2, <1>3 DEF SumEq
  <2> QED BY <2>1, <1>6 DEF Sums
<1>7. 0..Len(q) \subseteq S
  <2> HIDE DEF S
  <2> QED BY <1>2, <1>5, <1>6, UpTo
<1> QED BY <1>1, <1>2, <1>7

\* The sums only grow.
LEMMA SumsGrow ==
    ASSUME NEW q \in Seq(Block), NEW f, Sums(q, Len(q), f), NEW i \in 0..Len(q)
    PROVE  \A j \in i..Len(q) : f[i] <= f[j]
<1>1. Len(q) \in Nat OBVIOUS
<1>2. DEFINE S == {k \in 0..(Len(q) - i) : f[i] <= f[i + k]}
<1>3. 0 \in S BY <1>1 DEF Sums
<1>4. ASSUME NEW k \in 1..(Len(q) - i), k - 1 \in S PROVE k \in S
  <2>1. i + k \in 1..Len(q) /\ i + k - 1 \in 0..Len(q) /\ i + (k - 1) = i + k - 1 BY <1>1
  <2>2. f[i + k] = f[i + k - 1] + BlockLen(q[i + k]) /\ BlockLen(q[i + k]) \in Nat
    BY <2>1, BlockLenType, Element DEF Sums
  <2>3. f[i] <= f[i + k - 1] /\ f[i] \in Int /\ f[i + k - 1] \in Int BY <1>4, <2>1 DEF Sums
  <2> QED BY <2>1, <2>2, <2>3
<1>5. 0..(Len(q) - i) \subseteq S
  <2> HIDE DEF S
  <2>1. Len(q) - i \in Nat BY <1>1
  <2> QED BY <2>1, <1>3, <1>4, UpTo
<1>6. ASSUME NEW j \in i..Len(q) PROVE f[i] <= f[j]
  <2>1. j - i \in 0..(Len(q) - i) /\ i + (j - i) = j BY <1>1
  <2> QED BY <2>1, <1>5
<1> QED BY <1>6

\* The sum over no block, over one more, and without the first ones.
LEMMA BytesEmpty == Bytes(<<>>) = 0
<1>1. Sums(<<>>, 0, [i \in 0..0 |-> 0]) BY DEF Sums
<1>2. <<>> \in Seq(Block) /\ Len(<<>>) = 0 OBVIOUS
<1>3. Bytes(<<>>) = [i \in 0..0 |-> 0][0] BY <1>1, <1>2, BytesSum
<1> QED BY <1>3

\* A block put at the end adds its length.
LEMMA BytesAppend ==
    ASSUME NEW q \in Seq(Block), NEW b \in Block
    PROVE  Bytes(Append(q, b)) = Bytes(q) + BlockLen(b)
<1> DEFINE n == Len(q)   p == Append(q, b)
<1>1. /\ n \in Nat /\ p \in Seq(Block) /\ Len(p) = n + 1
      /\ \A i \in 1..n : p[i] = q[i]
      /\ p[n + 1] = b
  OBVIOUS
<1>2. PICK f : Sums(q, n, f) BY <1>1, SumsExist
<1> DEFINE g == [i \in 0..(n + 1) |-> IF i = n + 1 THEN f[n] + BlockLen(b) ELSE f[i]]
<1>3. Sums(p, n + 1, g)
  <2>1. BlockLen(b) \in Nat /\ n \in 0..n BY <1>1, BlockLenType
  <2>2. g \in [0..(n + 1) -> Int] /\ g[0] = 0 BY <1>1, <1>2, <2>1 DEF Sums
  <2>3. ASSUME NEW i \in 1..(n + 1) PROVE g[i] = g[i - 1] + BlockLen(p[i])
    <3> HIDE DEF p
    <3>1. CASE i = n + 1 BY <3>1, <1>1, <1>2, <2>1
    <3>2. CASE i # n + 1 BY <3>2, <1>1, <1>2 DEF Sums
    <3> QED BY <3>1, <3>2
  <2> QED BY <2>2, <2>3 DEF Sums
<1>4. Bytes(q) = f[n] /\ Bytes(p) = g[n + 1]
  <2> HIDE DEF p, g
  <2> QED BY <1>1, <1>2, <1>3, BytesSum
<1> QED BY <1>1, <1>4

\* The blocks after the k-th are shorter by the k-th, at least.
LEMMA BytesDrop ==
    ASSUME NEW q \in Seq(Block), NEW k \in 1..Len(q)
    PROVE  Bytes(SubSeq(q, k + 1, Len(q))) + BlockLen(q[k]) <= Bytes(q)
<1> DEFINE n == Len(q) - k   p == SubSeq(q, k + 1, Len(q))
<1>1. /\ Len(q) \in Nat /\ n \in Nat /\ p \in Seq(Block) /\ Len(p) = n
      /\ \A i \in 1..n : p[i] = q[i + k]
  BY DropProps
<1>2. PICK f : Sums(q, Len(q), f)
  <2>1. Len(q) \in 0..Len(q) BY <1>1
  <2> QED BY <2>1, SumsExist
<1> DEFINE g == [i \in 0..n |-> f[i + k] - f[k]]
<1>3. Sums(p, n, g)
  <2> HIDE DEF p
  <2> HIDE DEF n
  <2>1. \A i \in 0..n : f[i + k] \in Int /\ f[k] \in Int
    <3>1. \A i \in 0..n : i + k \in 0..Len(q) /\ k \in 0..Len(q) BY <1>1 DEF n
    <3> QED BY <1>2, <3>1 DEF Sums
  <2>2. g \in [0..n -> Int] /\ g[0] = 0
    <3>1. 0 \in 0..n /\ 0 + k = k BY <1>1
    <3> QED BY <2>1, <3>1
  <2>3. ASSUME NEW i \in 1..n PROVE g[i] = g[i - 1] + BlockLen(p[i])
    <3>1. i + k \in 1..Len(q) /\ i \in 0..n /\ i - 1 \in 0..n /\ (i - 1) + k = i + k - 1
      BY <1>1 DEF n
    <3>2. f[i + k] = f[i + k - 1] + BlockLen(q[i + k]) BY <1>2, <3>1 DEF Sums
    <3>3. BlockLen(p[i]) = BlockLen(q[i + k]) /\ BlockLen(q[i + k]) \in Nat
      BY <1>1, <3>1, BlockLenType, Element
    <3>4. g[i] = f[i + k] - f[k] /\ g[i - 1] = f[i + k - 1] - f[k] BY <3>1
    <3>5. f[i + k] \in Int /\ f[i + k - 1] \in Int /\ f[k] \in Int BY <2>1, <3>1
    <3> HIDE DEF g
    <3> QED BY <3>2, <3>3, <3>4, <3>5
  <2> QED BY <2>2, <2>3 DEF Sums
<1>4. Bytes(q) = f[Len(q)] /\ Bytes(p) = f[Len(q)] - f[k]
  <2>1. Bytes(p) = g[n]
    <3> HIDE DEF p, g
    <3> QED BY <1>1, <1>3, BytesSum
  <2> QED BY <1>1, <1>2, <2>1, BytesSum
<1>5. f[k] = f[k - 1] + BlockLen(q[k]) /\ f[0] <= f[k - 1] /\ f[0] = 0
  <2>1. k - 1 \in 0..Len(q) /\ 0 \in 0..Len(q) BY <1>1
  <2> QED BY <1>2, <2>1, SumsGrow DEF Sums
<1>6. f[k] \in Int /\ f[k - 1] \in Int /\ f[Len(q)] \in Int /\ BlockLen(q[k]) \in Nat
  <2>1. k \in 0..Len(q) /\ k - 1 \in 0..Len(q) /\ Len(q) \in 0..Len(q) BY <1>1
  <2>2. BlockLen(q[k]) \in Nat BY BlockLenType, Element
  <2> QED BY <1>2, <2>1, <2>2 DEF Sums
<1> QED BY <1>4, <1>5, <1>6

\* A line that holds, in order, blocks as long as some of q, and before them one
\* of c bytes perhaps, is no longer than q and c bytes.
LEMMA BytesWithin ==
    ASSUME NEW p \in Seq(Block), NEW q \in Seq(Block), NEW c \in Nat,
           NEW at \in [1..Len(p) -> 0..Len(q)],
           \A i, j \in 1..Len(p) : i < j => at[i] < at[j],
           \A i \in 1..Len(p) :
              IF at[i] = 0 THEN BlockLen(p[i]) <= c ELSE BlockLen(p[i]) = BlockLen(q[at[i]])
    PROVE  Bytes(p) <= c + Bytes(q)
<1>1. Len(p) \in Nat /\ Len(q) \in Nat /\ Len(p) \in 0..Len(p) /\ Len(q) \in 0..Len(q)
  OBVIOUS
<1>2. PICK f : Sums(p, Len(p), f) BY <1>1, SumsExist
<1>3. PICK g : Sums(q, Len(q), g) BY <1>1, SumsExist
<1>4. /\ \A i \in 0..Len(p) : f[i] \in Int
      /\ \A i \in 0..Len(q) : g[i] \in Int
      /\ f[0] = 0 /\ g[0] = 0
  BY <1>2, <1>3 DEF Sums
<1> DEFINE S == {i \in 0..Len(p) : f[i] <= c + g[IF i = 0 THEN 0 ELSE at[i]]}
<1>5. 0 \in S BY <1>1, <1>4
<1>6. ASSUME NEW i \in 1..Len(p), i - 1 \in S PROVE i \in S
  <2>1. f[i] = f[i - 1] + BlockLen(p[i]) /\ BlockLen(p[i]) \in Nat
    BY <1>2, BlockLenType, Element DEF Sums
  <2>2. CASE at[i] = 0
    <3>1. i = 1
      <4>1. ASSUME i # 1 PROVE FALSE
        <5>1. i - 1 \in 1..Len(p) /\ i - 1 < i BY <4>1, <1>1
        <5>2. at[i - 1] < at[i] /\ at[i - 1] \in 0..Len(q) BY <5>1
        <5> QED BY <5>2, <2>2, <1>1
      <4> QED BY <4>1
    <3>2. BlockLen(p[i]) <= c BY <2>2
    <3> QED BY <1>4, <2>1, <2>2, <3>1, <3>2
  <2>3. CASE at[i] # 0
    <3> DEFINE a == IF i = 1 THEN 0 ELSE at[i - 1]
    <3>1. at[i] \in 1..Len(q) /\ at[i] - 1 \in 0..Len(q) BY <2>3, <1>1
    <3>2. a \in 0..Len(q) /\ at[i] - 1 \in a..Len(q)
      <4>1. CASE i = 1 BY <4>1, <1>1, <3>1
      <4>2. CASE i # 1
        <5>1. i - 1 \in 1..Len(p) /\ i - 1 < i BY <4>2, <1>1
        <5>2. at[i - 1] < at[i] /\ at[i - 1] \in 0..Len(q) BY <5>1
        <5> QED BY <4>2, <5>2, <3>1, <1>1
      <4> QED BY <4>1, <4>2
    <3>3. g[a] <= g[at[i] - 1]
      <4> HIDE DEF a
      <4> QED BY <1>3, <3>2, SumsGrow
    <3>4. g[at[i]] = g[at[i] - 1] + BlockLen(p[i]) BY <1>3, <2>3, <3>1 DEF Sums
    <3>5. f[i - 1] <= c + g[a]
      <4>1. i - 1 = 0 <=> i = 1 BY <1>1
      <4> QED BY <1>6, <4>1
    <3>6. f[i - 1] \in Int /\ g[a] \in Int /\ g[at[i] - 1] \in Int BY <1>1, <1>4, <3>1, <3>2
    <3>7. BlockLen(q[at[i]]) = BlockLen(p[i]) BY <2>3
    <3>8. g[at[i]] = g[at[i] - 1] + BlockLen(p[i]) BY <3>4, <3>7
    <3>9. f[i] <= c + g[at[i]]
      <4> HIDE DEF a, S
      <4> QED BY <2>1, <3>3, <3>5, <3>6, <3>8
    <3> QED BY <3>9, <1>1
  <2> QED BY <2>2, <2>3
<1>7. 0..Len(p) \subseteq S
  <2> HIDE DEF S
  <2> QED BY <1>1, <1>5, <1>6, UpTo
<1>8. Bytes(p) = f[Len(p)] /\ Bytes(q) = g[Len(q)] BY <1>2, <1>3, BytesSum
<1>9. f[Len(p)] <= c + g[Len(q)]
  <2>1. CASE Len(p) = 0
    <3>1. g[0] <= g[Len(q)] /\ g[Len(q)] \in Int BY <1>1, <1>3, <1>4, SumsGrow
    <3> QED BY <2>1, <3>1, <1>4
  <2>2. CASE Len(p) # 0
    <3>1. Len(p) \in 1..Len(p) /\ at[Len(p)] \in 0..Len(q) BY <2>2, <1>1
    <3>2. f[Len(p)] <= c + g[at[Len(p)]] BY <1>7, <1>1, <2>2
    <3>3. g[at[Len(p)]] <= g[Len(q)] BY <1>1, <1>3, <3>1, SumsGrow
    <3>4. f[Len(p)] \in Int /\ g[at[Len(p)]] \in Int /\ g[Len(q)] \in Int
      BY <1>1, <1>4, <3>1
    <3> QED BY <3>2, <3>3, <3>4
  <2> QED BY <2>1, <2>2
<1> QED BY <1>8, <1>9

\* The length of a queue is a number.
LEMMA BytesType == ASSUME NEW q \in Seq(Block) PROVE Bytes(q) \in Nat
<1>1. Len(q) \in Nat /\ Len(q) \in 0..Len(q) /\ 0 \in 0..Len(q) OBVIOUS
<1>2. PICK f : Sums(q, Len(q), f) BY <1>1, SumsExist
<1>3. f[0] <= f[Len(q)] /\ f[0] = 0 /\ f[Len(q)] \in Int BY <1>1, <1>2, SumsGrow DEF Sums
<1>4. Bytes(q) = f[Len(q)] BY <1>2, BytesSum
<1> QED BY <1>3, <1>4
==============================================================================
