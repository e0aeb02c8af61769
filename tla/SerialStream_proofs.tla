------------------------- MODULE SerialStream_proofs -------------------------
(***************************************************************************)
(* Proof that SerialLink implements CommandStream: the inductive           *)
(* invariant, its preservation by every action, and the refinement.        *)
(***************************************************************************)
EXTENDS SerialLink_proofs

------------------------------------------------------------------------------
(* The inductive invariant *)

\* The block numbered num, while it is in sent_queue.
Sent(num) == sent_queue[num - receive_seq + 1]

\* The first command of the block numbered num; send_seq is the next to be built.
First(num) == IF num = send_seq THEN built + 1 ELSE Sent(num).from

\* The command the firmware runs first once it is done with its current block.
NextFrom == IF dispatching THEN to_mcu[1].upto + 1 ELSE Len(executed) + 1

Numbers ==
    /\ 1 <= receive_seq /\ receive_seq <= next_sequence
    /\ receive_seq <= send_seq /\ send_seq <= receive_seq + Window
    /\ Len(sent_queue) = send_seq - receive_seq

\* sent_queue holds consecutive blocks with consecutive commands.
Consecutive ==
    \A x \in receive_seq..(send_seq - 1) :
        /\ Sent(x).num = x /\ Sent(x).ok
        /\ 1 <= Sent(x).from /\ Sent(x).from <= Sent(x).upto + 1
        /\ Sent(x).upto <= built
        /\ Sent(x).upto + 1 = First(x + 1)

\* A board in use before, ahead of the host: nothing is known of its numbering
\* yet, and nothing but identify commands has been sent.
Ahead ==
    /\ receive_seq = 1 /\ next_sequence <= SeqMod
    /\ built = 0 /\ executed = <<>> /\ ~dispatching
    /\ \A i \in 1..Len(to_host) : to_host[i].num = next_sequence
    /\ \A e \in notify_queue : e.cmd = 0

InStep == next_sequence <= send_seq \/ Ahead

\* The blocks on the line: near enough to the expected number for the bits to
\* tell them apart, and those still to run are the ones in sent_queue.
Blocks ==
    /\ \A i \in 1..Len(to_mcu) :
          /\ 1 <= to_mcu[i].num /\ to_mcu[i].num < send_seq
          /\ next_sequence < to_mcu[i].num + SeqMod
          /\ to_mcu[i].ok /\ next_sequence <= to_mcu[i].num
                => to_mcu[i] = Sent(to_mcu[i].num)
    /\ \A i, j \in 1..Len(to_mcu) :
          i < j => to_mcu[i].num < to_mcu[j].num + Window
    /\ dispatching => /\ Len(to_mcu) >= 1
                      /\ to_mcu[1].num = next_sequence - 1

\* The messages on the line: in order, and none tells of a block that has not
\* been run.
Messages ==
    /\ \A i \in 1..Len(to_host) :
          /\ receive_seq <= to_host[i].num /\ to_host[i].num <= next_sequence
          /\ to_host[i].kind = "ack" => to_host[i].num <= next_sequence - Held
          /\ to_host[i].kind = "data" /\ to_host[i].cmd = 0 => to_host[i].num >= 2
    /\ \A i, j \in 1..Len(to_host) : i < j => to_host[i].num <= to_host[j].num

\* The firmware runs commands in the order in which the host packed them.
Progress ==
    /\ next_sequence <= send_seq => NextFrom = First(next_sequence)
    /\ dispatching => /\ cursor = Len(executed) + 1
                      /\ cursor <= to_mcu[1].upto + 1

\* A caller waits for a command of a block sent, and a command of a block that
\* the firmware is done with has run.
Waiting ==
    \A e \in notify_queue :
        /\ e.num < send_seq
        /\ e.num >= next_sequence - Held => e.cmd < First(e.num + 1)
        /\ e.num < next_sequence - Held  => e.cmd <= Len(executed)

Opened ==
    /\ built <= submitted
    /\ identified => receive_seq >= 2
    /\ session = "open" => identified

\* Completion is told of commands that ran.
Told == notified \subseteq 1..Len(executed)

IInv ==
    /\ TypeOK
    /\ Numbers /\ Consecutive /\ InStep /\ Blocks /\ Messages /\ Progress
    /\ Waiting /\ Opened /\ Told


------------------------------------------------------------------------------
\* The types that the arithmetic below needs.
LEMMA Types ==
    ASSUME TypeOK
    PROVE  /\ send_seq \in Nat /\ receive_seq \in Nat /\ next_sequence \in Nat
           /\ built \in Nat /\ submitted \in Nat /\ cursor \in Nat
           /\ executed \in Seq(Nat) /\ Len(executed) \in Nat
           /\ sent_queue \in Seq(Block) /\ Len(sent_queue) \in Nat
           /\ to_mcu \in Seq(Block) /\ Len(to_mcu) \in Nat
           /\ to_host \in Seq(Message) /\ Len(to_host) \in Nat
           /\ notify_queue \subseteq [cmd : Nat, num : Nat]
           /\ SeqMod \in Nat \ {0} /\ Window \in Nat \ {0} /\ Window < SeqMod
  BY LinkAssumption DEF TypeOK, CallerType, HostType, McuType, LineType

\* The types of what the sequences hold.
LEMMA Fields ==
    ASSUME TypeOK
    PROVE  /\ \A i \in 1..Len(to_mcu) : /\ to_mcu[i] \in Block
                                        /\ to_mcu[i].num \in Nat /\ to_mcu[i].from \in Nat
                                        /\ to_mcu[i].upto \in Nat
           /\ \A i \in 1..Len(sent_queue) : /\ sent_queue[i] \in Block
                                            /\ sent_queue[i].num \in Nat
                                            /\ sent_queue[i].from \in Nat
                                            /\ sent_queue[i].upto \in Nat
           /\ \A i \in 1..Len(to_host) : to_host[i] \in Message /\ to_host[i].num \in Nat
           /\ \A e \in notify_queue : e.num \in Nat /\ e.cmd \in Nat
<1>1. \A i \in 1..Len(to_host) : to_host[i] \in Message
  BY Types, Element
<1>2. \A m \in Message : m.num \in Nat
  BY DEF Message
<1>3. \A e \in notify_queue : e.num \in Nat /\ e.cmd \in Nat
  BY Types
<1> QED BY <1>1, <1>2, <1>3, Types, Element, BlockFields

\* Held counts the block being dispatched.
LEMMA HeldType == Held \in {0, 1} /\ (Held = 1 <=> dispatching)
  BY DEF Held

\* What a block in sent_queue and what follows it look like.
LEMMA SentType ==
    ASSUME TypeOK, Numbers, NEW x \in receive_seq..(send_seq - 1)
    PROVE  /\ Sent(x) \in Block /\ Sent(x).num \in Nat
           /\ Sent(x).from \in Nat /\ Sent(x).upto \in Nat
<1>0. /\ receive_seq \in Nat /\ send_seq \in Nat
      /\ Len(sent_queue) = send_seq - receive_seq
  BY Types DEF Numbers
<1>1. x - receive_seq + 1 \in 1..Len(sent_queue)
  BY <1>0
<1> QED BY <1>1, Fields DEF Sent

\* The commands that a block starts with have been handed to the queue.
LEMMA FirstType ==
    ASSUME TypeOK, Numbers, Consecutive, NEW x \in receive_seq..send_seq
    PROVE  First(x) \in Nat /\ 1 <= First(x) /\ First(x) <= built + 1
<1>1. CASE x = send_seq
  BY <1>1, Types DEF First
<1>2. CASE x # send_seq
  <2>1. x \in receive_seq..(send_seq - 1) BY <1>2, Types
  <2>2. First(x) = Sent(x).from BY <1>2 DEF First
  <2>3. /\ 1 <= Sent(x).from /\ Sent(x).from <= Sent(x).upto + 1
        /\ Sent(x).upto <= built
    BY <2>1 DEF Consecutive
  <2>4. Sent(x).from \in Nat /\ Sent(x).upto \in Nat
    BY <2>1, SentType
  <2>5. built \in Nat BY Types
  <2> QED BY <2>2, <2>3, <2>4, <2>5
<1> QED BY <1>1, <1>2

------------------------------------------------------------------------------
\* The invariant holds initially, whatever number the board is at.
LEMMA InvInit == Init => IInv
<1> SUFFICES ASSUME Init PROVE IInv OBVIOUS
<1>1. TypeOK BY TypeInit
<1>2. /\ receive_seq = 1 /\ send_seq = 1 /\ sent_queue = <<>> /\ to_mcu = <<>>
      /\ to_host = <<>> /\ notify_queue = {} /\ executed = <<>> /\ built = 0
      /\ submitted = 0 /\ ~dispatching /\ next_sequence \in 1..SeqMod
      /\ ~identified /\ session # "open" /\ notified = {}
  BY DEF Init
<1>3. Numbers BY <1>1, <1>2, Types DEF Numbers
<1>4. Consecutive BY <1>2 DEF Consecutive
<1>5. InStep BY <1>1, <1>2, Types DEF InStep, Ahead
<1>6. Blocks BY <1>2 DEF Blocks
<1>7. Messages BY <1>2 DEF Messages
<1>8. Progress BY <1>1, <1>2, Types DEF Progress, NextFrom, First
<1>9. Waiting BY <1>2 DEF Waiting
<1>10. Opened /\ Told BY <1>2 DEF Opened, Told
<1> QED BY <1>1, <1>3, <1>4, <1>5, <1>6, <1>7, <1>8, <1>9, <1>10 DEF IInv

\* ... over the steps of the caller and steps that change nothing,
LEMMA InvCaller ==
    ASSUME IInv, Submit \/ ConnectTimeout \/ UNCHANGED vars PROVE IInv'
<1>1. TypeOK' BY TypeCaller DEF IInv
<1>2. UNCHANGED <<seqs, queues, mcu, line>>
  BY DEF Submit, ConnectTimeout, vars
<1>3. /\ Numbers' /\ Consecutive' /\ InStep' /\ Blocks' /\ Messages' /\ Progress'
      /\ Waiting' /\ Told'
  BY <1>2 DEF IInv, seqs, queues, mcu, line, Numbers, Consecutive, Sent, First, InStep, Ahead,
              Blocks, Messages, Held, Progress, NextFrom, Waiting, Told
<1>4. Opened'
  <2>1. built' = built /\ receive_seq' = receive_seq BY <1>2 DEF seqs, queues
  <2>2. submitted' \in {submitted, submitted + 1} /\ identified' = identified
        /\ session' \in {session, "closed"}
    BY DEF Submit, ConnectTimeout, vars, caller
  <2>3. built' <= submitted'
    BY <2>1, <2>2, Types DEF IInv, Opened
  <2> QED BY <2>1, <2>2, <2>3 DEF IInv, Opened
<1> QED BY <1>1, <1>3, <1>4 DEF IInv

------------------------------------------------------------------------------
(* Steps of the firmware *)

\* Steps that leave the queue alone leave Sent and First alone.
LEMMA SameQueue ==
    ASSUME UNCHANGED <<seqs, queues>>
    PROVE  /\ \A x : Sent(x)' = Sent(x) /\ First(x)' = First(x)
           /\ Consecutive => Consecutive'
  BY DEF seqs, queues, Sent, First, Consecutive

\* The firmware adds at most one message, stamped with the number it expects.
LEMMA MessagesPost ==
    ASSUME TypeOK, Messages, Numbers, NEW m \in Message,
           to_host' \in {to_host, Post(to_host, m)}, receive_seq' = receive_seq,
           next_sequence' \in Nat, next_sequence <= next_sequence',
           m.num = next_sequence',
           m.kind = "ack" => ~dispatching',
           m.kind = "data" /\ m.cmd = 0 => next_sequence' >= 2,
           next_sequence - Held <= next_sequence' - Held'
    PROVE  Messages'
<1> DEFINE q == to_host'
<1>1. /\ q \in Seq(Message) /\ Len(q) \in {Len(to_host), Len(to_host) + 1}
      /\ \A i \in 1..Len(q) : q[i] = IF i <= Len(to_host) THEN to_host[i] ELSE m
  <2>1. to_host \in Seq(Message) BY Types
  <2>2. CASE q = to_host BY <2>1, <2>2
  <2>3. CASE q = Post(to_host, m) BY <2>1, <2>3, PostProps
  <2> QED BY <2>2, <2>3
<1>2. Held' \in {0, 1} /\ (Held' = 1 <=> dispatching')
  BY DEF Held
<1>3. /\ receive_seq \in Nat /\ next_sequence \in Nat /\ Len(to_host) \in Nat
      /\ receive_seq <= next_sequence
  BY Types DEF Numbers
<1>4. ASSUME NEW i \in 1..Len(q)
      PROVE  /\ receive_seq <= q[i].num /\ q[i].num <= next_sequence'
             /\ q[i].kind = "ack" => q[i].num <= next_sequence' - Held'
             /\ q[i].kind = "data" /\ q[i].cmd = 0 => q[i].num >= 2
  <2>1. CASE i <= Len(to_host)
    <3>1. i \in 1..Len(to_host) BY <2>1, <1>1, <1>3
    <3>2. q[i] = to_host[i] BY <2>1, <1>1
    <3>3. to_host[i].num \in Nat BY <3>1, Fields
    <3>4. /\ receive_seq <= to_host[i].num /\ to_host[i].num <= next_sequence
          /\ to_host[i].kind = "ack" => to_host[i].num <= next_sequence - Held
          /\ to_host[i].kind = "data" /\ to_host[i].cmd = 0 => to_host[i].num >= 2
      BY <3>1 DEF Messages
    <3> QED BY <3>2, <3>3, <3>4, <1>2, <1>3, HeldType, SMTT(30)
  <2>2. CASE ~(i <= Len(to_host))
    <3>1. q[i] = m BY <2>2, <1>1
    <3> QED BY <3>1, <1>2, <1>3
  <2> QED BY <2>1, <2>2
<1>5. ASSUME NEW i \in 1..Len(q), NEW j \in 1..Len(q), i < j
      PROVE  q[i].num <= q[j].num
  <2>1. i \in 1..Len(to_host) BY <1>1, <1>3, <1>5
  <2>2. q[i] = to_host[i] BY <2>1, <1>1
  <2>3. to_host[i].num \in Nat /\ to_host[i].num <= next_sequence
    BY <2>1, Fields DEF Messages
  <2>4. CASE j <= Len(to_host)
    <3>1. j \in 1..Len(to_host) /\ q[j] = to_host[j] BY <2>4, <1>1, <1>3
    <3> QED BY <2>1, <2>2, <3>1, <1>5 DEF Messages
  <2>5. CASE ~(j <= Len(to_host))
    BY <2>5, <1>1, <2>2, <2>3, <1>3
  <2> QED BY <2>4, <2>5
<1> QED BY <1>4, <1>5 DEF Messages

\* A board ahead of the host stamps all its messages with the same number.
LEMMA AheadPost ==
    ASSUME TypeOK, Ahead, NEW m \in Message, m.num = next_sequence,
           to_host' \in {to_host, Post(to_host, m)}, ~dispatching',
           UNCHANGED <<seqs, queues, next_sequence, executed>>
    PROVE  Ahead'
<1> DEFINE q == to_host'
<1>1. /\ Len(q) \in Nat
      /\ \A i \in 1..Len(q) : (q[i] = to_host[i] /\ i \in 1..Len(to_host)) \/ q[i] = m
  <2>1. to_host \in Seq(Message) BY Types
  <2>2. CASE q = to_host BY <2>1, <2>2
  <2>3. CASE q = Post(to_host, m) 
    <3>1. Len(q) \in Nat BY <2>1, <2>3, PostProps
    <3>2. \A i \in 1..Len(q) : q[i] = IF i <= Len(to_host) THEN to_host[i] ELSE m
      BY <2>1, <2>3, PostProps
    <3> QED BY <2>1, <3>1, <3>2
  <2> QED BY <2>2, <2>3
<1>2. \A i \in 1..Len(q) : q[i].num = next_sequence'
  BY <1>1 DEF Ahead
<1> QED BY <1>2 DEF Ahead, seqs, queues

\* A block is taken off the line.
LEMMA BlocksTail ==
    ASSUME TypeOK, Blocks, to_mcu # <<>>, to_mcu' = Tail(to_mcu), ~dispatching',
           UNCHANGED <<seqs, queues, next_sequence>>
    PROVE  Blocks'
<1> DEFINE q == Tail(to_mcu)
<1>1. /\ q \in Seq(Block) /\ Len(q) = Len(to_mcu) - 1 /\ Len(to_mcu) \in Nat
      /\ \A i \in 1..Len(q) : q[i] = to_mcu[i + 1]
  BY TailProps, Types
<1>2. \A i \in 1..Len(q) : i + 1 \in 1..Len(to_mcu)
  BY <1>1
<1>3. send_seq' = send_seq /\ next_sequence' = next_sequence BY DEF seqs
<1> HIDE DEF q
<1>4. ASSUME NEW i \in 1..Len(q)
      PROVE  /\ 1 <= q[i].num /\ q[i].num < send_seq
             /\ next_sequence < q[i].num + SeqMod
             /\ q[i].ok /\ next_sequence <= q[i].num => q[i] = Sent(q[i].num)
  BY <1>1, <1>2 DEF Blocks
<1>5. ASSUME NEW i \in 1..Len(q), NEW j \in 1..Len(q), i < j
      PROVE  q[i].num < q[j].num + Window
  <2>1. i + 1 \in 1..Len(to_mcu) /\ j + 1 \in 1..Len(to_mcu) /\ i + 1 < j + 1
    BY <1>2, <1>5
  <2> QED BY <1>1, <2>1 DEF Blocks
<1>6. to_mcu' = q BY DEF q
<1> QED BY <1>3, <1>4, <1>5, <1>6, SameQueue DEF Blocks

\* The invariant over command_find_block when it refuses a block,
LEMMA InvNak ==
    ASSUME IInv, McuNak \/ McuBad PROVE IInv'
<1> USE DEF IInv
<1>1. TypeOK' BY TypeMcu DEF Mcu, Working, McuNak, McuBad
<1>2. /\ UNCHANGED <<caller, seqs, queues, next_sequence, dispatching, cursor, executed>>
      /\ ~dispatching /\ to_mcu # <<>> /\ to_mcu' = Tail(to_mcu)
      /\ to_host' \in {to_host, Post(to_host, Ack(next_sequence))}
  BY DEF McuNak, McuBad, mcuOnly
<1>3. /\ Ack(next_sequence) \in Message /\ Ack(next_sequence).num = next_sequence
      /\ Ack(next_sequence).kind = "ack"
  BY Types DEF Ack, Message
<1>4. Numbers' /\ Consecutive' /\ Opened' /\ Told'
  <2>1. Consecutive' BY <1>2, SameQueue
  <2>2. Numbers' BY <1>2 DEF Numbers, seqs, queues
  <2>3. Opened' BY <1>2 DEF Opened, seqs, queues, caller
  <2>4. Told' BY <1>2 DEF Told, queues
  <2> QED BY <2>1, <2>2, <2>3, <2>4
<1>5. InStep'
  <2>1. CASE Ahead BY <2>1, <1>2, <1>3, AheadPost DEF InStep
  <2>2. CASE next_sequence <= send_seq BY <2>2, <1>2 DEF InStep, seqs
  <2> QED BY <2>1, <2>2 DEF InStep
<1>6. Blocks' BY <1>2, BlocksTail
<1>7. Messages'
  <2>1. receive_seq' = receive_seq /\ next_sequence' = next_sequence BY <1>2 DEF seqs
  <2>2. Held' = Held BY <1>2 DEF Held
  <2>3. /\ next_sequence' \in Nat /\ next_sequence <= next_sequence'
        /\ next_sequence - Held <= next_sequence' - Held'
    BY <2>1, <2>2, Types, HeldType
  <2>4. Ack(next_sequence).kind # "data" /\ ~dispatching' BY <1>2, <1>3
  <2> QED BY <2>1, <2>3, <2>4, <1>2, <1>3, MessagesPost
<1>8. Progress'
  <2>1. First(next_sequence)' = First(next_sequence)
    BY <1>2 DEF seqs, queues, First, Sent
  <2>2. NextFrom' = NextFrom BY <1>2 DEF NextFrom
  <2> QED BY <1>2, <2>1, <2>2 DEF Progress, seqs
<1>9. Waiting'
  BY <1>2 DEF Waiting, seqs, queues, Held, First, Sent
<1> QED BY <1>1, <1>4, <1>5, <1>6, <1>7, <1>8, <1>9

\* The bits of the number are enough: the firmware takes a block only if it is
\* the one it waits for.
LEMMA Accepted ==
    ASSUME IInv, McuAccept
    PROVE  /\ Len(to_mcu) >= 1 /\ to_mcu[1].num = next_sequence
           /\ next_sequence < send_seq
           /\ to_mcu[1] = Sent(next_sequence)
<1> USE DEF IInv
<1>1. Len(to_mcu) >= 1 /\ 1 \in 1..Len(to_mcu)
  <2>1. to_mcu # <<>> /\ to_mcu \in Seq(Block) BY Types DEF McuAccept
  <2> QED BY <2>1
<1>2. /\ 1 <= to_mcu[1].num /\ to_mcu[1].num < send_seq
      /\ next_sequence < to_mcu[1].num + SeqMod
      /\ to_mcu[1].ok /\ next_sequence <= to_mcu[1].num
            => to_mcu[1] = Sent(to_mcu[1].num)
  BY <1>1 DEF Blocks
<1>3. to_mcu[1].ok /\ to_mcu[1].num % SeqMod = next_sequence % SeqMod
  BY DEF McuAccept, Expected, Wire
<1>4. to_mcu[1].num \in Nat
  BY <1>1, Fields
<1>5. send_seq < next_sequence + SeqMod
  BY Types, SMTT(30) DEF Numbers
<1>6. to_mcu[1].num = next_sequence
  <2>1. /\ SeqMod \in Nat \ {0} /\ to_mcu[1].num \in Int /\ next_sequence \in Int
        /\ send_seq \in Int
    BY <1>4, Types
  <2>2. /\ to_mcu[1].num - next_sequence < SeqMod
        /\ next_sequence - to_mcu[1].num < SeqMod
    BY <2>1, <1>2, <1>5
  <2> QED BY <2>1, <2>2, <1>3, ModUnique
<1> QED BY <1>1, <1>2, <1>3, <1>4, <1>6

\* ... when it takes one: the case that needs the numbers on the line to be
\* near enough to next_sequence,
LEMMA InvAccept ==
    ASSUME IInv, McuAccept PROVE IInv'
<1> USE DEF IInv
<1>1. TypeOK' BY TypeMcu DEF Mcu, Working, McuAccept
<1>2. /\ UNCHANGED <<caller, seqs, queues, executed, to_mcu>>
      /\ ~dispatching /\ dispatching' /\ next_sequence' = next_sequence + 1
      /\ cursor' = to_mcu[1].from
      /\ to_host' \in {to_host, Post(to_host, Data(next_sequence + 1, 0))}
  BY DEF McuAccept, mcuOnly
<1>a. /\ next_sequence \in Nat /\ send_seq \in Nat /\ receive_seq \in Nat /\ built \in Nat
      /\ Window \in Nat /\ SeqMod \in Nat /\ Window < SeqMod /\ 1 <= Window
      /\ Len(executed) \in Nat
  BY Types
<1>b. /\ Len(to_mcu) >= 1 /\ to_mcu[1].num = next_sequence
      /\ next_sequence < send_seq /\ to_mcu[1] = Sent(next_sequence)
  BY Accepted
<1>c. /\ next_sequence \in receive_seq..(send_seq - 1)
      /\ next_sequence + 1 \in receive_seq..send_seq
  BY <1>a, <1>b DEF Numbers
<1>d. \A x : Sent(x)' = Sent(x) /\ First(x)' = First(x)
  BY <1>2, SameQueue
<1>4. Numbers' /\ Consecutive' /\ Opened' /\ Told'
  <2>1. Consecutive' BY <1>2, SameQueue
  <2>2. Numbers' BY <1>2, <1>a DEF Numbers, seqs, queues
  <2>3. Opened' BY <1>2 DEF Opened, seqs, queues, caller
  <2>4. Told' BY <1>2 DEF Told, queues
  <2> QED BY <2>1, <2>2, <2>3, <2>4
<1>5. InStep'
  BY <1>2, <1>a, <1>b DEF InStep, seqs
<1>6. Blocks'
  <2>1. send_seq' = send_seq BY <1>2 DEF seqs
  <2>2. ASSUME NEW i \in 1..Len(to_mcu)
        PROVE  /\ 1 <= to_mcu[i].num /\ to_mcu[i].num < send_seq
               /\ next_sequence' < to_mcu[i].num + SeqMod
               /\ to_mcu[i].ok /\ next_sequence' <= to_mcu[i].num
                     => to_mcu[i] = Sent(to_mcu[i].num)
    <3>1. to_mcu[i].num \in Nat BY Fields
    <3>2. /\ 1 <= to_mcu[i].num /\ to_mcu[i].num < send_seq
          /\ to_mcu[i].ok /\ next_sequence <= to_mcu[i].num
                => to_mcu[i] = Sent(to_mcu[i].num)
      BY DEF Blocks
    <3>3. next_sequence + 1 < to_mcu[i].num + SeqMod
      <4>1. CASE i = 1 BY <4>1, <1>a, <1>b
      <4>2. CASE i # 1
        <5>1. 1 \in 1..Len(to_mcu) /\ 1 < i BY <4>2, <1>b, Types
        <5>2. to_mcu[1].num < to_mcu[i].num + Window BY <5>1 DEF Blocks
        <5> QED BY <5>2, <1>a, <1>b, <3>1
      <4> QED BY <4>1, <4>2
    <3> QED BY <1>2, <1>a, <3>1, <3>2, <3>3
  <2>3. to_mcu[1].num = next_sequence' - 1 BY <1>a, <1>b, <1>2
  <2> QED BY <1>2, <1>b, <1>d, <2>1, <2>2, <2>3 DEF Blocks
<1>7. Messages'
  <2> DEFINE m == Data(next_sequence + 1, 0)
  <2>1. m \in Message /\ m.num = next_sequence' /\ m.kind # "ack"
    BY <1>2, <1>a DEF Data, Message
  <2>2. receive_seq' = receive_seq /\ 1 <= next_sequence BY <1>2, <1>a DEF seqs, Numbers
  <2>3. Held = 0 /\ Held' = 1 BY <1>2 DEF Held
  <2>4. /\ next_sequence' \in Nat /\ next_sequence <= next_sequence'
        /\ next_sequence - Held <= next_sequence' - Held' /\ next_sequence' >= 2
    BY <1>2, <1>a, <2>2, <2>3
  <2> HIDE DEF m
  <2>5. to_host' \in {to_host, Post(to_host, m)} BY <1>2 DEF m
  <2> QED BY <2>1, <2>2, <2>4, <2>5, MessagesPost
<1>8. Progress'
  <2>1. NextFrom' = First(next_sequence + 1)
    <3>1. NextFrom' = Sent(next_sequence).upto + 1 BY <1>2, <1>b DEF NextFrom
    <3>2. Sent(next_sequence).upto + 1 = First(next_sequence + 1)
      BY <1>c DEF Consecutive
    <3> QED BY <3>1, <3>2, <1>2
  <2>2. First(next_sequence)' = First(next_sequence + 1)
    BY <1>2 DEF seqs, queues, First, Sent
  <2>3. cursor' = Len(executed) + 1
    <3>1. First(next_sequence) = Sent(next_sequence).from BY <1>a, <1>b DEF First
    <3>2. NextFrom = Len(executed) + 1 BY <1>2 DEF NextFrom
    <3> QED BY <3>1, <3>2, <1>2, <1>b, <1>a DEF Progress
  <2>4. cursor' <= to_mcu[1].upto + 1
    BY <1>2, <1>b, <1>c DEF Consecutive
  <2> QED BY <2>1, <2>2, <2>3, <2>4, <1>2 DEF Progress
<1>9. Waiting'
  <2>1. next_sequence' - Held' = next_sequence - Held
    BY <1>2, <1>a DEF Held
  <2> QED BY <2>1, <1>2, <1>d DEF Waiting, seqs, queues
<1> QED BY <1>1, <1>4, <1>5, <1>6, <1>7, <1>8, <1>9

\* ... over one command of command_dispatch,
LEMMA InvRun ==
    ASSUME IInv, McuRun PROVE IInv'
<1> USE DEF IInv
<1>1. TypeOK' BY TypeMcu DEF Mcu, Working, McuRun, Blocks, LineType, TypeOK
<1>2. /\ UNCHANGED <<caller, seqs, queues, next_sequence, dispatching, to_mcu>>
      /\ dispatching /\ cursor <= to_mcu[1].upto
      /\ executed' = Append(executed, cursor) /\ cursor' = cursor + 1
      /\ to_host' \in {to_host, Post(to_host, Data(next_sequence, cursor))}
  BY DEF McuRun, mcuOnly
<1>a. /\ next_sequence \in Nat /\ cursor \in Nat /\ Len(executed) \in Nat
      /\ executed \in Seq(Nat)
  BY Types
<1>b. Len(executed') = Len(executed) + 1
  BY <1>2, <1>a
<1>c. cursor = Len(executed) + 1
  BY <1>2 DEF Progress
<1>d. \A x : Sent(x)' = Sent(x) /\ First(x)' = First(x)
  BY <1>2, SameQueue
<1>e. next_sequence <= send_seq
  BY <1>2 DEF InStep, Ahead
<1>4. Numbers' /\ Consecutive' /\ Opened' /\ Told'
  <2>1. Consecutive' BY <1>2, SameQueue
  <2>2. Numbers' BY <1>2 DEF Numbers, seqs, queues
  <2>3. Opened' BY <1>2 DEF Opened, seqs, queues, caller
  <2>4. 1..Len(executed) \subseteq 1..Len(executed') BY <1>a, <1>b
  <2>5. Told' BY <2>4, <1>2 DEF Told, queues
  <2> QED BY <2>1, <2>2, <2>3, <2>5
<1>5. InStep'
  BY <1>2, <1>e DEF InStep, seqs
<1>6. Blocks'
  BY <1>2, <1>d DEF Blocks, seqs
<1>7. Messages'
  <2> DEFINE m == Data(next_sequence, cursor)
  <2>1. m \in Message /\ m.num = next_sequence' /\ m.kind # "ack" /\ m.cmd # 0
    BY <1>2, <1>a, <1>c DEF Data, Message
  <2>2. receive_seq' = receive_seq BY <1>2 DEF seqs
  <2>3. Held' = Held BY <1>2 DEF Held
  <2>4. /\ next_sequence' \in Nat /\ next_sequence <= next_sequence'
        /\ next_sequence - Held <= next_sequence' - Held'
    BY <1>2, <1>a, <2>3, HeldType
  <2> HIDE DEF m
  <2>5. to_host' \in {to_host, Post(to_host, m)} BY <1>2 DEF m
  <2> QED BY <2>1, <2>2, <2>4, <2>5, MessagesPost
<1>8. Progress'
  <2>1. NextFrom' = NextFrom BY <1>2 DEF NextFrom
  <2>2. First(next_sequence)' = First(next_sequence)
    BY <1>2 DEF seqs, queues, First, Sent
  <2>3. to_mcu[1].upto \in Nat
    <3>1. 1 \in 1..Len(to_mcu) BY <1>2, Types DEF Blocks
    <3> QED BY <3>1, Fields
  <2>4. cursor' = Len(executed') + 1 /\ cursor' <= to_mcu[1].upto + 1
    BY <1>2, <1>a, <1>b, <1>c, <2>3
  <2> QED BY <2>1, <2>2, <2>4, <1>2 DEF Progress, seqs
<1>9. Waiting'
  <2>1. Held' = Held BY <1>2 DEF Held
  <2>2. ASSUME NEW e \in notify_queue
        PROVE  /\ e.num < send_seq
               /\ e.num >= next_sequence - Held => e.cmd < First(e.num + 1)
               /\ e.num < next_sequence - Held  => e.cmd <= Len(executed')
    BY Fields, <1>a, <1>b DEF Waiting
  <2> QED BY <2>1, <2>2, <1>2, <1>d DEF Waiting, seqs, queues
<1> QED BY <1>1, <1>4, <1>5, <1>6, <1>7, <1>8, <1>9

\* ... over console_pop_input and command_send_ack,
LEMMA InvAck ==
    ASSUME IInv, McuAck PROVE IInv'
<1> USE DEF IInv
<1>0. Working BY Types DEF Working, Blocks
<1>1. TypeOK' BY <1>0, TypeMcu DEF Mcu
<1>2. /\ UNCHANGED <<caller, seqs, queues, next_sequence, cursor, executed>>
      /\ dispatching /\ ~dispatching' /\ cursor > to_mcu[1].upto
      /\ to_mcu' = Tail(to_mcu)
      /\ to_host' \in {to_host, Post(to_host, Ack(next_sequence))}
  BY DEF McuAck, mcuOnly
<1>a. /\ next_sequence \in Nat /\ cursor \in Nat /\ Len(executed) \in Nat
      /\ send_seq \in Nat
  BY Types
<1>b. to_mcu # <<>> BY <1>0, <1>2 DEF Working
<1>c. /\ cursor = Len(executed) + 1 /\ to_mcu[1].upto \in Nat
      /\ to_mcu[1].upto = Len(executed)
  <2>1. 1 \in 1..Len(to_mcu) BY <1>2, Types DEF Blocks
  <2>2. to_mcu[1].upto \in Nat BY <2>1, Fields
  <2>3. cursor = Len(executed) + 1 /\ cursor <= to_mcu[1].upto + 1
    BY <1>2 DEF Progress
  <2> QED BY <2>2, <2>3, <1>2, <1>a
<1>d. \A x : Sent(x)' = Sent(x) /\ First(x)' = First(x)
  BY <1>2, SameQueue
<1>e. next_sequence <= send_seq
  BY <1>2 DEF InStep, Ahead
<1>f. First(next_sequence) = Len(executed) + 1
  BY <1>2, <1>c, <1>e DEF Progress, NextFrom
<1>4. Numbers' /\ Consecutive' /\ Opened' /\ Told'
  <2>1. Consecutive' BY <1>2, SameQueue
  <2>2. Numbers' BY <1>2 DEF Numbers, seqs, queues
  <2>3. Opened' BY <1>2 DEF Opened, seqs, queues, caller
  <2>4. Told' BY <1>2 DEF Told, queues
  <2> QED BY <2>1, <2>2, <2>3, <2>4
<1>5. InStep'
  BY <1>2, <1>e DEF InStep, seqs
<1>6. Blocks' BY <1>2, <1>b, BlocksTail
<1>7. Messages'
  <2> DEFINE m == Ack(next_sequence)
  <2>1. m \in Message /\ m.num = next_sequence' /\ m.kind # "data"
    BY <1>2, <1>a DEF Ack, Message
  <2>2. receive_seq' = receive_seq BY <1>2 DEF seqs
  <2>3. Held = 1 /\ Held' = 0 BY <1>2 DEF Held
  <2>4. /\ next_sequence' \in Nat /\ next_sequence <= next_sequence'
        /\ next_sequence - Held <= next_sequence' - Held'
    BY <1>2, <1>a, <2>3
  <2> HIDE DEF m
  <2>5. to_host' \in {to_host, Post(to_host, m)} BY <1>2 DEF m
  <2> QED BY <2>1, <2>2, <2>4, <2>5, <1>2, MessagesPost
<1>8. Progress'
  <2>1. NextFrom' = Len(executed) + 1 BY <1>2 DEF NextFrom
  <2>2. First(next_sequence)' = First(next_sequence)
    BY <1>2 DEF seqs, queues, First, Sent
  <2> QED BY <2>1, <2>2, <1>f, <1>2 DEF Progress, seqs
<1>9. Waiting'
  <2>1. Held = 1 /\ Held' = 0 BY <1>2 DEF Held
  <2>2. ASSUME NEW e \in notify_queue
        PROVE  /\ e.num < send_seq
               /\ e.num >= next_sequence => e.cmd < First(e.num + 1)
               /\ e.num < next_sequence  => e.cmd <= Len(executed)
    <3>1. e.num \in Nat /\ e.cmd \in Nat BY Fields
    <3>2. /\ e.num < send_seq
          /\ e.num >= next_sequence - 1 => e.cmd < First(e.num + 1)
          /\ e.num < next_sequence - 1  => e.cmd <= Len(executed)
      BY <2>1 DEF Waiting
    <3>3. CASE e.num = next_sequence - 1
      <4>1. e.num + 1 = next_sequence BY <3>1, <3>3, <1>a
      <4>2. e.cmd < Len(executed) + 1 BY <3>1, <3>2, <3>3, <4>1, <1>a, <1>f
      <4> QED BY <3>1, <3>2, <3>3, <4>2, <1>a
    <3>4. CASE e.num # next_sequence - 1
      BY <3>1, <3>2, <3>4, <1>a
    <3> QED BY <3>3, <3>4
  <2>3. next_sequence - 0 = next_sequence BY <1>a
  <2> QED BY <2>1, <2>2, <2>3, <1>2, <1>d DEF Waiting, seqs, queues
<1> QED BY <1>1, <1>4, <1>5, <1>6, <1>7, <1>8, <1>9

\* ... over a message nobody asked for,
LEMMA InvReport ==
    ASSUME IInv, McuReport PROVE IInv'
<1> USE DEF IInv
<1>0. Working BY Types DEF Working, Blocks
<1>1. TypeOK' BY <1>0, TypeMcu
<1>2. /\ UNCHANGED <<caller, seqs, queues, mcu, to_mcu>>
      /\ UNCHANGED <<next_sequence, dispatching, executed>>
      /\ to_host' \in {to_host, Post(to_host, Data(next_sequence, NoCmd))}
  BY DEF McuReport, mcu
<1> DEFINE m == Data(next_sequence, NoCmd)
<1>3. m \in Message /\ m.num = next_sequence /\ m.kind # "ack" /\ m.cmd # 0
  BY Types DEF Data, Message, NoCmd
<1>a. to_host' \in {to_host, Post(to_host, m)} BY <1>2
<1> HIDE DEF m
<1>4. /\ Numbers' /\ Consecutive' /\ Opened' /\ Told' /\ Blocks' /\ Progress' /\ Waiting'
  BY <1>2 DEF seqs, queues, caller, mcu, Numbers, Consecutive, Sent, First, Blocks,
              Held, Progress, NextFrom, Waiting, Told, Opened
<1>5. InStep'
  <2>1. CASE Ahead
    <3>1. ~dispatching' BY <2>1, <1>2 DEF Ahead
    <3> QED BY <2>1, <3>1, <1>2, <1>3, <1>a, AheadPost DEF InStep
  <2>2. CASE next_sequence <= send_seq BY <2>2, <1>2 DEF InStep, seqs
  <2> QED BY <2>1, <2>2 DEF InStep
<1>7. Messages'
  <2>2. receive_seq' = receive_seq BY <1>2 DEF seqs
  <2>3. Held' = Held BY <1>2 DEF Held
  <2>4. /\ next_sequence' \in Nat /\ next_sequence <= next_sequence'
        /\ next_sequence - Held <= next_sequence' - Held' /\ m.num = next_sequence'
    BY <1>2, <1>3, Types, <2>3, HeldType
  <2> QED BY <1>3, <2>2, <2>4, <1>a, MessagesPost
<1> QED BY <1>1, <1>4, <1>5, <1>7

------------------------------------------------------------------------------
(* Faults of the line, and sending again *)

\* A change of the line that adds nothing to to_mcu but blocks of sent_queue,
\* and leaves to_host alone.
LEMMA InvBlocks ==
    ASSUME IInv, TypeOK', Blocks',
           UNCHANGED <<caller, mcu, to_host, send_seq, receive_seq, sent_queue, built,
                       notify_queue, notified>>,
           dispatching => to_mcu'[1] = to_mcu[1]
    PROVE  IInv'
<1> USE DEF IInv, mcu, caller
<1>1. /\ Numbers' /\ Consecutive' /\ Opened' /\ Told' /\ Waiting' /\ Messages'
  BY DEF Numbers, Consecutive, Sent, First, Messages, Held, Waiting, Told, Opened
<1>2. InStep'
  BY DEF InStep, Ahead
<1>3. Progress'
  <2>1. NextFrom' = NextFrom BY DEF NextFrom
  <2>2. First(next_sequence)' = First(next_sequence) BY DEF First, Sent
  <2> QED BY <2>1, <2>2 DEF Progress
<1> QED BY <1>1, <1>2, <1>3

\* ... over the loss of a block,
LEMMA InvLoseBlock ==
    ASSUME IInv, LoseBlock PROVE IInv'
<1> USE DEF IInv
<1>1. TypeOK' BY TypeFault
<1>2. UNCHANGED <<caller, seqs, queues, mcu, to_host>> BY DEF LoseBlock, Fault
<1> PICK i \in (Held + 1)..Len(to_mcu) : to_mcu' = Without(to_mcu, i)
  BY DEF LoseBlock
<1> DEFINE q == Without(to_mcu, i)
<1>3. i \in 1..Len(to_mcu) /\ (dispatching => i # 1)
  BY HeldType, Types
<1>4. /\ q \in Seq(Block) /\ Len(q) = Len(to_mcu) - 1 /\ Len(to_mcu) \in Nat
      /\ \A j \in 1..Len(q) : q[j] = IF j < i THEN to_mcu[j] ELSE to_mcu[j + 1]
  BY <1>3, WithoutProps, Types
<1> DEFINE at(j) == IF j < i THEN j ELSE j + 1
<1>5. /\ \A j \in 1..Len(q) : at(j) \in 1..Len(to_mcu) /\ q[j] = to_mcu[at(j)]
      /\ \A j, k \in 1..Len(q) : j < k => at(j) < at(k)
  <2>1. Len(q) = Len(to_mcu) - 1 /\ Len(to_mcu) \in Nat /\ i \in 1..Len(to_mcu)
    BY <1>3, <1>4
  <2>2. \A j \in 1..Len(q) : q[j] = to_mcu[at(j)]
    BY <1>4
  <2> HIDE DEF q
  <2>3. \A j \in 1..Len(q) : at(j) \in 1..Len(to_mcu)
    BY <2>1
  <2>4. \A j, k \in 1..Len(q) : j < k => at(j) < at(k)
    BY <2>1
  <2> QED BY <2>2, <2>3, <2>4
<1>6. to_mcu' = q OBVIOUS
<1> HIDE DEF q, at
<1>7. \A x : Sent(x)' = Sent(x) BY <1>2 DEF Sent, seqs, queues
<1>8. Blocks'
  <2>1. ASSUME NEW j \in 1..Len(q)
        PROVE  /\ 1 <= q[j].num /\ q[j].num < send_seq
               /\ next_sequence < q[j].num + SeqMod
               /\ q[j].ok /\ next_sequence <= q[j].num => q[j] = Sent(q[j].num)
    BY <1>5 DEF Blocks
  <2>2. ASSUME NEW j \in 1..Len(q), NEW k \in 1..Len(q), j < k
        PROVE  q[j].num < q[k].num + Window
    BY <1>5, <2>2 DEF Blocks
  <2>3. dispatching => /\ Len(q) >= 1 /\ q[1].num = next_sequence - 1
    <3> SUFFICES ASSUME dispatching PROVE Len(q) >= 1 /\ q[1].num = next_sequence - 1
      OBVIOUS
    <3>1. i # 1 /\ i \in 1..Len(to_mcu) /\ Len(q) >= 1 /\ 1 \in 1..Len(q)
      BY <1>3, <1>4
    <3>2. q[1] = to_mcu[1] BY <3>1, <1>4
    <3> QED BY <3>1, <3>2 DEF Blocks
  <2> QED BY <2>1, <2>2, <2>3, <1>2, <1>6, <1>7 DEF Blocks, seqs, mcu
<1>9. dispatching => to_mcu'[1] = to_mcu[1]
  BY <1>3, <1>4, <1>6
<1> QED BY <1>1, <1>2, <1>8, <1>9, InvBlocks DEF seqs, queues

\* ... over damage to a block,
LEMMA InvGarbleBlock ==
    ASSUME IInv, GarbleBlock PROVE IInv'
<1> USE DEF IInv
<1>1. TypeOK' BY TypeFault
<1>2. UNCHANGED <<caller, seqs, queues, mcu, to_host>> BY DEF GarbleBlock, Fault
<1> PICK i \in (Held + 1)..Len(to_mcu) :
            to_mcu' = [to_mcu EXCEPT ![i] = Garbled(to_mcu[i])]
  BY DEF GarbleBlock
<1>3. i \in 1..Len(to_mcu) /\ (dispatching => i # 1)
  BY HeldType, Types
<1>4. Garbled(to_mcu[i]) \in Block
  <2>1. to_mcu[i] \in Block BY <1>3, Fields
  <2> QED BY <2>1 DEF Block, Garbled
<1>5. /\ Len(to_mcu') = Len(to_mcu)
      /\ \A j \in 1..Len(to_mcu) : 
            to_mcu'[j] = IF j = i THEN Garbled(to_mcu[i]) ELSE to_mcu[j]
  BY <1>3, <1>4, Types, ExceptSeq
<1>6. \A j \in 1..Len(to_mcu) : /\ to_mcu'[j].num = to_mcu[j].num
                                /\ to_mcu'[j].ok => to_mcu'[j] = to_mcu[j]
  BY <1>5 DEF Garbled
<1>7. \A x : Sent(x)' = Sent(x) BY <1>2 DEF Sent, seqs, queues
<1>8. Blocks'
  <2>1. ASSUME NEW j \in 1..Len(to_mcu)
        PROVE  /\ 1 <= to_mcu'[j].num /\ to_mcu'[j].num < send_seq
               /\ next_sequence < to_mcu'[j].num + SeqMod
               /\ to_mcu'[j].ok /\ next_sequence <= to_mcu'[j].num
                    => to_mcu'[j] = Sent(to_mcu'[j].num)
    BY <1>6 DEF Blocks
  <2>2. ASSUME NEW j \in 1..Len(to_mcu), NEW k \in 1..Len(to_mcu), j < k
        PROVE  to_mcu'[j].num < to_mcu'[k].num + Window
    BY <1>6, <2>2 DEF Blocks
  <2>3. dispatching => /\ Len(to_mcu) >= 1 /\ to_mcu'[1].num = next_sequence - 1
    BY <1>6, Types, SMTT(30) DEF Blocks
  <2> QED BY <2>1, <2>2, <2>3, <1>2, <1>5, <1>7 DEF Blocks, seqs, mcu
<1>9. dispatching => to_mcu'[1] = to_mcu[1]
  BY <1>3, <1>5, Types DEF Blocks
<1> QED BY <1>1, <1>2, <1>8, <1>9, InvBlocks DEF seqs, queues

\* Messages taken away leave the others in order.
LEMMA InvLoseMessage ==
    ASSUME IInv, LoseMessage PROVE IInv'
<1> USE DEF IInv
<1>1. TypeOK' BY TypeFault
<1>2. UNCHANGED <<caller, seqs, queues, mcu, to_mcu>> BY DEF LoseMessage, Fault
<1> PICK i \in 1..Len(to_host) : to_host' = Without(to_host, i)
  BY DEF LoseMessage
<1> DEFINE q == Without(to_host, i)
<1>4. /\ q \in Seq(Message) /\ Len(q) = Len(to_host) - 1 /\ Len(to_host) \in Nat
      /\ \A j \in 1..Len(q) : q[j] = IF j < i THEN to_host[j] ELSE to_host[j + 1]
  BY WithoutProps, Types
<1> DEFINE at(j) == IF j < i THEN j ELSE j + 1
<1>5. /\ \A j \in 1..Len(q) : at(j) \in 1..Len(to_host) /\ q[j] = to_host[at(j)]
      /\ \A j, k \in 1..Len(q) : j < k => at(j) < at(k)
  <2>1. Len(q) = Len(to_host) - 1 /\ Len(to_host) \in Nat /\ i \in 1..Len(to_host)
    BY <1>4
  <2>2. \A j \in 1..Len(q) : q[j] = to_host[at(j)]
    BY <1>4
  <2> HIDE DEF q
  <2>3. \A j \in 1..Len(q) : at(j) \in 1..Len(to_host)
    BY <2>1
  <2>4. \A j, k \in 1..Len(q) : j < k => at(j) < at(k)
    BY <2>1
  <2> QED BY <2>2, <2>3, <2>4
<1>6. to_host' = q OBVIOUS
<1> HIDE DEF q, at
<1>7. Messages'
  <2>1. ASSUME NEW j \in 1..Len(q)
        PROVE  /\ receive_seq <= q[j].num /\ q[j].num <= next_sequence
               /\ q[j].kind = "ack" => q[j].num <= next_sequence - Held
               /\ q[j].kind = "data" /\ q[j].cmd = 0 => q[j].num >= 2
    BY <1>5 DEF Messages
  <2>2. ASSUME NEW j \in 1..Len(q), NEW k \in 1..Len(q), j < k
        PROVE  q[j].num <= q[k].num
    BY <1>5, <2>2 DEF Messages
  <2> QED BY <2>1, <2>2, <1>2, <1>6 DEF Messages, seqs, mcu, Held
<1>8. InStep'
  <2>1. CASE Ahead
    <3>1. \A j \in 1..Len(q) : q[j].num = next_sequence BY <2>1, <1>5 DEF Ahead
    <3> QED BY <2>1, <3>1, <1>2, <1>6 DEF InStep, Ahead, seqs, queues, mcu
  <2>2. CASE next_sequence <= send_seq BY <2>2, <1>2 DEF InStep, seqs, mcu
  <2> QED BY <2>1, <2>2 DEF InStep
<1>9. /\ Numbers' /\ Consecutive' /\ Opened' /\ Told' /\ Blocks' /\ Progress' /\ Waiting'
  BY <1>2 DEF seqs, queues, caller, mcu, Numbers, Consecutive, Sent, First, Blocks,
              Held, Progress, NextFrom, Waiting, Told, Opened
<1> QED BY <1>1, <1>7, <1>8, <1>9

------------------------------------------------------------------------------
(* Sending, for the first time and again *)

\* After the first k blocks of the line come blocks of sent_queue.
AfterFirst(k) ==
    \A i \in 1..Len(to_mcu') :
        \/ i <= k /\ to_mcu'[i] = to_mcu[i]
        \/ i > k /\ \E x \in receive_seq..(send_seq' - 1) :
                        to_mcu'[i].num = x /\ to_mcu'[i] = Sent(x)'

KeepsSent == \A x \in receive_seq..(send_seq - 1) : Sent(x)' = Sent(x)

\* Writing blocks of sent_queue keeps the numbers on the line near enough.
LEMMA BlocksWrite ==
    ASSUME TypeOK, TypeOK', Numbers, Numbers', InStep, Blocks,
           UNCHANGED <<next_sequence, dispatching, receive_seq>>,
           send_seq <= send_seq',
           KeepsSent,
           NEW k \in Held..Len(to_mcu), AfterFirst(k),
           k >= 1 => Len(to_mcu') >= 1
    PROVE  Blocks' /\ (dispatching => to_mcu'[1] = to_mcu[1])
<1> DEFINE q == to_mcu'
<1>1. /\ next_sequence \in Nat /\ receive_seq \in Nat /\ send_seq \in Nat
      /\ send_seq' \in Nat /\ SeqMod \in Nat /\ Window \in Nat /\ Window < SeqMod
      /\ Len(to_mcu) \in Nat
  BY Types DEF TypeOK, HostType
<1>2. /\ 1 <= receive_seq /\ receive_seq <= next_sequence
      /\ send_seq' <= receive_seq + Window
  BY DEF Numbers
<1>3. k \in 0..Len(to_mcu) /\ (dispatching => k >= 1)
  BY <1>1, HeldType
<1>4. next_sequence < receive_seq + SeqMod
  <2>1. CASE Ahead BY <2>1, <1>1, <1>2 DEF Ahead
  <2>2. CASE next_sequence <= send_seq BY <2>2, <1>1, <1>2
  <2> QED BY <2>1, <2>2 DEF InStep
<1>5. q \in Seq(Block) /\ Len(q) \in Nat
  BY DEF TypeOK, LineType
<1>6. ASSUME NEW i \in 1..Len(q), i <= k
      PROVE  /\ i \in 1..Len(to_mcu) /\ q[i] = to_mcu[i] /\ q[i].num \in Nat
             /\ 1 <= q[i].num /\ q[i].num < send_seq
             /\ next_sequence < q[i].num + SeqMod
             /\ q[i].ok /\ next_sequence <= q[i].num
                   => q[i] = Sent(to_mcu[i].num)
  <2>1. i \in 1..Len(to_mcu) BY <1>1, <1>3, <1>6, <1>5
  <2>a. ~(i > k) BY <1>6, <1>5, <1>1, <1>3
  <2>2. q[i] = to_mcu[i] BY <2>a, Zenon DEF AfterFirst
  <2>3. to_mcu[i].num \in Nat BY <2>1, Fields
  <2> QED BY <2>1, <2>2, <2>3 DEF Blocks
<1>7. ASSUME NEW i \in 1..Len(q), i > k
      PROVE  \E x \in receive_seq..(send_seq' - 1) :
                 q[i].num = x /\ q[i] = sent_queue'[x - receive_seq + 1]
  <2>1. \E x \in receive_seq..(send_seq' - 1) : q[i].num = x /\ q[i] = Sent(x)'
    <3>1. ~(i <= k) BY <1>7, <1>5, <1>1, <1>3
    <3> QED BY <3>1, Zenon DEF AfterFirst
  <2> QED BY <2>1 DEF Sent
<1>a. ASSUME NEW x \in receive_seq..(send_seq' - 1)
      PROVE  1 <= x /\ x < send_seq' /\ next_sequence < x + SeqMod
  <2>1. x \in Int BY <1>1
  <2>2. receive_seq <= x BY <1>1
  <2>0. PICK s \in Nat : s = send_seq' BY <1>1
  <2>3. x \in receive_seq..(s - 1) BY <2>0, Zenon
  <2>4. 1 <= x BY <2>1, <2>2, <1>1, <1>2
  <2>a. x < s BY <2>1, <2>3, <1>1
  <2>5. x < send_seq' BY <2>0, <2>a, Zenon
  <2>6. next_sequence < x + SeqMod BY <2>1, <2>2, <1>1, <1>4
  <2> QED BY <2>4, <2>5, <2>6
<1>8. ASSUME NEW i \in 1..Len(q)
      PROVE  /\ 1 <= q[i].num /\ q[i].num < send_seq'
             /\ next_sequence < q[i].num + SeqMod
             /\ q[i].ok /\ next_sequence <= q[i].num
                   => q[i] = sent_queue'[q[i].num - receive_seq + 1]
  <2>1. CASE i <= k
    <3>1. /\ q[i] = to_mcu[i] /\ q[i].num \in Nat
          /\ 1 <= q[i].num /\ q[i].num < send_seq
          /\ next_sequence < q[i].num + SeqMod
          /\ q[i].ok /\ next_sequence <= q[i].num => q[i] = Sent(q[i].num)
      BY <2>1, <1>6
    <3>2. ASSUME q[i].ok, next_sequence <= q[i].num
          PROVE  q[i] = sent_queue'[q[i].num - receive_seq + 1]
      <4>0. PICK x \in Nat : x = q[i].num BY <3>1
      <4>1. x \in receive_seq..(send_seq - 1)
        BY <3>1, <3>2, <4>0, <1>1, <1>2, SMTT(30)
      <4>2. q[i] = Sent(x) BY <3>1, <3>2, <4>0
      <4>3. Sent(x)' = Sent(x) BY <4>1 DEF KeepsSent
      <4>4. Sent(x)' = sent_queue'[x - receive_seq + 1] BY DEF Sent
      <4> QED BY <4>0, <4>2, <4>3, <4>4
    <3> QED BY <3>1, <3>2, <1>1
  <2>2. CASE i > k
    <3>1. PICK x \in receive_seq..(send_seq' - 1) :
                 q[i].num = x /\ q[i] = sent_queue'[x - receive_seq + 1]
      BY <2>2, <1>7
    <3>2. 1 <= x /\ x < send_seq' /\ next_sequence < x + SeqMod
      BY <1>a
    <3> QED BY <3>1, <3>2
  <2> QED BY <2>1, <2>2, <1>1, <1>3, <1>5
<1>9. ASSUME NEW i \in 1..Len(q), NEW j \in 1..Len(q), i < j
      PROVE  q[i].num < q[j].num + Window
  <2>1. CASE j <= k
    <3>1. i <= k BY <2>1, <1>9, <1>1, <1>3, <1>5
    <3>2. /\ i \in 1..Len(to_mcu) /\ j \in 1..Len(to_mcu)
          /\ q[i] = to_mcu[i] /\ q[j] = to_mcu[j]
      BY <2>1, <3>1, <1>6
    <3> QED BY <3>2, <1>9 DEF Blocks
  <2>2. CASE j > k
    <3>1. PICK x \in receive_seq..(send_seq' - 1) :
                 q[j].num = x /\ q[j] = sent_queue'[x - receive_seq + 1]
      BY <2>2, <1>7
    <3>2. q[i].num < send_seq' BY <1>8
    <3>3. q[i].num \in Nat BY <1>5, Element, BlockFields
    <3> QED BY <3>1, <3>2, <3>3, <1>1, <1>2
  <2> QED BY <2>1, <2>2, <1>1, <1>3, <1>5
<1>10. dispatching => Len(q) >= 1 /\ q[1] = to_mcu[1]
  <2> SUFFICES ASSUME dispatching PROVE Len(q) >= 1 /\ q[1] = to_mcu[1]
    OBVIOUS
  <2>1. k >= 1 /\ Len(q) >= 1 /\ 1 \in 1..Len(q) BY <1>3, <1>5
  <2> QED BY <2>1, <1>3 DEF AfterFirst
<1>11. dispatching' => Len(q) >= 1 /\ q[1].num = next_sequence' - 1
  BY <1>10 DEF Blocks
<1>12. Blocks'
  BY <1>8, <1>9, <1>11 DEF Blocks, Sent
<1> QED BY <1>10, <1>12

\* The invariant over retransmit_event,
LEMMA InvResend ==
    ASSUME IInv, ResendOnNak \/ ResendOnTimeout PROVE IInv'
<1> USE DEF IInv
<1>1. TypeOK' BY TypeResend
<1> PICK k \in Held..Len(to_mcu) : Resend(k)
  BY DEF ResendOnNak, ResendOnTimeout
<1>2. /\ UNCHANGED <<caller, mcu, to_host, send_seq, receive_seq, sent_queue, built,
                     notify_queue, notified>>
      /\ to_mcu' = Write([i \in 1..k |-> to_mcu[i]], sent_queue)
  BY DEF Resend
<1> DEFINE p == [i \in 1..k |-> to_mcu[i]]
<1>3. k \in 0..Len(to_mcu) BY HeldType, Types
<1>4. p \in Seq(Block) /\ Len(p) = k /\ \A j \in 1..k : p[j] = to_mcu[j]
  BY <1>3, PrefixProps, Types
<1> HIDE DEF p
<1>5. /\ \A i \in 1..Len(to_mcu') :
             to_mcu'[i] = IF i <= k THEN p[i] ELSE sent_queue[i - k]
      /\ Len(to_mcu') <= k + Len(sent_queue)
      /\ k >= 1 => Len(to_mcu') >= 1
  <2>1. to_mcu' = Write(p, sent_queue) BY <1>2 DEF p
  <2>2. sent_queue \in Seq(Block) BY Types
  <2>3. /\ \A i \in 1..Len(Write(p, sent_queue)) :
             Write(p, sent_queue)[i] = IF i <= Len(p) THEN p[i] ELSE sent_queue[i - Len(p)]
        /\ Len(Write(p, sent_queue)) <= Len(p) + Len(sent_queue)
        /\ Len(p) >= 1 => Len(Write(p, sent_queue)) >= 1
    BY <2>2, <1>4, WriteProps
  <2> QED BY <2>1, <2>3, <1>4
<1>6. Len(to_mcu') \in Nat BY <1>1 DEF TypeOK, LineType
<1>7. AfterFirst(k)
  <2> USE DEF AfterFirst
  <2> TAKE i \in 1..Len(to_mcu')
  <2>1. CASE i <= k
    BY <2>1, <1>3, <1>4, <1>5, <1>6
  <2>2. CASE i > k
    <3>1. /\ receive_seq \in Nat /\ send_seq \in Nat /\ Len(sent_queue) \in Nat
          /\ Len(sent_queue) = send_seq - receive_seq /\ Len(to_mcu) \in Nat
      BY Types DEF Numbers
    <3>2. i - k \in 1..Len(sent_queue) BY <2>2, <1>3, <1>5, <1>6, <3>1
    <3>a. PICK x \in receive_seq..(send_seq - 1) : x - receive_seq + 1 = i - k
      <4>1. /\ receive_seq + (i - k) - 1 \in receive_seq..(send_seq - 1)
            /\ (receive_seq + (i - k) - 1) - receive_seq + 1 = i - k
        BY <3>1, <3>2, <1>3, <1>6
      <4> QED BY <4>1
    <3>3. x \in receive_seq..(send_seq - 1) /\ x - receive_seq + 1 = i - k
      BY <3>a
    <3>4. to_mcu'[i] = sent_queue[i - k] BY <2>2, <1>3, <1>5, <1>6
    <3>5. Sent(x) = sent_queue[i - k] BY <3>3 DEF Sent
    <3>6. Sent(x).num = x BY <3>3 DEF Consecutive
    <3>7. Sent(x)' = Sent(x) BY <1>2 DEF Sent
    <3> QED BY <2>2, <3>3, <3>4, <3>5, <3>6, <3>7, <1>2
  <2> QED BY <2>1, <2>2, <1>3, <1>6, Types, SMTT(30)
<1>8. Numbers' /\ UNCHANGED <<next_sequence, dispatching>>
  BY <1>2 DEF Numbers, mcu
<1>9. KeepsSent
  BY <1>2 DEF KeepsSent, Sent
<1>10. send_seq <= send_seq' BY <1>2, Types
<1>11. Blocks' /\ (dispatching => to_mcu'[1] = to_mcu[1])
  BY <1>1, <1>2, <1>5, <1>7, <1>8, <1>9, <1>10, BlocksWrite
<1> QED BY <1>1, <1>2, <1>11, InvBlocks

\* ... over build_and_send_command, to a board that may be ahead,
LEMMA InvSend ==
    ASSUME IInv, SendIdentify \/ SendCommands PROVE IInv'
<1> USE DEF IInv
<1>1. TypeOK' BY TypeSend
<1>2. PICK upto, waiting :
        /\ upto \in Nat /\ built <= upto /\ upto <= submitted
        /\ waiting \subseteq 0..upto
        /\ session # "open" => waiting = {0} /\ upto = built
        /\ session' = "open" => session = "open"
        /\ SendBlock(upto, waiting)
  <2>0. built \in Nat /\ submitted \in Nat /\ built <= submitted
    BY Types DEF Opened
  <2>1. CASE SendIdentify
    <3>1. {0} \subseteq 0..built BY <2>0
    <3> QED BY <2>0, <2>1, <3>1 DEF SendIdentify
  <2>2. CASE SendCommands
    <3> DEFINE u == IF submitted - built <= PerBlock THEN submitted ELSE built + PerBlock
    <3>1. PerBlock \in Nat BY LinkAssumption
    <3>2. u \in Nat /\ built <= u /\ u <= submitted BY <2>0, <3>1
    <3>3. SendBlock(u, (built + 1)..u \cap Queries) /\ session = "open"
      BY <2>2 DEF SendCommands
    <3> HIDE DEF u
    <3>4. (built + 1)..u \cap Queries \subseteq 0..u BY <2>0, <3>2
    <3> QED BY <3>2, <3>3, <3>4
  <2> QED BY <2>1, <2>2
<1> DEFINE b == [num |-> send_seq, from |-> built + 1, upto |-> upto, ok |-> TRUE]
<1>3. /\ UNCHANGED <<identified, submitted, receive_seq, notified, mcu, to_host>>
      /\ send_seq - receive_seq < Window /\ send_seq' = send_seq + 1
      /\ sent_queue' = Append(sent_queue, b) /\ built' = upto
      /\ notify_queue' = notify_queue
            \cup {[cmd |-> c, num |-> send_seq] : c \in waiting}
      /\ to_mcu' = Write(to_mcu, <<b>>)
  BY <1>2 DEF SendBlock, WindowOpen
<1>a. UNCHANGED <<next_sequence, dispatching, executed, cursor>>
  BY <1>3 DEF mcu
<1>4. /\ send_seq \in Nat /\ receive_seq \in Nat /\ next_sequence \in Nat
      /\ built \in Nat /\ upto \in Nat /\ Window \in Nat /\ SeqMod \in Nat
      /\ Window < SeqMod
      /\ receive_seq <= send_seq /\ 1 <= receive_seq /\ built <= upto
      /\ Len(sent_queue) = send_seq - receive_seq /\ Len(executed) \in Nat
      /\ receive_seq <= next_sequence
  BY <1>2, Types DEF Numbers
<1>5. b \in Block /\ <<b>> \in Seq(Block) /\ Len(<<b>>) = 1 /\ <<b>>[1] = b
  BY <1>4 DEF Block
<1>b. b.num = send_seq /\ b.from = built + 1 /\ b.upto = upto /\ b.ok
  OBVIOUS
<1> HIDE DEF b
<1>6. /\ Len(sent_queue') = Len(sent_queue) + 1
      /\ \A i \in 1..Len(sent_queue) : sent_queue'[i] = sent_queue[i]
      /\ sent_queue'[Len(sent_queue) + 1] = b
  <2>1. sent_queue \in Seq(Block) BY Types
  <2> QED BY <2>1, <1>3, <1>5
\* what the queue looks like through Sent and First
<1>7. \A x \in receive_seq..(send_seq - 1) : Sent(x)' = Sent(x)
  <2> TAKE x \in receive_seq..(send_seq - 1)
  <2>1. x - receive_seq + 1 \in 1..Len(sent_queue) BY <1>4
  <2>2. Sent(x)' = sent_queue'[x - receive_seq + 1] BY <1>3 DEF Sent
  <2> QED BY <2>1, <2>2, <1>6 DEF Sent
<1>8. ASSUME NEW x, x = send_seq PROVE Sent(x)' = b
  <2>1. x - receive_seq + 1 = Len(sent_queue) + 1 BY <1>8, <1>4
  <2>2. Sent(x)' = sent_queue'[x - receive_seq + 1] BY <1>3 DEF Sent
  <2> QED BY <2>1, <2>2, <1>6
<1>9. \A x \in receive_seq..send_seq : First(x)' = First(x)
  <2> TAKE x \in receive_seq..send_seq
  <2>0. x # send_seq' BY <1>3, <1>4
  <2>1. First(x)' = (Sent(x)').from BY <2>0 DEF First
  <2>2. CASE x = send_seq
    BY <2>1, <2>2, <1>8, <1>b DEF First
  <2>3. CASE x # send_seq
    <3>1. x \in receive_seq..(send_seq - 1) BY <2>3, <1>4
    <3>2. Sent(x)' = Sent(x) BY <3>1, <1>7
    <3> QED BY <2>1, <2>3, <3>2 DEF First
  <2> QED BY <2>2, <2>3
<1>10. ASSUME NEW x, x = send_seq + 1 PROVE First(x)' = upto + 1
  BY <1>10, <1>3 DEF First
<1>11. Numbers'
  <2>1. send_seq' \in Nat /\ receive_seq <= send_seq' /\ send_seq' <= receive_seq + Window
    BY <1>3, <1>4
  <2>2. Len(sent_queue') = send_seq' - receive_seq BY <1>3, <1>4, <1>6
  <2> QED BY <2>1, <2>2, <1>3, <1>a DEF Numbers
<1>12. Consecutive'
  <2> SUFFICES ASSUME NEW x \in receive_seq..send_seq
               PROVE  /\ (Sent(x)').num = x /\ (Sent(x)').ok
                      /\ 1 <= (Sent(x)').from /\ (Sent(x)').from <= (Sent(x)').upto + 1
                      /\ (Sent(x)').upto <= built'
                      /\ (Sent(x)').upto + 1 = First(x + 1)'
    <3>1. receive_seq'..(send_seq' - 1) = receive_seq..send_seq BY <1>3, <1>4
    <3> QED BY <3>1 DEF Consecutive
  <2>1. CASE x = send_seq
    <3>1. PICK y : y = send_seq + 1 OBVIOUS
    <3>2. Sent(x)' = b BY <2>1, <1>8
    <3>3. First(y)' = upto + 1 BY <3>1, <1>10
    <3>4. First(x + 1)' = upto + 1 BY <2>1, <3>1, <3>3
    <3> QED BY <2>1, <3>2, <3>4, <1>b, <1>3, <1>4
  <2>2. CASE x # send_seq
    <3>1. x \in receive_seq..(send_seq - 1) /\ x + 1 \in receive_seq..send_seq
      BY <2>2, <1>4
    <3>2. Sent(x)' = Sent(x) BY <3>1, <1>7
    <3>3. PICK y \in receive_seq..send_seq : y = x + 1 BY <3>1
    <3>4. First(y)' = First(y) BY <1>9
    <3>5. First(x + 1)' = First(x + 1) BY <3>3, <3>4
    <3>6. /\ Sent(x).num = x /\ Sent(x).ok
          /\ 1 <= Sent(x).from /\ Sent(x).from <= Sent(x).upto + 1
          /\ Sent(x).upto <= built
          /\ Sent(x).upto + 1 = First(x + 1)
      BY <3>1 DEF Consecutive
    <3>7. Sent(x).upto \in Nat BY <3>1, SentType
    <3> QED BY <3>2, <3>5, <3>6, <3>7, <1>3, <1>4, SMTT(30)
  <2> QED BY <2>1, <2>2
<1>13. ASSUME Ahead PROVE session # "open" /\ waiting = {0} /\ upto = 0
  <2>1. receive_seq = 1 /\ built = 0 BY <1>13 DEF Ahead
  <2>2. session # "open" BY <2>1, <1>4 DEF Opened
  <2> QED BY <2>1, <2>2, <1>2
<1>14. InStep'
  <2>1. CASE Ahead
    <3>1. \A e \in notify_queue' : e.cmd = 0 BY <2>1, <1>3, <1>13 DEF Ahead
    <3> QED BY <2>1, <3>1, <1>3, <1>a, <1>13 DEF InStep, Ahead
  <2>2. CASE next_sequence <= send_seq BY <2>2, <1>3, <1>4, <1>a DEF InStep
  <2> QED BY <2>1, <2>2 DEF InStep
<1>15. Blocks' /\ (dispatching => to_mcu'[1] = to_mcu[1])
  <2>1. PICK k : k = Len(to_mcu) OBVIOUS
  <2>2. k \in Nat /\ k \in Held..Len(to_mcu)
    BY <2>1, Types, HeldType DEF Blocks
  <2>3. to_mcu \in Seq(Block) BY Types
  <2>4. /\ Len(to_mcu') <= k + 1
        /\ k >= 1 => Len(to_mcu') >= 1
        /\ \A i \in 1..Len(to_mcu') :
              to_mcu'[i] = IF i <= k THEN to_mcu[i] ELSE <<b>>[i - k]
    <3>1. /\ \A i \in 1..Len(Write(to_mcu, <<b>>)) :
                 Write(to_mcu, <<b>>)[i]
                    = IF i <= Len(to_mcu) THEN to_mcu[i] ELSE <<b>>[i - Len(to_mcu)]
          /\ Len(Write(to_mcu, <<b>>)) <= Len(to_mcu) + Len(<<b>>)
          /\ Len(to_mcu) >= 1 => Len(Write(to_mcu, <<b>>)) >= 1
      BY <2>3, <1>5, WriteProps
    <3> QED BY <3>1, <2>1, <1>3, <1>5
  <2>5. Len(to_mcu') \in Nat BY <1>1 DEF TypeOK, LineType
  <2>6. AfterFirst(k)
    <3> USE DEF AfterFirst
    <3> TAKE i \in 1..Len(to_mcu')
    <3>1. CASE i <= k BY <3>1, <2>4
    <3>2. CASE ~(i <= k)
      <4>1. i - k = 1 /\ i > k BY <3>2, <2>2, <2>4, <2>5
      <4>2. to_mcu'[i] = b BY <3>2, <4>1, <2>4, <1>5
      <4>3. PICK x \in receive_seq..(send_seq' - 1) : x = send_seq BY <1>3, <1>4
      <4>4. Sent(x)' = b BY <4>3, <1>8
      <4> QED BY <4>1, <4>2, <4>3, <4>4, <1>b
    <3> QED BY <3>1, <3>2
  <2>7. send_seq <= send_seq' BY <1>3, <1>4
  <2>8. KeepsSent BY <1>7 DEF KeepsSent
  <2> QED BY <1>1, <1>3, <1>a, <1>11, <2>2, <2>4, <2>6, <2>7, <2>8, BlocksWrite
<1>16. Messages'
  BY <1>3, <1>a DEF Messages, Held
<1>17. Progress'
  <2>1. NextFrom' = NextFrom BY <1>15, <1>a DEF NextFrom
  <2>2. ASSUME next_sequence <= send_seq'
        PROVE  NextFrom = First(next_sequence)'
    <3>1. CASE next_sequence <= send_seq
      <4>1. PICK x \in receive_seq..send_seq : x = next_sequence BY <3>1, <1>4
      <4>2. First(x)' = First(x) BY <1>9
      <4>3. First(next_sequence)' = First(x)' BY <4>1, <1>a DEF First, Sent
      <4> QED BY <3>1, <4>1, <4>2, <4>3 DEF Progress
    <3>2. CASE ~(next_sequence <= send_seq)
      <4>1. next_sequence = send_seq + 1 BY <2>2, <3>2, <1>3, <1>4
      <4>2. Ahead BY <3>2 DEF InStep
      <4>3. First(next_sequence)' = upto + 1 BY <4>1, <1>3, <1>a DEF First
      <4>4. NextFrom = 1 BY <4>2 DEF Ahead, NextFrom
      <4> QED BY <4>2, <4>3, <4>4, <1>13
    <3> QED BY <3>1, <3>2
  <2>3. First(next_sequence)' = First(next_sequence)'  OBVIOUS
  <2>4. dispatching => cursor = Len(executed) + 1 /\ cursor <= to_mcu'[1].upto + 1
    BY <1>15 DEF Progress
  <2> QED BY <2>1, <2>2, <2>4, <1>a DEF Progress
<1>18. Waiting'
  <2>1. Held' = Held BY <1>a DEF Held
  <2>2. ASSUME NEW e \in notify_queue'
        PROVE  /\ e.num < send_seq'
               /\ e.num >= next_sequence - Held => e.cmd < First(e.num + 1)'
               /\ e.num < next_sequence - Held  => e.cmd <= Len(executed)
    <3>1. CASE e \in notify_queue
      <4>1. e.num \in Nat /\ e.cmd \in Nat BY <3>1, Fields
      <4>2. /\ e.num < send_seq
            /\ e.num >= next_sequence - Held => e.cmd < First(e.num + 1)
            /\ e.num < next_sequence - Held  => e.cmd <= Len(executed)
        BY <3>1 DEF Waiting
      <4>3. ASSUME e.num >= next_sequence - Held
            PROVE  e.cmd < First(e.num + 1)'
        <5>1. e.num + 1 \in receive_seq..send_seq BY <4>1, <4>2, <4>3, <1>4, HeldType
        <5>2. PICK y \in receive_seq..send_seq : y = e.num + 1 BY <5>1
        <5>3. First(y)' = First(y) BY <1>9
        <5> QED BY <4>2, <4>3, <5>2, <5>3
      <4> QED BY <4>1, <4>2, <4>3, <1>3, <1>4
    <3>2. CASE e \notin notify_queue
      <4>1. PICK c \in waiting : e = [cmd |-> c, num |-> send_seq] BY <3>2, <1>3
      <4>2. e.cmd = c /\ e.num = send_seq /\ c \in 0..upto BY <4>1, <1>2
      <4>3. PICK y : y = send_seq + 1 OBVIOUS
      <4>4. First(y)' = upto + 1 BY <4>3, <1>10
      <4>5. First(e.num + 1)' = upto + 1 BY <4>2, <4>3, <4>4
      <4>6. ASSUME e.num < next_sequence - Held PROVE e.cmd <= Len(executed)
        <5>1. ~(next_sequence <= send_seq) BY <4>2, <4>6, <1>4, HeldType
        <5>2. Ahead BY <5>1 DEF InStep
        <5> QED BY <5>2, <4>2, <1>13, <1>4
      <4> QED BY <4>2, <4>5, <4>6, <1>3, <1>4
    <3> QED BY <3>1, <3>2
  <2> QED BY <2>1, <2>2, <1>a DEF Waiting
<1>19. Opened' /\ Told'
  <2>1. Told' BY <1>3, <1>a DEF Told
  <2>2. Opened' BY <1>2, <1>3 DEF Opened
  <2> QED BY <2>1, <2>2
<1> QED
  BY <1>1, <1>11, <1>12, <1>14, <1>15, <1>16, <1>17, <1>18, <1>19

------------------------------------------------------------------------------
(* Receiving *)

\* The bits of the number are enough on this side as well.
LEMMA ReceivedExact ==
    ASSUME IInv, to_host # <<>>
    PROVE  /\ Head(to_host) = to_host[1] /\ 1 \in 1..Len(to_host)
           /\ ReceivedSeq(Head(to_host)) = to_host[1].num
<1> USE DEF IInv
<1>1. Head(to_host) = to_host[1] /\ 1 \in 1..Len(to_host)
  <2>1. to_host \in Seq(Message) BY Types
  <2> QED BY <2>1
<1> DEFINE a == to_host[1].num
<1>2. a \in Nat /\ receive_seq <= a /\ a <= next_sequence
  BY <1>1, Fields DEF Messages
<1>3. next_sequence < receive_seq + SeqMod
  <2>0. /\ next_sequence \in Nat /\ receive_seq \in Nat /\ send_seq \in Nat
        /\ Window \in Nat /\ SeqMod \in Nat /\ Window < SeqMod
        /\ send_seq <= receive_seq + Window /\ 1 <= receive_seq
    BY Types DEF Numbers
  <2>1. CASE Ahead BY <2>1, <2>0 DEF Ahead
  <2>2. CASE next_sequence <= send_seq BY <2>2, <2>0
  <2> QED BY <2>1, <2>2 DEF InStep
<1>4. SeqMod \in Nat \ {0} /\ receive_seq \in Int /\ next_sequence \in Int
  BY Types
<1> HIDE DEF a
<1>5. 0 <= a - receive_seq /\ a - receive_seq < SeqMod /\ a \in Int
  BY <1>2, <1>3, <1>4
<1>6. ((a % SeqMod) - receive_seq) % SeqMod = a - receive_seq
  BY <1>4, <1>5, ModOffset
<1>7. receive_seq + (a - receive_seq) = a BY <1>4, <1>5
<1> QED BY <1>1, <1>6, <1>7 DEF ReceivedSeq, Wire, a

\* The first message is never one that is discarded.
LEMMA NeverDiscarded == IInv => NeverDiscards
<1> SUFFICES ASSUME IInv, to_host # <<>>, NotSent(Head(to_host)) PROVE FALSE
  BY DEF NeverDiscards
<1> USE DEF IInv
<1>1. 1 \in 1..Len(to_host) /\ ReceivedSeq(Head(to_host)) = to_host[1].num
  BY ReceivedExact
<1>2. to_host[1].num > send_seq /\ receive_seq # 1
  BY <1>1 DEF NotSent
<1>3. to_host[1].num <= next_sequence /\ to_host[1].num \in Nat
  BY <1>1, Fields DEF Messages
<1>4. next_sequence <= send_seq
  BY <1>2 DEF InStep, Ahead
<1> QED BY <1>2, <1>3, <1>4, Types

\* The invariant over handle_message: the queue shrinks, or the numbering of a
\* board that was ahead is taken over.
LEMMA InvReceive ==
    ASSUME IInv, HostReceive PROVE IInv'
<1> USE DEF IInv
<1>1. TypeOK' BY TypeReceive
<1>2. to_host # <<>> /\ to_host' = Tail(to_host) BY DEF HostReceive
<1> DEFINE m == Head(to_host)
<1>3. m = to_host[1] /\ 1 \in 1..Len(to_host) /\ ReceivedSeq(m) = m.num
  BY <1>2, ReceivedExact
<1>4. Handle(m)
  BY <1>2, NeverDiscarded DEF NeverDiscards, HostReceive
<1>5. UNCHANGED <<submitted, built, mcu, to_mcu>>
  BY DEF HostReceive
<1>a. UNCHANGED <<next_sequence, dispatching, executed, cursor>>
  BY <1>5 DEF mcu
<1>6. m \in Message /\ m.num \in Nat
  BY <1>3, Fields
<1>7. /\ receive_seq <= m.num /\ m.num <= next_sequence
      /\ m.kind = "ack" => m.num <= next_sequence - Held
      /\ m.kind = "data" /\ m.cmd = 0 => m.num >= 2
  BY <1>3 DEF Messages
<1> HIDE DEF m
<1>8. PICK r \in Nat : r = m.num
  BY <1>6
<1> DEFINE woken == {e \in notify_queue : e.num <= WakeSeq(m)}
<1>9. /\ UpdateReceiveSeq(r)
      /\ notify_queue' = notify_queue \ woken
      /\ notified' = notified \cup ({e.cmd : e \in woken} \ {0})
      /\ IF \E e \in woken : e.cmd = 0 THEN AfterIdentify
         ELSE UNCHANGED <<session, retries>>
      /\ identified' = (identified \/ (m.kind = "data" /\ m.cmd = 0))
  BY <1>3, <1>4, <1>8 DEF Handle
<1>b. WakeSeq(m) = r - 1 - (IF m.kind = "data" THEN 1 ELSE 0)
  BY <1>3, <1>8 DEF WakeSeq
<1>c. /\ send_seq \in Nat /\ receive_seq \in Nat /\ next_sequence \in Nat
      /\ built \in Nat /\ Window \in Nat /\ SeqMod \in Nat /\ Window < SeqMod
      /\ receive_seq <= send_seq /\ 1 <= receive_seq /\ send_seq <= receive_seq + Window
      /\ Len(sent_queue) = send_seq - receive_seq /\ Len(executed) \in Nat
      /\ receive_seq <= next_sequence /\ receive_seq <= r /\ r <= next_sequence
  BY <1>7, <1>8, Types DEF Numbers
<1>d. receive_seq' = r /\ Held' = Held
  BY <1>9, <1>a DEF UpdateReceiveSeq, Held
<1>10. \A e \in woken : e.cmd \in Nat /\ e.cmd <= Len(executed)
  <2> TAKE e \in woken
  <2>1. e \in notify_queue /\ e.num \in Nat /\ e.cmd \in Nat /\ e.num <= WakeSeq(m)
    BY Fields
  <2>2. e.num < next_sequence - Held
    <3>1. CASE m.kind = "data" BY <3>1, <2>1, <1>b, <1>c, HeldType
    <3>2. CASE m.kind = "ack"
      <4>1. r <= next_sequence - Held BY <3>2, <1>7, <1>8
      <4>2. WakeSeq(m) = r - 1 BY <3>2, <1>b, <1>c
      <4> QED BY <4>1, <4>2, <2>1, <1>c, HeldType
    <3> QED BY <3>1, <3>2, <1>6 DEF Message
  <2> QED BY <2>1, <2>2 DEF Waiting
<1> HIDE DEF woken
<1>11. Told'
  <2>1. {e.cmd : e \in woken} \ {0} \subseteq 1..Len(executed)
    BY <1>10, <1>c
  <2> QED BY <2>1, <1>9, <1>a DEF Told
<1>12. Messages'
  <2> DEFINE q == Tail(to_host)
  <2>1. /\ Len(q) = Len(to_host) - 1 /\ Len(to_host) \in Nat
        /\ \A i \in 1..Len(q) : q[i] = to_host[i + 1]
    BY <1>2, TailProps, Types
  <2> HIDE DEF q
  <2>2. \A i \in 1..Len(q) : i + 1 \in 1..Len(to_host) /\ 1 < i + 1
    BY <2>1
  <2>3. ASSUME NEW i \in 1..Len(q)
        PROVE  /\ r <= q[i].num /\ q[i].num <= next_sequence
               /\ q[i].kind = "ack" => q[i].num <= next_sequence - Held
               /\ q[i].kind = "data" /\ q[i].cmd = 0 => q[i].num >= 2
    BY <2>1, <2>2, <1>3, <1>8 DEF Messages
  <2>4. ASSUME NEW i \in 1..Len(q), NEW j \in 1..Len(q), i < j
        PROVE  q[i].num <= q[j].num
    <3>1. i + 1 \in 1..Len(to_host) /\ j + 1 \in 1..Len(to_host) /\ i + 1 < j + 1
      BY <2>2, <2>4
    <3> QED BY <3>1, <2>1 DEF Messages
  <2>5. to_host' = q BY <1>2 DEF q
  <2> QED BY <2>3, <2>4, <2>5, <1>a, <1>d DEF Messages
<1>13. Opened'
  <2>1. identified' => receive_seq' >= 2
    <3>1. CASE identified BY <3>1, <1>c, <1>d DEF Opened
    <3>2. CASE m.kind = "data" /\ m.cmd = 0 BY <3>2, <1>7, <1>8, <1>d
    <3> QED BY <3>1, <3>2, <1>9
  <2>2. session' = "open" => identified'
    BY <1>9 DEF Opened, AfterIdentify
  <2>3. built' <= submitted' BY <1>5 DEF Opened
  <2> QED BY <2>1, <2>2, <2>3 DEF Opened
<1>14. CASE r <= send_seq
  <2>1. /\ send_seq' = send_seq
        /\ sent_queue' = SubSeq(sent_queue, (r - receive_seq) + 1, Len(sent_queue))
    BY <1>14, <1>9, <1>c DEF UpdateReceiveSeq
  <2>2. /\ Len(sent_queue') = send_seq - r
        /\ \A i \in 1..(send_seq - r) : sent_queue'[i] = sent_queue[i + (r - receive_seq)]
    <3>1. PICK k \in 0..Len(sent_queue) : k = r - receive_seq BY <1>14, <1>c
    <3>2. sent_queue \in Seq(Block) BY Types
    <3>3. /\ Len(sent_queue') = Len(sent_queue) - k
          /\ \A i \in 1..(Len(sent_queue) - k) : sent_queue'[i] = sent_queue[i + k]
      BY <2>1, <3>1, <3>2, DropProps
    <3>4. Len(sent_queue) - k = send_seq - r BY <3>1, <1>c
    <3> QED BY <3>1, <3>3, <3>4
  <2>3. \A x \in r..(send_seq - 1) : Sent(x)' = Sent(x)
    <3> TAKE x \in r..(send_seq - 1)
    <3>1. x - r + 1 \in 1..(send_seq - r) BY <1>c
    <3>2. (x - r + 1) + (r - receive_seq) = x - receive_seq + 1 BY <1>c
    <3>3. Sent(x)' = sent_queue'[x - r + 1] BY <1>d DEF Sent
    <3> QED BY <3>1, <3>2, <3>3, <2>2 DEF Sent
  <2>4. \A x \in r..send_seq : First(x)' = First(x)
    <3> TAKE x \in r..send_seq
    <3>1. CASE x = send_seq BY <3>1, <2>1, <1>5 DEF First
    <3>2. CASE x # send_seq
      <4>1. x \in r..(send_seq - 1) BY <3>2, <1>c
      <4>2. Sent(x)' = Sent(x) BY <4>1, <2>3
      <4> QED BY <3>2, <4>2, <2>1 DEF First
    <3> QED BY <3>1, <3>2
  <2>5. Numbers'
    BY <1>14, <1>a, <1>c, <1>d, <2>1, <2>2 DEF Numbers
  <2>6. Consecutive'
    <3> SUFFICES ASSUME NEW x \in r..(send_seq - 1)
                 PROVE  /\ (Sent(x)').num = x /\ (Sent(x)').ok
                        /\ 1 <= (Sent(x)').from /\ (Sent(x)').from <= (Sent(x)').upto + 1
                        /\ (Sent(x)').upto <= built
                        /\ (Sent(x)').upto + 1 = First(x + 1)'
      BY <2>1, <1>d, <1>5 DEF Consecutive
    <3>1. x \in receive_seq..(send_seq - 1) /\ x + 1 \in r..send_seq BY <1>c
    <3>2. Sent(x)' = Sent(x) BY <2>3
    <3>3. PICK y \in r..send_seq : y = x + 1 BY <3>1
    <3>4. First(y)' = First(y) BY <2>4
    <3>5. First(x + 1)' = First(x + 1) BY <3>3, <3>4
    <3> QED BY <3>1, <3>2, <3>5 DEF Consecutive
  <2>7. InStep'
    <3>1. CASE next_sequence <= send_seq BY <3>1, <2>1, <1>a DEF InStep
    <3>2. CASE ~(next_sequence <= send_seq)
      <4>1. Ahead BY <3>2 DEF InStep
      <4>2. r = next_sequence BY <4>1, <1>3, <1>8 DEF Ahead
      <4> QED BY <3>2, <4>2, <1>14
    <3> QED BY <3>1, <3>2
  <2>8. Blocks'
    <3>1. ASSUME NEW i \in 1..Len(to_mcu), to_mcu[i].ok, next_sequence <= to_mcu[i].num
          PROVE  to_mcu[i] = sent_queue'[to_mcu[i].num - r + 1]
      <4>1. PICK x \in Nat : x = to_mcu[i].num BY Fields
      <4>2. to_mcu[i] = Sent(x) /\ x < send_seq BY <3>1, <4>1 DEF Blocks
      <4>3. x \in r..(send_seq - 1) BY <3>1, <4>1, <4>2, <1>c
      <4>4. Sent(x)' = Sent(x) BY <4>3, <2>3
      <4>5. Sent(x)' = sent_queue'[x - r + 1] BY <1>d DEF Sent
      <4> QED BY <4>1, <4>2, <4>4, <4>5
    <3>2. \A i \in 1..Len(to_mcu) : 
            /\ 1 <= to_mcu[i].num /\ to_mcu[i].num < send_seq
            /\ next_sequence < to_mcu[i].num + SeqMod
      BY DEF Blocks
    <3>3. \A i, j \in 1..Len(to_mcu) : i < j => to_mcu[i].num < to_mcu[j].num + Window
      BY DEF Blocks
    <3>4. dispatching => Len(to_mcu) >= 1 /\ to_mcu[1].num = next_sequence - 1
      BY DEF Blocks
    <3> QED BY <3>1, <3>2, <3>3, <3>4, <2>1, <1>5, <1>a, <1>d DEF Blocks, Sent
  <2>9. Progress'
    <3>1. NextFrom' = NextFrom BY <1>5, <1>a DEF NextFrom
    <3>2. ASSUME next_sequence <= send_seq PROVE NextFrom = First(next_sequence)'
      <4>1. PICK x \in r..send_seq : x = next_sequence BY <3>2, <1>c
      <4>2. First(x)' = First(x) BY <2>4
      <4>3. First(next_sequence)' = First(x)' BY <4>1, <1>a DEF First, Sent
      <4> QED BY <3>2, <4>1, <4>2, <4>3 DEF Progress
    <3> QED BY <3>1, <3>2, <2>1, <1>5, <1>a DEF Progress
  <2>10. Waiting'
    <3>1. ASSUME NEW e \in notify_queue
          PROVE  /\ e.num < send_seq
                 /\ e.num >= next_sequence - Held => e.cmd < First(e.num + 1)'
                 /\ e.num < next_sequence - Held  => e.cmd <= Len(executed)
      <4>1. e.num \in Nat /\ e.cmd \in Nat BY Fields
      <4>2. /\ e.num < send_seq
            /\ e.num >= next_sequence - Held => e.cmd < First(e.num + 1)
            /\ e.num < next_sequence - Held  => e.cmd <= Len(executed)
        BY DEF Waiting
      <4>3. ASSUME e.num >= next_sequence - Held PROVE e.cmd < First(e.num + 1)'
        <5>1. e.num + 1 \in r..send_seq BY <4>1, <4>2, <4>3, <1>c, HeldType
        <5>2. PICK y \in r..send_seq : y = e.num + 1 BY <5>1
        <5>3. First(y)' = First(y) BY <2>4
        <5> QED BY <4>2, <4>3, <5>2, <5>3
      <4> QED BY <4>2, <4>3
    <3> QED BY <3>1, <2>1, <1>9, <1>a, <1>d DEF Waiting
  <2> QED
    BY <1>1, <1>11, <1>12, <1>13, <2>5, <2>6, <2>7, <2>8, <2>9, <2>10
<1>15. CASE ~(r <= send_seq)
  <2>1. sent_queue' = <<>> /\ send_seq' = r
    BY <1>15, <1>9, <1>c DEF UpdateReceiveSeq
  <2>2. Ahead BY <1>15, <1>c DEF InStep
  <2>3. r = next_sequence BY <2>2, <1>3, <1>8 DEF Ahead
  <2>4. Numbers' BY <1>a, <1>c, <1>d, <2>1, <2>3 DEF Numbers
  <2>5. Consecutive'
    BY <2>1, <1>c, <1>d DEF Consecutive
  <2>6. InStep' BY <1>c, <1>a, <2>1, <2>3 DEF InStep
  <2>7. Blocks'
    <3>1. \A i \in 1..Len(to_mcu) : 
            /\ 1 <= to_mcu[i].num /\ to_mcu[i].num < r
            /\ next_sequence < to_mcu[i].num + SeqMod
            /\ ~(next_sequence <= to_mcu[i].num)
      <4> TAKE i \in 1..Len(to_mcu)
      <4>1. to_mcu[i].num \in Nat BY Fields
      <4>2. /\ 1 <= to_mcu[i].num /\ to_mcu[i].num < send_seq
            /\ next_sequence < to_mcu[i].num + SeqMod
        BY DEF Blocks
      <4> QED BY <4>1, <4>2, <1>15, <1>c, <2>3
    <3>2. \A i, j \in 1..Len(to_mcu) : i < j => to_mcu[i].num < to_mcu[j].num + Window
      BY DEF Blocks
    <3> QED BY <3>1, <3>2, <2>1, <2>2, <1>5, <1>a DEF Blocks, Ahead
  <2>8. Progress'
    <3>1. NextFrom' = 1 BY <2>2, <1>a DEF NextFrom, Ahead
    <3>2. First(next_sequence)' = 1 BY <2>1, <2>2, <2>3, <1>5, <1>a DEF First, Ahead
    <3> QED BY <3>1, <3>2, <2>2, <1>a DEF Progress, Ahead
  <2>9. Waiting'
    <3>1. ASSUME NEW e \in notify_queue
          PROVE  e.num \in Nat /\ e.cmd = 0 /\ e.num < r
      BY Fields, <2>2, <1>15, <1>c DEF Waiting, Ahead
    <3>2. Held = 0 BY <2>2, HeldType DEF Ahead
    <3> QED BY <3>1, <3>2, <2>1, <2>3, <1>9, <1>a, <1>c, <1>d DEF Waiting
  <2> QED
    BY <1>1, <1>11, <1>12, <1>13, <2>4, <2>5, <2>6, <2>7, <2>8, <2>9
<1> QED BY <1>14, <1>15

------------------------------------------------------------------------------
(* The theorems *)

\* The invariant over every step.
LEMMA InvStep == ASSUME IInv, [Next]_vars PROVE IInv'
  BY InvCaller, InvNak, InvAccept, InvRun, InvAck, InvReport, InvLoseBlock,
     InvGarbleBlock, InvLoseMessage, InvResend, InvSend, InvReceive
     DEF Next, Host, Mcu

\* The inductive invariant holds in every state of every behaviour.
THEOREM Invariance == Spec => []IInv
<1>1. IInv /\ [Next]_vars => IInv' BY InvStep
<1> QED BY InvInit, <1>1, PTL DEF Spec

\* Type correctness of the link, for every value of the constants: among others
\* the attempts of SerialRetryCommand never run below zero.
THEOREM TypeCorrect == Spec => []TypeOK
<1>1. IInv => TypeOK BY DEF IInv
<1> QED BY Invariance, <1>1, PTL

\* handle_message never discards a message as one for a block not sent, however
\* often the four bits of the numbers wrap around and whatever the line loses.
THEOREM DiscardsNothing == Spec => []NeverDiscards
  BY Invariance, NeverDiscarded, PTL

\* A step of the link is a step of the stream, or changes nothing of it.
LEMMA StreamStep ==
    ASSUME IInv, IInv', [Next]_vars PROVE [Stream!Next]_(Stream!vars)
<1> USE DEF Stream!Next, Stream!vars, IInv
<1>1. CASE Submit
  BY <1>1 DEF Submit, mcu, queues, Stream!Submit
<1>2. CASE McuRun
  <2>1. /\ executed' = Append(executed, Len(executed) + 1)
        /\ UNCHANGED <<submitted, notified>>
    BY <1>2 DEF McuRun, Progress, mcuOnly, caller, queues
  <2>2. Len(executed) < submitted
    <3>1. Len(executed') = Len(executed) + 1 /\ Len(executed) \in Nat BY <2>1, Types
    <3>2. dispatching /\ cursor = Len(executed) + 1 /\ cursor <= to_mcu[1].upto
      BY <1>2 DEF McuRun, Progress
    <3>3. next_sequence <= send_seq BY <3>2 DEF InStep, Ahead
    <3>4. to_mcu[1].upto + 1 = First(next_sequence)
      BY <3>2, <3>3 DEF Progress, NextFrom
    <3>5. next_sequence \in receive_seq..send_seq BY <3>3, Types DEF Numbers
    <3>6. First(next_sequence) <= built + 1 /\ First(next_sequence) \in Nat
      BY <3>5, FirstType
    <3>7. to_mcu[1].upto \in Nat
      <4>1. 1 \in 1..Len(to_mcu) BY <3>2, Types DEF Blocks
      <4> QED BY <4>1, Fields
    <3>8. Len(executed) < built
      <4>1. built \in Nat /\ cursor \in Nat /\ Len(executed) \in Nat BY Types
      <4>2. cursor <= built BY <3>2, <3>4, <3>6, <3>7, <4>1
      <4> QED BY <3>2, <4>1, <4>2
    <3> QED BY <3>1, <3>8, Types DEF Opened
  <2> QED BY <2>1, <2>2 DEF Stream!Execute
<1>3. CASE HostReceive
  <2>1. UNCHANGED <<submitted, executed>> BY <1>3 DEF HostReceive, mcu
  <2>2. notified \subseteq notified' BY <1>3 DEF HostReceive, Handle
  <2>3. notified' \subseteq 1..Len(executed) BY <2>1 DEF Told
  <2> QED BY <2>1, <2>2, <2>3 DEF Stream!Notify
<1>4. CASE \/ ConnectTimeout \/ SendIdentify \/ SendCommands
           \/ McuAccept \/ McuAck \/ McuNak \/ McuBad \/ McuReport
           \/ LoseBlock \/ GarbleBlock \/ LoseMessage \/ UNCHANGED vars
  <2>1. UNCHANGED <<submitted, executed, notified>>
    BY <1>4 DEF ConnectTimeout, SendIdentify, SendCommands, SendBlock, McuAccept, McuAck,
        McuNak, McuBad, McuReport, LoseBlock, GarbleBlock, LoseMessage, Fault, mcuOnly, vars,
        mcu, caller, queues
  <2> QED BY <2>1
<1>5. CASE ResendOnNak \/ ResendOnTimeout
  BY <1>5 DEF ResendOnNak, ResendOnTimeout, Resend, mcu, caller
<1> QED BY <1>1, <1>2, <1>3, <1>4, <1>5 DEF Next, Host, Mcu

\* The link implements the stream of commands: over a line that loses and
\* garbles, with any window smaller than the numbers it can tell apart, the
\* firmware runs each command once and in order, and serialqueue.c tells of
\* completion only after the command ran.
THEOREM ImplementsStream == Spec => StreamSafe
<1>1. Init => Stream!Init BY DEF Init, Stream!Init
<1>2. IInv /\ IInv' /\ [Next]_vars => [Stream!Next]_(Stream!vars) BY StreamStep
<1> QED BY <1>1, <1>2, Invariance, PTL DEF Spec, StreamSafe, Stream!Safe

\* The timer over every step.
LEMMA TimerStep ==
    ASSUME TypeOK, TimerArmed, Next PROVE TimerArmed'
<1>1. CASE SendIdentify \/ SendCommands
  <2>1. PICK upto, waiting : SendBlock(upto, waiting)
    BY <1>1 DEF SendIdentify, SendCommands
  <2>2. PICK b : /\ sent_queue' = Append(sent_queue, b)
                 /\ retransmit_timer' = IF sent_queue = <<>> THEN "set" ELSE retransmit_timer
    BY <2>1 DEF SendBlock
  <2>3. sent_queue' # <<>> /\ sent_queue' \in Seq(Block)
    <3>1. sent_queue' \in Seq(Block) BY <1>1, TypeSend DEF TypeOK, HostType
    <3>2. sent_queue \in Seq(Block) BY Types
    <3> QED BY <2>2, <3>1, <3>2
  <2> QED BY <2>2, <2>3 DEF TimerArmed
<1>2. CASE ResendOnNak \/ ResendOnTimeout
  BY <1>2 DEF ResendOnNak, ResendOnTimeout, Resend, TimerArmed
<1>3. CASE HostReceive
  <2> DEFINE m == Head(to_host)
             r == ReceivedSeq(m)
  <2>1. CASE NotSent(m)
    BY <1>3, <2>1 DEF HostReceive, TimerArmed
  <2>2. CASE ~NotSent(m)
    <3>1. UpdateReceiveSeq(r) /\ UpdateTimer(m, r)
      BY <1>3, <2>2 DEF HostReceive, Handle
    <3>2. r = receive_seq => sent_queue' = sent_queue
      <4> SUFFICES ASSUME r = receive_seq PROVE sent_queue' = sent_queue OBVIOUS
      <4> HIDE DEF r
      <4>1. receive_seq - receive_seq = 0 /\ sent_queue \in Seq(Block) BY Types
      <4>2. sent_queue' = SubSeq(sent_queue, 0 + 1, Len(sent_queue))
        BY <3>1, <4>1 DEF UpdateReceiveSeq
      <4> QED BY <4>1, <4>2
    <3> QED BY <3>1, <3>2 DEF UpdateTimer, TimerArmed
  <2> QED BY <2>1, <2>2
<1>4. CASE \/ Submit \/ ConnectTimeout
           \/ McuAccept \/ McuRun \/ McuAck \/ McuNak \/ McuBad \/ McuReport
           \/ LoseBlock \/ GarbleBlock \/ LoseMessage
  <2>1. UNCHANGED <<retransmit_timer, sent_queue>>
    BY <1>4 DEF Submit, ConnectTimeout, McuAccept, McuRun, McuAck,
        McuNak, McuBad, McuReport, LoseBlock, GarbleBlock, LoseMessage, Fault, mcuOnly, queues
  <2> QED BY <2>1 DEF TimerArmed
<1> QED BY <1>1, <1>2, <1>3, <1>4 DEF Next, Host, Mcu

\* The retransmit timer of serialqueue.c is armed exactly while blocks are
\* unacknowledged.
THEOREM TimerIsArmed == Spec => []TimerArmed
<1>1. Init => TimerArmed BY DEF Init, TimerArmed
<1>2. TypeOK /\ TimerArmed /\ [Next]_vars => TimerArmed'
  <2>1. CASE UNCHANGED vars BY <2>1 DEF vars, queues, TimerArmed
  <2> QED BY <2>1, TimerStep
<1> QED BY <1>1, <1>2, TypeCorrect, PTL DEF Spec
==============================================================================
