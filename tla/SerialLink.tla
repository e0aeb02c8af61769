----------------------------- MODULE SerialLink ------------------------------
(***************************************************************************)
(* The link between klippy and the firmware of the printer's board: the    *)
(* host half (klippy/chelper/serialqueue.c, with the session opened by     *)
(* klippy/serialhdl.py), the firmware half (src/command.c and the console  *)
(* of src/generic/serial_irq.c) and the line between them, which loses and *)
(* garbles what it carries.                                                *)
(*                                                                         *)
(* The host packs commands into blocks, numbers the blocks and keeps up to *)
(* Window of them unacknowledged.  Only the number modulo SeqMod goes over *)
(* the line (4 bits: MESSAGE_SEQ_MASK).  The firmware runs a block only if *)
(* it carries the number it expects, and stamps everything it sends with   *)
(* the number it expects next: an empty message is an acknowledgement, and *)
(* a repeated one a request to send again.                                 *)
(*                                                                         *)
(* A block and a message keep the full number in the field num; the code   *)
(* at the other end reads it through Wire only.                            *)
(***************************************************************************)
EXTENDS Integers, Sequences

CONSTANTS
    SeqMod,         \* MESSAGE_SEQ_MASK + 1
    Window,         \* MAX_PENDING_BLOCKS
    PerBlock,       \* commands that fit in one block
    ReceiveWindow,  \* RECEIVE_WINDOW of the firmware, in units of BlockLen; 0: none
    Queries,        \* the commands whose caller waits for completion and an answer
    Retries,        \* attempts SerialRetryCommand makes after the first
    TxCap,          \* messages that fit in the firmware's transmit_buf
    LineCap,        \* blocks that fit in the line (kernel buffer and receive_buf)
    MaxCmds,        \* bound on the commands handed over
    MaxReports,     \* bound on the unsolicited messages of the firmware
    MaxFaults       \* bound on the faults of the line

ASSUME LinkAssumption ==
    /\ SeqMod \in Nat /\ Window \in Nat \ {0} /\ Window < SeqMod
    /\ PerBlock \in Nat \ {0} /\ ReceiveWindow \in Nat
    /\ Queries \subseteq Nat \ {0} /\ Retries \in Nat
    /\ TxCap \in Nat /\ LineCap \in Nat \ {0}
    /\ MaxCmds \in Nat /\ MaxReports \in Nat /\ MaxFaults \in Nat

VARIABLES
    \* the caller: serialhdl.py
    session,        \* "send", "wait": identify to send / sent; "open"; "closed"
    identified,     \* an identify_response has come in
    retries,        \* attempts left
    submitted,      \* commands handed over so far: 1..submitted
    \* the host queue: serialqueue.c
    built,          \* commands packed into blocks so far
    send_seq, receive_seq, last_ack_seq, ignore_nak_seq, retransmit_seq,
    sent_queue,     \* blocks sent and not acknowledged
    last_ack_bytes, \* length of the last block acknowledged
    last_receive_sent_time, \* the block whose sending time it is; 0: none
    retransmit_timer,       \* "never", "set" or "now" (PR_NEVER, a time, PR_NOW)
    notify_queue,   \* commands waiting for completion, with their block's number
    notified,       \* commands whose completion was put on receive_queue
    answered,       \* answers put on receive_queue
    resent,         \* (history) numbers of the blocks sent more than once
    naks,           \* (history) times a nak had each block of sent_queue sent again
    \* the firmware: command.c, serial_irq.c
    next_sequence,  \* number of the block it expects
    need_valid,     \* CF_NEED_VALID of sync_state
    dispatching,    \* console_task is dispatching the block at the head
    cursor,         \* the next command of that block to run
    executed,       \* (history) commands run
    \* the line
    to_mcu, to_host, reports, faults

caller == <<session, identified, retries, submitted>>
seqs   == <<send_seq, receive_seq, last_ack_seq, ignore_nak_seq, retransmit_seq>>
queues == <<built, sent_queue, last_ack_bytes, last_receive_sent_time,
            retransmit_timer, notify_queue, notified, answered, resent, naks>>
mcu    == <<next_sequence, need_valid, dispatching, cursor, executed>>
line   == <<to_mcu, to_host, reports, faults>>
vars   == <<caller, seqs, queues, mcu, line>>

------------------------------------------------------------------------------
(* The line *)

\* The bits of a number that are sent: MESSAGE_SEQ_MASK.
Wire(num) == num % SeqMod

\* An identify block carries no command (upto < from) and counts for one.
BlockLen(b) == 1 + (IF b.upto < b.from THEN 1 ELSE b.upto - b.from + 1)
MaxLen == 1 + PerBlock

\* A board that tells its RECEIVE_WINDOW tells 192 or 495 bytes; a block has 64
\* at most (MESSAGE_MAX).  Those that do not tell are not limited.
ASSUME BufferAssumption == ReceiveWindow = 0 \/ ReceiveWindow >= 2 * MaxLen

Bytes(q) ==
    LET sum[i \in 0..Len(q)] == IF i = 0 THEN 0 ELSE sum[i - 1] + BlockLen(q[i])
    IN  sum[Len(q)]

\* do_write: the line takes what it has room for, a short write is not noticed.
Write(q, s) ==
    [i \in 1..(IF Len(q) + Len(s) <= LineCap THEN Len(q) + Len(s) ELSE LineCap) |->
        IF i <= Len(q) THEN q[i] ELSE s[i - Len(q)]]

\* console_sendf: a message that transmit_buf has no room for is dropped.
Post(q, m) == IF Len(q) < TxCap THEN Append(q, m) ELSE q

NoCmd          == -1
Ack(num)       == [kind |-> "ack",  num |-> num, cmd |-> 0]
Data(num, cmd) == [kind |-> "data", num |-> num, cmd |-> cmd]

\* The block that console_task is working on is in receive_buf already.
Held == IF dispatching THEN 1 ELSE 0

------------------------------------------------------------------------------
Init ==
    /\ session = "send" /\ identified = FALSE /\ retries = Retries /\ submitted = 0
    /\ built = 0
    /\ send_seq = 1 /\ receive_seq = 1 /\ last_ack_seq = 0
    /\ ignore_nak_seq = 0 /\ retransmit_seq = 0
    /\ sent_queue = <<>> /\ last_ack_bytes = 0 /\ last_receive_sent_time = 0
    /\ retransmit_timer = "never"
    /\ notify_queue = {} /\ notified = {} /\ answered = {}
    /\ resent = {} /\ naks = <<>>
    \* the board may have been in use before: any of the SeqMod numbers
    /\ next_sequence \in 1..SeqMod
    /\ need_valid = FALSE /\ dispatching = FALSE /\ cursor = 1 /\ executed = <<>>
    /\ to_mcu = <<>> /\ to_host = <<>> /\ reports = 0 /\ faults = 0

------------------------------------------------------------------------------
(* The host *)

\* A caller hands over a command (serialqueue_send); only once the data
\* dictionary has been read.
Submit ==
    /\ session = "open" /\ submitted < MaxCmds
    /\ submitted' = submitted + 1
    /\ UNCHANGED <<session, identified, retries, seqs, queues, mcu, line>>

\* Mutant: one block too many.
WindowOpenWide == send_seq - receive_seq <= Window

\* Mutant: the block known to be received counts as popped.
WindowOpenEager ==
    /\ send_seq - receive_seq < Window
    /\ send_seq > receive_seq /\ ReceiveWindow > 0 =>
          Bytes(sent_queue) + MaxLen <= ReceiveWindow

\* check_send_command: may another block be sent before an acknowledgement?
WindowOpen ==
    /\ send_seq - receive_seq < Window
    /\ send_seq > receive_seq /\ ReceiveWindow > 0 =>
          Bytes(sent_queue) + MaxLen
            + (IF last_ack_seq < receive_seq THEN last_ack_bytes ELSE 0)
          <= ReceiveWindow

\* build_and_send_command: pack what fits, number it, keep it, write it.
SendBlock(upto, waiting) ==
    LET b == [num |-> send_seq, from |-> built + 1, upto |-> upto, ok |-> TRUE]
    IN  /\ WindowOpen
        /\ retransmit_timer # "now"   \* the retransmit timer is served first
        /\ built' = upto
        /\ notify_queue' = notify_queue
              \cup {[cmd |-> c, num |-> send_seq] : c \in waiting}
        /\ sent_queue' = Append(sent_queue, b) /\ naks' = Append(naks, 0)
        /\ retransmit_timer' = IF sent_queue = <<>> THEN "set" ELSE retransmit_timer
        /\ send_seq' = send_seq + 1
        /\ to_mcu' = Write(to_mcu, <<b>>)
        /\ UNCHANGED <<identified, retries, submitted, receive_seq, last_ack_seq,
                       ignore_nak_seq, retransmit_seq, last_ack_bytes,
                       last_receive_sent_time, notified, answered, resent, mcu,
                       to_host, reports, faults>>

\* command_event with the identify of _get_identify_data.
SendIdentify ==
    /\ session = "send"
    /\ SendBlock(built, {0})
    /\ session' = "wait"

\* command_event with commands.
SendCommands ==
    /\ session = "open" /\ built < submitted
    /\ LET upto == IF submitted - built <= PerBlock THEN submitted ELSE built + PerBlock
       IN  SendBlock(upto, (built + 1)..upto \cap Queries)
    /\ UNCHANGED session

\* Mutant: the buffer is flushed and not written again.
ResendNothing(k) ==
    /\ retransmit_seq' = send_seq
    /\ retransmit_timer' = "set"
    /\ resent' = resent \cup {sent_queue[i].num : i \in DOMAIN sent_queue}
    /\ to_mcu' = [i \in 1..k |-> to_mcu[i]]
    /\ UNCHANGED <<caller, built, send_seq, receive_seq, last_ack_seq, sent_queue,
                   last_ack_bytes, last_receive_sent_time, notify_queue, notified,
                   answered, mcu, to_host, reports>>

\* retransmit_event: everything unacknowledged is written again.  The flush
\* drops what the kernel has not sent yet, the blocks after the first k.
Resend(k) ==
    /\ retransmit_seq' = send_seq
    /\ retransmit_timer' = "set"
    /\ resent' = resent \cup {sent_queue[i].num : i \in DOMAIN sent_queue}
    /\ to_mcu' = Write([i \in 1..k |-> to_mcu[i]], sent_queue)
    /\ UNCHANGED <<caller, built, send_seq, receive_seq, last_ack_seq, sent_queue,
                   last_ack_bytes, last_receive_sent_time, notify_queue, notified,
                   answered, mcu, to_host, reports>>

\* Mutant: every nak of a new block is acted upon.
IgnoreNakOnce == receive_seq

\* The naks that are not acted upon any more after this one.
IgnoreNak == IF receive_seq < retransmit_seq THEN retransmit_seq ELSE receive_seq

\* ... because of a nak.
ResendOnNak ==
    /\ session # "closed" /\ retransmit_timer = "now"
    /\ ignore_nak_seq' = IgnoreNak
    /\ naks' = [i \in DOMAIN naks |-> naks[i] + 1]
    /\ \E k \in Held..Len(to_mcu) : Resend(k)
    /\ UNCHANGED faults

\* ... because no acknowledgement came within the timeout.  Nothing is on the
\* way any more, or the timeout was too short: it doubles each time, so it is
\* too short only so often.
ResendOnTimeout ==
    /\ session # "closed" /\ retransmit_timer = "set"
    /\ ignore_nak_seq' = send_seq
    /\ UNCHANGED naks
    /\ \E k \in Held..Len(to_mcu) : Resend(k)
    /\ IF to_mcu = <<>> /\ to_host = <<>> THEN UNCHANGED faults
       ELSE faults < MaxFaults /\ faults' = faults + 1

\* handle_message: the full number, rseq, meant by the bits received.
ReceivedSeq(m) == receive_seq + ((Wire(m.num) - receive_seq) % SeqMod)

\* Mutant: an answer tells the completion of its own block.
WakeSeqEarly(m) == ReceivedSeq(m) - 1

\* Mutant: the number received before this message.
WakeSeqLate(m) == receive_seq - 1

\* The highest block number whose completion a message tells.  An answer is
\* sent while its block is still being dispatched.
WakeSeq(m) == ReceivedSeq(m) - 1 - (IF m.kind = "data" THEN 1 ELSE 0)

\* handle_message: a message with a number that cannot be is dropped.
NotSent(m) ==
    /\ ReceivedSeq(m) # receive_seq
    /\ ReceivedSeq(m) > send_seq /\ receive_seq # 1

\* update_receive_seq, up to the timer: rseq acknowledges the first blocks of
\* sent_queue, or shows where a board in use before is in its numbering.
UpdateReceiveSeq(rseq) ==
    LET k == rseq - receive_seq
    IN  /\ receive_seq' = rseq
        /\ IF k <= Len(sent_queue)
           THEN /\ sent_queue' = SubSeq(sent_queue, k + 1, Len(sent_queue))
                /\ naks' = SubSeq(naks, k + 1, Len(naks))
                /\ IF k = 0 THEN UNCHANGED <<last_ack_bytes, last_receive_sent_time>>
                   ELSE /\ last_ack_bytes' = BlockLen(sent_queue[k])
                        /\ last_receive_sent_time' = sent_queue[k].num
                /\ UNCHANGED send_seq
           ELSE /\ sent_queue' = <<>> /\ naks' = <<>>
                /\ send_seq' = rseq
                /\ last_receive_sent_time' = 0
                /\ UNCHANGED last_ack_bytes

\* Mutant: the timer is set anew whatever is left.
UpdateTimerAlways(m, rseq) ==
    retransmit_timer' =
        IF m.kind = "ack" /\ last_ack_seq >= rseq /\ rseq > ignore_nak_seq
             /\ sent_queue' # <<>>     THEN "now"
        ELSE IF rseq = receive_seq     THEN retransmit_timer
        ELSE "set"

\* ... and the timer: disarmed or set anew by an acknowledgement of something
\* new, due at once after a repeated acknowledgement that is not ignored.
UpdateTimer(m, rseq) ==
    retransmit_timer' =
        IF m.kind = "ack" /\ last_ack_seq >= rseq /\ rseq > ignore_nak_seq
             /\ sent_queue' # <<>>     THEN "now"
        ELSE IF rseq = receive_seq     THEN retransmit_timer
        ELSE IF sent_queue' = <<>>     THEN "never"
        ELSE "set"

\* Mutant: the attempts are counted and not limited.
AfterIdentifyForever ==
    IF identified THEN session' = "open" /\ UNCHANGED retries
    ELSE session' = "send" /\ retries' = retries - 1

\* SerialRetryCommand: at the completion of an identify, the answer is there
\* or the command is sent again.
AfterIdentify ==
    IF identified THEN session' = "open" /\ UNCHANGED retries
    ELSE IF retries > 0 THEN session' = "send" /\ retries' = retries - 1
    ELSE session' = "closed" /\ UNCHANGED retries

\* Mutant: the last sending time, retransmitted or not.
SentTimeAlways(rseq) == last_receive_sent_time'

\* The sending time reported with an answer: none after a retransmission.
SentTime(rseq) == IF rseq > retransmit_seq THEN last_receive_sent_time' ELSE 0

\* The rest of handle_message.  The numbers in notify_queue only grow, so a set
\* does for the list.
Handle(m) ==
    LET rseq  == ReceivedSeq(m)
        woken == {e \in notify_queue : e.num <= WakeSeq(m)}
    IN  /\ UpdateReceiveSeq(rseq)
        /\ UpdateTimer(m, rseq)
        /\ notify_queue' = notify_queue \ woken
        /\ notified' = notified \cup ({e.cmd : e \in woken} \ {0})
        /\ IF \E e \in woken : e.cmd = 0 THEN AfterIdentify
           ELSE UNCHANGED <<session, retries>>
        /\ last_ack_seq' = IF m.kind = "ack" /\ last_ack_seq < rseq THEN rseq
                           ELSE last_ack_seq
        /\ identified' = (identified \/ (m.kind = "data" /\ m.cmd = 0))
        /\ answered' = IF m.kind = "data" /\ m.cmd \in Queries
                       THEN answered \cup {[cmd |-> m.cmd, num |-> m.num,
                                                    sent |-> SentTime(rseq)]}
                       ELSE answered

\* handle_message
HostReceive ==
    /\ session # "closed" /\ to_host # <<>>
    /\ IF NotSent(Head(to_host))
       THEN UNCHANGED <<session, identified, retries, send_seq, receive_seq,
                        last_ack_seq, sent_queue, last_ack_bytes,
                        last_receive_sent_time, retransmit_timer, notify_queue,
                        notified, answered, naks>>
       ELSE Handle(Head(to_host))
    /\ to_host' = Tail(to_host)
    /\ UNCHANGED <<submitted, ignore_nak_seq, retransmit_seq, built, resent, mcu,
                   to_mcu, reports, faults>>

\* _start_session gives up (completion.wait) and disconnects.
ConnectTimeout ==
    /\ session \in {"send", "wait"}
    /\ session' = "closed"
    /\ UNCHANGED <<identified, retries, submitted, seqs, queues, mcu, line>>

------------------------------------------------------------------------------
(* The firmware *)

mcuOnly == <<caller, seqs, queues, reports, faults>>

Expected == to_mcu[1].ok /\ Wire(to_mcu[1].num) = Wire(next_sequence)

\* command_find_block, the number is the expected one: command_dispatch starts.
McuAccept ==
    /\ ~dispatching /\ to_mcu # <<>> /\ Expected
    /\ next_sequence' = next_sequence + 1
    /\ need_valid' = FALSE
    /\ dispatching' = TRUE
    /\ cursor' = to_mcu[1].from
    \* an identify is answered right away
    /\ to_host' = IF to_mcu[1].upto < to_mcu[1].from
                  THEN Post(to_host, Data(next_sequence + 1, 0))
                  ELSE to_host
    /\ UNCHANGED <<executed, to_mcu, mcuOnly>>

\* command_dispatch: the handler of one command; some answer.
McuRun ==
    /\ dispatching /\ cursor <= to_mcu[1].upto
    /\ executed' = Append(executed, cursor)
    /\ cursor' = cursor + 1
    /\ to_host' = IF cursor \in Queries
                  THEN Post(to_host, Data(next_sequence, cursor))
                  ELSE to_host
    /\ UNCHANGED <<next_sequence, need_valid, dispatching, to_mcu, mcuOnly>>

\* console_pop_input and then command_send_ack.
McuAck ==
    /\ dispatching /\ cursor > to_mcu[1].upto
    /\ dispatching' = FALSE
    /\ to_mcu' = Tail(to_mcu)
    /\ to_host' = Post(to_host, Ack(next_sequence))
    /\ UNCHANGED <<next_sequence, need_valid, cursor, executed, mcuOnly>>

\* command_find_block, another number: the block is dropped with a nak.
McuNak ==
    /\ ~dispatching /\ to_mcu # <<>> /\ to_mcu[1].ok /\ ~Expected
    /\ need_valid' = FALSE
    /\ to_mcu' = Tail(to_mcu)
    /\ to_host' = Post(to_host, Ack(next_sequence))
    /\ UNCHANGED <<next_sequence, dispatching, cursor, executed, mcuOnly>>

\* command_find_block, not a block: one nak until the next good block.
McuBad ==
    /\ ~dispatching /\ to_mcu # <<>> /\ ~to_mcu[1].ok
    /\ need_valid' = TRUE
    /\ to_mcu' = Tail(to_mcu)
    /\ to_host' = IF need_valid THEN to_host
                  ELSE Post(to_host, Ack(next_sequence))
    /\ UNCHANGED <<next_sequence, dispatching, cursor, executed, mcuOnly>>

\* A message nobody asked for (stats, a report of a sensor).
McuReport ==
    /\ reports < MaxReports
    /\ reports' = reports + 1
    /\ to_host' = Post(to_host, Data(next_sequence, NoCmd))
    /\ UNCHANGED <<caller, seqs, queues, mcu, to_mcu, faults>>

------------------------------------------------------------------------------
(* Faults of the line *)

Without(q, i) == [j \in 1..(Len(q) - 1) |-> IF j < i THEN q[j] ELSE q[j + 1]]

Fault ==
    /\ faults < MaxFaults
    /\ faults' = faults + 1
    /\ UNCHANGED <<caller, seqs, queues, mcu, reports>>

LoseBlock ==
    /\ \E i \in (Held + 1)..Len(to_mcu) : to_mcu' = Without(to_mcu, i)
    /\ UNCHANGED to_host
    /\ Fault

Garbled(b) == [num |-> b.num, from |-> b.from, upto |-> b.upto, ok |-> FALSE]

GarbleBlock ==
    /\ \E i \in (Held + 1)..Len(to_mcu) :
          to_mcu' = [to_mcu EXCEPT ![i] = Garbled(to_mcu[i])]
    /\ UNCHANGED to_host
    /\ Fault

LoseMessage ==
    /\ \E i \in 1..Len(to_host) : to_host' = Without(to_host, i)
    /\ UNCHANGED to_mcu
    /\ Fault

------------------------------------------------------------------------------
Host == SendIdentify \/ SendCommands \/ ResendOnNak \/ ResendOnTimeout \/ HostReceive
Mcu  == McuAccept \/ McuRun \/ McuAck \/ McuNak \/ McuBad

Next == Submit \/ ConnectTimeout \/ Host \/ Mcu \/ McuReport \/ LoseBlock \/ GarbleBlock \/ LoseMessage

Spec == Init /\ [][Next]_vars

\* The background thread and the firmware's main loop keep running, a message
\* that has arrived is read, and an armed timer expires.
Fairness ==
    /\ WF_vars(SendIdentify) /\ WF_vars(SendCommands)
    /\ WF_vars(ResendOnNak) /\ WF_vars(ResendOnTimeout)
    /\ WF_vars(HostReceive)
    /\ WF_vars(Mcu)

FairSpec == Spec /\ Fairness

------------------------------------------------------------------------------
(* Properties *)

Block   == [num : Nat, from : Nat, upto : Nat, ok : BOOLEAN]
Message == [kind : {"ack", "data"}, num : Nat, cmd : Int]

CallerType ==
    /\ session \in {"send", "wait", "open", "closed"}
    /\ identified \in BOOLEAN
    /\ retries \in 0..Retries
    /\ submitted \in Nat

HostType ==
    /\ built \in Nat
    /\ send_seq \in Nat /\ receive_seq \in Nat /\ last_ack_seq \in Nat
    /\ ignore_nak_seq \in Nat /\ retransmit_seq \in Nat
    /\ sent_queue \in Seq(Block) /\ last_ack_bytes \in Nat
    /\ last_receive_sent_time \in Nat
    /\ retransmit_timer \in {"never", "set", "now"}
    /\ notify_queue \subseteq [cmd : Nat, num : Nat]
    /\ notified \subseteq Nat
    /\ answered \subseteq [cmd : Nat, num : Nat, sent : Nat]
    /\ resent \subseteq Nat /\ naks \in Seq(Nat)

McuType ==
    /\ next_sequence \in Nat /\ need_valid \in BOOLEAN /\ dispatching \in BOOLEAN
    /\ cursor \in Nat /\ executed \in Seq(Nat)

LineType ==
    /\ to_mcu \in Seq(Block) /\ to_host \in Seq(Message)
    /\ reports \in Nat /\ faults \in Nat

\* Every variable holds a value of its kind; in particular the attempts that
\* SerialRetryCommand has left never run below zero.
TypeOK == CallerType /\ HostType /\ McuType /\ LineType

\* What callers rely on: commands run in order, once each, and completion is
\* reported only of commands that ran (update_receive_seq, handle_message and
\* command_find_block together, over a line that loses blocks and messages).
Stream == INSTANCE CommandStream
            WITH submitted <- submitted, executed <- executed, notified <- notified
StreamSafe == Stream!Safe

\* ... and every command handed over does run, once the line stops failing:
\* timeouts, naks and the numbering never lock each other out.
StreamSpec == Stream!Spec

\* The bits received always stand for a number the host has sent: the test in
\* handle_message for "an ack for a message not sent" never hits.
NeverDiscards == to_host # <<>> => ~NotSent(Head(to_host))

\* The retransmit timer runs exactly while a block is unacknowledged, over
\* update_receive_seq, retransmit_event and build_and_send_command.
TimerArmed == (retransmit_timer = "never") <=> (sent_queue = <<>>)

\* No block is sent again more than twice because of naks, as the comment
\* "Second nak for this retransmit - don't allow third" in retransmit_event
\* promises.
NoThirdNak == \A i \in DOMAIN naks : naks[i] <= 2

\* An answer that carries a sending time carries that of the block it answers,
\* and that block was sent once: the clock synchronisation of the host takes
\* the round trip from it (sent_time in handle_message).
SentTimesExact ==
    \A a \in answered : a.sent # 0 => a.sent = a.num - 1 /\ a.sent \notin resent

\* Until something is sent again, the blocks sent and not yet popped fit in the
\* firmware's receive_buf, the block whose answer overtook its acknowledgement
\* included (need_ack_bytes and last_ack_bytes in check_send_command).
NoOverflow == resent = {} /\ ReceiveWindow > 0 => Bytes(to_mcu) <= ReceiveWindow

\* Of the callers whose block is known to have arrived, only those of the last
\* such block can still be waiting, and only until an acknowledgement proper
\* (wake_seq in handle_message).
NotifyLag ==
    \A e \in notify_queue : e.num < receive_seq =>
        e.num = receive_seq - 1 /\ last_ack_seq < receive_seq

\* The answer to a command comes before its completion: SerialRetryCommand
\* sends the command again when it finds no answer at completion.
AnswerFirst ==
    [][\A a \in answered' \ answered : a.cmd \notin notified']_vars
==============================================================================
