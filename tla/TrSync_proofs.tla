---------------------------- MODULE TrSync_proofs ----------------------------
(***************************************************************************)
(* Proofs about TrSync, for any number of boards and any timing: the types, *)
(* that the boards stop together, that no timer is added too late, that a  *)
(* hit of the endstop is one, and that stop() is told the truth and leaves *)
(* nothing under way.                                                      *)
(***************************************************************************)
EXTENDS TrSync, SequenceTheorems, WellFoundedInduction, TLAPS

USE DEF Never, NoAnswer, Error, ENDSTOP_HIT, HOST_REQUEST, PAST_END_TIME, COMMS_TIMEOUT

\* A set of numbers has a least one.
LEMMA LeastNat ==
    ASSUME NEW T, T \subseteq Nat, T # {}
    PROVE  \E x \in T : \A y \in T : x <= y
<1>1. \E x \in T : \A y \in T : ~ (<<y, x>> \in OpToRel(<, Nat))
  BY NatLessThanWellFounded, WFMin
<1>2. PICK x \in T : \A y \in T : ~ (<<y, x>> \in OpToRel(<, Nat))
  BY <1>1
<1>3. \A y \in T : ~ (y < x)
  BY <1>2 DEF OpToRel
<1> QED
  BY <1>3

\* The status from which handle_trsync_state extends the timeout of a board is
\* one that a board reported, and no later than that of any other board.
LEMMA OthersStatusProps ==
    ASSUME NEW clock \in [Boards -> Nat], NEW m \in Boards
    PROVE  /\ OthersStatus(clock, m) \in Nat
           /\ \E k \in Boards : OthersStatus(clock, m) = clock[k]
           /\ \A n \in Boards \ {m} : OthersStatus(clock, m) <= clock[n]
<1> DEFINE others == IF N = 1 THEN Boards ELSE Boards \ {m}
<1>1. others # {} /\ others \subseteq Boards
  <2>1. CASE N = 1
    BY <2>1
  <2>2. CASE N # 1
    <3>1. 1 \in Boards /\ 2 \in Boards
      BY <2>2, SyncAssumption DEF Boards
    <3> QED BY <3>1, <2>2
  <2> QED BY <2>1, <2>2
<1> DEFINE T == {clock[k] : k \in others}
<1>a. T \subseteq Nat /\ T # {}
  BY <1>1
<1>2. PICK x \in T : \A y \in T : x <= y
  <2> HIDE DEF T
  <2> QED BY <1>a, LeastNat
<1>3. \E n \in others : \A k \in others : clock[n] <= clock[k]
  BY <1>2
<1> DEFINE n0 == CHOOSE n \in others : \A k \in others : clock[n] <= clock[k]
<1>4. n0 \in others /\ \A k \in others : clock[n0] <= clock[k]
  BY <1>3
<1>5. OthersStatus(clock, m) = clock[n0]
  BY DEF OthersStatus
<1>6. \A n \in Boards \ {m} : n \in others
  OBVIOUS
<1> QED
  BY <1>1, <1>4, <1>5, <1>6

\* An extension never moves a timeout back.
LEMMA ExtendedProps ==
    ASSUME NEW clock \in [Boards -> Nat], NEW m \in Boards, DispatchType
    PROVE  /\ Extended(clock, m) \in Nat
           /\ expire_clock[m] <= Extended(clock, m)
           /\ \/ Extended(clock, m) = expire_clock[m]
              \/ Extended(clock, m) = OthersStatus(clock, m) + Expire
<1>1. OthersStatus(clock, m) \in Nat /\ expire_clock[m] \in Nat
  BY OthersStatusProps DEF DispatchType
<1>2. Expire \in Nat /\ MinExtend \in Nat
  BY SyncAssumption
<1> QED
  BY <1>1, <1>2 DEF Extended

------------------------------------------------------------------------------
(* Types *)

\* The elements of a queue after something is appended or taken off.
LEMMA AppendProps ==
    ASSUME NEW S, NEW q \in Seq(S), NEW e \in S
    PROVE  /\ Append(q, e) \in Seq(S)
           /\ Len(Append(q, e)) = Len(q) + 1
           /\ \A i \in 1..(Len(q) + 1) : Append(q, e)[i] = IF i <= Len(q) THEN q[i] ELSE e
  OBVIOUS

\* A queue of one.
LEMMA SingleType ==
    ASSUME NEW S, NEW e \in S PROVE <<e>> \in Seq(S) /\ <<>> \in Seq(S)
  OBVIOUS

\* Likewise for the head of a queue.
LEMMA TailProps ==
    ASSUME NEW S, NEW q \in Seq(S), q # <<>>
    PROVE  /\ Head(q) \in S /\ Head(q) = q[1] /\ Len(q) \in Nat \ {0}
           /\ Tail(q) \in Seq(S) /\ Len(Tail(q)) = Len(q) - 1
           /\ \A i \in 1..(Len(q) - 1) : Tail(q)[i] = q[i + 1]
  OBVIOUS

\* What the firmware does to a struct trsync leaves one.
LEMMA TrsyncType ==
    ASSUME NEW t \in Trsync, NEW r \in Reason, NEW c \in Nat, NEW m \in Boards
    PROVE  /\ DoTrigger(t, r) \in Trsync
           /\ Triggered(t, r) \in Trsync
           /\ SetTimeout(t, c) \in Trsync
           /\ Started(m, c) \in Trsync
           /\ [DoTrigger(t, r) EXCEPT !.expire_time = Never] \in Trsync
           /\ [t EXCEPT !.report = FALSE] \in Trsync
           /\ t.report_time # Never => Reported(t) \in Trsync
<1>1. DoTrigger(t, r) \in Trsync
  BY DEF DoTrigger, Trsync
<1>2. Triggered(t, r) \in Trsync /\ [DoTrigger(t, r) EXCEPT !.expire_time = Never] \in Trsync
  BY <1>1 DEF Triggered, Trsync, Clock
<1>3. SetTimeout(t, c) \in Trsync
  BY DEF SetTimeout, Trsync, Clock
<1>4. c + Offset(m) \in Nat /\ c + Expire \in Nat
  <2>1. Report * (m - 1) \in Nat
    BY SyncAssumption DEF Boards
  <2>2. Offset(m) \in Nat
    BY <2>1, SyncAssumption DEF Offset
  <2> QED BY <2>2, SyncAssumption
<1>5. Started(m, c) \in Trsync
  BY <1>4 DEF Started, Trsync, Clock, Reason
<1>6. [t EXCEPT !.report = FALSE] \in Trsync
  BY DEF Trsync
<1>7. t.report_time # Never => Reported(t) \in Trsync
  <2>1. t.report_time # Never => t.report_time + Report \in Nat
    BY SyncAssumption DEF Trsync, Clock
  <2> QED BY <2>1 DEF Reported, Trsync, Clock
<1> QED
  BY <1>1, <1>2, <1>3, <1>5, <1>6, <1>7

\* The commands and messages the code makes.
LEMMA MadeType ==
    /\ \A a \in Nat : /\ Command("start", a, FALSE) \in CommandSet
                      /\ Command("home", a, FALSE) \in CommandSet
                      /\ Command("timeout", a, FALSE) \in CommandSet
    /\ \A b \in BOOLEAN : Command("trigger", HOST_REQUEST, b) \in CommandSet
    /\ Command("trigger", PAST_END_TIME, FALSE) \in CommandSet
    /\ Command("off", 0, FALSE) \in CommandSet
    /\ \A b \in BOOLEAN, r \in Reason, c \in Nat : State(b, r, c) \in MessageSet
    /\ Done \in MessageSet
    /\ Reason = {0, 1, 2, 3, 4}
  BY DEF Command, CommandSet, State, Done, MessageSet, Reason

\* The initial state is of its types.
LEMMA TypeInit == Init => TypeOK
<1> SUFFICES ASSUME Init PROVE TypeOK
  OBVIOUS
<1> USE SyncAssumption DEF Init
<1>1. PythonType
  <2>1. 1 \in Boards /\ 0 \in 0..Retries
    BY DEF Boards
  <2>2. res \in Seq(Reason) /\ 0 \in Reason /\ Never \in Clock
    BY DEF Reason, Clock
  <2> QED BY <2>1, <2>2 DEF PythonType
<1>2. DispatchType
  BY DEF DispatchType
<1>3. BoardType
  <2>1. Cleared \in Trsync
    BY DEF Cleared, Trsync, Clock, Reason
  <2>2. es \in [time : Clock, over : BOOLEAN, count : 0..SampleCount, nextwake : Nat]
    BY DEF Clock
  <2> QED BY <2>1, <2>2 DEF BoardType, Clock
<1>4. WireType
  <2>1. <<>> \in Seq(CommandSet) /\ <<>> \in Seq(MessageSet)
    OBVIOUS
  <2> QED BY <2>1 DEF WireType
<1> QED
  BY <1>1, <1>2, <1>3, <1>4 DEF TypeOK

\* The endstop counts down only while its timer runs.
EndstopInv == es.time # Never => es.count # 0

USE DEF TypeOK

\* mcu.py: start, wait and stop.
LEMMA PythonTypeStep ==
    ASSUME TypeOK, HomeStart \/ Python PROVE TypeOK'
<1> USE SyncAssumption, MadeType
<1>1. ASSUME HomeStart PROVE TypeOK'
  <2> USE <1>1 DEF HomeStart
  <2>1. now + Lead \in Nat /\ now + Lead + Expire \in Nat
    OBVIOUS
  <2>2. PythonType'
    <3>1. homings + 1 \in Nat /\ handler' \in [Boards -> {"none", "watch", "query"}]
      BY DEF PythonType
    <3> QED BY <2>1, <3>1 DEF PythonType, Clock
  <2>3. DispatchType'
    BY <2>1 DEF DispatchType
  <2>4. BoardType'
    BY DEF BoardType, endstop, Clock
  <2>5. to_mcu' \in [Boards -> Seq(CommandSet)]
    <3> SUFFICES ASSUME NEW m \in Boards PROVE to_mcu'[m] \in Seq(CommandSet)
      OBVIOUS
    <3>1. to_mcu[m] \in Seq(CommandSet)
      BY DEF WireType
    <3>2. Command("start", now + Lead, FALSE) \in CommandSet
          /\ Command("home", now + Lead, FALSE) \in CommandSet
      BY <2>1
    <3>3. <<Command("start", now + Lead, FALSE)>> \in Seq(CommandSet)
          /\ <<Command("home", now + Lead, FALSE)>> \in Seq(CommandSet)
          /\ <<>> \in Seq(CommandSet)
      BY <3>2, SingleType
    <3>4. to_mcu'[m] = to_mcu[m] \o <<Command("start", now + Lead, FALSE)>>
              \o (IF m = 1 THEN <<Command("home", now + Lead, FALSE)>> ELSE <<>>)
      OBVIOUS
    <3>5. to_mcu[m] \o <<Command("start", now + Lead, FALSE)>> \in Seq(CommandSet)
      BY <3>1, <3>3, ConcatProperties
    <3> QED BY <3>3, <3>4, <3>5, ConcatProperties
  <2> QED BY <2>2, <2>3, <2>4, <2>5 DEF WireType
<1>2. ASSUME WaitEnd PROVE TypeOK'
  BY <1>2, SMTT(30) DEF WaitEnd, PythonType, DispatchType, BoardType, WireType, dispatch, board,
              endstop, wires, Clock
<1>3. ASSUME NEW m \in Boards, NEW q \in [Boards -> Seq(CommandSet)], Ask(m, q)
      PROVE  /\ to_mcu' \in [Boards -> Seq(CommandSet)] /\ asked' \in Boards
             /\ last_params' \in Reason \cup {NoAnswer} /\ acked' \in BOOLEAN
             /\ retries' \in 0..Retries
  <2>1. Append(q[m], Command("trigger", HOST_REQUEST, TRUE)) \in Seq(CommandSet)
    BY AppendProps
  <2>2. Retries \in 0..Retries
    OBVIOUS
  <2> QED BY <1>3, <2>1, <2>2 DEF Ask
<1>4. ASSUME Stop PROVE TypeOK'
  <2> USE <1>4 DEF Stop
  <2> DEFINE q == [to_mcu EXCEPT ![1] = Append(@, Command("off", 0, FALSE))]
  <2>1. q \in [Boards -> Seq(CommandSet)] /\ 1 \in Boards
    <3>1. 1 \in Boards
      BY DEF Boards
    <3>2. Append(to_mcu[1], Command("off", 0, FALSE)) \in Seq(CommandSet)
      BY <3>1, AppendProps DEF WireType
    <3> QED BY <3>1, <3>2 DEF WireType
  <2>2. Ask(1, q)
    OBVIOUS
  <2>3. /\ to_mcu' \in [Boards -> Seq(CommandSet)] /\ asked' \in Boards
        /\ last_params' \in Reason \cup {NoAnswer} /\ acked' \in BOOLEAN
        /\ retries' \in 0..Retries
    <3> HIDE DEF q
    <3> QED BY <1>3, <2>1, <2>2
  <2>4. PythonType'
    BY <2>1, <2>3 DEF PythonType
  <2> QED BY <2>3, <2>4 DEF DispatchType, BoardType, WireType, board, endstop
<1>5. ASSUME Answered PROVE TypeOK'
  <2> USE <1>5 DEF Answered
  <2>1. last_params \in Reason /\ res \in Seq(Reason)
    BY DEF PythonType
  <2>2. res' \in Seq(Reason) /\ res' # <<>> /\ res'[1] \in Reason
    BY <2>1
  <2>3. Outcome(res') \in Reason
    BY <2>2 DEF Outcome
  <2>4. CASE asked < N
    <3>1. asked + 1 \in Boards
      BY <2>4 DEF Boards, PythonType
    <3>2. /\ to_mcu' \in [Boards -> Seq(CommandSet)] /\ asked' \in Boards
          /\ last_params' \in Reason \cup {NoAnswer} /\ acked' \in BOOLEAN
          /\ retries' \in 0..Retries
      BY <1>3, <2>4, <3>1 DEF WireType
    <3>3. PythonType'
      BY <2>2, <2>4, <3>2 DEF PythonType, stopOnly
    <3> QED BY <3>2, <3>3 DEF DispatchType, BoardType, WireType, board, endstop, dispatch, stopOnly
  <2>5. CASE ~(asked < N)
    <3>1. PythonType'
      BY <2>2, <2>3, <2>5 DEF PythonType, stopOnly
    <3> QED BY <2>5, <3>1 DEF DispatchType, BoardType, WireType, board, endstop, dispatch, stopOnly
  <2> QED BY <2>4, <2>5
<1>6. ASSUME NotAnswered PROVE TypeOK'
  <2> USE <1>6 DEF NotAnswered
  <2>1. PythonType'
    <3>1. MayRetry => retries - 1 \in 0..Retries
      BY DEF MayRetry, PythonType
    <3> QED BY <3>1 DEF PythonType, stopOnly
  <2>2. to_mcu' \in [Boards -> Seq(CommandSet)]
    <3>1. Append(to_mcu[asked], Command("trigger", HOST_REQUEST, TRUE)) \in Seq(CommandSet)
      BY AppendProps DEF WireType, PythonType
    <3> QED BY <3>1 DEF WireType
  <2> QED BY <2>1, <2>2 DEF DispatchType, BoardType, WireType, board, endstop, dispatch, stopOnly
<1> QED
  BY <1>1, <1>2, <1>4, <1>5, <1>6 DEF Python

\* The two threads of the host that read messages.
LEMMA ReceiveTypeStep ==
    ASSUME TypeOK, NEW m \in Boards, PythonReceive(m) \/ HostReceive(m) PROVE TypeOK'
<1> USE SyncAssumption, MadeType
<1>1. ASSUME PythonReceive(m) PROVE TypeOK'
  <2> USE <1>1 DEF PythonReceive
  <2>1. Head(receive_queue[m]) \in MessageSet /\ Tail(receive_queue[m]) \in Seq(MessageSet)
    BY TailProps DEF WireType
  <2>2. Head(receive_queue[m]).reason \in Reason
    BY <2>1 DEF MessageSet
  <2>3. PythonType'
    BY <2>2 DEF PythonType, Clock
  <2>4. Append(to_mcu[m], Command("trigger", PAST_END_TIME, FALSE)) \in Seq(CommandSet)
    BY AppendProps DEF WireType
  <2>5. WireType'
    BY <2>1, <2>4 DEF WireType
  <2> QED BY <2>3, <2>5 DEF DispatchType, BoardType, board, endstop, dispatch
<1>2. ASSUME HostReceive(m) PROVE TypeOK'
  <2> USE <1>2 DEF HostReceive
  <2> DEFINE s == Head(to_host[m])
  <2>1. s \in MessageSet /\ Tail(to_host[m]) \in Seq(MessageSet)
    BY TailProps DEF WireType
  <2>2. Append(receive_queue[m], s) \in Seq(MessageSet)
    BY <2>1 DEF WireType
  <2>3. DispatchType' /\ to_mcu' \in [Boards -> Seq(CommandSet)]
    <3>1. CASE ~(s.kind = "state" /\ is_active /\ td_can_trigger)
      BY <3>1 DEF DispatchType, WireType
    <3>2. CASE s.kind = "state" /\ is_active /\ td_can_trigger /\ ~s.can
      <4>1. \A n \in Boards :
              Append(to_mcu[n], Command("trigger", HOST_REQUEST, FALSE)) \in Seq(CommandSet)
        BY AppendProps DEF WireType
      <4>2. Dispatch(m, s)
        BY <3>2
      <4>3. /\ to_mcu' = [n \in Boards |->
                  Append(to_mcu[n], Command("trigger", HOST_REQUEST, FALSE))]
            /\ td_can_trigger' = FALSE
            /\ UNCHANGED <<is_active, last_status_clock, expire_clock>>
        BY <3>2, <4>2 DEF Dispatch
      <4>4. DispatchType'
        BY <4>3 DEF DispatchType
      <4> QED BY <4>1, <4>3, <4>4
    <3>3. CASE s.kind = "state" /\ is_active /\ td_can_trigger /\ s.can
      <4> DEFINE clock == [last_status_clock EXCEPT ![m] = s.clock]
      <4>1. clock \in [Boards -> Nat]
        BY <2>1 DEF DispatchType, MessageSet
      <4>2. Dispatch(m, s)
        BY <3>3
      <4>3. /\ last_status_clock' = clock
            /\ expire_clock' = [n \in Boards |-> Extended(clock, n)]
            /\ to_mcu' = [n \in Boards |->
                  IF Extended(clock, n) = expire_clock[n] THEN to_mcu[n]
                  ELSE Append(to_mcu[n], Command("timeout", Extended(clock, n), FALSE))]
            /\ td_can_trigger' = td_can_trigger
        BY <3>3, <4>2 DEF Dispatch
      <4> HIDE DEF clock
      <4>4. \A n \in Boards : Extended(clock, n) \in Nat
        BY <4>1, ExtendedProps
      <4>5. DispatchType'
        BY <4>1, <4>3, <4>4 DEF DispatchType
      <4>6. \A n \in Boards : to_mcu'[n] \in Seq(CommandSet)
        BY <4>3, <4>4, AppendProps DEF WireType
      <4> QED BY <4>3, <4>5, <4>6
    <3> QED BY <3>1, <3>2, <3>3
  <2>4. WireType'
    BY <2>1, <2>2, <2>3 DEF WireType
  <2> QED BY <2>3, <2>4 DEF PythonType, BoardType, python, board, endstop
<1> QED
  BY <1>1, <1>2

\* The firmware's main loop.
LEMMA CommandTypeStep ==
    ASSUME TypeOK, NEW m \in Boards, McuCommand(m) PROVE TypeOK'
<1> USE SyncAssumption, MadeType DEF McuCommand
<1> DEFINE c == Head(to_mcu[m])
<1>1. c \in CommandSet /\ Tail(to_mcu[m]) \in Seq(CommandSet)
  BY TailProps DEF WireType
<1>2. to_mcu' \in [Boards -> Seq(CommandSet)]
  BY <1>1 DEF WireType
<1>3. too_close' \in BOOLEAN
  OBVIOUS
<1>4. Run(m, c)
  OBVIOUS
<1> HIDE DEF c
<1>5. /\ ts' \in [Boards -> Trsync] /\ stopped_at' \in [Boards -> Clock]
      /\ es' \in [time : Clock, over : BOOLEAN, count : 0..SampleCount, nextwake : Nat]
      /\ run_start' \in Clock /\ run_len' \in Nat
      /\ to_host' \in [Boards -> Seq(MessageSet)]
  <2> USE DEF BoardType
  <2>1. c.arg \in Nat /\ (c.op = "trigger" => c.arg \in Reason) /\ c.ask \in BOOLEAN
    BY <1>1 DEF CommandSet
  <2>2. CASE c.op = "start"
    <3>1. Started(m, c.arg) \in Trsync
      BY <2>1, TrsyncType
    <3>2. /\ ts' = [ts EXCEPT ![m] = Started(m, c.arg)]
          /\ stopped_at' = [stopped_at EXCEPT ![m] = Never]
          /\ UNCHANGED <<es, run_start, run_len, to_host>>
      BY <1>4, <2>2 DEF Run
    <3> QED BY <3>1, <3>2 DEF Clock, WireType
  <2>3. CASE c.op = "timeout"
    <3>1. SetTimeout(ts[m], c.arg) \in Trsync
      BY <2>1, TrsyncType
    <3> QED BY <1>4, <2>3, <3>1, ZenonT(30) DEF Run, WireType
  <2>4. CASE c.op = "trigger"
    <3>1. Triggered(ts[m], c.arg) \in Trsync
      BY <2>1, <2>4, TrsyncType
    <3>2. ts' = [ts EXCEPT ![m] = Triggered(ts[m], c.arg)] /\ NoteStop(m)
      BY <1>4, <2>4 DEF Run
    <3>3. ts' \in [Boards -> Trsync] /\ ts'[m].reason \in Reason
      BY <3>1, <3>2 DEF Trsync
    <3>4. stopped_at' \in [Boards -> Clock]
      BY <3>2 DEF NoteStop, Clock
    <3>5. <<State(FALSE, ts'[m].reason, 0)>> \in Seq(MessageSet)
          /\ (IF c.ask THEN <<Done>> ELSE <<>>) \in Seq(MessageSet)
      BY <3>3, SingleType
    <3>6. to_host[m] \o <<State(FALSE, ts'[m].reason, 0)>> \in Seq(MessageSet)
      BY <3>5, ConcatProperties DEF WireType
    <3>7. to_host[m] \o <<State(FALSE, ts'[m].reason, 0)>>
            \o (IF c.ask THEN <<Done>> ELSE <<>>) \in Seq(MessageSet)
      BY <3>5, <3>6, ConcatProperties
    <3>8. /\ to_host' = [to_host EXCEPT ![m] = @ \o <<State(FALSE, ts'[m].reason, 0)>>
                            \o (IF c.ask THEN <<Done>> ELSE <<>>)]
          /\ UNCHANGED <<es, run_start, run_len>>
      BY <1>4, <2>4 DEF Run
    <3> QED BY <3>3, <3>4, <3>7, <3>8 DEF WireType
  <2>5. CASE c.op = "home"
    <3>1. SampleCount \in 0..SampleCount /\ es.nextwake \in Nat
      OBVIOUS
    <3>2. /\ es' = [time |-> c.arg, over |-> FALSE, count |-> SampleCount,
                    nextwake |-> es.nextwake]
          /\ run_start' = Never /\ run_len' = 0
          /\ UNCHANGED <<ts, stopped_at, to_host>>
      BY <1>4, <2>5 DEF Run
    <3> QED BY <2>1, <3>1, <3>2 DEF Clock, WireType
  <2>6. CASE c.op = "off"
    <3>1. /\ es' = [es EXCEPT !.time = Never]
          /\ UNCHANGED <<ts, stopped_at, run_start, run_len, to_host>>
      BY <1>4, <2>6 DEF Run
    <3> QED BY <3>1 DEF Clock, WireType
  <2> QED BY <1>1, <2>2, <2>3, <2>4, <2>5, <2>6 DEF CommandSet
<1> QED
  BY <1>2, <1>3, <1>5, ZenonT(30) DEF PythonType, DispatchType, BoardType, WireType, python, dispatch

\* What the boards do leaves the host as it is.
LEMMA HostTypeKept ==
    ASSUME PythonType, DispatchType, UNCHANGED <<python, dispatch>>
    PROVE  PythonType' /\ DispatchType'
<1>1. PythonType'
  BY DEF PythonType, python
<1>2. DispatchType'
  BY DEF DispatchType, dispatch
<1> QED BY <1>1, <1>2

\* Timers, trsync_task, the line and time.
LEMMA BoardTypeStep ==
    ASSUME TypeOK, NEW m \in Boards,
           ExpireEvent(m) \/ ReportEvent(m) \/ Task(m) \/ LoseState(m) \/ Tick
    PROVE  TypeOK'
<1> USE SyncAssumption, MadeType
<1>1. ASSUME ExpireEvent(m) PROVE TypeOK'
  <2>1. [DoTrigger(ts[m], COMMS_TIMEOUT) EXCEPT !.expire_time = Never] \in Trsync
    BY TrsyncType DEF BoardType
  <2>2. ts' \in [Boards -> Trsync] /\ stopped_at' \in [Boards -> Clock]
    BY <1>1, <2>1 DEF ExpireEvent, NoteStop, BoardType, Clock
  <2>3. BoardType' /\ WireType'
    BY <1>1, <2>2 DEF ExpireEvent, boardOnly, BoardType, WireType, endstop
  <2> QED BY <1>1, <2>3, HostTypeKept DEF ExpireEvent, boardOnly
<1>2. ASSUME ReportEvent(m) PROVE TypeOK'
  <2>1. Reported(ts[m]) \in Trsync
    BY <1>2, TrsyncType DEF BoardType, ReportEvent
  <2>2. ts' \in [Boards -> Trsync]
    BY <1>2, <2>1 DEF ReportEvent, BoardType
  <2>3. BoardType' /\ WireType'
    BY <1>2, <2>2 DEF ReportEvent, boardOnly, BoardType, WireType, endstop
  <2> QED BY <1>2, <2>3, HostTypeKept DEF ReportEvent, boardOnly
<1>3. ASSUME TaskTime(m) PROVE TypeOK'
  <2>1. BoardType' /\ WireType'
    BY <1>3 DEF TaskTime, boardOnly, BoardType, WireType, endstop, Clock
  <2> QED BY <1>3, <2>1, HostTypeKept DEF TaskTime, boardOnly
<1>4. ASSUME TaskReport(m) PROVE TypeOK'
  <2> USE <1>4 DEF TaskReport
  <2>1. [ts[m] EXCEPT !.report = FALSE] \in Trsync
    BY TrsyncType DEF BoardType
  <2>2. ts' \in [Boards -> Trsync] /\ task_clock' \in [Boards -> Clock]
    BY <2>1 DEF BoardType, Clock
  <2>3. State(ts[m].can, ts[m].reason, task_clock[m]) \in MessageSet
    <3>1. ts[m].can \in BOOLEAN /\ ts[m].reason \in Reason /\ task_clock[m] \in Nat
      BY DEF BoardType, Trsync, Clock
    <3> QED BY <3>1 DEF State, MessageSet
  <2>4. Append(to_host[m], State(ts[m].can, ts[m].reason, task_clock[m])) \in Seq(MessageSet)
    BY <2>3, AppendProps DEF WireType
  <2>5. to_host' \in [Boards -> Seq(MessageSet)]
    BY <2>4 DEF WireType
  <2>6. BoardType' /\ WireType'
    BY <2>2, <2>5 DEF boardOnly, BoardType, WireType, endstop
  <2> QED BY <2>6, HostTypeKept DEF boardOnly
<1>5. ASSUME LoseState(m) PROVE TypeOK'
  <2>1. Tail(to_host[m]) \in Seq(MessageSet)
    BY <1>5, TailProps DEF LoseState, WireType
  <2>2. WireType'
    BY <1>5, <2>1 DEF LoseState, WireType
  <2> QED BY <1>5, <2>2, SMTT(30) DEF LoseState, PythonType, DispatchType, BoardType, python, dispatch,
             board, endstop
<1>6. ASSUME Tick PROVE TypeOK'
  <2>1. BoardType' /\ WireType'
    BY <1>6 DEF Tick, BoardType, WireType, board, endstop, wires
  <2>2. now' \in Nat /\ late' \in Nat
    BY <1>6 DEF Tick
  <2> QED BY <1>6, <2>1, <2>2, HostTypeKept DEF Tick
<1> QED
  BY <1>1, <1>2, <1>3, <1>4, <1>5, <1>6 DEF Task

\* The endstop.
LEMMA EndstopTypeStep ==
    ASSUME TypeOK, EndstopInv, EndstopEvent PROVE TypeOK' /\ EndstopInv'
<1> USE SyncAssumption, MadeType DEF EndstopEvent
<1>1. 1 \in Boards /\ es.time \in Nat /\ es.count \in 1..SampleCount /\ es.nextwake \in Nat
  BY DEF Boards, BoardType, Clock, EndstopInv
<1>2. PICK match \in BOOLEAN :
         /\ es' = Sampled(match)
         /\ run_start' = IF ~match THEN Never
                         ELSE IF run_start = Never THEN es.time ELSE run_start
         /\ run_len' = IF match THEN run_len + 1 ELSE 0
  OBVIOUS
<1>3. /\ es' \in [time : Clock, over : BOOLEAN, count : 0..SampleCount, nextwake : Nat]
      /\ es'.time # Never => es'.count # 0
  <2>1. CASE ~match
    <3>1. es' = [es EXCEPT !.over = FALSE, !.count = SampleCount,
                           !.time = IF es.over THEN es.nextwake ELSE @ + Rest]
      BY <1>2, <2>1 DEF Sampled
    <3>2. SampleCount \in 0..SampleCount /\ es.time + Rest \in Nat
      BY <1>1
    <3> QED BY <1>1, <3>1, <3>2 DEF BoardType, Clock
  <2>2. CASE match
    <3>1. es' = [time     |-> IF es.count = 1 THEN Never ELSE es.time + SampleTicks,
                 over     |-> TRUE,
                 count    |-> es.count - 1,
                 nextwake |-> IF es.over THEN es.nextwake ELSE es.time + Rest]
      BY <1>2, <2>2 DEF Sampled
    <3>2. es.count - 1 \in 0..SampleCount /\ es.time + Rest \in Nat
          /\ es.time + SampleTicks \in Nat /\ (es.count # 1 => es.count - 1 # 0)
      BY <1>1
    <3> QED BY <1>1, <3>1, <3>2 DEF Clock
  <2> QED BY <2>1, <2>2
<1>4. run_start' \in Clock /\ run_len' \in Nat
  BY <1>1, <1>2 DEF BoardType, Clock
<1>5. DoTrigger(ts[1], ENDSTOP_HIT) \in Trsync
  BY <1>1, TrsyncType DEF BoardType
<1>6. ts' \in [Boards -> Trsync] /\ stopped_at' \in [Boards -> Clock]
  BY <1>5 DEF NoteStop, BoardType, Clock
<1> QED
  BY <1>3, <1>4, <1>6, ZenonT(30) DEF PythonType, DispatchType, BoardType, WireType, EndstopInv, python,
     dispatch, wires

\* EndstopInv is kept by the commands that arm and disarm the endstop.
LEMMA EndstopStep ==
    ASSUME TypeOK, EndstopInv, NEW m \in Boards, McuCommand(m) PROVE EndstopInv'
<1> DEFINE c == Head(to_mcu[m])
<1>1. Run(m, c)
  BY DEF McuCommand
<1>2. CASE c.op = "home"
  <2>1. es' = [time |-> c.arg, over |-> FALSE, count |-> SampleCount,
               nextwake |-> es.nextwake]
    BY <1>1, <1>2 DEF Run
  <2> QED BY <2>1, SyncAssumption DEF EndstopInv
<1>3. CASE c.op = "off"
  BY <1>1, <1>3 DEF Run, EndstopInv, BoardType
<1>4. CASE c.op \notin {"home", "off"}
  BY <1>1, <1>4 DEF Run, EndstopInv
<1> QED
  BY <1>2, <1>3, <1>4

------------------------------------------------------------------------------
(* The boards stop together *)

\* The last clock that board n can have reported as still running: now, or the
\* time it stopped.  Nothing moves before print_time.
Bound(n) == MaxOf(IF stopped_at[n] = Never THEN now ELSE stopped_at[n], print_time)

\* The commands that set the timeout, and the timeout they set.
Timing(c) == c.op \in {"start", "timeout"}
Val(c) == IF c.op = "start" THEN c.arg + Expire ELSE c.arg

\* A board that waits for the trigger has not stopped.
StopInv ==
    \A n \in Boards : /\ ts[n].can => stopped_at[n] = Never
                      /\ stopped_at[n] <= now
                      /\ task_clock[n] <= now

\* What a board reported as running, it reported before it stopped.
StatusInv ==
    \A n \in Boards :
        /\ last_status_clock[n] <= Bound(n)
        /\ \A i \in DOMAIN to_host[n] : to_host[n][i].can => to_host[n][i].clock <= Bound(n)

\* The host extends a timeout only from the reports of the other boards.
LimitInv == \A m, n \in Boards : m # n => expire_clock[m] <= Bound(n) + Expire

\* A homing is set up before its motion.
SetUpInv ==
    /\ print_time <= now + Lead
    /\ \A m \in Boards : \A i \in DOMAIN to_mcu[m] :
          to_mcu[m][i].op \in {"start", "home"} => now <= to_mcu[m][i].arg

\* The timeout of a board, those on their way to it and the last one sent are in
\* this order, and the first is not over.
OrderInv ==
    \A m \in Boards :
        /\ expire_clock[m] <= now + Lead + Expire
        /\ ts[m].can => /\ now <= ts[m].expire_time
                        /\ ts[m].expire_time <= expire_clock[m]
        /\ \A i \in DOMAIN to_mcu[m] : Timing(to_mcu[m][i]) =>
              /\ Val(to_mcu[m][i]) <= expire_clock[m]
              /\ ts[m].can => ts[m].expire_time <= Val(to_mcu[m][i])
              /\ \A j \in DOMAIN to_mcu[m] :
                    i < j /\ Timing(to_mcu[m][j]) => Val(to_mcu[m][i]) <= Val(to_mcu[m][j])

IInv == /\ TypeOK /\ EndstopInv /\ StopInv /\ StatusInv /\ LimitInv /\ SetUpInv
        /\ OrderInv /\ ~too_close

\* The invariant holds before the first homing.
LEMMA InitIInv == Init => IInv
<1> SUFFICES ASSUME Init PROVE IInv
  OBVIOUS
<1>1. TypeOK
  BY TypeInit
<1>2. /\ \A n \in Boards : /\ ts[n].can = FALSE /\ stopped_at[n] = Never
                           /\ task_clock[n] = Never
                           /\ last_status_clock[n] = 0 /\ expire_clock[n] = 0
                           /\ to_mcu[n] = <<>> /\ to_host[n] = <<>>
      /\ now = 0 /\ print_time = 0 /\ es.time = Never /\ ~too_close
  BY DEF Init, Cleared
<1>3. \A n \in Boards : Bound(n) = 0
  BY <1>2 DEF Bound, MaxOf
<1>4. StopInv /\ StatusInv /\ EndstopInv
  BY <1>2, <1>3 DEF StopInv, StatusInv, EndstopInv
<1>5. LimitInv /\ SetUpInv /\ OrderInv
  BY <1>2, <1>3, SyncAssumption DEF LimitInv, SetUpInv, OrderInv
<1> QED
  BY <1>1, <1>2, <1>4, <1>5 DEF IInv

\* Bounds are numbers, and what is bounded by the time is bounded by Lead.
LEMMA BoundType ==
    ASSUME IInv, NEW n \in Boards
    PROVE  Bound(n) \in Nat /\ Bound(n) <= now + Lead /\ print_time <= Bound(n)
<1>1. now \in Nat /\ print_time \in Nat /\ stopped_at[n] \in Clock /\ Lead \in Nat
  BY SyncAssumption DEF IInv, PythonType, BoardType
<1>2. stopped_at[n] <= now /\ print_time <= now + Lead
  BY DEF IInv, StopInv, SetUpInv
<1> QED
  BY <1>1, <1>2 DEF Bound, MaxOf, Clock

------------------------------------------------------------------------------
(* Steps that leave the boards alone *)

\* Only commands that set no timer are added.
Longer ==
    \A m \in Boards :
        /\ Len(to_mcu[m]) <= Len(to_mcu'[m])
        /\ \A i \in 1..Len(to_mcu'[m]) :
              IF i <= Len(to_mcu[m]) THEN to_mcu'[m][i] = to_mcu[m][i]
              ELSE to_mcu'[m][i].op \in {"trigger", "off"}

\* Messages to the host only get fewer.
Shorter ==
    \A n \in Boards : \A i \in 1..Len(to_host'[n]) :
        \E j \in 1..Len(to_host[n]) : to_host'[n][i] = to_host[n][j]

\* Such commands and losses do not matter to the invariant.
LEMMA QuietStep ==
    ASSUME IInv, TypeOK', Longer, Shorter,
           UNCHANGED <<now, print_time, board, es, last_status_clock, expire_clock>>
    PROVE  IInv'
<1> USE DEF board
<1>0. /\ \A m \in Boards : /\ to_mcu[m] \in Seq(CommandSet) /\ to_mcu'[m] \in Seq(CommandSet)
                           /\ to_host[m] \in Seq(MessageSet) /\ to_host'[m] \in Seq(MessageSet)
  BY DEF IInv, WireType
<1>1. \A n \in Boards : Bound(n)' = Bound(n)
  BY DEF Bound
<1>2. StopInv' /\ LimitInv' /\ EndstopInv' /\ ~too_close'
  BY <1>1 DEF IInv, StopInv, LimitInv, EndstopInv
<1>3. StatusInv'
  <2> SUFFICES ASSUME NEW n \in Boards
               PROVE  /\ last_status_clock'[n] <= Bound(n)'
                      /\ \A i \in DOMAIN to_host'[n] :
                            to_host'[n][i].can => to_host'[n][i].clock <= Bound(n)'
    BY DEF StatusInv
  <2>1. last_status_clock'[n] <= Bound(n)'
    BY <1>1 DEF IInv, StatusInv
  <2>2. ASSUME NEW i \in 1..Len(to_host'[n]), to_host'[n][i].can
        PROVE  to_host'[n][i].clock <= Bound(n)'
    <3>1. PICK j \in 1..Len(to_host[n]) : to_host'[n][i] = to_host[n][j]
      BY DEF Shorter
    <3>2. j \in DOMAIN to_host[n]
      BY <1>0
    <3>3. to_host[n][j].clock <= Bound(n)
      BY <2>2, <3>1, <3>2 DEF IInv, StatusInv
    <3> QED BY <1>1, <3>1, <3>3
  <2>3. DOMAIN to_host'[n] = 1..Len(to_host'[n])
    BY <1>0
  <2> QED BY <2>1, <2>2, <2>3
<1>4. ASSUME NEW m \in Boards, NEW i \in 1..Len(to_mcu'[m]),
             to_mcu'[m][i].op \in {"start", "home", "timeout"}
      PROVE  i \in 1..Len(to_mcu[m]) /\ to_mcu'[m][i] = to_mcu[m][i]
  BY <1>0, <1>4 DEF Longer
<1>5. SetUpInv'
  BY <1>0, <1>4, SMTT(30) DEF IInv, SetUpInv
<1>6. OrderInv'
  <2> SUFFICES ASSUME NEW m \in Boards
               PROVE  /\ expire_clock'[m] <= now' + Lead + Expire
                      /\ ts'[m].can => /\ now' <= ts'[m].expire_time
                                       /\ ts'[m].expire_time <= expire_clock'[m]
                      /\ \A i \in 1..Len(to_mcu'[m]) : Timing(to_mcu'[m][i]) =>
                            /\ Val(to_mcu'[m][i]) <= expire_clock'[m]
                            /\ ts'[m].can => ts'[m].expire_time <= Val(to_mcu'[m][i])
                            /\ \A j \in 1..Len(to_mcu'[m]) :
                                  i < j /\ Timing(to_mcu'[m][j])
                                    => Val(to_mcu'[m][i]) <= Val(to_mcu'[m][j])
    BY <1>0, SMTT(30) DEF OrderInv, Timing, Val
  <2>1. \A i \in 1..Len(to_mcu'[m]) : Timing(to_mcu'[m][i]) =>
           i \in DOMAIN to_mcu[m] /\ to_mcu'[m][i] = to_mcu[m][i]
    BY <1>0, <1>4 DEF Timing
  <2> QED BY <2>1 DEF IInv, OrderInv
<1> QED
  BY <1>2, <1>3, <1>5, <1>6 DEF IInv

\* A queue that is left alone, and one that gets a command.
LEMMA LongerRefl ==
    ASSUME TypeOK, to_mcu' = to_mcu PROVE Longer
<1>1. \A m \in Boards : to_mcu[m] \in Seq(CommandSet)
  BY DEF WireType
<1> QED BY <1>1 DEF Longer

\* Messages to the host that are left alone.
LEMMA ShorterRefl ==
    ASSUME TypeOK, to_host' = to_host PROVE Shorter
<1>1. \A m \in Boards : to_host[m] \in Seq(MessageSet)
  BY DEF WireType
<1> QED BY <1>1 DEF Shorter

\* One board is sent a command that sets no timer.
LEMMA LongerOne ==
    ASSUME TypeOK, NEW m \in Boards, NEW c \in CommandSet, c.op \in {"trigger", "off"},
           to_mcu' = [to_mcu EXCEPT ![m] = Append(@, c)]
    PROVE  Longer
<1>1. \A n \in Boards : to_mcu[n] \in Seq(CommandSet)
  BY DEF WireType
<1>2. \A n \in Boards : to_mcu'[n] = IF n = m THEN Append(to_mcu[n], c) ELSE to_mcu[n]
  BY DEF WireType
<1> QED BY <1>1, <1>2, AppendProps DEF Longer

\* Every board is sent one.
LEMMA LongerAll ==
    ASSUME TypeOK, NEW c \in CommandSet, c.op \in {"trigger", "off"},
           to_mcu' = [n \in Boards |-> Append(to_mcu[n], c)]
    PROVE  Longer
<1>1. \A n \in Boards : to_mcu[n] \in Seq(CommandSet)
  BY DEF WireType
<1> QED BY <1>1, AppendProps DEF Longer

\* The first message of a board is taken or lost.
LEMMA ShorterTail ==
    ASSUME TypeOK, NEW m \in Boards, to_host[m] # <<>>,
           to_host' = [to_host EXCEPT ![m] = Tail(@)]
    PROVE  Shorter
<1>1. \A n \in Boards : to_host[n] \in Seq(MessageSet)
  BY DEF WireType
<1>2. \A n \in Boards : to_host'[n] = IF n = m THEN Tail(to_host[n]) ELSE to_host[n]
  BY DEF WireType
<1>3. ASSUME NEW n \in Boards, NEW i \in 1..Len(to_host'[n])
      PROVE  \E j \in 1..Len(to_host[n]) : to_host'[n][i] = to_host[n][j]
  <2>1. CASE n = m
    <3>0. /\ Len(Tail(to_host[n])) = Len(to_host[n]) - 1 /\ Len(to_host[n]) \in Nat
          /\ \A k \in 1..(Len(to_host[n]) - 1) : Tail(to_host[n])[k] = to_host[n][k + 1]
      BY <1>1, <2>1, TailProps
    <3>a. to_host'[n] = Tail(to_host[n])
      BY <1>2, <2>1
    <3>b. i \in 1..(Len(to_host[n]) - 1)
      BY <3>0, <3>a
    <3>c. Tail(to_host[n])[i] = to_host[n][i + 1]
      BY <3>0, <3>b
    <3>d. i + 1 \in 1..Len(to_host[n])
      BY <3>0, <3>b
    <3>1. i + 1 \in 1..Len(to_host[n]) /\ to_host'[n][i] = to_host[n][i + 1]
      BY <3>a, <3>c, <3>d, Zenon
    <3> QED BY <3>1
  <2>2. CASE n # m
    BY <1>2, <2>2
  <2> QED BY <2>1, <2>2
<1> QED BY <1>3 DEF Shorter

\* The threads of the host, but for a message that extends a timeout.
LEMMA PythonStep ==
    ASSUME IInv, Python PROVE IInv'
<1>0. TypeOK /\ TypeOK'
  BY PythonTypeStep DEF IInv
<1> USE MadeType
<1>a. \A b \in BOOLEAN : Command("trigger", HOST_REQUEST, b).op = "trigger"
  BY DEF Command
<1>1. CASE WaitEnd
  <2>1. Longer /\ Shorter
    BY <1>0, <1>1, LongerRefl, ShorterRefl DEF WaitEnd, wires
  <2> QED BY <1>0, <1>1, <2>1, QuietStep DEF WaitEnd, dispatch, endstop
<1>2. CASE Stop
  <2> DEFINE q == [to_mcu EXCEPT ![1] = Append(@, Command("off", 0, FALSE))]
             c == Command("trigger", HOST_REQUEST, TRUE)
             d == Command("off", 0, FALSE)
  <2>1. to_mcu' = [q EXCEPT ![1] = Append(@, c)] /\ to_host' = to_host
    BY <1>2 DEF Stop, Ask
  <2>2. 1 \in Boards /\ \A n \in Boards : to_mcu[n] \in Seq(CommandSet)
    BY <1>0, SyncAssumption DEF WireType, Boards
  <2>3. to_mcu \in [Boards -> Seq(CommandSet)]
    BY <1>0 DEF WireType
  <2>4. \A n \in Boards : to_mcu'[n] = IF n = 1 THEN Append(Append(to_mcu[n], d), c) ELSE to_mcu[n]
    BY <2>1, <2>2, <2>3
  <2>5. c \in CommandSet /\ d \in CommandSet /\ c.op = "trigger" /\ d.op = "off"
    BY DEF Command
  <2> HIDE DEF c, d
  <2>6. \A n \in Boards : Append(to_mcu[n], d) \in Seq(CommandSet)
    BY <2>2, <2>5, AppendProps
  <2>7. ASSUME NEW n \in Boards
        PROVE  /\ Len(to_mcu[n]) <= Len(to_mcu'[n])
               /\ \A i \in 1..Len(to_mcu'[n]) :
                     IF i <= Len(to_mcu[n]) THEN to_mcu'[n][i] = to_mcu[n][i]
                     ELSE to_mcu'[n][i].op \in {"trigger", "off"}
    <3> DEFINE p == Append(to_mcu[n], d)
    <3>1. /\ p \in Seq(CommandSet) /\ Len(p) = Len(to_mcu[n]) + 1 /\ Len(to_mcu[n]) \in Nat
          /\ \A i \in 1..Len(to_mcu[n]) + 1 : p[i] = IF i <= Len(to_mcu[n]) THEN to_mcu[n][i] ELSE d
      BY <2>2, <2>5, AppendProps
    <3>2. n = 1 => to_mcu'[n] = Append(p, c)
      BY <2>4
    <3> HIDE DEF p
    <3>3. /\ Len(Append(p, c)) = Len(p) + 1
          /\ \A i \in 1..Len(p) + 1 : Append(p, c)[i] = IF i <= Len(p) THEN p[i] ELSE c
      BY <2>5, <3>1, AppendProps
    <3>4. CASE n = 1
      BY <2>5, <3>1, <3>2, <3>3, <3>4, SMTT(30)
    <3>5. CASE n # 1
      BY <2>2, <2>4, <3>5
    <3> QED BY <3>4, <3>5
  <2>8. Longer
    BY <2>7 DEF Longer
  <2> QED BY <1>0, <1>2, <2>1, <2>8, ShorterRefl, QuietStep DEF Stop, endstop
<1>3. CASE Answered
  <2>1. Longer
    <3>1. CASE asked < N
      <4>1. to_mcu' = [to_mcu EXCEPT ![asked + 1] = Append(@, Command("trigger", HOST_REQUEST, TRUE))]
        BY <1>3, <3>1 DEF Answered, Ask
      <4>2. asked + 1 \in Boards
        BY <1>0, <3>1, SyncAssumption DEF PythonType, Boards
      <4> QED BY <1>0, <1>a, <4>1, <4>2, LongerOne
    <3>2. CASE ~(asked < N)
      BY <1>0, <1>3, <3>2, LongerRefl DEF Answered
    <3> QED BY <3>1, <3>2
  <2> QED BY <1>0, <1>3, <2>1, ShorterRefl, QuietStep DEF Answered, stopOnly, endstop, dispatch
<1>4. CASE NotAnswered
  <2>1. Longer
    <3>1. CASE MayRetry
      <4>1. to_mcu' = [to_mcu EXCEPT ![asked] = Append(@, Command("trigger", HOST_REQUEST, TRUE))]
        BY <1>4, <3>1 DEF NotAnswered
      <4>2. asked \in Boards
        BY <1>0 DEF PythonType
      <4> QED BY <1>0, <1>a, <4>1, <4>2, LongerOne
    <3>2. CASE ~MayRetry
      BY <1>0, <1>4, <3>2, LongerRefl DEF NotAnswered
    <3> QED BY <3>1, <3>2
  <2> QED BY <1>0, <1>4, <2>1, ShorterRefl, QuietStep DEF NotAnswered, stopOnly, endstop, dispatch
<1> QED
  BY <1>1, <1>2, <1>3, <1>4 DEF Python

\* _bg_thread: at most a trigger is sent.
LEMMA PythonReceiveStep ==
    ASSUME IInv, NEW m \in Boards, PythonReceive(m) PROVE IInv'
<1>0. TypeOK /\ TypeOK'
  BY ReceiveTypeStep DEF IInv
<1>1. \/ to_mcu' = to_mcu
      \/ to_mcu' = [to_mcu EXCEPT ![m] = Append(@, Command("trigger", PAST_END_TIME, FALSE))]
  BY DEF PythonReceive
<1>2. Command("trigger", PAST_END_TIME, FALSE).op = "trigger"
  BY DEF Command
<1>3. Longer
  BY <1>0, <1>1, <1>2, MadeType, LongerRefl, LongerOne
<1> QED
  BY <1>0, <1>3, ShorterRefl, QuietStep DEF PythonReceive, endstop, dispatch

\* A message is lost on the line.
LEMMA LoseStep ==
    ASSUME IInv, NEW m \in Boards, LoseState(m) PROVE IInv'
<1>0. TypeOK /\ TypeOK'
  BY BoardTypeStep DEF IInv
<1>1. Longer /\ Shorter
  BY <1>0, LongerRefl, ShorterTail DEF LoseState
<1> QED
  BY <1>0, <1>1, QuietStep DEF LoseState, endstop, dispatch, python

------------------------------------------------------------------------------
(* The dispatch *)

\* A report extends timeouts: only up to what all the others have reported, and
\* only forwards.
LEMMA ExtendStep ==
    ASSUME IInv, NEW m \in Boards, HostReceive(m),
           Head(to_host[m]).kind = "state", is_active, td_can_trigger, Head(to_host[m]).can
    PROVE  IInv'
<1>0. TypeOK /\ TypeOK'
  BY ReceiveTypeStep DEF IInv
<1> DEFINE s == Head(to_host[m])
           clock == [last_status_clock EXCEPT ![m] = s.clock]
<1>1. /\ last_status_clock' = clock
      /\ expire_clock' = [n \in Boards |-> Extended(clock, n)]
      /\ to_mcu' = [n \in Boards |->
            IF Extended(clock, n) = expire_clock[n] THEN to_mcu[n]
            ELSE Append(to_mcu[n], Command("timeout", Extended(clock, n), FALSE))]
      /\ to_host' = [to_host EXCEPT ![m] = Tail(@)]
      /\ UNCHANGED <<now, print_time, ts, task_clock, stopped_at, too_close, es>>
  BY DEF HostReceive, Dispatch, board, endstop, python
<1>2. to_host[m] # <<>> /\ Shorter
  BY <1>0, <1>1, ShorterTail DEF HostReceive
<1>3. \A n \in Boards : Bound(n)' = Bound(n) /\ Bound(n) \in Nat /\ Bound(n) <= now + Lead
  BY <1>1, BoundType DEF Bound
<1>4. s \in MessageSet /\ s.clock \in Nat /\ s.clock <= Bound(m)
  <2>1. s = to_host[m][1] /\ 1 \in DOMAIN to_host[m] /\ s \in MessageSet
    BY <1>0, <1>2, TailProps DEF WireType
  <2> QED BY <2>1 DEF IInv, StatusInv, MessageSet
<1>5. clock \in [Boards -> Nat] /\ \A n \in Boards : clock[n] <= Bound(n)
  BY <1>0, <1>4 DEF DispatchType, IInv, StatusInv
<1> HIDE DEF s, clock
<1>6. \A n \in Boards : /\ Extended(clock, n) \in Nat /\ expire_clock[n] \in Nat
                        /\ expire_clock[n] <= Extended(clock, n)
                        /\ \/ Extended(clock, n) = expire_clock[n]
                           \/ Extended(clock, n) = OthersStatus(clock, n) + Expire
  BY <1>0, <1>5, ExtendedProps DEF DispatchType
<1>7. EndstopInv' /\ ~too_close' /\ StopInv'
  BY <1>1 DEF IInv, EndstopInv, StopInv
<1>8. StatusInv'
  <2>1. \A n \in Boards : to_host[n] \in Seq(MessageSet) /\ to_host'[n] \in Seq(MessageSet)
    BY <1>0 DEF WireType
  <2> QED BY <1>1, <1>2, <1>3, <1>5, <2>1 DEF IInv, StatusInv, Shorter
<1>9. LimitInv'
  <2> SUFFICES ASSUME NEW k \in Boards, NEW n \in Boards, k # n
               PROVE  Extended(clock, k) <= Bound(n) + Expire
    BY <1>1, <1>3 DEF LimitInv
  <2>1. OthersStatus(clock, k) \in Nat /\ OthersStatus(clock, k) <= clock[n] /\ clock[n] \in Nat
    BY <1>5, OthersStatusProps
  <2>2. expire_clock[k] <= Bound(n) + Expire
    BY DEF IInv, LimitInv
  <2> QED BY <1>3, <1>5, <1>6, <2>1, <2>2, SyncAssumption
<1>10. \A n \in Boards : Extended(clock, n) <= now + Lead + Expire
  <2> SUFFICES ASSUME NEW n \in Boards PROVE Extended(clock, n) <= now + Lead + Expire
    OBVIOUS
  <2>1. PICK k \in Boards : OthersStatus(clock, n) = clock[k]
    BY <1>5, OthersStatusProps
  <2>2. clock[k] \in Nat /\ clock[k] <= Bound(k) /\ now \in Nat
    BY <1>0, <1>5
  <2>3. expire_clock[n] <= now + Lead + Expire
    BY DEF IInv, OrderInv
  <2> QED BY <1>3, <1>6, <2>1, <2>2, <2>3, SyncAssumption
<1>11. ASSUME NEW n \in Boards
       PROVE  /\ to_mcu[n] \in Seq(CommandSet) /\ to_mcu'[n] \in Seq(CommandSet)
              /\ Len(to_mcu[n]) \in Nat
              /\ \A i \in 1..Len(to_mcu'[n]) :
                    \/ i <= Len(to_mcu[n]) /\ to_mcu'[n][i] = to_mcu[n][i]
                    \/ /\ i = Len(to_mcu[n]) + 1
                       /\ to_mcu'[n][i].op = "timeout"
                       /\ to_mcu'[n][i].arg = Extended(clock, n)
  <2> DEFINE c == Command("timeout", Extended(clock, n), FALSE)
  <2>1. to_mcu[n] \in Seq(CommandSet) /\ to_mcu'[n] \in Seq(CommandSet)
    BY <1>0 DEF WireType
  <2>2. c \in CommandSet /\ c.op = "timeout" /\ c.arg = Extended(clock, n)
    BY <1>6, MadeType DEF Command
  <2>3. to_mcu'[n] = to_mcu[n] \/ to_mcu'[n] = Append(to_mcu[n], c)
    BY <1>1
  <2> HIDE DEF c
  <2> QED BY <2>1, <2>2, <2>3, AppendProps
<1>12. SetUpInv'
  <2>1. ASSUME NEW n \in Boards, NEW i \in 1..Len(to_mcu'[n]),
               to_mcu'[n][i].op \in {"start", "home"}
        PROVE  now <= to_mcu'[n][i].arg
    <3>1. i \in DOMAIN to_mcu[n] /\ to_mcu'[n][i] = to_mcu[n][i]
      BY <1>11, <2>1
    <3> QED BY <2>1, <3>1 DEF IInv, SetUpInv
  <2>2. \A n \in Boards : to_mcu'[n] \in Seq(CommandSet)
    BY <1>11
  <2>3. print_time' <= now' + Lead /\ now' = now
    BY <1>1 DEF IInv, SetUpInv
  <2> QED BY <2>1, <2>2, <2>3 DEF SetUpInv
<1>13. OrderInv'
  <2> SUFFICES ASSUME NEW n \in Boards
               PROVE  /\ expire_clock'[n] <= now + Lead + Expire
                      /\ ts[n].can => /\ now <= ts[n].expire_time
                                      /\ ts[n].expire_time <= expire_clock'[n]
                      /\ \A i \in 1..Len(to_mcu'[n]) : Timing(to_mcu'[n][i]) =>
                            /\ Val(to_mcu'[n][i]) <= expire_clock'[n]
                            /\ ts[n].can => ts[n].expire_time <= Val(to_mcu'[n][i])
                            /\ \A j \in 1..Len(to_mcu'[n]) :
                                  i < j /\ Timing(to_mcu'[n][j])
                                    => Val(to_mcu'[n][i]) <= Val(to_mcu'[n][j])
    <3>1. \A n \in Boards : to_mcu'[n] \in Seq(CommandSet)
      BY <1>11
    <3>2. ts' = ts /\ now' = now
      BY <1>1
    <3> QED BY <3>1, <3>2 DEF OrderInv, Timing, Val
  <2>1. expire_clock'[n] = Extended(clock, n)
    BY <1>1
  <2>2. /\ ts[n].can => now <= ts[n].expire_time /\ ts[n].expire_time <= expire_clock[n]
        /\ \A i \in DOMAIN to_mcu[n] : Timing(to_mcu[n][i]) =>
              /\ Val(to_mcu[n][i]) <= expire_clock[n]
              /\ ts[n].can => ts[n].expire_time <= Val(to_mcu[n][i])
              /\ \A j \in DOMAIN to_mcu[n] :
                    i < j /\ Timing(to_mcu[n][j]) => Val(to_mcu[n][i]) <= Val(to_mcu[n][j])
    BY DEF IInv, OrderInv
  <2>3. \A i \in DOMAIN to_mcu[n] : Val(to_mcu[n][i]) \in Nat
    <3>1. \A i \in DOMAIN to_mcu[n] : to_mcu[n][i] \in CommandSet
      BY <1>11
    <3>2. \A c \in CommandSet : Val(c) \in Nat
      BY SyncAssumption DEF Val, CommandSet
    <3> QED BY <3>1, <3>2
  <2>4. ts[n].expire_time \in Int
    BY <1>0 DEF BoardType, Trsync, Clock
  <2>5. \A i \in 1..Len(to_mcu'[n]) :
           \/ i \in DOMAIN to_mcu[n] /\ to_mcu'[n][i] = to_mcu[n][i]
           \/ /\ i = Len(to_mcu[n]) + 1
              /\ Val(to_mcu'[n][i]) = Extended(clock, n)
    BY <1>11 DEF Val
  <2>6. DOMAIN to_mcu[n] = 1..Len(to_mcu[n])
    BY <1>11
  <2>7. /\ expire_clock'[n] <= now + Lead + Expire
        /\ ts[n].can => now <= ts[n].expire_time /\ ts[n].expire_time <= expire_clock'[n]
    BY <1>6, <1>10, <2>1, <2>2, <2>4
  <2>8. ASSUME NEW i \in 1..Len(to_mcu'[n]), Timing(to_mcu'[n][i])
        PROVE  /\ Val(to_mcu'[n][i]) <= expire_clock'[n]
               /\ ts[n].can => ts[n].expire_time <= Val(to_mcu'[n][i])
               /\ \A j \in 1..Len(to_mcu'[n]) :
                     i < j /\ Timing(to_mcu'[n][j]) => Val(to_mcu'[n][i]) <= Val(to_mcu'[n][j])
    <3>1. CASE i \in DOMAIN to_mcu[n] /\ to_mcu'[n][i] = to_mcu[n][i]
      <4>1. /\ Val(to_mcu[n][i]) <= expire_clock[n] /\ Val(to_mcu[n][i]) \in Nat
            /\ ts[n].can => ts[n].expire_time <= Val(to_mcu[n][i])
        BY <2>2, <2>3, <2>8, <3>1
      <4>2. Val(to_mcu[n][i]) <= Extended(clock, n)
        BY <1>6, <4>1
      <4>3. ASSUME NEW j \in 1..Len(to_mcu'[n]), i < j, Timing(to_mcu'[n][j])
            PROVE  Val(to_mcu'[n][i]) <= Val(to_mcu'[n][j])
        BY <2>2, <2>5, <2>8, <3>1, <4>2, <4>3
      <4> QED BY <2>1, <3>1, <4>1, <4>2, <4>3
    <3>2. CASE i = Len(to_mcu[n]) + 1 /\ Val(to_mcu'[n][i]) = Extended(clock, n)
      <4>1. \A j \in 1..Len(to_mcu'[n]) : ~(i < j)
        BY <1>11, <2>5, <2>6, <3>2, SMTT(30)
      <4> QED BY <1>6, <2>1, <2>2, <2>4, <3>2, <4>1
    <3> QED BY <2>5, <3>1, <3>2
  <2> QED
    BY <2>7, <2>8
<1> QED
  BY <1>0, <1>7, <1>8, <1>9, <1>12, <1>13 DEF IInv

\* The fastreader: a trigger for every board, or timeouts moved on.
LEMMA HostReceiveStep ==
    ASSUME IInv, NEW m \in Boards, HostReceive(m) PROVE IInv'
<1>0. TypeOK /\ TypeOK'
  BY ReceiveTypeStep DEF IInv
<1> DEFINE s == Head(to_host[m])
<1>1. Shorter
  BY <1>0, ShorterTail DEF HostReceive
<1>2. CASE ~(s.kind = "state" /\ is_active /\ td_can_trigger)
  <2>1. Longer
    BY <1>0, <1>2, LongerRefl DEF HostReceive
  <2> QED BY <1>0, <1>1, <1>2, <2>1, QuietStep DEF HostReceive, python, board, endstop
<1>3. CASE s.kind = "state" /\ is_active /\ td_can_trigger /\ ~s.can
  <2>1. /\ to_mcu' = [n \in Boards |->
              Append(to_mcu[n], Command("trigger", HOST_REQUEST, FALSE))]
        /\ UNCHANGED <<last_status_clock, expire_clock>>
    BY <1>3 DEF HostReceive, Dispatch
  <2>2. Command("trigger", HOST_REQUEST, FALSE).op = "trigger"
    BY DEF Command
  <2>3. Longer
    BY <1>0, <2>1, <2>2, MadeType, LongerAll
  <2> QED BY <1>0, <1>1, <2>1, <2>3, QuietStep DEF HostReceive, python, board, endstop
<1>4. CASE s.kind = "state" /\ is_active /\ td_can_trigger /\ s.can
  BY <1>4, ExtendStep
<1> QED
  BY <1>2, <1>3, <1>4

------------------------------------------------------------------------------
(* The boards *)

\* After a trigger the board waits for no other; the rest leaves the timeout.
LEMMA TrsyncCan ==
    ASSUME NEW t \in Trsync, NEW r \in Reason
    PROVE  /\ ~DoTrigger(t, r).can
           /\ ~Triggered(t, r).can
           /\ ~[DoTrigger(t, r) EXCEPT !.expire_time = Never].can
           /\ Triggered(t, r).expire_time = Never /\ Triggered(t, r).report_time = Never
           /\ Reported(t).can = t.can /\ Reported(t).expire_time = t.expire_time
           /\ [t EXCEPT !.report = FALSE].can = t.can
           /\ [t EXCEPT !.report = FALSE].expire_time = t.expire_time
<1>1. DoTrigger(t, r) \in Trsync /\ ~DoTrigger(t, r).can
  BY DEF DoTrigger, Trsync
<1>2. /\ ~Triggered(t, r).can
      /\ ~[DoTrigger(t, r) EXCEPT !.expire_time = Never].can
      /\ Triggered(t, r).expire_time = Never /\ Triggered(t, r).report_time = Never
  BY <1>1 DEF Triggered, Trsync
<1>3. Reported(t).can = t.can /\ Reported(t).expire_time = t.expire_time
  BY DEF Reported, Trsync
<1> QED
  BY <1>1, <1>2, <1>3 DEF Trsync

\* A trigger that goes off now leaves the bounds: the board was running.
LEMMA NoteStopStep ==
    ASSUME IInv, NEW m \in Boards, NoteStop(m), BoardType',
           now' = now, print_time' = print_time, task_clock' = task_clock,
           \A n \in Boards \ {m} : ts'[n] = ts[n], ts'[m].can => ts[m].can
    PROVE  StopInv' /\ \A n \in Boards : Bound(n)' = Bound(n)
<1>1. /\ stopped_at \in [Boards -> Clock] /\ now \in Nat
      /\ \A n \in Boards : /\ ts[n].can => stopped_at[n] = Never
                           /\ stopped_at[n] <= now /\ task_clock[n] <= now
                           /\ ts[n].can \in BOOLEAN /\ ts'[n].can \in BOOLEAN
  BY DEF IInv, StopInv, BoardType, Trsync
<1>2. \A n \in Boards : stopped_at'[n] = IF n = m /\ ts[n].can /\ ~ts'[n].can THEN now
                                        ELSE stopped_at[n]
  BY <1>1 DEF NoteStop
<1>3. StopInv'
  BY <1>1, <1>2 DEF StopInv
<1>4. \A n \in Boards : Bound(n)' = Bound(n)
  BY <1>1, <1>2 DEF Bound, Clock
<1> QED
  BY <1>3, <1>4

\* The order of the timeouts is kept when a board stops waiting or goes on as it was.
LEMMA OrderKept ==
    ASSUME IInv, now' = now, to_mcu' = to_mcu, expire_clock' = expire_clock,
           \A n \in Boards : ts'[n].can => ts[n].can /\ ts'[n].expire_time = ts[n].expire_time
    PROVE  OrderInv'
  BY DEF IInv, OrderInv

\* A timer that fires, and trsync_task.
LEMMA FireStep ==
    ASSUME IInv, NEW m \in Boards, NoteStop(m), TypeOK', EndstopInv',
           UNCHANGED <<now, print_time, task_clock, too_close, to_mcu, to_host,
                       last_status_clock, expire_clock>>,
           \A n \in Boards \ {m} : ts'[n] = ts[n],
           ts'[m].can => ts[m].can /\ ts'[m].expire_time = ts[m].expire_time
    PROVE  IInv'
<1>1. StopInv' /\ \A n \in Boards : Bound(n)' = Bound(n)
  BY NoteStopStep
<1>2. StatusInv' /\ LimitInv'
  BY <1>1 DEF IInv, StatusInv, LimitInv
<1>3. SetUpInv'
  BY DEF IInv, SetUpInv
<1>4. OrderInv'
  BY OrderKept
<1> QED
  BY <1>1, <1>2, <1>3, <1>4 DEF IInv

\* trsync_expire_event: the board stops.
LEMMA ExpireStep ==
    ASSUME IInv, NEW m \in Boards, ExpireEvent(m) PROVE IInv'
<1>0. TypeOK' /\ ts \in [Boards -> Trsync]
  BY BoardTypeStep DEF IInv, BoardType
<1>1. ts' = [ts EXCEPT ![m] = [DoTrigger(ts[m], COMMS_TIMEOUT) EXCEPT !.expire_time = Never]]
  BY DEF ExpireEvent
<1>2. ~ts'[m].can /\ \A n \in Boards \ {m} : ts'[n] = ts[n]
  BY <1>0, <1>1, TrsyncCan, MadeType
<1>3. EndstopInv'
  BY DEF ExpireEvent, boardOnly, endstop, IInv, EndstopInv
<1>4. /\ UNCHANGED <<now, print_time, task_clock, too_close, to_mcu, to_host,
                     last_status_clock, expire_clock>>
      /\ NoteStop(m)
  BY DEF ExpireEvent, boardOnly, python, dispatch
<1> QED
  BY <1>0, <1>2, <1>3, <1>4, FireStep

\* A sample of the endstop: the board goes on or stops.
LEMMA EndstopIInvStep ==
    ASSUME IInv, EndstopEvent PROVE IInv'
<1>0. TypeOK' /\ EndstopInv' /\ ts \in [Boards -> Trsync] /\ 1 \in Boards
  BY EndstopTypeStep, SyncAssumption DEF IInv, BoardType, Boards
<1>1. ts' = ts \/ ts' = [ts EXCEPT ![1] = DoTrigger(ts[1], ENDSTOP_HIT)]
  BY DEF EndstopEvent
<1>2. /\ \A n \in Boards \ {1} : ts'[n] = ts[n]
      /\ ts'[1].can => ts[1].can /\ ts'[1].expire_time = ts[1].expire_time
  BY <1>0, <1>1, TrsyncCan, MadeType
<1>3. /\ UNCHANGED <<now, print_time, task_clock, too_close, to_mcu, to_host,
                     last_status_clock, expire_clock>>
      /\ NoteStop(1)
  BY DEF EndstopEvent, wires, python, dispatch
<1> QED
  BY <1>0, <1>2, <1>3, FireStep

\* trsync_report_event changes neither trigger nor timeout.
LEMMA ReportStep ==
    ASSUME IInv, NEW m \in Boards, ReportEvent(m) PROVE IInv'
<1>0. TypeOK' /\ ts \in [Boards -> Trsync]
  BY BoardTypeStep DEF IInv, BoardType
<1>1. ts' = [ts EXCEPT ![m] = Reported(ts[m])]
  BY DEF ReportEvent
<1>2. \A n \in Boards : ts'[n].can = ts[n].can /\ ts'[n].expire_time = ts[n].expire_time
  BY <1>0, <1>1, TrsyncCan, MadeType
<1>3. UNCHANGED <<now, print_time, task_clock, stopped_at, too_close, to_mcu, to_host,
                  last_status_clock, expire_clock, es>>
  BY DEF ReportEvent, boardOnly, python, dispatch, endstop
<1>4. \A n \in Boards : Bound(n)' = Bound(n)
  BY <1>3 DEF Bound
<1>5. StopInv' /\ StatusInv' /\ LimitInv' /\ SetUpInv' /\ EndstopInv'
  BY <1>2, <1>3, <1>4 DEF IInv, StopInv, StatusInv, LimitInv, SetUpInv, EndstopInv
<1>6. OrderInv'
  BY <1>2, <1>3, OrderKept
<1> QED
  BY <1>0, <1>3, <1>5, <1>6 DEF IInv

\* trsync_task reads the time before the flags: what it reports as running was
\* running then.
LEMMA TaskStep ==
    ASSUME IInv, NEW m \in Boards, Task(m) PROVE IInv'
<1>0. TypeOK /\ TypeOK' /\ ts \in [Boards -> Trsync] /\ now \in Nat
  BY BoardTypeStep DEF IInv, BoardType
<1>1. CASE TaskTime(m)
  <2>1. UNCHANGED <<now, print_time, ts, stopped_at, too_close, to_mcu, to_host,
                    last_status_clock, expire_clock, es>>
    BY <1>1 DEF TaskTime, boardOnly, python, dispatch, endstop
  <2>2. \A n \in Boards : Bound(n)' = Bound(n)
    BY <2>1 DEF Bound
  <2>3. StopInv'
    <3>1. \A n \in Boards : task_clock'[n] <= now
      BY <1>0, <1>1 DEF TaskTime, IInv, StopInv, BoardType
    <3> QED BY <2>1, <3>1 DEF IInv, StopInv
  <2>4. StatusInv' /\ LimitInv' /\ SetUpInv' /\ EndstopInv'
    BY <2>1, <2>2 DEF IInv, StatusInv, LimitInv, SetUpInv, EndstopInv
  <2>5. OrderInv'
    BY <2>1, OrderKept
  <2> QED BY <1>0, <2>1, <2>3, <2>4, <2>5 DEF IInv
<1>2. CASE TaskReport(m)
  <2> DEFINE s == State(ts[m].can, ts[m].reason, task_clock[m])
  <2>1. /\ UNCHANGED <<now, print_time, stopped_at, too_close, to_mcu, last_status_clock,
                       expire_clock, es>>
        /\ ts' = [ts EXCEPT ![m] = [@ EXCEPT !.report = FALSE]]
        /\ to_host' = [to_host EXCEPT ![m] = Append(@, s)]
        /\ task_clock' = [task_clock EXCEPT ![m] = Never] /\ task_clock[m] # Never
    BY <1>2 DEF TaskReport, boardOnly, python, dispatch, endstop
  <2>2. \A n \in Boards : Bound(n)' = Bound(n)
    BY <2>1 DEF Bound
  <2>3. \A n \in Boards : ts'[n].can = ts[n].can /\ ts'[n].expire_time = ts[n].expire_time
    BY <1>0, <2>1, TrsyncCan, MadeType
  <2>4. StopInv'
    <3>1. \A n \in Boards : task_clock'[n] <= now
      BY <1>0, <2>1 DEF IInv, StopInv, BoardType
    <3> QED BY <2>1, <2>3, <3>1 DEF IInv, StopInv
  <2>5. StatusInv'
    <3>1. \A n \in Boards : to_host[n] \in Seq(MessageSet) /\ to_host'[n] \in Seq(MessageSet)
      BY <1>0 DEF WireType
    <3>2. s \in MessageSet /\ s.can = ts[m].can /\ s.clock = task_clock[m]
      <4>1. ts[m].can \in BOOLEAN /\ ts[m].reason \in Reason /\ task_clock[m] \in Nat
        BY <1>0, <2>1 DEF BoardType, Trsync, Clock
      <4> QED BY <4>1 DEF State, MessageSet
    <3>3. s.can => s.clock <= Bound(m)
      <4>1. ts[m].can => stopped_at[m] = Never /\ task_clock[m] <= now
        BY DEF IInv, StopInv
      <4>2. print_time \in Nat /\ task_clock[m] \in Int
        BY <1>0 DEF PythonType, BoardType, Clock
      <4> QED BY <1>0, <3>2, <4>1, <4>2 DEF Bound, MaxOf
    <3> HIDE DEF s
    <3>4. \A n \in Boards : to_host'[n] = IF n = m THEN Append(to_host[n], s) ELSE to_host[n]
      BY <1>0, <2>1 DEF WireType
    <3>5. \A n \in Boards : \A i \in 1..Len(to_host'[n]) :
             \/ i \in 1..Len(to_host[n]) /\ to_host'[n][i] = to_host[n][i]
             \/ n = m /\ to_host'[n][i] = s
      <4>1. /\ Len(Append(to_host[m], s)) = Len(to_host[m]) + 1
            /\ \A i \in 1..(Len(to_host[m]) + 1) :
                  Append(to_host[m], s)[i] = IF i <= Len(to_host[m]) THEN to_host[m][i] ELSE s
            /\ Len(to_host[m]) \in Nat
        BY <3>1, <3>2, AppendProps
      <4>2. ASSUME NEW i \in 1..Len(to_host'[m])
            PROVE  \/ i \in 1..Len(to_host[m]) /\ to_host'[m][i] = to_host[m][i]
                   \/ to_host'[m][i] = s
        <5>1. to_host'[m] = Append(to_host[m], s)
          BY <3>4
        <5>2. i \in 1..(Len(to_host[m]) + 1)
          BY <4>1, <5>1
        <5>3. to_host'[m][i] = IF i <= Len(to_host[m]) THEN to_host[m][i] ELSE s
          BY <4>1, <5>1, <5>2
        <5> QED BY <4>1, <5>2, <5>3
      <4>3. \A n \in Boards \ {m} : to_host'[n] = to_host[n]
        BY <3>4
      <4> QED BY <4>2, <4>3
    <3>6. \A n \in Boards : /\ last_status_clock[n] <= Bound(n)
                            /\ \A i \in 1..Len(to_host[n]) :
                                  to_host[n][i].can => to_host[n][i].clock <= Bound(n)
      BY <3>1 DEF IInv, StatusInv
    <3>7. \A n \in Boards : \A i \in 1..Len(to_host'[n]) :
             to_host'[n][i].can => to_host'[n][i].clock <= Bound(n)
      BY <3>3, <3>5, <3>6
    <3> QED BY <2>1, <2>2, <3>1, <3>6, <3>7 DEF StatusInv
  <2>6. LimitInv' /\ SetUpInv' /\ EndstopInv'
    BY <2>1, <2>2 DEF IInv, LimitInv, SetUpInv, EndstopInv
  <2>7. OrderInv'
    BY <2>1, <2>3, OrderKept
  <2> QED BY <1>0, <2>1, <2>4, <2>5, <2>6, <2>7 DEF IInv
<1> QED
  BY <1>1, <1>2 DEF Task

\* Time goes on only when no timeout is due and every homing is set up in time.
LEMMA TickStep ==
    ASSUME IInv, Tick, ~TimerDue PROVE IInv'
<1>0. TypeOK /\ TypeOK' /\ now \in Nat /\ now' = now + 1
  <2>1. 1 \in Boards
    BY SyncAssumption DEF Boards
  <2> QED BY <2>1, BoardTypeStep DEF IInv, Tick
<1>1. UNCHANGED <<print_time, ts, task_clock, stopped_at, too_close, es, to_mcu, to_host,
                  last_status_clock, expire_clock>>
  BY DEF Tick, python, dispatch, board, endstop, wires
<1>2. \A n \in Boards : Bound(n) \in Nat /\ Bound(n)' \in Nat /\ Bound(n) <= Bound(n)'
  <2>1. print_time \in Nat /\ stopped_at \in [Boards -> Clock]
    BY <1>0 DEF PythonType, BoardType
  <2> QED BY <1>0, <1>1, <2>1 DEF Bound, MaxOf, Clock
<1>3. StopInv'
  BY <1>0, <1>1 DEF IInv, StopInv, BoardType, Clock
<1>4. StatusInv'
  <2>1. \A n \in Boards : /\ last_status_clock[n] \in Nat /\ to_host[n] \in Seq(MessageSet)
                          /\ \A i \in DOMAIN to_host[n] : to_host[n][i].clock \in Nat
    <3>1. \A n \in Boards : last_status_clock[n] \in Nat /\ to_host[n] \in Seq(MessageSet)
      BY <1>0 DEF DispatchType, WireType
    <3>2. \A n \in Boards : \A i \in DOMAIN to_host[n] : to_host[n][i] \in MessageSet
      BY <3>1
    <3>3. \A c \in MessageSet : c.clock \in Nat
      BY DEF MessageSet
    <3> QED BY <3>1, <3>2, <3>3
  <2> QED BY <1>1, <1>2, <2>1 DEF IInv, StatusInv
<1>5. LimitInv'
  BY <1>0, <1>1, <1>2, SyncAssumption DEF IInv, LimitInv, DispatchType
<1>6. SetUpInv'
  <2>1. \A m \in Boards : \A i \in DOMAIN to_mcu[m] :
          to_mcu[m][i].op \in {"start", "home"} => now < to_mcu[m][i].arg
    BY DEF Tick
  <2>2. \A m \in Boards : \A i \in DOMAIN to_mcu[m] : to_mcu[m][i].arg \in Nat
    <3>1. \A m \in Boards : to_mcu[m] \in Seq(CommandSet)
      BY <1>0 DEF WireType
    <3>2. \A m \in Boards : \A i \in DOMAIN to_mcu[m] : to_mcu[m][i] \in CommandSet
      BY <3>1
    <3>3. \A c \in CommandSet : c.arg \in Nat
      BY DEF CommandSet
    <3> QED BY <3>2, <3>3
  <2>3. print_time' <= now' + Lead
    BY <1>0, <1>1, SyncAssumption DEF IInv, SetUpInv, PythonType
  <2> QED BY <1>0, <1>1, <2>1, <2>2, <2>3 DEF SetUpInv
<1>7. OrderInv'
  <2>1. \A m \in Boards : ts[m].can => now < ts[m].expire_time
    <3>1. \A m \in Boards : ts[m].expire_time \in Clock /\ ~Due(ts[m].expire_time)
      BY <1>0 DEF TimerDue, BoardType, Trsync
    <3>2. \A m \in Boards : ts[m].can => now <= ts[m].expire_time
      BY DEF IInv, OrderInv
    <3> QED BY <1>0, <3>1, <3>2 DEF Due, Clock
  <2>2. \A m \in Boards : ts[m].can => now' <= ts[m].expire_time
    <3>1. \A m \in Boards : ts[m].expire_time \in Int
      BY <1>0 DEF BoardType, Trsync, Clock
    <3> QED BY <1>0, <2>1, <3>1
  <2>3. \A m \in Boards : expire_clock[m] <= now' + Lead + Expire
    BY <1>0, SyncAssumption DEF IInv, OrderInv, DispatchType
  <2> QED BY <1>1, <2>2, <2>3 DEF IInv, OrderInv
<1>8. EndstopInv' /\ ~too_close'
  BY <1>1 DEF IInv, EndstopInv
<1> QED
  BY <1>0, <1>3, <1>4, <1>5, <1>6, <1>7, <1>8 DEF IInv

\* The commands that stay in the queue when the first is taken.
LEMMA Taken ==
    ASSUME TypeOK, NEW m \in Boards, to_mcu[m] # <<>>,
           to_mcu' = [to_mcu EXCEPT ![m] = Tail(@)]
    PROVE  /\ 1 \in DOMAIN to_mcu[m] /\ to_mcu[m][1] = Head(to_mcu[m])
           /\ Head(to_mcu[m]) \in CommandSet
           /\ \A n \in Boards : \E d \in {0, 1} :
                 /\ n = m => d = 1
                 /\ \A i \in DOMAIN to_mcu'[n] : /\ i \in Nat \ {0}
                                                /\ i + d \in DOMAIN to_mcu[n]
                                                /\ to_mcu'[n][i] = to_mcu[n][i + d]
<1>1. \A n \in Boards : to_mcu[n] \in Seq(CommandSet)
  BY DEF WireType
<1>2. \A n \in Boards : to_mcu'[n] = IF n = m THEN Tail(to_mcu[n]) ELSE to_mcu[n]
  BY DEF WireType
<1>3. /\ Head(to_mcu[m]) \in CommandSet /\ Head(to_mcu[m]) = to_mcu[m][1]
      /\ Len(to_mcu[m]) \in Nat \ {0} /\ Len(Tail(to_mcu[m])) = Len(to_mcu[m]) - 1
      /\ \A i \in 1..(Len(to_mcu[m]) - 1) : Tail(to_mcu[m])[i] = to_mcu[m][i + 1]
      /\ DOMAIN to_mcu[m] = 1..Len(to_mcu[m])
      /\ DOMAIN Tail(to_mcu[m]) = 1..(Len(to_mcu[m]) - 1)
  BY <1>1, TailProps
<1>4. 1 \in DOMAIN to_mcu[m] /\ to_mcu[m][1] = Head(to_mcu[m])
  BY <1>3
<1>5. ASSUME NEW i \in DOMAIN to_mcu'[m]
      PROVE  i \in Nat \ {0} /\ i + 1 \in DOMAIN to_mcu[m] /\ to_mcu'[m][i] = to_mcu[m][i + 1]
  <2>1. i \in 1..(Len(to_mcu[m]) - 1) /\ to_mcu'[m] = Tail(to_mcu[m])
    BY <1>2, <1>3
  <2>2. i \in Nat \ {0} /\ i + 1 \in 1..Len(to_mcu[m])
    BY <1>3, <2>1
  <2>3. Tail(to_mcu[m])[i] = to_mcu[m][i + 1]
    BY <1>3, <2>1
  <2> QED BY <1>3, <2>1, <2>2, <2>3, Zenon
<1>6. ASSUME NEW n \in Boards, n # m, NEW i \in DOMAIN to_mcu'[n]
      PROVE  i \in Nat \ {0} /\ i + 0 \in DOMAIN to_mcu[n] /\ to_mcu'[n][i] = to_mcu[n][i + 0]
  <2>1. to_mcu'[n] = to_mcu[n] /\ DOMAIN to_mcu[n] = 1..Len(to_mcu[n])
    BY <1>1, <1>2, <1>6
  <2>2. i + 0 = i /\ i \in Nat \ {0}
    BY <2>1
  <2> QED BY <2>1, <2>2
<1>7. ASSUME NEW n \in Boards
      PROVE  \E d \in {0, 1} :
                 /\ n = m => d = 1
                 /\ \A i \in DOMAIN to_mcu'[n] : /\ i \in Nat \ {0}
                                                /\ i + d \in DOMAIN to_mcu[n]
                                                /\ to_mcu'[n][i] = to_mcu[n][i + d]
  <2>1. CASE n = m
    <3>1. 1 \in {0, 1}
      OBVIOUS
    <3> QED BY <1>5, <2>1, <3>1
  <2>2. CASE n # m
    <3>1. 0 \in {0, 1}
      OBVIOUS
    <3> QED BY <1>6, <2>2, <3>1
  <2> QED BY <2>1, <2>2
<1> QED
  BY <1>3, <1>4, <1>7

\* A command that sets the timeout takes the place of the one set before; any
\* other leaves it or ends the wait.
LEMMA OrderTaken ==
    ASSUME IInv, NEW m \in Boards, to_mcu[m] # <<>>,
           to_mcu' = [to_mcu EXCEPT ![m] = Tail(@)],
           UNCHANGED <<now, print_time, expire_clock>>,
           \A n \in Boards \ {m} : ts'[n] = ts[n],
           ts'[m].can =>
              \/ ts[m].can /\ ts'[m].expire_time = ts[m].expire_time
              \/ /\ Timing(Head(to_mcu[m])) /\ ts'[m].expire_time = Val(Head(to_mcu[m]))
                 /\ now <= ts'[m].expire_time
    PROVE  OrderInv' /\ SetUpInv'
<1> DEFINE q == to_mcu[m]
<1>0. TypeOK
  BY DEF IInv
<1>1. /\ 1 \in DOMAIN to_mcu[m] /\ to_mcu[m][1] = Head(to_mcu[m])
      /\ \A n \in Boards : \E d \in {0, 1} :
            /\ n = m => d = 1
            /\ \A i \in DOMAIN to_mcu'[n] : /\ i \in Nat \ {0}
                                           /\ i + d \in DOMAIN to_mcu[n]
                                           /\ to_mcu'[n][i] = to_mcu[n][i + d]
  BY <1>0, Taken
<1>2. SetUpInv'
  <2>1. print_time' <= now' + Lead
    BY DEF IInv, SetUpInv
  <2>2. ASSUME NEW n \in Boards, NEW i \in DOMAIN to_mcu'[n],
               to_mcu'[n][i].op \in {"start", "home"}
        PROVE  now' <= to_mcu'[n][i].arg
    BY <1>1, <2>2 DEF IInv, SetUpInv
  <2> QED BY <2>1, <2>2 DEF SetUpInv
<1>3. OrderInv'
  <2> SUFFICES ASSUME NEW n \in Boards
               PROVE  /\ expire_clock[n] <= now + Lead + Expire
                      /\ ts'[n].can => /\ now <= ts'[n].expire_time
                                       /\ ts'[n].expire_time <= expire_clock[n]
                      /\ \A i \in DOMAIN to_mcu'[n] : Timing(to_mcu'[n][i]) =>
                            /\ Val(to_mcu'[n][i]) <= expire_clock[n]
                            /\ ts'[n].can => ts'[n].expire_time <= Val(to_mcu'[n][i])
                            /\ \A j \in DOMAIN to_mcu'[n] :
                                  i < j /\ Timing(to_mcu'[n][j])
                                    => Val(to_mcu'[n][i]) <= Val(to_mcu'[n][j])
    BY DEF OrderInv, Timing, Val
  <2>1. /\ expire_clock[n] <= now + Lead + Expire
        /\ ts[n].can => /\ now <= ts[n].expire_time
                        /\ ts[n].expire_time <= expire_clock[n]
        /\ \A i \in DOMAIN to_mcu[n] : Timing(to_mcu[n][i]) =>
              /\ Val(to_mcu[n][i]) <= expire_clock[n]
              /\ ts[n].can => ts[n].expire_time <= Val(to_mcu[n][i])
              /\ \A j \in DOMAIN to_mcu[n] :
                    i < j /\ Timing(to_mcu[n][j]) => Val(to_mcu[n][i]) <= Val(to_mcu[n][j])
    BY DEF IInv, OrderInv
  <2>2. PICK d \in {0, 1} :
            /\ n = m => d = 1
            /\ \A i \in DOMAIN to_mcu'[n] : /\ i \in Nat \ {0}
                                           /\ i + d \in DOMAIN to_mcu[n]
                                           /\ to_mcu'[n][i] = to_mcu[n][i + d]
    BY <1>1
  <2>3. ASSUME NEW i \in DOMAIN to_mcu'[n], Timing(to_mcu'[n][i])
        PROVE  /\ Val(to_mcu'[n][i]) <= expire_clock[n]
               /\ \A j \in DOMAIN to_mcu'[n] :
                     i < j /\ Timing(to_mcu'[n][j]) => Val(to_mcu'[n][i]) <= Val(to_mcu'[n][j])
    <3>1. i + d \in DOMAIN to_mcu[n] /\ to_mcu'[n][i] = to_mcu[n][i + d] /\ i \in Nat
      BY <2>2
    <3>2. ASSUME NEW j \in DOMAIN to_mcu'[n], i < j, Timing(to_mcu'[n][j])
          PROVE  Val(to_mcu'[n][i]) <= Val(to_mcu'[n][j])
      <4>1. j + d \in DOMAIN to_mcu[n] /\ to_mcu'[n][j] = to_mcu[n][j + d] /\ j \in Nat
        BY <2>2
      <4>2. i + d < j + d
        BY <3>1, <3>2, <4>1
      <4> QED BY <2>1, <2>3, <3>1, <3>2, <4>1, <4>2
    <3> QED BY <2>1, <2>3, <3>1, <3>2
  <2>4. ASSUME ts'[n].can
        PROVE  /\ now <= ts'[n].expire_time /\ ts'[n].expire_time <= expire_clock[n]
               /\ \A i \in DOMAIN to_mcu'[n] :
                     Timing(to_mcu'[n][i]) => ts'[n].expire_time <= Val(to_mcu'[n][i])
    <3>1. CASE ts[n].can /\ ts'[n].expire_time = ts[n].expire_time
      BY <2>1, <2>2, <3>1
    <3>2. CASE ~(ts[n].can /\ ts'[n].expire_time = ts[n].expire_time)
      <4>1. n = m /\ Timing(to_mcu[n][1]) /\ ts'[n].expire_time = Val(to_mcu[n][1])
            /\ now <= ts'[n].expire_time /\ 1 \in DOMAIN to_mcu[n]
        BY <1>1, <2>4, <3>2
      <4>2. d = 1 /\ Val(to_mcu[n][1]) <= expire_clock[n]
        BY <2>1, <2>2, <4>1
      <4>3. ASSUME NEW i \in DOMAIN to_mcu'[n], Timing(to_mcu'[n][i])
            PROVE  Val(to_mcu[n][1]) <= Val(to_mcu'[n][i])
        <5>1. i + 1 \in DOMAIN to_mcu[n] /\ to_mcu'[n][i] = to_mcu[n][i + 1] /\ 1 < i + 1
          BY <2>2, <4>2
        <5> QED BY <2>1, <4>1, <4>3, <5>1
      <4> QED BY <4>1, <4>2, <4>3
    <3> QED BY <3>1, <3>2
  <2> QED BY <2>1, <2>3, <2>4
<1> QED
  BY <1>2, <1>3

\* What stays of the invariant when the bounds do not get smaller and no board
\* reports anything new as running.
LEMMA BoundsGrow ==
    ASSUME IInv, UNCHANGED <<last_status_clock, expire_clock>>,
           \A n \in Boards : Bound(n)' \in Nat /\ Bound(n) <= Bound(n)',
           \A n \in Boards : \A i \in DOMAIN to_host'[n] : to_host'[n][i].can =>
              \E j \in DOMAIN to_host[n] : to_host'[n][i] = to_host[n][j]
    PROVE  StatusInv' /\ LimitInv'
<1>1. \A n \in Boards : /\ Bound(n) \in Nat /\ last_status_clock[n] \in Nat
                        /\ expire_clock[n] \in Nat
  BY BoundType DEF IInv, DispatchType
<1>2. \A n \in Boards : to_host[n] \in Seq(MessageSet)
  BY DEF IInv, WireType
<1>3. \A n \in Boards : \A i \in DOMAIN to_host[n] : to_host[n][i] \in MessageSet
  BY <1>2
<1>4. \A c \in MessageSet : c.clock \in Nat
  BY DEF MessageSet
<1>5. LimitInv'
  BY <1>1, SyncAssumption DEF IInv, LimitInv
<1>6. \A n \in Boards : last_status_clock'[n] <= Bound(n)'
  BY <1>1 DEF IInv, StatusInv
<1>7. ASSUME NEW n \in Boards, NEW i \in DOMAIN to_host'[n], to_host'[n][i].can
      PROVE  to_host'[n][i].clock <= Bound(n)'
  <2>1. PICK j \in DOMAIN to_host[n] : to_host'[n][i] = to_host[n][j]
    BY <1>7
  <2>2. to_host[n][j].clock <= Bound(n) /\ to_host[n][j].clock \in Nat
    BY <1>3, <1>4, <1>7, <2>1 DEF IInv, StatusInv
  <2> QED BY <1>1, <2>1, <2>2
<1> QED
  BY <1>5, <1>6, <1>7 DEF StatusInv

\* The answers to trsync_trigger report no board as running.
LEMMA AnswersStopped ==
    ASSUME TypeOK, NEW m \in Boards, NEW s \in MessageSet, NEW ask \in BOOLEAN, ~s.can,
           to_host' = [to_host EXCEPT ![m] = @ \o <<s>> \o (IF ask THEN <<Done>> ELSE <<>>)]
    PROVE  \A n \in Boards : \A i \in DOMAIN to_host'[n] : to_host'[n][i].can =>
              \E j \in DOMAIN to_host[n] : to_host'[n][i] = to_host[n][j]
<1> DEFINE q == to_host[m]
           a == IF ask THEN <<Done>> ELSE <<>>
<1>1. q \in Seq(MessageSet) /\ to_host \in [Boards -> Seq(MessageSet)]
  BY DEF WireType
<1>2. \A n \in Boards : to_host'[n] = IF n = m THEN q \o <<s>> \o a ELSE to_host[n]
  BY <1>1
<1>3. Done \in MessageSet /\ ~Done.can
  BY MadeType DEF Done
<1>4. /\ <<s>> \in Seq(MessageSet) /\ Len(<<s>>) = 1 /\ <<s>>[1] = s
      /\ <<Done>> \in Seq(MessageSet) /\ Len(<<Done>>) = 1 /\ <<Done>>[1] = Done
      /\ <<>> \in Seq(MessageSet) /\ Len(<<>>) = 0
  BY <1>3
<1>5. a \in Seq(MessageSet) /\ Len(a) \in {0, 1} /\ \A i \in 1..Len(a) : a[i] = Done
  <2>1. CASE ask
    BY <1>4, <2>1
  <2>2. CASE ~ask
    BY <1>4, <2>2
  <2> QED BY <2>1, <2>2
<1> HIDE DEF a, q
<1>6. /\ q \o <<s>> \in Seq(MessageSet) /\ Len(q \o <<s>>) = Len(q) + 1
      /\ \A i \in 1..(Len(q) + 1) : (q \o <<s>>)[i] = IF i <= Len(q) THEN q[i] ELSE <<s>>[i - Len(q)]
  BY <1>1, <1>4, ConcatProperties
<1> DEFINE w == q \o <<s>>
<1>7. /\ w \o a \in Seq(MessageSet) /\ Len(w \o a) = Len(w) + Len(a)
      /\ \A i \in 1..(Len(w) + Len(a)) : (w \o a)[i] = IF i <= Len(w) THEN w[i] ELSE a[i - Len(w)]
  <2>1. w \in Seq(MessageSet)
    BY <1>6
  <2> HIDE DEF w
  <2> QED BY <1>5, <2>1, ConcatProperties
<1>8. ASSUME NEW i \in DOMAIN (w \o a), (w \o a)[i].can
      PROVE  i \in DOMAIN q /\ (w \o a)[i] = q[i]
  <2>1. i \in 1..(Len(w) + Len(a)) /\ Len(w) = Len(q) + 1 /\ Len(q) \in Nat /\ Len(a) \in Nat
    BY <1>1, <1>5, <1>6, <1>7 DEF q
  <2>2. CASE i > Len(w)
    <3>1. i - Len(w) \in 1..Len(a)
      BY <2>1, <2>2
    <3>2. (w \o a)[i] = Done
      BY <1>5, <1>7, <2>1, <2>2, <3>1
    <3> QED BY <1>3, <1>8, <3>2
  <2>3. CASE i = Len(w)
    <3>1. (w \o a)[i] = w[i] /\ w[i] = <<s>>[i - Len(q)] /\ i - Len(q) = 1
      BY <1>6, <1>7, <2>1, <2>3
    <3>2. (w \o a)[i] = s
      BY <1>4, <3>1
    <3> QED BY <1>8, <3>2
  <2>4. CASE i < Len(w)
    <3>1. i \in 1..Len(q)
      BY <2>1, <2>4
    <3>2. (w \o a)[i] = w[i] /\ w[i] = q[i]
      BY <1>6, <1>7, <2>1, <2>4, <3>1
    <3>3. DOMAIN q = 1..Len(q)
      BY <1>1
    <3> QED BY <3>1, <3>2, <3>3
  <2> QED BY <2>1, <2>2, <2>3, <2>4
<1>9. ASSUME NEW n \in Boards, NEW i \in DOMAIN to_host'[n], to_host'[n][i].can
      PROVE  \E j \in DOMAIN to_host[n] : to_host'[n][i] = to_host[n][j]
  <2>1. CASE n = m
    <3>1. to_host'[n] = w \o a /\ q = to_host[n]
      BY <1>2, <2>1 DEF q
    <3> HIDE DEF w
    <3> QED BY <1>8, <1>9, <3>1
  <2>2. CASE n # m
    BY <1>2, <1>9, <2>2
  <2> QED BY <2>1, <2>2
<1> QED
  BY <1>9

\* A command reaches a board.  One that starts the trsync or sets its timeout
\* does not come after that time.
LEMMA CommandStep ==
    ASSUME IInv, NEW m \in Boards, McuCommand(m) PROVE IInv'
<1> DEFINE c == Head(to_mcu[m])
<1>0. TypeOK /\ TypeOK' /\ EndstopInv'
  BY CommandTypeStep, EndstopStep DEF IInv
<1>1. /\ UNCHANGED <<now, print_time, task_clock, last_status_clock, expire_clock>>
      /\ to_mcu[m] # <<>> /\ to_mcu' = [to_mcu EXCEPT ![m] = Tail(@)]
      /\ Run(m, c)
      /\ too_close' = (too_close \/
            \E t \in {ts'[m].report_time, ts'[m].expire_time, es'.time} \
                     {ts[m].report_time, ts[m].expire_time, es.time, Never} : t < now)
  BY DEF McuCommand, python, dispatch
<1>2. /\ 1 \in DOMAIN to_mcu[m] /\ to_mcu[m][1] = c /\ c \in CommandSet
  BY <1>0, <1>1, Taken
<1>3. /\ c.op \in {"start", "home"} => now <= c.arg
      /\ Timing(c) /\ ts[m].can => ts[m].expire_time <= Val(c)
      /\ ts[m].can => now <= ts[m].expire_time
  BY <1>2 DEF IInv, SetUpInv, OrderInv
<1>4. /\ c.arg \in Nat /\ c.op \in {"start", "timeout", "trigger", "home", "off"}
      /\ c.op = "trigger" => c.arg \in Reason
      /\ c.ask \in BOOLEAN
  BY <1>2 DEF CommandSet
<1>5. /\ ts \in [Boards -> Trsync] /\ ts[m] \in Trsync /\ now \in Nat
      /\ stopped_at \in [Boards -> Clock] /\ print_time \in Nat
      /\ \A n \in Boards : Bound(n) \in Nat
  BY <1>0, BoundType DEF BoardType, PythonType
<1>6. ASSUME \A t \in {ts'[m].report_time, ts'[m].expire_time, es'.time} \
                      {ts[m].report_time, ts[m].expire_time, es.time, Never} : ~(t < now)
      PROVE  ~too_close'
  BY <1>1, <1>6 DEF IInv
<1> HIDE DEF c
<1>7. CASE c.op = "start"
  <2>1. /\ ts' = [ts EXCEPT ![m] = Started(m, c.arg)]
        /\ stopped_at' = [stopped_at EXCEPT ![m] = Never]
        /\ UNCHANGED <<es, run_start, run_len, to_host>>
    BY <1>1, <1>7 DEF Run
  <2>2. ts'[m] = Started(m, c.arg) /\ \A n \in Boards \ {m} : ts'[n] = ts[n]
    BY <1>5, <2>1
  <2>3. Offset(m) \in Nat
    <3>1. Report * (m - 1) \in Nat
      BY SyncAssumption DEF Boards
    <3> QED BY <3>1, SyncAssumption DEF Offset
  <2>4. /\ ts'[m].can /\ ts'[m].expire_time = Val(c) /\ Timing(c)
        /\ ts'[m].report_time = c.arg + Offset(m) /\ Val(c) = c.arg + Expire
    BY <1>7, <2>2 DEF Started, Val, Timing
  <2>5. now <= ts'[m].expire_time /\ now <= ts'[m].report_time
        /\ ts'[m].expire_time \in Nat /\ ts'[m].report_time \in Nat
    BY <1>3, <1>4, <1>5, <1>7, <2>3, <2>4, SyncAssumption
  <2>6. ~too_close'
    BY <1>5, <1>6, <2>1, <2>5
  <2>7. OrderInv' /\ SetUpInv'
    BY <1>1, <2>2, <2>4, <2>5, OrderTaken DEF c
  <2>8. \A n \in Boards : stopped_at'[n] = IF n = m THEN Never ELSE stopped_at[n]
    BY <1>5, <2>1
  <2>9. StopInv'
    <3>1. \A n \in Boards : /\ ts[n].can => stopped_at[n] = Never
                            /\ stopped_at[n] <= now /\ task_clock[n] <= now
      BY DEF IInv, StopInv
    <3>2. Never <= now
      BY <1>5
    <3> QED BY <1>1, <2>2, <2>8, <3>1, <3>2 DEF StopInv
  <2>10. \A n \in Boards : Bound(n)' \in Nat /\ Bound(n) <= Bound(n)'
    <3>1. \A n \in Boards : stopped_at[n] <= now
      BY DEF IInv, StopInv
    <3> QED BY <1>1, <1>5, <2>8, <3>1 DEF Bound, MaxOf, Clock
  <2>11. StatusInv' /\ LimitInv'
    BY <1>1, <2>1, <2>10, BoundsGrow
  <2> QED BY <1>0, <2>6, <2>7, <2>9, <2>11 DEF IInv
<1>8. ASSUME c.op # "start", NoteStop(m), \A n \in Boards \ {m} : ts'[n] = ts[n],
             ts'[m].can =>
                /\ ts[m].can
                /\ \/ ts'[m].expire_time = ts[m].expire_time
                   \/ Timing(c) /\ ts'[m].expire_time = Val(c),
             \A n \in Boards : \A i \in DOMAIN to_host'[n] : to_host'[n][i].can =>
                \E j \in DOMAIN to_host[n] : to_host'[n][i] = to_host[n][j],
             ~too_close'
      PROVE  IInv'
  <2>1. StopInv' /\ \A n \in Boards : Bound(n)' = Bound(n)
    BY <1>0, <1>1, <1>8, NoteStopStep
  <2>2. StatusInv' /\ LimitInv'
    BY <1>1, <1>5, <1>8, <2>1, BoundsGrow
  <2>3. Timing(c) => Val(c) = c.arg
    BY <1>8 DEF Timing, Val
  <2>4. ts[m].expire_time \in Int
    BY <1>5 DEF Trsync, Clock
  <2>5. ts'[m].can => now <= ts'[m].expire_time
    BY <1>3, <1>4, <1>5, <1>8, <2>3, <2>4
  <2>6. OrderInv' /\ SetUpInv'
    BY <1>1, <1>8, <2>5, OrderTaken DEF c
  <2> QED BY <1>0, <1>8, <2>1, <2>2, <2>6 DEF IInv
<1>a. ASSUME ts' = ts, stopped_at' = stopped_at PROVE NoteStop(m)
  BY <1>5, <1>a DEF NoteStop
<1>9. CASE c.op = "timeout"
  <2>1. /\ ts' = [ts EXCEPT ![m] = SetTimeout(ts[m], c.arg)]
        /\ UNCHANGED <<stopped_at, es, to_host>>
    BY <1>1, <1>9 DEF Run
  <2>2. ts'[m] = SetTimeout(ts[m], c.arg) /\ \A n \in Boards \ {m} : ts'[n] = ts[n]
    BY <1>5, <2>1
  <2>3. /\ ts'[m].can = ts[m].can /\ ts'[m].report_time = ts[m].report_time
        /\ ts[m].can => ts'[m].expire_time = c.arg
        /\ ~ts[m].can => ts'[m].expire_time = ts[m].expire_time
    BY <1>5, <2>2 DEF SetTimeout, Trsync
  <2>4. Timing(c) /\ Val(c) = c.arg
    BY <1>9 DEF Timing, Val
  <2>5. NoteStop(m)
    BY <1>5, <2>1, <2>3 DEF NoteStop
  <2>6. ts[m].can => now <= c.arg
    <3>1. ts[m].expire_time \in Int
      BY <1>5 DEF Trsync, Clock
    <3> QED BY <1>3, <1>4, <1>5, <2>4, <3>1
  <2>7. ~too_close'
    BY <1>4, <1>5, <1>6, <2>1, <2>3, <2>6
  <2> QED BY <1>8, <1>9, <2>1, <2>2, <2>3, <2>4, <2>5, <2>7
<1>10. CASE c.op = "trigger"
  <2>1. /\ ts' = [ts EXCEPT ![m] = Triggered(ts[m], c.arg)] /\ NoteStop(m)
        /\ to_host' = [to_host EXCEPT ![m] = @ \o <<State(FALSE, ts'[m].reason, 0)>>
                          \o (IF c.ask THEN <<Done>> ELSE <<>>)]
        /\ UNCHANGED es
    BY <1>1, <1>10 DEF Run
  <2>2. ts'[m] = Triggered(ts[m], c.arg) /\ \A n \in Boards \ {m} : ts'[n] = ts[n]
    BY <1>5, <2>1
  <2>3. ~ts'[m].can /\ ts'[m].report_time = Never /\ ts'[m].expire_time = Never
    BY <1>4, <1>5, <1>10, <2>2, TrsyncCan
  <2>4. ~too_close'
    BY <1>6, <2>1, <2>3
  <2>5. State(FALSE, ts'[m].reason, 0) \in MessageSet /\ ~State(FALSE, ts'[m].reason, 0).can
    <3>1. ts'[m].reason \in Reason
      BY <1>0 DEF BoardType, Trsync
    <3> QED BY <3>1, MadeType DEF State
  <2>6. \A n \in Boards : \A i \in DOMAIN to_host'[n] : to_host'[n][i].can =>
           \E j \in DOMAIN to_host[n] : to_host'[n][i] = to_host[n][j]
    BY <1>0, <1>4, <2>1, <2>5, AnswersStopped
  <2> QED BY <1>8, <1>10, <2>1, <2>2, <2>3, <2>4, <2>6
<1>11. CASE c.op = "home"
  <2>1. /\ es' = [time |-> c.arg, over |-> FALSE, count |-> SampleCount,
                  nextwake |-> es.nextwake]
        /\ UNCHANGED <<ts, stopped_at, to_host>>
    BY <1>1, <1>11 DEF Run
  <2>2. es'.time = c.arg /\ now <= c.arg
    BY <1>3, <1>11, <2>1
  <2>3. ~too_close'
    BY <1>4, <1>5, <1>6, <2>1, <2>2
  <2> QED BY <1>8, <1>a, <1>11, <2>1, <2>3
<1>12. CASE c.op = "off"
  <2>1. es' = [es EXCEPT !.time = Never] /\ UNCHANGED <<ts, stopped_at, to_host>>
    BY <1>1, <1>12 DEF Run
  <2>2. es'.time = Never
    BY <1>0, <2>1 DEF BoardType
  <2>3. ~too_close'
    BY <1>6, <2>1, <2>2
  <2> QED BY <1>8, <1>a, <1>12, <2>1, <2>3
<1> QED
  BY <1>4, <1>7, <1>9, <1>10, <1>11, <1>12

\* What HomeStart adds to the queues: commands for the time at which the motion
\* starts, with a timeout no earlier than any before.
LEMMA SetUpQueue ==
    ASSUME TypeOK, HomeStart, NEW m \in Boards
    PROVE  /\ DOMAIN to_mcu[m] = 1..Len(to_mcu[m]) /\ Len(to_mcu[m]) \in Nat
           /\ \A i \in DOMAIN to_mcu'[m] :
                 /\ i \in Nat
                 /\ \/ i \in DOMAIN to_mcu[m] /\ to_mcu'[m][i] = to_mcu[m][i]
                    \/ /\ i = Len(to_mcu[m]) + 1
                       /\ to_mcu'[m][i] = Command("start", now + Lead, FALSE)
                    \/ /\ i = Len(to_mcu[m]) + 2
                       /\ to_mcu'[m][i] = Command("home", now + Lead, FALSE)
<1> DEFINE q == to_mcu[m]
           s == Command("start", now + Lead, FALSE)
           h == Command("home", now + Lead, FALSE)
           a == IF m = 1 THEN <<h>> ELSE <<>>
<1>1. q \in Seq(CommandSet) /\ s \in CommandSet /\ h \in CommandSet
  <2>1. now + Lead \in Nat
    BY SyncAssumption
  <2> QED BY <2>1, MadeType DEF WireType
<1>2. to_mcu'[m] = q \o <<s>> \o a
  BY DEF HomeStart
<1> HIDE DEF q, s, h
<1>3. /\ <<s>> \in Seq(CommandSet) /\ Len(<<s>>) = 1 /\ <<s>>[1] = s
      /\ <<h>> \in Seq(CommandSet) /\ Len(<<h>>) = 1 /\ <<h>>[1] = h
      /\ <<>> \in Seq(CommandSet) /\ Len(<<>>) = 0
  BY <1>1
<1>4. a \in Seq(CommandSet) /\ Len(a) \in {0, 1} /\ \A i \in 1..Len(a) : a[i] = h
  <2>1. CASE m = 1
    BY <1>3, <2>1
  <2>2. CASE m # 1
    BY <1>3, <2>2
  <2> QED BY <2>1, <2>2
<1> HIDE DEF a
<1>5. /\ q \o <<s>> \in Seq(CommandSet) /\ Len(q \o <<s>>) = Len(q) + 1
      /\ \A i \in 1..(Len(q) + 1) : (q \o <<s>>)[i] = IF i <= Len(q) THEN q[i] ELSE <<s>>[i - Len(q)]
  BY <1>1, <1>3, ConcatProperties
<1> DEFINE w == q \o <<s>>
<1>6. /\ w \o a \in Seq(CommandSet) /\ Len(w \o a) = Len(w) + Len(a)
      /\ \A i \in 1..(Len(w) + Len(a)) : (w \o a)[i] = IF i <= Len(w) THEN w[i] ELSE a[i - Len(w)]
  <2>1. w \in Seq(CommandSet)
    BY <1>5
  <2> HIDE DEF w
  <2> QED BY <1>4, <2>1, ConcatProperties
<1>7. DOMAIN q = 1..Len(q) /\ Len(q) \in Nat
  BY <1>1
<1>8. ASSUME NEW i \in DOMAIN (w \o a)
      PROVE  /\ i \in Nat
             /\ \/ i \in DOMAIN q /\ (w \o a)[i] = q[i]
                \/ i = Len(q) + 1 /\ (w \o a)[i] = s
                \/ i = Len(q) + 2 /\ (w \o a)[i] = h
  <2>1. i \in 1..(Len(w) + Len(a)) /\ Len(w) = Len(q) + 1 /\ Len(a) \in {0, 1}
    BY <1>4, <1>5, <1>6
  <2>2. CASE i > Len(w)
    <3>1. i - Len(w) \in 1..Len(a) /\ i = Len(q) + 2
      <4>1. Len(w) \in Nat /\ Len(a) # 0
        BY <1>7, <2>1, <2>2
      <4>2. Len(a) = 1
        BY <2>1, <4>1
      <4>3. i \in 1..(Len(w) + 1)
        BY <2>1, <4>2
      <4>4. i = Len(w) + 1
        BY <2>2, <4>1, <4>3
      <4> QED BY <1>7, <2>1, <4>1, <4>2, <4>4
    <3>2. (w \o a)[i] = h
      BY <1>4, <1>6, <1>7, <2>1, <2>2, <3>1
    <3> QED BY <1>7, <2>1, <3>1, <3>2
  <2>3. CASE i = Len(w)
    <3>1. (w \o a)[i] = w[i] /\ w[i] = <<s>>[i - Len(q)] /\ i - Len(q) = 1
      BY <1>5, <1>6, <1>7, <2>1, <2>3
    <3>2. (w \o a)[i] = s
      BY <1>3, <3>1
    <3> QED BY <1>7, <2>1, <2>3, <3>2
  <2>4. CASE i < Len(w)
    <3>1. i \in 1..Len(q)
      BY <1>7, <2>1, <2>4
    <3>2. (w \o a)[i] = w[i] /\ w[i] = q[i]
      BY <1>5, <1>6, <1>7, <2>1, <2>4, <3>1
    <3> QED BY <1>7, <3>1, <3>2
  <2> QED BY <1>7, <2>1, <2>2, <2>3, <2>4
<1>9. to_mcu'[m] = w \o a
  BY <1>2
<1> HIDE DEF w
<1> QED
  BY <1>7, <1>8, <1>9 DEF q, s, h

\* A homing starts Lead after now, which is past everything a board may have
\* reported before.
LEMMA HomeStartStep ==
    ASSUME IInv, HomeStart PROVE IInv'
<1>0. TypeOK /\ TypeOK'
  BY PythonTypeStep DEF IInv
<1>1. /\ UNCHANGED <<now, ts, task_clock, too_close, es, to_host>>
      /\ print_time' = now + Lead
      /\ \A n \in Boards : /\ stopped_at'[n] = Never
                           /\ last_status_clock'[n] = now + Lead
                           /\ expire_clock'[n] = now + Lead + Expire
  BY DEF HomeStart, endstop
<1>2. now \in Nat /\ Lead \in Nat /\ Expire \in Nat
  BY <1>0, SyncAssumption
<1>3. \A n \in Boards : Bound(n)' = now + Lead
  BY <1>1, <1>2 DEF Bound, MaxOf
<1>4. StopInv'
  <2>1. Never <= now
    BY <1>2
  <2> QED BY <1>1, <2>1 DEF IInv, StopInv
<1>5. StatusInv'
  <2>1. \A n \in Boards : Bound(n) \in Nat /\ Bound(n) <= now + Lead
    BY BoundType
  <2>2. \A n \in Boards : to_host[n] \in Seq(MessageSet)
    BY <1>0 DEF WireType
  <2>3. \A n \in Boards : \A i \in DOMAIN to_host[n] : to_host[n][i] \in MessageSet
    BY <2>2
  <2>4. \A c \in MessageSet : c.clock \in Nat
    BY DEF MessageSet
  <2>5. \A n \in Boards : \A i \in DOMAIN to_host[n] :
           to_host[n][i].can => to_host[n][i].clock <= Bound(n)
    BY DEF IInv, StatusInv
  <2>6. ASSUME NEW n \in Boards, NEW i \in DOMAIN to_host[n], to_host[n][i].can
        PROVE  to_host[n][i].clock <= now + Lead
    <3>1. to_host[n][i].clock \in Nat /\ to_host[n][i].clock <= Bound(n)
      BY <2>3, <2>4, <2>5, <2>6
    <3> QED BY <1>2, <2>1, <3>1
  <2>7. now + Lead <= now + Lead
    BY <1>2
  <2> QED BY <1>1, <1>3, <2>6, <2>7 DEF StatusInv
<1>6. LimitInv'
  BY <1>1, <1>2, <1>3 DEF LimitInv
<1>7. Command("start", now + Lead, FALSE).op = "start"
      /\ Command("start", now + Lead, FALSE).arg = now + Lead
      /\ Command("home", now + Lead, FALSE).op = "home"
      /\ Command("home", now + Lead, FALSE).arg = now + Lead
  BY DEF Command
<1>8. SetUpInv'
  <2>1. print_time' <= now' + Lead /\ now <= now + Lead
    BY <1>1, <1>2
  <2>2. ASSUME NEW m \in Boards, NEW i \in DOMAIN to_mcu'[m],
               to_mcu'[m][i].op \in {"start", "home"}
        PROVE  now <= to_mcu'[m][i].arg
    <3>1. \/ i \in DOMAIN to_mcu[m] /\ to_mcu'[m][i] = to_mcu[m][i]
          \/ to_mcu'[m][i] = Command("start", now + Lead, FALSE)
          \/ to_mcu'[m][i] = Command("home", now + Lead, FALSE)
      BY <1>0, SetUpQueue
    <3> QED BY <1>7, <2>1, <2>2, <3>1 DEF IInv, SetUpInv
  <2> QED BY <1>1, <2>1, <2>2 DEF SetUpInv
<1>9. OrderInv'
  <2> SUFFICES ASSUME NEW m \in Boards
               PROVE  /\ expire_clock'[m] <= now + Lead + Expire
                      /\ ts[m].can => /\ now <= ts[m].expire_time
                                      /\ ts[m].expire_time <= expire_clock'[m]
                      /\ \A i \in DOMAIN to_mcu'[m] : Timing(to_mcu'[m][i]) =>
                            /\ Val(to_mcu'[m][i]) <= expire_clock'[m]
                            /\ ts[m].can => ts[m].expire_time <= Val(to_mcu'[m][i])
                            /\ \A j \in DOMAIN to_mcu'[m] :
                                  i < j /\ Timing(to_mcu'[m][j])
                                    => Val(to_mcu'[m][i]) <= Val(to_mcu'[m][j])
    BY <1>1 DEF OrderInv, Timing, Val
  <2> DEFINE e == now + Lead + Expire
  <2>1. expire_clock'[m] = e /\ expire_clock[m] <= e /\ expire_clock[m] \in Nat /\ e \in Nat
    BY <1>0, <1>1, <1>2 DEF IInv, OrderInv, DispatchType
  <2> HIDE DEF e
  <2>2. /\ ts[m].can => /\ now <= ts[m].expire_time
                        /\ ts[m].expire_time <= expire_clock[m]
        /\ \A i \in DOMAIN to_mcu[m] : Timing(to_mcu[m][i]) =>
              /\ Val(to_mcu[m][i]) <= expire_clock[m]
              /\ ts[m].can => ts[m].expire_time <= Val(to_mcu[m][i])
              /\ \A j \in DOMAIN to_mcu[m] :
                    i < j /\ Timing(to_mcu[m][j]) => Val(to_mcu[m][i]) <= Val(to_mcu[m][j])
    BY DEF IInv, OrderInv
  <2>3. ts[m].expire_time \in Int
    BY <1>0 DEF BoardType, Trsync, Clock
  <2>4. ts[m].can => ts[m].expire_time <= e
    BY <2>1, <2>2, <2>3
  <2>5. \A i \in DOMAIN to_mcu[m] : Timing(to_mcu[m][i]) =>
           Val(to_mcu[m][i]) \in Nat /\ Val(to_mcu[m][i]) <= e
    <3>1. to_mcu[m] \in Seq(CommandSet)
      BY <1>0 DEF WireType
    <3>2. \A i \in DOMAIN to_mcu[m] : to_mcu[m][i] \in CommandSet
      BY <3>1
    <3>3. \A c \in CommandSet : Val(c) \in Nat
      BY <1>2 DEF CommandSet, Val
    <3> QED BY <2>1, <2>2, <3>2, <3>3
  <2>6. ASSUME NEW i \in DOMAIN to_mcu'[m], Timing(to_mcu'[m][i])
        PROVE  /\ i \in Nat
               /\ \/ i \in DOMAIN to_mcu[m] /\ to_mcu'[m][i] = to_mcu[m][i]
                  \/ i = Len(to_mcu[m]) + 1 /\ Val(to_mcu'[m][i]) = e
    <3>1. /\ i \in Nat
          /\ \/ i \in DOMAIN to_mcu[m] /\ to_mcu'[m][i] = to_mcu[m][i]
             \/ /\ i = Len(to_mcu[m]) + 1
                /\ to_mcu'[m][i] = Command("start", now + Lead, FALSE)
             \/ to_mcu'[m][i] = Command("home", now + Lead, FALSE)
      BY <1>0, SetUpQueue
    <3>2. ~Timing(Command("home", now + Lead, FALSE))
          /\ Val(Command("start", now + Lead, FALSE)) = e
      BY <1>7 DEF Timing, Val, e
    <3> QED BY <2>6, <3>1, <3>2
  <2>7. ASSUME NEW i \in DOMAIN to_mcu'[m], Timing(to_mcu'[m][i])
        PROVE  /\ Val(to_mcu'[m][i]) <= e
               /\ ts[m].can => ts[m].expire_time <= Val(to_mcu'[m][i])
               /\ \A j \in DOMAIN to_mcu'[m] :
                     i < j /\ Timing(to_mcu'[m][j])
                       => Val(to_mcu'[m][i]) <= Val(to_mcu'[m][j])
    <3>1. CASE i \in DOMAIN to_mcu[m] /\ to_mcu'[m][i] = to_mcu[m][i]
      <4>1. ASSUME NEW j \in DOMAIN to_mcu'[m], i < j, Timing(to_mcu'[m][j])
            PROVE  Val(to_mcu'[m][i]) <= Val(to_mcu'[m][j])
        <5>1. \/ j \in DOMAIN to_mcu[m] /\ to_mcu'[m][j] = to_mcu[m][j]
              \/ Val(to_mcu'[m][j]) = e
          BY <2>6, <4>1
        <5> QED BY <2>2, <2>5, <2>7, <3>1, <4>1, <5>1
      <4> QED BY <2>2, <2>5, <2>7, <3>1, <4>1
    <3>2. CASE i = Len(to_mcu[m]) + 1 /\ Val(to_mcu'[m][i]) = e
      <4>1. DOMAIN to_mcu[m] = 1..Len(to_mcu[m]) /\ Len(to_mcu[m]) \in Nat
        BY <1>0, SetUpQueue
      <4>2. ASSUME NEW j \in DOMAIN to_mcu'[m], i < j, Timing(to_mcu'[m][j])
            PROVE  FALSE
        <5>1. \/ j \in DOMAIN to_mcu[m]
              \/ j = Len(to_mcu[m]) + 1
          BY <2>6, <4>2
        <5> QED BY <3>2, <4>1, <4>2, <5>1
      <4>3. e <= e
        BY <2>1
      <4> QED BY <2>4, <3>2, <4>2, <4>3
    <3> QED BY <2>6, <2>7, <3>1, <3>2
  <2>8. e <= now + Lead + Expire
    BY <1>2 DEF e
  <2> QED BY <2>1, <2>2, <2>4, <2>7, <2>8
<1>10. EndstopInv' /\ ~too_close'
  BY <1>1 DEF IInv, EndstopInv
<1> QED
  BY <1>0, <1>4, <1>5, <1>6, <1>8, <1>9, <1>10 DEF IInv

------------------------------------------------------------------------------
(* The theorems *)

\* Every step keeps the invariant.
LEMMA NextStep ==
    ASSUME IInv, [Next]_vars PROVE IInv'
<1>1. CASE EndstopEvent
  BY <1>1, EndstopIInvStep
<1>2. CASE \E m \in Boards : ExpireEvent(m)
  BY <1>2, ExpireStep
<1>3. CASE \E m \in Boards : ReportEvent(m)
  BY <1>3, ReportStep
<1>4. CASE HomeStart
  BY <1>4, HomeStartStep
<1>5. CASE Python
  BY <1>5, PythonStep
<1>6. CASE Tick /\ ~TimerDue
  BY <1>6, TickStep
<1>7. CASE \E m \in Boards : PythonReceive(m)
  BY <1>7, PythonReceiveStep
<1>8. CASE \E m \in Boards : HostReceive(m)
  BY <1>8, HostReceiveStep
<1>9. CASE \E m \in Boards : McuCommand(m)
  BY <1>9, CommandStep
<1>10. CASE \E m \in Boards : Task(m)
  BY <1>10, TaskStep
<1>11. CASE \E m \in Boards : LoseState(m)
  BY <1>11, LoseStep
<1>12. CASE UNCHANGED vars
  <2>1. UNCHANGED <<now, python, dispatch, board, endstop, wires, late>>
    BY <1>12 DEF vars
  <2>2. TypeOK'
    <3>1. PythonType' /\ DispatchType'
      BY <2>1, HostTypeKept DEF IInv
    <3> QED BY <2>1, <3>1 DEF IInv, BoardType, WireType, board, endstop, wires
  <2>3. Longer /\ Shorter
    BY <2>1, LongerRefl, ShorterRefl DEF IInv, wires
  <2> QED BY <2>1, <2>2, <2>3, QuietStep DEF python, dispatch, endstop
<1> QED
  BY <1>1, <1>2, <1>3, <1>4, <1>5, <1>6, <1>7, <1>8, <1>9, <1>10, <1>11, <1>12
     DEF Next, Timers, Messages

\* The inductive invariant holds throughout.
THEOREM Invariance == Spec => []IInv
<1>1. IInv /\ [Next]_vars => IInv'
  BY NextStep
<1> QED
  BY InitIInv, <1>1, PTL DEF Spec

\* The host, the boards and the queues between them keep to their types, for any
\* number of boards and any timing: the countdown of endstop_oversample_event
\* and the attempts of SerialRetryCommand never go below zero.
THEOREM TypeCorrect == Spec => []TypeOK
<1>1. IInv => TypeOK
  BY DEF IInv
<1> QED
  BY Invariance, <1>1, PTL

\* However late or lost the messages are, a board goes on for at most Expire
\* after another has stopped: handle_trsync_state never lets a board's own
\* reports extend its timeout.
THEOREM BoardsStopTogether == Spec => []StopsTogether
<1>1. IInv => StopsTogether
  <2> SUFFICES ASSUME IInv, NEW m \in Boards, NEW n \in Boards,
                      m # n, ts[m].can, stopped_at[n] # Never
               PROVE  now <= MaxOf(stopped_at[n], print_time) + Expire
    BY DEF StopsTogether
  <2>1. now <= ts[m].expire_time /\ ts[m].expire_time <= expire_clock[m]
    BY DEF IInv, OrderInv
  <2>2. expire_clock[m] <= Bound(n) + Expire
    BY DEF IInv, LimitInv
  <2>3. Bound(n) = MaxOf(stopped_at[n], print_time)
    BY DEF Bound
  <2>4. /\ now \in Nat /\ ts[m].expire_time \in Int /\ expire_clock[m] \in Nat
        /\ Bound(n) \in Nat /\ Expire \in Nat
    BY BoundType, SyncAssumption DEF IInv, BoardType, Trsync, Clock, DispatchType
  <2> QED BY <2>1, <2>2, <2>3, <2>4
<1> QED
  BY Invariance, <1>1, PTL

\* No command of a homing ever adds a timer in the past: a timeout that comes
\* late finds the trigger gone off and is ignored, so the board is not shut down
\* with "Timer too close".
THEOREM TimersInTime == Spec => []NeverTooClose
<1>1. IInv => NeverTooClose
  BY DEF IInv, NeverTooClose
<1> QED
  BY Invariance, <1>1, PTL

------------------------------------------------------------------------------
(* A hit is real *)

\* Once the commands before the j-th have run, the endstop is off.
Disarmed(q, j) ==
    \/ es.time = Never /\ \A i \in 1..(j - 1) : q[i].op # "home"
    \/ \E k \in 1..(j - 1) : /\ q[k].op = "off"
                             /\ \A i \in (k + 1)..(j - 1) : q[i].op # "home"

\* A homing begins with the endstop off and the last hit forgotten; only board 1
\* has an endstop, and the host never claims a hit.
HomeInv ==
    /\ \A i \in 1..Len(to_mcu[1]) :
          /\ to_mcu[1][i].op = "start" => Disarmed(to_mcu[1], i)
          /\ to_mcu[1][i].op = "home" =>
                IF i = 1 THEN es.time = Never /\ ts[1].reason # ENDSTOP_HIT
                ELSE to_mcu[1][i - 1].op = "start"
          /\ to_mcu[1][i].op = "trigger" => to_mcu[1][i].arg # ENDSTOP_HIT
    /\ \A m \in Boards \ {1} : \A i \in 1..Len(to_mcu[m]) :
          to_mcu[m][i].op \notin {"home", "off"}
    /\ phase \in {"idle", "stop"} => Disarmed(to_mcu[1], Len(to_mcu[1]) + 1)

\* The countdown and the run of matching samples go together, and after a hit
\* neither changes until the next homing.
CountInv ==
    /\ es.time # Never =>
          /\ run_len + es.count = SampleCount
          /\ es.over <=> run_start # Never
          /\ es.over => es.nextwake = run_start + Rest
    /\ ts[1].reason = ENDSTOP_HIT =>
          /\ es.time = Never
          /\ run_len >= SampleCount /\ es.nextwake = run_start + Rest

HitInv == HomeInv /\ CountInv

\* The types that the reasoning on the queue of board 1 needs.
LEMMA QueueTypes ==
    ASSUME TypeOK
    PROVE  /\ 1 \in Boards
           /\ \A m \in Boards : /\ to_mcu[m] \in Seq(CommandSet) /\ Len(to_mcu[m]) \in Nat
                                /\ ts[m] \in Trsync /\ ts[m].reason \in 0..4
  BY SyncAssumption DEF Boards, WireType, BoardType, Trsync, Reason

\* Board m is sent nothing that starts a homing.
Adds(m) ==
    /\ Len(to_mcu'[m]) \in Nat /\ Len(to_mcu[m]) <= Len(to_mcu'[m])
    /\ \A i \in 1..Len(to_mcu'[m]) :
          IF i <= Len(to_mcu[m]) THEN to_mcu'[m][i] = to_mcu[m][i]
          ELSE /\ to_mcu'[m][i].op \in {"trigger", "timeout"}
               /\ to_mcu'[m][i].op = "trigger" => to_mcu'[m][i].arg # ENDSTOP_HIT

\* What is added behind the j-th command does not matter to it.
LEMMA DisarmedAdds ==
    ASSUME TypeOK, Adds(1), es' = es, NEW j \in 1..(Len(to_mcu[1]) + 1), Disarmed(to_mcu[1], j)
    PROVE  Disarmed(to_mcu[1], j)'
<1>1. \A i \in 1..(j - 1) : to_mcu'[1][i] = to_mcu[1][i]
  BY QueueTypes, SMTT(30) DEF Adds
<1>2. CASE es.time = Never /\ \A i \in 1..(j - 1) : to_mcu[1][i].op # "home"
  BY <1>1, <1>2 DEF Disarmed
<1>3. CASE \E k \in 1..(j - 1) : /\ to_mcu[1][k].op = "off"
                                 /\ \A i \in (k + 1)..(j - 1) : to_mcu[1][i].op # "home"
  <2>1. PICK k \in 1..(j - 1) : /\ to_mcu[1][k].op = "off"
                                /\ \A i \in (k + 1)..(j - 1) : to_mcu[1][i].op # "home"
    BY <1>3
  <2>2. to_mcu'[1][k].op = "off" /\ \A i \in (k + 1)..(j - 1) : to_mcu'[1][i].op # "home"
    BY <1>1, <2>1
  <2> QED BY <2>2 DEF Disarmed
<1> QED BY <1>2, <1>3 DEF Disarmed

\* Nor does it matter at the end of the queue.
LEMMA DisarmedEnd ==
    ASSUME TypeOK, Adds(1), es' = es, Disarmed(to_mcu[1], Len(to_mcu[1]) + 1)
    PROVE  Disarmed(to_mcu[1], Len(to_mcu[1]) + 1)'
<1>0. PICK n \in Nat : n = Len(to_mcu[1])
  BY QueueTypes
<1>1. PICK k \in Nat : k = Len(to_mcu'[1]) /\ n <= k
  BY <1>0 DEF Adds
<1>2. \A i \in 1..k : i <= n \/ to_mcu'[1][i].op # "home"
  BY <1>0, <1>1 DEF Adds
<1>3. Disarmed(to_mcu[1], n + 1)'
  BY <1>0, <1>1, DisarmedAdds
<1>4. CASE es'.time = Never /\ \A i \in 1..n : to_mcu'[1][i].op # "home"
  <2>1. \A i \in 1..k : to_mcu'[1][i].op # "home"
    BY <1>2, <1>4
  <2> QED BY <1>1, <1>4, <2>1 DEF Disarmed
<1>5. CASE \E l \in 1..n : /\ to_mcu'[1][l].op = "off"
                           /\ \A i \in (l + 1)..n : to_mcu'[1][i].op # "home"
  <2>1. PICK l \in 1..n : /\ to_mcu'[1][l].op = "off"
                          /\ \A i \in (l + 1)..n : to_mcu'[1][i].op # "home"
    BY <1>5
  <2>2. l \in 1..k /\ \A i \in (l + 1)..k : to_mcu'[1][i].op # "home"
    BY <1>1, <1>2, <2>1
  <2> QED BY <1>1, <2>1, <2>2 DEF Disarmed
<1>6. n + 1 - 1 = n
  OBVIOUS
<1> QED BY <1>3, <1>4, <1>5, <1>6 DEF Disarmed

\* The endstop is left alone, board 1 does not learn of a hit, and commands are
\* at most added.
LEMMA HitKept ==
    ASSUME TypeOK, HitInv, \A m \in Boards : Adds(m), UNCHANGED endstop,
           ts'[1].reason = ts[1].reason \/ ts'[1].reason # ENDSTOP_HIT,
           phase' \in {"idle", "stop"} => phase \in {"idle", "stop"}
    PROVE  HitInv'
<1> USE DEF endstop, HitInv
<1>1. CountInv'
  BY DEF CountInv
<1>2. 1 \in Boards /\ Adds(1) /\ Len(to_mcu[1]) \in Nat
  BY QueueTypes
<1>3. ASSUME NEW i \in 1..Len(to_mcu'[1])
      PROVE  /\ to_mcu'[1][i].op = "start" => Disarmed(to_mcu[1], i)'
             /\ to_mcu'[1][i].op = "home" =>
                   IF i = 1 THEN es'.time = Never /\ ts'[1].reason # ENDSTOP_HIT
                   ELSE to_mcu'[1][i - 1].op = "start"
             /\ to_mcu'[1][i].op = "trigger" => to_mcu'[1][i].arg # ENDSTOP_HIT
  <2>1. CASE i <= Len(to_mcu[1])
    <3>1. i \in 1..Len(to_mcu[1]) /\ to_mcu'[1][i] = to_mcu[1][i]
      BY <1>2, <2>1 DEF Adds
    <3>2. to_mcu'[1][i].op = "start" => Disarmed(to_mcu[1], i)'
      BY <1>2, <3>1, DisarmedAdds DEF HomeInv
    <3>3. i # 1 => to_mcu'[1][i - 1] = to_mcu[1][i - 1]
      BY <1>2, <2>1 DEF Adds
    <3> QED BY <3>1, <3>2, <3>3 DEF HomeInv
  <2>2. CASE ~(i <= Len(to_mcu[1]))
    BY <1>2, <2>2 DEF Adds
  <2> QED BY <2>1, <2>2
<1>4. ASSUME NEW m \in Boards \ {1}, NEW i \in 1..Len(to_mcu'[m])
      PROVE  to_mcu'[m][i].op \notin {"home", "off"}
  <2>1. CASE i <= Len(to_mcu[m])
    BY <2>1, QueueTypes DEF Adds, HomeInv
  <2>2. CASE ~(i <= Len(to_mcu[m]))
    BY <2>2 DEF Adds
  <2> QED BY <2>1, <2>2
<1>5. phase' \in {"idle", "stop"} => Disarmed(to_mcu[1], Len(to_mcu[1]) + 1)'
  BY <1>2, DisarmedEnd DEF HomeInv
<1> QED BY <1>1, <1>3, <1>4, <1>5 DEF HomeInv

\* A queue that is left alone, and one that gets a command.
LEMMA AddsOne ==
    ASSUME TypeOK, NEW m \in Boards,
           \/ to_mcu'[m] = to_mcu[m]
           \/ \E c \in CommandSet : /\ to_mcu'[m] = Append(to_mcu[m], c)
                                    /\ c.op \in {"trigger", "timeout"}
                                    /\ c.op = "trigger" => c.arg # ENDSTOP_HIT
    PROVE  Adds(m)
<1>1. to_mcu[m] \in Seq(CommandSet) /\ Len(to_mcu[m]) \in Nat
  BY QueueTypes
<1>2. CASE to_mcu'[m] = to_mcu[m]
  BY <1>1, <1>2 DEF Adds
<1>3. ASSUME NEW c \in CommandSet, to_mcu'[m] = Append(to_mcu[m], c),
             c.op \in {"trigger", "timeout"}, c.op = "trigger" => c.arg # ENDSTOP_HIT
      PROVE  Adds(m)
  <2>1. /\ Len(to_mcu'[m]) = Len(to_mcu[m]) + 1
        /\ \A i \in 1..(Len(to_mcu[m]) + 1) :
              to_mcu'[m][i] = IF i <= Len(to_mcu[m]) THEN to_mcu[m][i] ELSE c
    BY <1>1, <1>3, AppendProps
  <2> QED BY <1>1, <1>3, <2>1 DEF Adds
<1> QED BY <1>2, <1>3

\* The commands that add nothing to fear.
LEMMA Harmless ==
    /\ \A b \in BOOLEAN : /\ Command("trigger", HOST_REQUEST, b) \in CommandSet
                          /\ Command("trigger", HOST_REQUEST, b).op = "trigger"
                          /\ Command("trigger", HOST_REQUEST, b).arg # ENDSTOP_HIT
    /\ Command("trigger", PAST_END_TIME, FALSE) \in CommandSet
    /\ Command("trigger", PAST_END_TIME, FALSE).op = "trigger"
    /\ Command("trigger", PAST_END_TIME, FALSE).arg # ENDSTOP_HIT
    /\ \A a \in Nat : /\ Command("timeout", a, FALSE) \in CommandSet
                      /\ Command("timeout", a, FALSE).op = "timeout"
<1>1. \A b \in BOOLEAN : /\ Command("trigger", HOST_REQUEST, b).op = "trigger"
                         /\ Command("trigger", HOST_REQUEST, b).arg # ENDSTOP_HIT
  BY DEF Command
<1>2. /\ Command("trigger", PAST_END_TIME, FALSE).op = "trigger"
      /\ Command("trigger", PAST_END_TIME, FALSE).arg # ENDSTOP_HIT
  BY DEF Command
<1>3. \A a \in Nat : Command("timeout", a, FALSE).op = "timeout"
  BY DEF Command
<1> QED BY <1>1, <1>2, <1>3, MadeType

\* Stop is the step of home_wait that turns the endstop off.
LEMMA HitPython ==
    ASSUME TypeOK, HitInv, WaitEnd \/ Answered \/ NotAnswered PROVE HitInv'
<1>1. UNCHANGED <<endstop, ts>>
  BY DEF WaitEnd, Answered, NotAnswered, stopOnly, board
<1>2. phase' \in {"idle", "stop"} => phase \in {"idle", "stop"}
  BY DEF WaitEnd, Answered, NotAnswered
<1>3. ASSUME NEW m \in Boards PROVE Adds(m)
  <2>1. \/ to_mcu' = to_mcu
        \/ \E n : to_mcu' = [to_mcu EXCEPT ![n] =
                     Append(@, Command("trigger", HOST_REQUEST, TRUE))]
    BY DEF WaitEnd, Answered, NotAnswered, Ask, wires
  <2>2. \/ to_mcu'[m] = to_mcu[m]
        \/ to_mcu'[m] = Append(to_mcu[m], Command("trigger", HOST_REQUEST, TRUE))
    BY <2>1 DEF WireType
  <2> QED BY <2>2, AddsOne, Harmless
<1> QED BY <1>1, <1>2, <1>3, HitKept

\* The threads that read messages may send a trigger or a timeout.
LEMMA HitReceive ==
    ASSUME TypeOK, HitInv, NEW n \in Boards, PythonReceive(n) \/ HostReceive(n)
    PROVE  HitInv'
<1>1. UNCHANGED <<endstop, ts, phase>>
  BY DEF PythonReceive, HostReceive, board, python
<1>2. ASSUME NEW m \in Boards PROVE Adds(m)
  <2>1. CASE PythonReceive(n)
    <3>1. \/ to_mcu' = to_mcu
          \/ to_mcu' = [to_mcu EXCEPT ![n] =
                          Append(@, Command("trigger", PAST_END_TIME, FALSE))]
      BY <2>1 DEF PythonReceive
    <3>2. \/ to_mcu'[m] = to_mcu[m]
          \/ to_mcu'[m] = Append(to_mcu[m], Command("trigger", PAST_END_TIME, FALSE))
      BY <3>1 DEF WireType
    <3> QED BY <3>2, AddsOne, Harmless
  <2>2. CASE HostReceive(n)
    <3> DEFINE s == Head(to_host[n])
    <3>0. s \in MessageSet
      BY <2>2, TailProps DEF HostReceive, WireType
    <3>1. CASE ~(s.kind = "state" /\ is_active /\ td_can_trigger)
      BY <2>2, <3>1, AddsOne DEF HostReceive
    <3>2. CASE s.kind = "state" /\ is_active /\ td_can_trigger /\ ~s.can
      <4>1. to_mcu'[m] = Append(to_mcu[m], Command("trigger", HOST_REQUEST, FALSE))
        BY <2>2, <3>2 DEF HostReceive, Dispatch
      <4> QED BY <4>1, AddsOne, Harmless
    <3>3. CASE s.kind = "state" /\ is_active /\ td_can_trigger /\ s.can
      <4> DEFINE clock == [last_status_clock EXCEPT ![n] = s.clock]
      <4>1. clock \in [Boards -> Nat]
        BY <3>0 DEF DispatchType, MessageSet
      <4>2. to_mcu'[m] = IF Extended(clock, m) = expire_clock[m] THEN to_mcu[m]
                         ELSE Append(to_mcu[m], Command("timeout", Extended(clock, m), FALSE))
        BY <2>2, <3>3 DEF HostReceive, Dispatch
      <4> HIDE DEF clock
      <4>3. Extended(clock, m) \in Nat
        BY <4>1, ExtendedProps
      <4> QED BY <4>2, <4>3, AddsOne, Harmless
    <3> QED BY <3>1, <3>2, <3>3
  <2> QED BY <2>1, <2>2
<1> QED BY <1>1, <1>2, HitKept

\* Timers that are not the endstop's, the task that reports, losses and time.
LEMMA HitQuiet ==
    ASSUME TypeOK, HitInv,
           \/ \E m \in Boards : ExpireEvent(m) \/ ReportEvent(m) \/ Task(m) \/ LoseState(m)
           \/ Tick \/ UNCHANGED vars
    PROVE  HitInv'
<1>1. UNCHANGED <<endstop, phase, to_mcu>>
  BY DEF ExpireEvent, ReportEvent, Task, TaskTime, TaskReport, LoseState, Tick, vars,
         boardOnly, python, wires
<1>2. \A m \in Boards : Adds(m)
  BY <1>1, AddsOne
<1>3. ts'[1].reason = ts[1].reason \/ ts'[1].reason # ENDSTOP_HIT
  <2>0. ts \in [Boards -> Trsync] /\ 1 \in Boards
    BY QueueTypes DEF BoardType
  <2>1. ASSUME NEW m \in Boards, ExpireEvent(m)
        PROVE  ts'[1].reason = ts[1].reason \/ ts'[1].reason # ENDSTOP_HIT
    <3>1. ts'[1] = IF m = 1 THEN [DoTrigger(ts[1], COMMS_TIMEOUT) EXCEPT !.expire_time = Never]
                   ELSE ts[1]
      BY <2>0, <2>1 DEF ExpireEvent
    <3>2. ASSUME NEW t \in Trsync
          PROVE  \/ [DoTrigger(t, COMMS_TIMEOUT) EXCEPT !.expire_time = Never].reason = t.reason
                 \/ [DoTrigger(t, COMMS_TIMEOUT) EXCEPT !.expire_time = Never].reason # ENDSTOP_HIT
      BY DEF DoTrigger, Trsync
    <3>3. ts[1] \in Trsync
      BY <2>0
    <3> QED BY <3>1, <3>2, <3>3
  <2>2. ASSUME NEW m \in Boards, ReportEvent(m) \/ TaskReport(m)
        PROVE  ts'[1].reason = ts[1].reason
    <3>1. ts'[1] \in {ts[1], Reported(ts[1]), [ts[1] EXCEPT !.report = FALSE]}
      BY <2>0, <2>2 DEF ReportEvent, TaskReport
    <3>2. ts[1] \in Trsync
      BY <2>0
    <3>3. Reported(ts[1]).reason = ts[1].reason /\ [ts[1] EXCEPT !.report = FALSE].reason = ts[1].reason
      BY <3>2 DEF Reported, Trsync
    <3> QED BY <3>1, <3>3
  <2>3. CASE \/ \E m \in Boards : TaskTime(m) \/ LoseState(m)
             \/ Tick \/ UNCHANGED vars
    BY <2>3 DEF TaskTime, LoseState, Tick, vars, board
  <2> QED BY <2>1, <2>2, <2>3 DEF Task
<1> QED BY <1>1, <1>2, <1>3, HitKept

\* A sample: the run goes on with the countdown, or both begin anew; a hit ends it.
LEMMA HitSample ==
    ASSUME TypeOK, EndstopInv, HitInv, EndstopEvent PROVE HitInv'
<1> USE DEF HitInv
<1>1. es.time # Never /\ UNCHANGED <<to_mcu, phase>>
  BY DEF EndstopEvent, wires, python
<1>2. /\ es \in [time : Clock, over : BOOLEAN, count : 0..SampleCount, nextwake : Nat]
      /\ run_start \in Clock /\ run_len \in Nat /\ ts \in [Boards -> Trsync] /\ 1 \in Boards
      /\ es.count # 0 /\ SampleCount \in Nat \ {0} /\ Rest \in Nat /\ SampleTicks \in Nat
      /\ es.time \in Nat
  BY <1>1, QueueTypes, SyncAssumption DEF BoardType, EndstopInv, Clock
<1>3. /\ run_len + es.count = SampleCount
      /\ es.over <=> run_start # Never
      /\ es.over => es.nextwake = run_start + Rest
      /\ ts[1].reason # ENDSTOP_HIT
  BY <1>1 DEF CountInv
<1>4. PICK match \in BOOLEAN :
          /\ es' = Sampled(match)
          /\ run_start' = IF ~match THEN Never
                          ELSE IF run_start = Never THEN es.time ELSE run_start
          /\ run_len' = IF match THEN run_len + 1 ELSE 0
  BY DEF EndstopEvent
<1>5. ts' = IF es'.time = Never THEN [ts EXCEPT ![1] = DoTrigger(@, ENDSTOP_HIT)] ELSE ts
  BY DEF EndstopEvent
<1>6. CountInv'
  <2>1. CASE ~match
    <3>1. /\ es'.time # Never /\ es'.count = SampleCount /\ es'.over = FALSE
          /\ run_start' = Never /\ run_len' = 0
      BY <1>2, <1>4, <2>1 DEF Sampled, Clock
    <3>2. ts' = ts
      BY <1>5, <3>1
    <3> QED BY <1>2, <1>3, <3>1, <3>2 DEF CountInv
  <2>2. CASE match
    <3>1. /\ es'.time = IF es.count = 1 THEN Never ELSE es.time + SampleTicks
          /\ es'.over = TRUE /\ es'.count = es.count - 1
          /\ es'.nextwake = IF es.over THEN es.nextwake ELSE es.time + Rest
          /\ run_len' = run_len + 1
          /\ run_start' = IF run_start = Never THEN es.time ELSE run_start
      BY <1>4, <2>2 DEF Sampled
    <3>2. es'.nextwake = run_start' + Rest /\ run_start' # Never
      BY <1>2, <1>3, <3>1
    <3>3. run_len' + es'.count = SampleCount
      BY <1>2, <1>3, <3>1
    <3>4. es'.time = Never => run_len' >= SampleCount
      BY <1>2, <1>3, <3>1
    <3>5. es'.time # Never => ts'[1].reason # ENDSTOP_HIT
      BY <1>3, <1>5
    <3> QED BY <3>1, <3>2, <3>3, <3>4, <3>5 DEF CountInv
  <2> QED BY <2>1, <2>2
<1>7. HomeInv'
  <2>1. \A q, j : Disarmed(q, j) => \E k \in 1..(j - 1) :
            q[k].op = "off" /\ \A i \in (k + 1)..(j - 1) : q[i].op # "home"
    BY <1>1 DEF Disarmed
  <2>2. \A j : Disarmed(to_mcu[1], j) => \/ es'.time = Never /\ \A i \in 1..(j - 1) : to_mcu'[1][i].op # "home"
                                  \/ \E k \in 1..(j - 1) : /\ to_mcu'[1][k].op = "off"
                                         /\ \A i \in (k + 1)..(j - 1) : to_mcu'[1][i].op # "home"
    BY <1>1, <2>1
  <2>3. ASSUME NEW i \in 1..Len(to_mcu[1])
        PROVE  /\ to_mcu[1][i].op = "start" => Disarmed(to_mcu[1], i)'
               /\ to_mcu[1][i].op = "home" => i # 1 /\ to_mcu[1][i - 1].op = "start"
               /\ to_mcu[1][i].op = "trigger" => to_mcu[1][i].arg # ENDSTOP_HIT
    <3>1. to_mcu[1][i].op = "start" => Disarmed(to_mcu[1], i)'
      BY <2>2 DEF HomeInv, Disarmed
    <3>2. to_mcu[1][i].op = "home" => i # 1 /\ to_mcu[1][i - 1].op = "start"
      BY <1>1 DEF HomeInv
    <3> QED BY <3>1, <3>2 DEF HomeInv
  <2>4. phase \in {"idle", "stop"} => Disarmed(to_mcu[1], Len(to_mcu[1]) + 1)'
    BY <1>1, <2>2 DEF HomeInv, Disarmed
  <2> QED BY <1>1, <2>3, <2>4 DEF HomeInv
<1> QED BY <1>6, <1>7

\* home_wait turns the endstop off behind whatever is still on its way.
LEMMA HitStop ==
    ASSUME TypeOK, HitInv, Stop PROVE HitInv'
<1> USE DEF HitInv
<1>1. UNCHANGED <<es, run_start, run_len, ts>>
  BY DEF Stop, board, endstop
<1>2. PICK n \in Nat : n = Len(to_mcu[1])
  BY QueueTypes
<1> DEFINE off == Command("off", 0, FALSE)
           ask == Command("trigger", HOST_REQUEST, TRUE)
<1>3. /\ to_mcu'[1] = Append(Append(to_mcu[1], off), ask)
      /\ \A m \in Boards \ {1} : to_mcu'[m] = to_mcu[m]
  BY QueueTypes DEF Stop, Ask, WireType
<1>4. /\ Len(to_mcu'[1]) = n + 2
      /\ \A i \in 1..n : to_mcu'[1][i] = to_mcu[1][i]
      /\ to_mcu'[1][n + 1] = off /\ to_mcu'[1][n + 2] = ask
  <2>1. to_mcu[1] \in Seq(CommandSet) /\ off \in CommandSet /\ ask \in CommandSet
    BY QueueTypes, MadeType
  <2> HIDE DEF off, ask
  <2> QED BY <1>2, <1>3, <2>1
<1>5. off.op = "off" /\ ask.op = "trigger" /\ ask.arg # ENDSTOP_HIT
  BY DEF Command
<1> HIDE DEF off, ask
<1>6. CountInv'
  BY <1>1 DEF CountInv
<1>7. ASSUME NEW j \in 1..n, Disarmed(to_mcu[1], j) PROVE Disarmed(to_mcu[1], j)'
  <2>1. \A i \in 1..(j - 1) : to_mcu'[1][i] = to_mcu[1][i]
    BY <1>4
  <2> QED BY <1>1, <1>7, <2>1 DEF Disarmed
<1>8. Disarmed(to_mcu[1], Len(to_mcu[1]) + 1)'
  <2>1. Len(to_mcu'[1]) + 1 - 1 = n + 2
    BY <1>4
  <2>2. /\ n + 1 \in 1..(n + 2) /\ to_mcu'[1][n + 1].op = "off"
        /\ \A i \in (n + 1 + 1)..(n + 2) : to_mcu'[1][i].op # "home"
    BY <1>4, <1>5
  <2> QED BY <2>1, <2>2 DEF Disarmed
<1>9. ASSUME NEW i \in 1..Len(to_mcu'[1])
      PROVE  /\ to_mcu'[1][i].op = "start" => Disarmed(to_mcu[1], i)'
             /\ to_mcu'[1][i].op = "home" =>
                   IF i = 1 THEN es'.time = Never /\ ts'[1].reason # ENDSTOP_HIT
                   ELSE to_mcu'[1][i - 1].op = "start"
             /\ to_mcu'[1][i].op = "trigger" => to_mcu'[1][i].arg # ENDSTOP_HIT
  <2>1. CASE i \in 1..n
    <3>0. i # 1 => i - 1 \in 1..n
      BY <2>1
    <3>1. to_mcu'[1][i] = to_mcu[1][i] /\ (i # 1 => to_mcu'[1][i - 1] = to_mcu[1][i - 1])
      BY <1>4, <2>1, <3>0
    <3> QED BY <1>1, <1>2, <1>7, <2>1, <3>1 DEF HomeInv
  <2>2. CASE i \in {n + 1, n + 2}
    BY <1>4, <1>5, <2>2
  <2> QED BY <1>4, <2>1, <2>2
<1>10. \A m \in Boards \ {1} : \A i \in 1..Len(to_mcu'[m]) :
          to_mcu'[m][i].op \notin {"home", "off"}
  BY <1>3 DEF HomeInv
<1> QED BY <1>6, <1>8, <1>9, <1>10 DEF HomeInv

\* A homing is set up with the endstop off, or off by the time it gets there.
LEMMA HitStart ==
    ASSUME TypeOK, HitInv, HomeStart PROVE HitInv'
<1> USE DEF HitInv
<1>1. UNCHANGED <<es, run_start, run_len, ts>> /\ phase = "idle" /\ phase' = "homing"
  BY DEF HomeStart, board, endstop
<1>2. PICK n \in Nat : n = Len(to_mcu[1])
  BY QueueTypes
<1> DEFINE start == Command("start", now + Lead, FALSE)
           home == Command("home", now + Lead, FALSE)
<1>3. /\ to_mcu'[1] = to_mcu[1] \o <<start>> \o <<home>>
      /\ \A m \in Boards \ {1} : to_mcu'[m] = to_mcu[m] \o <<start>> \o <<>>
  BY QueueTypes DEF HomeStart
<1>4. start \in CommandSet /\ home \in CommandSet
  <2>1. now + Lead \in Nat
    BY SyncAssumption
  <2> QED BY <2>1, MadeType
<1>5. start.op = "start" /\ home.op = "home"
  BY DEF Command
<1> HIDE DEF start, home
<1>6. /\ Len(to_mcu'[1]) = n + 2
      /\ \A i \in 1..n : to_mcu'[1][i] = to_mcu[1][i]
      /\ to_mcu'[1][n + 1] = start /\ to_mcu'[1][n + 2] = home
  <2>1. to_mcu[1] \in Seq(CommandSet)
    BY QueueTypes
  <2>2. to_mcu'[1] = Append(Append(to_mcu[1], start), home)
    <3>1. /\ Append(to_mcu[1], start) = to_mcu[1] \o <<start>>
          /\ Append(to_mcu[1], start) \in Seq(CommandSet)
      BY <1>4, <2>1, AppendIsConcat, AppendProps
    <3>2. Append(Append(to_mcu[1], start), home) = Append(to_mcu[1], start) \o <<home>>
      BY <1>4, <3>1, AppendIsConcat
    <3> QED BY <1>3, <3>1, <3>2
  <2> QED BY <1>2, <1>4, <2>1, <2>2
<1>7. CountInv'
  BY <1>1 DEF CountInv
<1>8. ASSUME NEW j \in 1..(n + 1), Disarmed(to_mcu[1], j) PROVE Disarmed(to_mcu[1], j)'
  <2>1. \A i \in 1..(j - 1) : to_mcu'[1][i] = to_mcu[1][i]
    BY <1>6
  <2> QED BY <1>1, <1>8, <2>1 DEF Disarmed
<1>9. ASSUME NEW i \in 1..Len(to_mcu'[1])
      PROVE  /\ to_mcu'[1][i].op = "start" => Disarmed(to_mcu[1], i)'
             /\ to_mcu'[1][i].op = "home" =>
                   IF i = 1 THEN es'.time = Never /\ ts'[1].reason # ENDSTOP_HIT
                   ELSE to_mcu'[1][i - 1].op = "start"
             /\ to_mcu'[1][i].op = "trigger" => to_mcu'[1][i].arg # ENDSTOP_HIT
  <2>1. CASE i \in 1..n
    <3>0. i # 1 => i - 1 \in 1..n
      BY <2>1
    <3>1. to_mcu'[1][i] = to_mcu[1][i] /\ (i # 1 => to_mcu'[1][i - 1] = to_mcu[1][i - 1])
      BY <1>6, <2>1, <3>0
    <3>2. i \in 1..(n + 1)
      BY <2>1
    <3> QED BY <1>1, <1>2, <1>8, <2>1, <3>1, <3>2 DEF HomeInv
  <2>2. CASE i = n + 1
    <3>1. Disarmed(to_mcu[1], n + 1)
      BY <1>1, <1>2 DEF HomeInv
    <3>2. Disarmed(to_mcu[1], i)'
      BY <1>8, <2>2, <3>1
    <3> QED BY <1>5, <1>6, <2>2, <3>2
  <2>3. CASE i = n + 2
    BY <1>5, <1>6, <2>3
  <2> QED BY <1>6, <2>1, <2>2, <2>3
<1>10. ASSUME NEW m \in Boards \ {1}, NEW i \in 1..Len(to_mcu'[m])
       PROVE  to_mcu'[m][i].op \notin {"home", "off"}
  <2>1. to_mcu[m] \in Seq(CommandSet) /\ Len(to_mcu[m]) \in Nat
    BY QueueTypes
  <2>2. to_mcu'[m] = Append(to_mcu[m], start)
    <3>1. /\ Append(to_mcu[m], start) = to_mcu[m] \o <<start>>
          /\ Append(to_mcu[m], start) \in Seq(CommandSet)
      BY <1>4, <2>1, AppendIsConcat, AppendProps
    <3>2. Append(to_mcu[m], start) \o <<>> = Append(to_mcu[m], start)
      BY <3>1, ConcatEmptySeq
    <3> QED BY <1>3, <3>1, <3>2
  <2>3. /\ Len(to_mcu'[m]) = Len(to_mcu[m]) + 1
        /\ \A k \in 1..(Len(to_mcu[m]) + 1) :
              to_mcu'[m][k] = IF k <= Len(to_mcu[m]) THEN to_mcu[m][k] ELSE start
    BY <1>4, <2>1, <2>2, AppendProps
  <2> QED BY <1>5, <2>1, <2>3 DEF HomeInv
<1> QED BY <1>1, <1>7, <1>9, <1>10 DEF HomeInv

\* Commands of the other boards do not touch the endstop; on board 1 the first
\* command leaves the queue.
LEMMA HitCommand ==
    ASSUME TypeOK, HitInv, NEW m \in Boards, McuCommand(m) PROVE HitInv'
<1> USE DEF HitInv
<1> DEFINE c == Head(to_mcu[m])
<1>1. /\ to_mcu[m] # <<>> /\ Run(m, c) /\ UNCHANGED phase
      /\ to_mcu' = [to_mcu EXCEPT ![m] = Tail(@)]
  BY DEF McuCommand, python
<1>2. /\ c \in CommandSet /\ c = to_mcu[m][1] /\ Len(to_mcu[m]) \in Nat \ {0}
      /\ Len(Tail(to_mcu[m])) = Len(to_mcu[m]) - 1
      /\ \A i \in 1..(Len(to_mcu[m]) - 1) : Tail(to_mcu[m])[i] = to_mcu[m][i + 1]
  BY <1>1, QueueTypes, TailProps
<1>3. /\ to_mcu'[m] = Tail(to_mcu[m])
      /\ \A n \in Boards \ {m} : to_mcu'[n] = to_mcu[n]
  BY <1>1 DEF WireType
<1> HIDE DEF c
<1>4. \A n \in Boards \ {1} : \A i \in 1..Len(to_mcu'[n]) :
          to_mcu'[n][i].op \notin {"home", "off"}
  <2> TAKE n \in Boards \ {1}
  <2> TAKE i \in 1..Len(to_mcu'[n])
  <2>1. CASE n = m
    <3>0. to_mcu'[n] = Tail(to_mcu[m])
      BY <1>3, <2>1
    <3>a. i \in 1..(Len(to_mcu[m]) - 1)
      BY <1>2, <3>0
    <3>1. i + 1 \in 1..Len(to_mcu[n]) /\ to_mcu'[n][i] = to_mcu[n][i + 1]
      BY <1>2, <2>1, <3>0, <3>a
    <3> QED BY <3>1 DEF HomeInv
  <2>2. CASE n # m
    BY <1>3, <2>2 DEF HomeInv
  <2> QED BY <2>1, <2>2
<1>5. ts \in [Boards -> Trsync] /\ 1 \in Boards
  BY QueueTypes DEF BoardType
<1>6. CASE m # 1
  <2>1. c.op \notin {"home", "off"}
    <3>1. 1 \in 1..Len(to_mcu[m])
      BY <1>2
    <3> QED BY <1>2, <1>6, <3>1 DEF HomeInv
  <2>2. UNCHANGED <<es, run_start, run_len>> /\ ts'[1] = ts[1] /\ to_mcu'[1] = to_mcu[1]
    BY <1>1, <1>3, <1>5, <1>6, <2>1 DEF Run
  <2>3. CountInv'
    BY <2>2 DEF CountInv
  <2>4. \A j : Disarmed(to_mcu[1], j) => Disarmed(to_mcu[1], j)'
    BY <2>2 DEF Disarmed
  <2>5. ASSUME NEW i \in 1..Len(to_mcu'[1])
        PROVE  /\ to_mcu'[1][i].op = "start" => Disarmed(to_mcu[1], i)'
               /\ to_mcu'[1][i].op = "home" =>
                     IF i = 1 THEN es'.time = Never /\ ts'[1].reason # ENDSTOP_HIT
                     ELSE to_mcu'[1][i - 1].op = "start"
               /\ to_mcu'[1][i].op = "trigger" => to_mcu'[1][i].arg # ENDSTOP_HIT
    <3>1. to_mcu'[1][i].op = "start" => Disarmed(to_mcu[1], i)'
      BY <2>2, <2>4 DEF HomeInv
    <3> QED BY <2>2, <3>1 DEF HomeInv
  <2>6. phase \in {"idle", "stop"} => Disarmed(to_mcu[1], Len(to_mcu[1]) + 1)'
    BY <2>2 DEF HomeInv, Disarmed
  <2> QED BY <1>1, <1>4, <2>3, <2>5, <2>6 DEF HomeInv
<1>7. CASE m = 1
  <2>0. PICK n \in Nat : n + 1 = Len(to_mcu[1])
    <3>1. Len(to_mcu[1]) - 1 \in Nat /\ (Len(to_mcu[1]) - 1) + 1 = Len(to_mcu[1])
      BY <1>2, <1>7
    <3> QED BY <3>1
  <2>1. Len(to_mcu'[1]) = n /\ \A i \in 1..n : to_mcu'[1][i] = to_mcu[1][i + 1]
    <3>1. to_mcu'[1] = Tail(to_mcu[1])
      BY <1>3, <1>7
    <3>2. n = Len(to_mcu[1]) - 1
      BY <2>0
    <3>3. /\ Len(Tail(to_mcu[1])) = Len(to_mcu[1]) - 1
          /\ \A i \in 1..(Len(to_mcu[1]) - 1) : Tail(to_mcu[1])[i] = to_mcu[1][i + 1]
      BY <1>2, <1>7
    <3> QED BY <3>1, <3>2, <3>3
  <2>2. 1 \in 1..(n + 1) /\ c = to_mcu[1][1]
    BY <1>2, <1>7
  \* what the first command leaves: off stays off, and no hit is invented
  <2>3. ASSUME NEW j \in 1..(n + 1), Disarmed(to_mcu[1], j + 1)
        PROVE  Disarmed(to_mcu[1], j)'
    <3>1. CASE es.time = Never /\ \A i \in 1..(j + 1 - 1) : to_mcu[1][i].op # "home"
      <4>1. es'.time = Never
        <5>1. c.op # "home"
          BY <2>2, <3>1
        <5>2. es \in [time : Clock, over : BOOLEAN, count : 0..SampleCount, nextwake : Nat]
          BY DEF BoardType
        <5> QED BY <1>1, <3>1, <5>1, <5>2 DEF Run
      <4>2. ASSUME NEW i \in 1..(j - 1) PROVE to_mcu'[1][i].op # "home"
        <5>1. i \in 1..n /\ i + 1 \in 1..(j + 1 - 1)
          OBVIOUS
        <5> QED BY <2>1, <3>1, <5>1
      <4> QED BY <4>1, <4>2 DEF Disarmed
    <3>2. ASSUME NEW k \in 1..(j + 1 - 1), to_mcu[1][k].op = "off",
                 \A i \in (k + 1)..(j + 1 - 1) : to_mcu[1][i].op # "home"
          PROVE  Disarmed(to_mcu[1], j)'
      <4>1. CASE k = 1
        <5>1. es'.time = Never
          <6>1. es \in [time : Clock, over : BOOLEAN, count : 0..SampleCount, nextwake : Nat]
            BY DEF BoardType
          <6>2. es' = [es EXCEPT !.time = Never]
            BY <1>1, <2>2, <3>2, <4>1 DEF Run
          <6> QED BY <6>1, <6>2
        <5>2. \A i \in 1..(j - 1) : to_mcu'[1][i].op # "home"
          BY <2>1, <3>2, <4>1
        <5> QED BY <5>1, <5>2 DEF Disarmed
      <4>2. CASE k # 1
        <5>1. k - 1 \in 1..(j - 1) /\ to_mcu'[1][k - 1].op = "off"
          <6>1. k - 1 \in 1..(j - 1) /\ k - 1 \in 1..n /\ (k - 1) + 1 = k
            BY <4>2
          <6> QED BY <2>1, <3>2, <6>1
        <5>2. ASSUME NEW i \in (k - 1 + 1)..(j - 1) PROVE to_mcu'[1][i].op # "home"
          <6>1. i \in 1..n /\ i + 1 \in (k + 1)..(j + 1 - 1)
            OBVIOUS
          <6> QED BY <2>1, <3>2, <6>1
        <5> QED BY <5>1, <5>2 DEF Disarmed
      <4> QED BY <4>1, <4>2
    <3> QED BY <2>3, <3>1, <3>2 DEF Disarmed
  <2>4. phase \in {"idle", "stop"} => Disarmed(to_mcu[1], Len(to_mcu[1]) + 1)'
    <3>1. SUFFICES ASSUME phase \in {"idle", "stop"}
                   PROVE  Disarmed(to_mcu[1], n + 1)'
      BY <2>1 DEF Disarmed
    <3>2. Disarmed(to_mcu[1], (n + 1) + 1)
      BY <2>0, <3>1 DEF HomeInv
    <3> QED BY <2>3, <3>2
  <2>5. /\ ts'[1].reason = ENDSTOP_HIT => ts[1].reason = ENDSTOP_HIT
        /\ c.op = "start" => ts'[1].reason # ENDSTOP_HIT /\ es' = es
    <3>1. ts[1] \in Trsync
      BY <1>5
    <3>2. CASE c.op = "start"
      <4>1. ts'[1] = Started(1, c.arg) /\ es' = es
        BY <1>1, <1>5, <1>7, <3>2 DEF Run
      <4> QED BY <4>1 DEF Started
    <3>3. CASE c.op = "timeout"
      <4>1. ts'[1] = SetTimeout(ts[1], c.arg)
        BY <1>1, <1>5, <1>7, <3>3 DEF Run
      <4>2. SetTimeout(ts[1], c.arg).reason = ts[1].reason
        BY <3>1 DEF SetTimeout, Trsync
      <4> QED BY <3>3, <4>1, <4>2
    <3>4. CASE c.op = "trigger"
      <4>1. ts'[1] = Triggered(ts[1], c.arg)
        BY <1>1, <1>5, <1>7, <3>4 DEF Run
      <4>2. Triggered(ts[1], c.arg).reason = IF ts[1].can THEN c.arg ELSE ts[1].reason
        BY <3>1 DEF Triggered, DoTrigger, Trsync
      <4>3. c.arg # ENDSTOP_HIT
        BY <2>0, <2>2, <3>4 DEF HomeInv
      <4> QED BY <3>4, <4>1, <4>2, <4>3
    <3>5. CASE c.op \in {"home", "off"}
      BY <1>1, <3>5 DEF Run
    <3> QED BY <1>1, <3>2, <3>3, <3>4, <3>5 DEF Run
  <2>6. CountInv'
    <3>0. /\ es \in [time : Clock, over : BOOLEAN, count : 0..SampleCount, nextwake : Nat]
          /\ SampleCount \in Nat
      BY SyncAssumption DEF BoardType
    <3>1. CASE c.op = "home"
      <4>1. /\ es' = [time |-> c.arg, over |-> FALSE, count |-> SampleCount,
                      nextwake |-> es.nextwake]
            /\ run_start' = Never /\ run_len' = 0 /\ ts' = ts
        BY <1>1, <3>1 DEF Run
      <4>2. ts[1].reason # ENDSTOP_HIT
        BY <2>0, <2>2, <3>1 DEF HomeInv
      <4> QED BY <3>0, <4>1, <4>2 DEF CountInv
    <3>2. CASE c.op = "off"
      <4>1. es' = [es EXCEPT !.time = Never] /\ UNCHANGED <<run_start, run_len, ts>>
        BY <1>1, <3>2 DEF Run
      <4> QED BY <3>0, <4>1 DEF CountInv
    <3>3. CASE c.op \notin {"home", "off"}
      <4>1. UNCHANGED <<es, run_start, run_len>>
        BY <1>1, <3>3 DEF Run
      <4> QED BY <2>5, <4>1 DEF CountInv
    <3> QED BY <3>1, <3>2, <3>3
  <2>7. ASSUME NEW i \in 1..n
        PROVE  /\ to_mcu'[1][i].op = "start" => Disarmed(to_mcu[1], i)'
               /\ to_mcu'[1][i].op = "home" =>
                     IF i = 1 THEN es'.time = Never /\ ts'[1].reason # ENDSTOP_HIT
                     ELSE to_mcu'[1][i - 1].op = "start"
               /\ to_mcu'[1][i].op = "trigger" => to_mcu'[1][i].arg # ENDSTOP_HIT
    <3>1. i + 1 \in 1..Len(to_mcu[1]) /\ to_mcu'[1][i] = to_mcu[1][i + 1] /\ i \in 1..(n + 1)
      BY <2>0, <2>1
    <3>2. to_mcu'[1][i].op = "start" => Disarmed(to_mcu[1], i)'
      BY <2>3, <3>1 DEF HomeInv
    <3>3. ASSUME to_mcu'[1][i].op = "home"
          PROVE  IF i = 1 THEN es'.time = Never /\ ts'[1].reason # ENDSTOP_HIT
                 ELSE to_mcu'[1][i - 1].op = "start"
      <4>1. i + 1 # 1 /\ (i + 1) - 1 = i
        OBVIOUS
      <4>2. to_mcu[1][i].op = "start"
        BY <3>1, <3>3, <4>1 DEF HomeInv
      <4>3. CASE i = 1
        <5>1. c.op = "start"
          BY <2>2, <4>2, <4>3
        <5>2. Disarmed(to_mcu[1], 1)
          BY <2>0, <2>2, <4>2, <4>3 DEF HomeInv
        <5>3. es.time = Never
          BY <5>2 DEF Disarmed
        <5> QED BY <2>5, <4>3, <5>1, <5>3
      <4>4. CASE i # 1
        <5>1. i - 1 \in 1..n /\ (i - 1) + 1 = i
          BY <4>4
        <5> QED BY <2>1, <4>2, <4>4, <5>1
      <4> QED BY <4>3, <4>4
    <3> QED BY <3>1, <3>2, <3>3 DEF HomeInv
  <2> QED BY <1>1, <1>4, <2>1, <2>4, <2>6, <2>7 DEF HomeInv
<1> QED BY <1>6, <1>7

\* A board reports a hit of the endstop only after SampleCount samples in a row
\* that matched, and home_wait takes the time of the first of them: no sample of
\* an earlier homing counts, whatever commands of it were still on their way.
THEOREM HitsAreReal == Spec => []HitIsReal
<1>1. Init => HitInv
  <2> SUFFICES ASSUME Init PROVE HitInv
    OBVIOUS
  <2>1. /\ 1 \in Boards /\ es.time = Never /\ ts[1].reason = 0
        /\ \A m \in Boards : to_mcu[m] = <<>>
    BY SyncAssumption DEF Init, Cleared, Boards
  <2> QED BY <2>1 DEF HitInv, HomeInv, CountInv, Disarmed
<1>2. IInv /\ HitInv /\ [Next]_vars => HitInv'
  <2> SUFFICES ASSUME TypeOK, EndstopInv, HitInv, [Next]_vars PROVE HitInv'
    BY DEF IInv
  <2> QED
    BY HitPython, HitReceive, HitQuiet, HitSample, HitStop, HitStart, HitCommand
       DEF Next, Timers, Python, Messages
<1>3. HitInv => HitIsReal
  BY DEF HitInv, CountInv, HitIsReal
<1> QED
  BY <1>1, <1>2, <1>3, Invariance, PTL DEF Spec

------------------------------------------------------------------------------
(* What stop() is told *)

\* What board m has sent and Python has not read.
Stream(m) == receive_queue[m] \o to_host[m]

\* Board m sends nothing of its own accord.
Quiet(m) ==
    /\ ts[m].report_time = Never /\ ts[m].expire_time = Never
    /\ ~ts[m].report /\ ~ts[m].can /\ task_clock[m] = Never

\* ... and nothing is on its way from it or to it.
Silent(m) ==
    to_mcu[m] = <<>> /\ receive_queue[m] = <<>> /\ to_host[m] = <<>> /\ Quiet(m)

OnlyStates(s) == \A i \in 1..Len(s) : s[i].kind = "state"

NoAsk(m) == (\A i \in 1..Len(to_mcu[m]) : ~to_mcu[m][i].ask) /\ OnlyStates(Stream(m))

\* The question is the last of a queue, of an answer its acknowledgement.
AskLast(q) ==
    /\ Len(q) >= 1 /\ q[Len(q)].op = "trigger" /\ q[Len(q)].ask
    /\ \A i \in 1..(Len(q) - 1) : ~q[i].ask

DoneLast(s) ==
    /\ Len(s) >= 1 /\ s[Len(s)].kind = "done"
    /\ \A i \in 1..(Len(s) - 1) : s[i].kind = "state"

\* The reason the host goes by once the acknowledgement is there.
LastWord(s) == IF Len(s) >= 2 THEN s[Len(s) - 1].reason ELSE last_params

\* The three stages of a question: on its way, answered, and the answer read.
IsAsked(m)     == ~acked /\ AskLast(to_mcu[m]) /\ OnlyStates(Stream(m))
Answers(m)     == /\ ~acked /\ to_mcu[m] = <<>> /\ Quiet(m) /\ DoneLast(Stream(m))
                  /\ ~spoiled => LastWord(Stream(m)) = ts[m].reason
HasAnswered(m) == acked /\ Silent(m) /\ (~spoiled => last_params = ts[m].reason)

AskInv ==
    /\ phase # "stop" => \A m \in Boards : NoAsk(m)
    /\ phase \in {"idle", "stop"} => ~is_active /\ handler[1] # "watch"
    /\ phase \in {"homing", "waiting"} => \A m \in Boards : handler[m] = "watch"
    /\ phase = "idle" /\ result # Error => \A m \in Boards : Silent(m)
    /\ phase = "idle" /\ homings > 0 /\ ~spoiled =>
          /\ result # Error /\ result = Outcome(res) /\ Len(res) = N
          /\ \A m \in Boards : res[m] = ts[m].reason
    /\ phase = "stop" =>
          /\ handler[asked] = "query" /\ Len(res) = asked - 1
          /\ \A m \in 1..(asked - 1) : Silent(m) /\ (~spoiled => res[m] = ts[m].reason)
          /\ \A m \in (asked + 1)..N : NoAsk(m) /\ handler[m] = "watch"
          /\ IsAsked(asked) \/ Answers(asked) \/ HasAnswered(asked)

\* A message moves from one queue to the next, is read, is sent or is lost.
LEMMA ConcatMoves ==
    ASSUME NEW S, NEW a \in Seq(S), NEW b \in Seq(S), NEW e \in S
    PROVE  /\ a \o b \in Seq(S) /\ Len(a \o b) \in Nat
           /\ a \o b = <<>> <=> a = <<>> /\ b = <<>>
           /\ b # <<>> => Append(a, Head(b)) \o Tail(b) = a \o b
           /\ a # <<>> => Tail(a) \o b = Tail(a \o b) /\ Head(a \o b) = Head(a)
           /\ a \o Append(b, e) = Append(a \o b, e)
<1>1. /\ a \o b \in Seq(S) /\ Len(a \o b) = Len(a) + Len(b) /\ Len(a) \in Nat /\ Len(b) \in Nat
      /\ \A i \in 1..(Len(a) + Len(b)) : (a \o b)[i] = IF i <= Len(a) THEN a[i] ELSE b[i - Len(a)]
  BY ConcatProperties, LenProperties
<1>2. a \o b = <<>> <=> a = <<>> /\ b = <<>>
  BY ConcatEqualIffEmpty
<1>3. ASSUME b # <<>> PROVE Append(a, Head(b)) \o Tail(b) = a \o b
  <2>0. PICK h \in S : h = Head(b) /\ h = b[1]
    BY <1>3, TailProps
  <2>1. PICK a2 \in Seq(S) : /\ a2 = Append(a, h) /\ Len(a2) = Len(a) + 1
                             /\ \A i \in 1..(Len(a) + 1) : a2[i] = IF i <= Len(a) THEN a[i] ELSE h
    <3>1. /\ Append(a, h) \in Seq(S) /\ Len(Append(a, h)) = Len(a) + 1
          /\ \A i \in 1..(Len(a) + 1) : Append(a, h)[i] = IF i <= Len(a) THEN a[i] ELSE h
      BY AppendProps
    <3> QED BY <3>1, Zenon
  <2>2. PICK b2 \in Seq(S) : /\ b2 = Tail(b) /\ Len(b2) = Len(b) - 1
                             /\ \A i \in 1..(Len(b) - 1) : b2[i] = b[i + 1]
    BY <1>3, TailProps
  <2>3. /\ a2 \o b2 \in Seq(S) /\ Len(a2 \o b2) = Len(a2) + Len(b2)
        /\ \A i \in 1..(Len(a2) + Len(b2)) :
              (a2 \o b2)[i] = IF i <= Len(a2) THEN a2[i] ELSE b2[i - Len(a2)]
    BY ConcatProperties
  <2>4. ASSUME NEW i \in 1..(Len(a) + Len(b)) PROVE (a2 \o b2)[i] = (a \o b)[i]
    <3>0. i \in 1..(Len(a2) + Len(b2))
      BY <1>1, <2>1, <2>2
    <3>1. CASE i <= Len(a)
      BY <1>1, <2>1, <2>3, <3>0, <3>1
    <3>2. CASE i = Len(a) + 1
      BY <1>1, <2>0, <2>1, <2>3, <3>0, <3>2
    <3>3. CASE i > Len(a) + 1
      <4>1. i - Len(a2) \in 1..(Len(b) - 1) /\ (i - Len(a2)) + 1 = i - Len(a)
        BY <1>1, <2>1, <3>3
      <4> QED BY <1>1, <2>1, <2>2, <2>3, <3>0, <3>3, <4>1
    <3>4. i <= Len(a) \/ i = Len(a) + 1 \/ i > Len(a) + 1
      BY Len(a) \in Nat
    <3> QED BY <3>1, <3>2, <3>3, <3>4
  <2>5. Len(a2 \o b2) = Len(a \o b)
    BY <1>1, <2>1, <2>2, <2>3
  <2>6. a2 \o b2 = a \o b
    BY <1>1, <2>3, <2>4, <2>5, SeqEqual
  <2> QED BY <2>0, <2>1, <2>2, <2>6
<1>4. ASSUME a # <<>> PROVE Tail(a) \o b = Tail(a \o b) /\ Head(a \o b) = Head(a)
  <2>1. PICK a2 \in Seq(S) : /\ a2 = Tail(a) /\ Len(a2) = Len(a) - 1 /\ Len(a) # 0
                             /\ \A i \in 1..(Len(a) - 1) : a2[i] = a[i + 1]
    BY <1>4, TailProps
  <2>2. PICK c \in Seq(S) : c = a \o b
    BY <1>1
  <2>3. c # <<>> /\ Head(c) = c[1] /\ Head(a) = a[1]
    BY <1>1, <1>2, <1>4, <2>2, TailProps
  <2>4. /\ Tail(c) \in Seq(S) /\ Len(Tail(c)) = Len(c) - 1
        /\ \A i \in 1..(Len(c) - 1) : Tail(c)[i] = c[i + 1]
    BY <2>3, TailProps
  <2>5. /\ a2 \o b \in Seq(S) /\ Len(a2 \o b) = Len(a2) + Len(b)
        /\ \A i \in 1..(Len(a2) + Len(b)) :
              (a2 \o b)[i] = IF i <= Len(a2) THEN a2[i] ELSE b[i - Len(a2)]
    BY ConcatProperties
  <2>6. ASSUME NEW i \in 1..(Len(a2) + Len(b)) PROVE (a2 \o b)[i] = Tail(c)[i]
    <3>1. i + 1 \in 1..(Len(a) + Len(b)) /\ i \in 1..(Len(c) - 1)
      BY <1>1, <2>1, <2>2
    <3>2. CASE i <= Len(a2)
      BY <1>1, <2>1, <2>2, <2>4, <2>5, <3>1, <3>2
    <3>3. CASE ~(i <= Len(a2))
      <4>1. i - Len(a2) = (i + 1) - Len(a)
        BY <1>1, <2>1
      <4> QED BY <1>1, <2>1, <2>2, <2>4, <2>5, <3>1, <3>3, <4>1
    <3> QED BY <3>2, <3>3
  <2>7. Len(a2 \o b) = Len(Tail(c))
    BY <1>1, <2>1, <2>2, <2>4, <2>5
  <2>8. a2 \o b = Tail(c)
    BY <2>4, <2>5, <2>6, <2>7, SeqEqual
  <2>9. c[1] = a[1]
    BY <1>1, <2>1, <2>2
  <2> QED BY <2>1, <2>2, <2>3, <2>8, <2>9
<1>5. a \o Append(b, e) = Append(a \o b, e)
  <2>1. PICK b2 \in Seq(S) : /\ b2 = Append(b, e) /\ Len(b2) = Len(b) + 1
                             /\ \A i \in 1..(Len(b) + 1) : b2[i] = IF i <= Len(b) THEN b[i] ELSE e
    <3>1. /\ Append(b, e) \in Seq(S) /\ Len(Append(b, e)) = Len(b) + 1
          /\ \A i \in 1..(Len(b) + 1) : Append(b, e)[i] = IF i <= Len(b) THEN b[i] ELSE e
      BY AppendProps
    <3> QED BY <3>1, Zenon
  <2>2. PICK c \in Seq(S) : c = a \o b
    BY <1>1
  <2>3. /\ Append(c, e) \in Seq(S) /\ Len(Append(c, e)) = Len(c) + 1
        /\ \A i \in 1..(Len(c) + 1) : Append(c, e)[i] = IF i <= Len(c) THEN c[i] ELSE e
    BY AppendProps
  <2>4. /\ a \o b2 \in Seq(S) /\ Len(a \o b2) = Len(a) + Len(b2)
        /\ \A i \in 1..(Len(a) + Len(b2)) :
              (a \o b2)[i] = IF i <= Len(a) THEN a[i] ELSE b2[i - Len(a)]
    BY ConcatProperties
  <2>5. ASSUME NEW i \in 1..(Len(a) + Len(b2)) PROVE (a \o b2)[i] = Append(c, e)[i]
    <3>1. i \in 1..(Len(c) + 1)
      BY <1>1, <2>1, <2>2
    <3>2. CASE i <= Len(a)
      <4>1. i <= Len(c) /\ i \in 1..(Len(a) + Len(b))
        BY <1>1, <2>2, <3>2
      <4> QED BY <1>1, <2>2, <2>3, <2>4, <3>1, <3>2, <4>1
    <3>3. CASE i > Len(a) /\ i <= Len(a) + Len(b)
      <4>1. i - Len(a) \in 1..(Len(b) + 1) /\ i - Len(a) <= Len(b) /\ i <= Len(c) /\ i \in 1..(Len(a) + Len(b))
        BY <1>1, <2>2, <3>3
      <4> QED BY <1>1, <2>1, <2>2, <2>3, <2>4, <3>1, <3>3, <4>1
    <3>4. CASE i = Len(a) + Len(b) + 1
      <4>1. i - Len(a) \in 1..(Len(b) + 1) /\ ~(i - Len(a) <= Len(b)) /\ ~(i <= Len(c)) /\ ~(i <= Len(a))
        BY <1>1, <2>2, <3>4
      <4> QED BY <1>1, <2>1, <2>2, <2>3, <2>4, <3>1, <4>1
    <3>5. i <= Len(a) \/ (i > Len(a) /\ i <= Len(a) + Len(b)) \/ i = Len(a) + Len(b) + 1
      <4>1. PICK x \in Nat, y \in Nat : x = Len(a) /\ y = Len(b)
        BY <1>1
      <4>2. Len(b2) = y + 1
        BY <2>1, <4>1
      <4>3. i \in 1..(x + y + 1)
        BY <4>1, <4>2
      <4>4. i <= x \/ (i > x /\ i <= x + y) \/ i = x + y + 1
        BY <4>3
      <4> QED BY <4>1, <4>4
    <3> QED BY <3>2, <3>3, <3>4, <3>5
  <2>6. Len(a \o b2) = Len(Append(c, e))
    BY <1>1, <2>1, <2>2, <2>3, <2>4
  <2>7. a \o b2 = Append(c, e)
    BY <2>3, <2>4, <2>5, <2>6, SeqEqual
  <2> QED BY <2>1, <2>2, <2>7
<1>6. Len(a \o b) \in Nat
  BY <1>1
<1> QED
  BY <1>1, <1>2, <1>3, <1>4, <1>5, <1>6, Zenon

\* What is sent goes behind what is under way.
LEMMA ConcatSend ==
    ASSUME NEW S, NEW a \in Seq(S), NEW b \in Seq(S), NEW e \in S
    PROVE  a \o Append(b, e) = Append(a \o b, e)
  BY ConcatMoves

\* A message lost from the second queue: what it says goes, the rest keeps its order.
LEMMA ConcatLoses ==
    ASSUME NEW S, NEW a \in Seq(S), NEW b \in Seq(S), b # <<>>
    PROVE  /\ a \o Tail(b) \in Seq(S)
           /\ Len(a \o b) \in Nat \ {0} /\ Len(a) \in Nat /\ Len(a) < Len(a \o b)
           /\ (a \o b)[Len(a) + 1] = Head(b)
           /\ Len(a \o Tail(b)) = Len(a \o b) - 1
           /\ \A i \in 1..(Len(a \o b) - 1) :
                 (a \o Tail(b))[i] = IF i <= Len(a) THEN (a \o b)[i] ELSE (a \o b)[i + 1]
<1>1. /\ Len(a \o b) = Len(a) + Len(b) /\ Len(a) \in Nat /\ Len(b) \in Nat \ {0}
      /\ \A i \in 1..(Len(a) + Len(b)) : (a \o b)[i] = IF i <= Len(a) THEN a[i] ELSE b[i - Len(a)]
  BY ConcatProperties, LenProperties, TailProps
<1>2. PICK b2 \in Seq(S) : /\ b2 = Tail(b) /\ Len(b2) = Len(b) - 1 /\ Head(b) = b[1]
                           /\ \A i \in 1..(Len(b) - 1) : b2[i] = b[i + 1]
  BY TailProps
<1>3. /\ a \o b2 \in Seq(S) /\ Len(a \o b2) = Len(a) + Len(b2)
      /\ \A i \in 1..(Len(a) + Len(b2)) :
            (a \o b2)[i] = IF i <= Len(a) THEN a[i] ELSE b2[i - Len(a)]
  BY ConcatProperties
<1>4. ASSUME NEW i \in 1..(Len(a \o b) - 1)
      PROVE  (a \o b2)[i] = IF i <= Len(a) THEN (a \o b)[i] ELSE (a \o b)[i + 1]
  <2>1. i \in 1..(Len(a) + Len(b2)) /\ i \in 1..(Len(a) + Len(b)) /\ i + 1 \in 1..(Len(a) + Len(b))
    BY <1>1, <1>2
  <2>2. CASE i <= Len(a)
    BY <1>1, <1>3, <2>1, <2>2
  <2>3. CASE ~(i <= Len(a))
    <3>1. i - Len(a) \in 1..(Len(b) - 1) /\ (i - Len(a)) + 1 = (i + 1) - Len(a) /\ ~(i + 1 <= Len(a))
      BY <1>1, <1>2, <2>1, <2>3
    <3> QED BY <1>1, <1>2, <1>3, <2>1, <2>3, <3>1
  <2> QED BY <2>2, <2>3
<1>5. (a \o b)[Len(a) + 1] = b[1]
  BY <1>1
<1> QED BY <1>1, <1>2, <1>3, <1>4, <1>5

\* What a message sent does to what is under way.
LEMMA StatesAppend ==
    ASSUME NEW s \in Seq(MessageSet), NEW e \in MessageSet, OnlyStates(s)
    PROVE  /\ e.kind = "state" => OnlyStates(Append(s, e))
           /\ e.kind = "done" => DoneLast(Append(s, e))
<1>1. PICK n \in Nat : n = Len(s)
  BY LenProperties
<1>2. PICK t \in Seq(MessageSet) : t = Append(s, e)
  BY AppendProps
<1>3. Len(t) = n + 1 /\ \A i \in 1..(n + 1) : t[i] = IF i <= n THEN s[i] ELSE e
  BY <1>1, <1>2, AppendProps
<1>4. \A i \in 1..n : t[i].kind = "state"
  BY <1>1, <1>3 DEF OnlyStates
<1>5. t[n + 1] = e
  BY <1>3
<1>6. e.kind = "state" => \A i \in 1..(n + 1) : t[i].kind = "state"
  BY <1>4, <1>5
<1> QED BY <1>2, <1>3, <1>4, <1>5, <1>6 DEF OnlyStates, DoneLast

\* ... a message read ...
LEMMA StatesTail ==
    ASSUME NEW s \in Seq(MessageSet), s # <<>>, OnlyStates(s)
    PROVE  Head(s).kind = "state" /\ OnlyStates(Tail(s))
  BY TailProps DEF OnlyStates

\* ... of an answer: the acknowledgement comes last, right behind the reason.
LEMMA DoneTail ==
    ASSUME NEW s \in Seq(MessageSet), DoneLast(s)
    PROVE  /\ s # <<>> /\ Len(s) \in Nat \ {0}
           /\ Len(s) = 1 => Head(s).kind = "done" /\ Tail(s) = <<>>
           /\ Len(s) # 1 => /\ Len(s) >= 2 /\ Head(s).kind = "state" /\ DoneLast(Tail(s))
                            /\ s[Len(s) - 1].reason =
                                  IF Len(Tail(s)) >= 2 THEN Tail(s)[Len(Tail(s)) - 1].reason
                                  ELSE Head(s).reason
<1>1. Len(s) \in Nat \ {0} /\ s # <<>>
  BY LenProperties, EmptySeq DEF DoneLast
<1>2. PICK n \in Nat : n + 1 = Len(s)
  BY <1>1
<1>3. PICK t \in Seq(MessageSet) : t = Tail(s)
  BY <1>1, TailProps
<1>4. Head(s) = s[1] /\ Len(t) = n /\ \A i \in 1..n : t[i] = s[i + 1]
  BY <1>1, <1>2, <1>3, TailProps
<1>5. CASE n = 0
  <2>1. t = <<>>
    BY <1>4, <1>5, EmptySeq
  <2>2. Len(s) = 1
    BY <1>2, <1>5
  <2>3. s[1].kind = "done"
    BY <2>2 DEF DoneLast
  <2> QED BY <1>1, <1>3, <1>4, <2>1, <2>2, <2>3
<1>6. CASE n # 0
  <2>1. Head(s).kind = "state"
    BY <1>2, <1>4, <1>6 DEF DoneLast
  <2>2. t[n].kind = "done" /\ \A i \in 1..(n - 1) : t[i].kind = "state"
    BY <1>2, <1>4, <1>6 DEF DoneLast
  <2>3. DoneLast(t)
    BY <1>4, <1>6, <2>2 DEF DoneLast
  <2>4. n >= 2 => n - 1 \in 1..n /\ t[n - 1] = s[n]
    BY <1>4, <1>6
  <2>5. n < 2 => s[n] = Head(s)
    BY <1>4, <1>6
  <2> QED BY <1>1, <1>2, <1>3, <1>4, <1>6, <2>1, <2>3, <2>4, <2>5
<1> QED BY <1>5, <1>6

\* ... and a report lost.
LEMMA LoseStream ==
    ASSUME NEW a \in Seq(MessageSet), NEW b \in Seq(MessageSet), b # <<>>, Head(b).kind = "state"
    PROVE  /\ OnlyStates(a \o b) => OnlyStates(a \o Tail(b))
           /\ DoneLast(a \o b) => DoneLast(a \o Tail(b))
<1>1. PICK s \in Seq(MessageSet), t \in Seq(MessageSet), k \in Nat, n \in Nat \ {0} :
          /\ s = a \o b /\ t = a \o Tail(b) /\ k = Len(a) /\ n = Len(a \o b)
  BY ConcatLoses, ConcatProperties
<1>2. /\ Len(s) = n /\ Len(t) = n - 1 /\ k < n /\ s[k + 1].kind = "state"
      /\ \A i \in 1..(n - 1) : t[i] = IF i <= k THEN s[i] ELSE s[i + 1]
  BY <1>1, ConcatLoses
<1>3. OnlyStates(s) => OnlyStates(t)
  BY <1>2 DEF OnlyStates
<1>4. ASSUME DoneLast(s) PROVE DoneLast(t)
  <2>1. s[n].kind = "done" /\ \A i \in 1..(n - 1) : s[i].kind = "state"
    BY <1>2, <1>4 DEF DoneLast
  <2>2. k + 1 < n
    BY <1>2, <2>1
  <2>3. t[n - 1] = s[n]
    BY <1>2, <2>2
  <2>4. \A i \in 1..(n - 2) : t[i].kind = "state"
    BY <1>2, <2>1
  <2>5. Len(t) = n - 1 /\ n - 1 >= 1 /\ (n - 1) - 1 = n - 2
    BY <1>2, <2>2
  <2> QED BY <2>1, <2>3, <2>4, <2>5 DEF DoneLast
<1> QED BY <1>1, <1>3, <1>4

\* The question is sent, behind whatever is in the queue of a board.
LEMMA AskSent ==
    ASSUME NEW q \in Seq(CommandSet), NEW c \in CommandSet, \A i \in 1..Len(q) : ~q[i].ask
    PROVE  /\ ~c.ask => \A i \in 1..Len(Append(q, c)) : ~Append(q, c)[i].ask
           /\ c.ask /\ c.op = "trigger" => AskLast(Append(q, c))
<1>1. PICK n \in Nat : n = Len(q)
  BY LenProperties
<1>2. PICK t \in Seq(CommandSet) : t = Append(q, c)
  BY AppendProps
<1>3. Len(t) = n + 1 /\ \A i \in 1..(n + 1) : t[i] = IF i <= n THEN q[i] ELSE c
  BY <1>1, <1>2, AppendProps
<1>4. t[n + 1] = c /\ \A i \in 1..n : ~t[i].ask
  BY <1>1, <1>3
<1>5. ~c.ask => \A i \in 1..(n + 1) : ~t[i].ask
  BY <1>4
<1> QED BY <1>2, <1>3, <1>4, <1>5 DEF AskLast

\* The board takes a command off: another one, or the question, which is the last.
LEMMA AskTaken ==
    ASSUME NEW q \in Seq(CommandSet)
    PROVE  /\ q # <<>> /\ (\A i \in 1..Len(q) : ~q[i].ask) =>
                 ~Head(q).ask /\ \A i \in 1..Len(Tail(q)) : ~Tail(q)[i].ask
           /\ AskLast(q) => /\ q # <<>>
                            /\ \/ Head(q).op = "trigger" /\ Head(q).ask /\ Tail(q) = <<>>
                               \/ ~Head(q).ask /\ AskLast(Tail(q))
<1>1. q # <<>> /\ (\A i \in 1..Len(q) : ~q[i].ask) =>
         ~Head(q).ask /\ \A i \in 1..Len(Tail(q)) : ~Tail(q)[i].ask
  BY TailProps
<1>2. ASSUME AskLast(q)
      PROVE  /\ q # <<>>
             /\ \/ Head(q).op = "trigger" /\ Head(q).ask /\ Tail(q) = <<>>
                \/ ~Head(q).ask /\ AskLast(Tail(q))
  <2>1. Len(q) \in Nat \ {0} /\ q # <<>>
    BY <1>2, LenProperties, EmptySeq DEF AskLast
  <2>a. PICK n \in Nat : n + 1 = Len(q)
    BY <2>1
  <2>2. PICK t \in Seq(CommandSet) : n + 1 = Len(q) /\ t = Tail(q)
    BY <2>1, <2>a, TailProps
  <2>3. Head(q) = q[1] /\ Len(t) = n /\ \A i \in 1..n : t[i] = q[i + 1]
    BY <2>1, <2>2, TailProps
  <2>4. CASE n = 0
    <3>1. t = <<>>
      BY <2>3, <2>4, EmptySeq
    <3> QED BY <1>2, <2>1, <2>2, <2>3, <2>4, <3>1 DEF AskLast
  <2>5. CASE n # 0
    <3>1. ~Head(q).ask
      BY <1>2, <2>2, <2>3, <2>5 DEF AskLast
    <3>2. t[n].op = "trigger" /\ t[n].ask /\ \A i \in 1..(n - 1) : ~t[i].ask
      BY <1>2, <2>2, <2>3, <2>5 DEF AskLast
    <3> QED BY <2>1, <2>2, <2>3, <2>5, <3>1, <3>2 DEF AskLast
  <2> QED BY <2>4, <2>5
<1> QED BY <1>1, <1>2

\* The types this part needs of board m.
LEMMA StreamTypes ==
    ASSUME TypeOK, NEW m \in Boards
    PROVE  /\ to_mcu[m] \in Seq(CommandSet)
           /\ receive_queue[m] \in Seq(MessageSet) /\ to_host[m] \in Seq(MessageSet)
           /\ Stream(m) \in Seq(MessageSet)
           /\ Stream(m) = <<>> <=> receive_queue[m] = <<>> /\ to_host[m] = <<>>
           /\ ts[m] \in Trsync /\ ts[m].reason \in Reason
<1>1. /\ to_mcu[m] \in Seq(CommandSet) /\ ts[m] \in Trsync
      /\ receive_queue[m] \in Seq(MessageSet) /\ to_host[m] \in Seq(MessageSet)
  BY DEF WireType, BoardType
<1>2. Done \in MessageSet
  BY MadeType
<1>3. ts[m].reason \in Reason
  BY <1>1 DEF Trsync
<1> QED BY <1>1, <1>2, <1>3, ConcatMoves DEF Stream

\* Nothing is asked of a silent board.
LEMMA SilentNoAsk ==
    ASSUME TypeOK, NEW m \in Boards, Silent(m) PROVE NoAsk(m)
<1>1. Stream(m) = <<>> /\ to_mcu[m] = <<>>
  BY StreamTypes DEF Silent
<1> QED BY <1>1 DEF NoAsk, OnlyStates

\* A step that is not Python's keeps each board where it is with its answer, or
\* takes it on to giving it.
GoesOn(m) ==
    /\ NoAsk(m) => NoAsk(m)'
    /\ Silent(m) => Silent(m)' /\ ts'[m].reason = ts[m].reason
    /\ IsAsked(m) => IsAsked(m)' \/ Answers(m)'
    /\ phase = "stop" /\ Answers(m) => Answers(m)'

LEMMA AskKept ==
    ASSUME TypeOK, AskInv, \A m \in Boards : GoesOn(m),
           UNCHANGED <<python, is_active>>, spoiled => spoiled'
    PROVE  AskInv'
<1> USE DEF python
<1>1. /\ phase' = phase /\ homings' = homings /\ handler' = handler /\ asked' = asked
      /\ last_params' = last_params /\ acked' = acked /\ res' = res /\ result' = result
      /\ is_active' = is_active
  OBVIOUS
<1>2. asked \in Boards /\ Boards = 1..N /\ N \in Nat
  BY SyncAssumption DEF PythonType, Boards
<1>3. phase # "stop" => \A m \in Boards : NoAsk(m)'
  BY DEF AskInv, GoesOn
<1>4. phase = "idle" /\ result # Error =>
         \A m \in Boards : Silent(m)' /\ ts'[m].reason = ts[m].reason
  BY DEF AskInv, GoesOn
<1>5. phase = "idle" /\ homings > 0 /\ ~spoiled' =>
          /\ result # Error /\ result = Outcome(res) /\ Len(res) = N
          /\ \A m \in Boards : res[m] = ts'[m].reason
  BY <1>4 DEF AskInv
<1>6. ASSUME phase = "stop"
      PROVE  /\ \A m \in 1..(asked - 1) : Silent(m)' /\ (~spoiled' => res[m] = ts'[m].reason)
             /\ \A m \in (asked + 1)..N : NoAsk(m)' /\ handler[m] = "watch"
             /\ IsAsked(asked)' \/ Answers(asked)' \/ HasAnswered(asked)'
  <2>1. \A m \in 1..(asked - 1) : Silent(m)' /\ (~spoiled' => res[m] = ts'[m].reason)
    <3> SUFFICES ASSUME NEW m \in 1..(asked - 1)
                 PROVE  Silent(m)' /\ (~spoiled' => res[m] = ts'[m].reason)
      OBVIOUS
    <3>1. m \in Boards
      BY <1>2
    <3> QED BY <1>6, <3>1 DEF AskInv, GoesOn
  <2>2. \A m \in (asked + 1)..N : NoAsk(m)' /\ handler[m] = "watch"
    <3> SUFFICES ASSUME NEW m \in (asked + 1)..N PROVE NoAsk(m)' /\ handler[m] = "watch"
      OBVIOUS
    <3>1. m \in Boards
      BY <1>2
    <3> QED BY <1>6, <3>1 DEF AskInv, GoesOn
  <2>3. CASE IsAsked(asked)
    BY <1>2, <2>1, <2>2, <2>3 DEF GoesOn
  <2>4. CASE Answers(asked)
    BY <1>2, <1>6, <2>1, <2>2, <2>4 DEF GoesOn
  <2>5. CASE HasAnswered(asked)
    <3>1. Silent(asked)' /\ ts'[asked].reason = ts[asked].reason
      BY <1>2, <2>5 DEF GoesOn, HasAnswered
    <3>2. HasAnswered(asked)'
      BY <1>1, <2>5, <3>1 DEF HasAnswered
    <3> QED BY <2>1, <2>2, <3>2
  <2> QED BY <1>6, <2>3, <2>4, <2>5 DEF AskInv
<1>7. phase = "stop" => handler[asked] = "query" /\ Len(res) = asked - 1
  BY DEF AskInv
<1>8. /\ phase \in {"idle", "stop"} => ~is_active /\ handler[1] # "watch"
      /\ phase \in {"homing", "waiting"} => \A m \in Boards : handler[m] = "watch"
  BY DEF AskInv
<1>9. Outcome(res)' = Outcome(res)
  BY <1>1 DEF Outcome
<1> QED BY <1>1, <1>3, <1>4, <1>5, <1>6, <1>7, <1>8, <1>9 DEF AskInv

\* While an axis is homing nothing is asked, whatever is sent.
LEMMA AskHoming ==
    ASSUME phase' \in {"homing", "waiting"}, \A m \in Boards : NoAsk(m)' /\ handler'[m] = "watch"
    PROVE  AskInv'
  BY DEF AskInv

\* A board whose queues stay as they are, read or unread, and whose trsync, once
\* quiet, does too.
LEMMA GoesSame ==
    ASSUME TypeOK, NEW m \in Boards, to_mcu'[m] = to_mcu[m], Stream(m)' = Stream(m),
           Silent(m) => receive_queue'[m] = <<>> /\ to_host'[m] = <<>>,
           Quiet(m) => Quiet(m)' /\ ts'[m].reason = ts[m].reason,
           UNCHANGED <<acked, last_params, spoiled>>
    PROVE  GoesOn(m)
<1>1. NoAsk(m) => NoAsk(m)'
  BY DEF NoAsk, OnlyStates
<1>2. Silent(m) => Silent(m)' /\ ts'[m].reason = ts[m].reason
  BY DEF Silent
<1>3. IsAsked(m) => IsAsked(m)'
  BY DEF IsAsked, AskLast, OnlyStates
<1>4. Answers(m) => Answers(m)'
  BY DEF Answers, DoneLast, LastWord
<1> QED BY <1>1, <1>2, <1>3, <1>4 DEF GoesOn

\* The timers, the start of the task, and time: they leave a quiet board alone.
LEMMA AskTimers ==
    ASSUME TypeOK, AskInv,
           \/ EndstopEvent \/ Tick \/ UNCHANGED vars
           \/ \E n \in Boards : ExpireEvent(n) \/ ReportEvent(n) \/ TaskTime(n)
    PROVE  AskInv'
<1>1. UNCHANGED <<python, is_active, to_mcu, to_host, receive_queue, spoiled>>
  BY DEF EndstopEvent, Tick, vars, ExpireEvent, ReportEvent, TaskTime, boardOnly, dispatch, wires
<1>2. ASSUME NEW m \in Boards, Quiet(m) PROVE Quiet(m)' /\ ts'[m].reason = ts[m].reason
  <2>0. ts[m] \in Trsync /\ ts \in [Boards -> Trsync] /\ task_clock \in [Boards -> Clock]
    BY StreamTypes DEF BoardType
  <2>1. ASSUME NEW n \in Boards, ExpireEvent(n) \/ ReportEvent(n) \/ TaskTime(n)
        PROVE  ts'[m] = ts[m] /\ task_clock'[m] = task_clock[m]
    <3>1. n # m
      BY <1>2, <2>1 DEF Quiet, ExpireEvent, ReportEvent, TaskTime
    <3> QED BY <2>0, <2>1, <3>1 DEF ExpireEvent, ReportEvent, TaskTime
  <2>2. ASSUME EndstopEvent PROVE ts'[m] = ts[m] /\ task_clock'[m] = task_clock[m]
    <3>1. ts'[m] = ts[m] \/ (m = 1 /\ ts'[m] = DoTrigger(ts[m], ENDSTOP_HIT))
      BY <2>0, <2>2 DEF EndstopEvent
    <3>2. DoTrigger(ts[m], ENDSTOP_HIT) = ts[m]
      BY <1>2 DEF Quiet, DoTrigger
    <3> QED BY <2>2, <3>1, <3>2 DEF EndstopEvent
  <2>3. ASSUME Tick \/ UNCHANGED vars PROVE ts'[m] = ts[m] /\ task_clock'[m] = task_clock[m]
    BY <2>3 DEF Tick, vars, board
  <2>4. ts'[m] = ts[m] /\ task_clock'[m] = task_clock[m]
    BY <2>1, <2>2, <2>3
  <2> QED BY <1>2, <2>4 DEF Quiet
<1>3. ASSUME NEW m \in Boards PROVE GoesOn(m)
  <2>1. Stream(m)' = Stream(m) /\ UNCHANGED <<acked, last_params>>
    BY <1>1 DEF Stream, python
  <2> QED BY <1>1, <1>2, <2>1, GoesSame DEF Silent
<1> QED BY <1>1, <1>3, AskKept

\* A board that another one's step leaves alone.
LEMMA GoesOther ==
    ASSUME TypeOK, NEW m \in Boards,
           to_mcu'[m] = to_mcu[m], to_host'[m] = to_host[m], receive_queue'[m] = receive_queue[m],
           ts'[m] = ts[m], task_clock'[m] = task_clock[m], UNCHANGED <<acked, last_params, spoiled>>
    PROVE  GoesOn(m)
<1>1. Stream(m)' = Stream(m)
  BY DEF Stream
<1>2. Quiet(m) => Quiet(m)' /\ ts'[m].reason = ts[m].reason
  BY DEF Quiet
<1>3. Silent(m) => receive_queue'[m] = <<>> /\ to_host'[m] = <<>>
  BY DEF Silent
<1> QED BY <1>1, <1>2, <1>3, GoesSame

\* The task sends its report; it is not in the middle of one when the board is quiet.
LEMMA AskReport ==
    ASSUME TypeOK, AskInv, NEW n \in Boards, TaskReport(n) PROVE AskInv'
<1>1. UNCHANGED <<python, is_active, to_mcu, receive_queue, spoiled>>
  BY DEF TaskReport, boardOnly, dispatch
<1>2. acked' = acked /\ last_params' = last_params
  BY <1>1 DEF python
<1>3. ASSUME NEW m \in Boards, m # n PROVE GoesOn(m)
  <2>1. to_host'[m] = to_host[m] /\ ts'[m] = ts[m] /\ task_clock'[m] = task_clock[m]
    BY <1>3 DEF TaskReport, WireType, BoardType
  <2> QED BY <1>1, <1>2, <2>1, GoesOther
<1>4. GoesOn(n)
  <2>1. ~Quiet(n) /\ ~Silent(n) /\ ~Answers(n)
    BY DEF TaskReport, Quiet, Silent, Answers
  <2>2. PICK e \in MessageSet : e.kind = "state" /\ to_host'[n] = Append(to_host[n], e)
    <3>1. task_clock[n] \in Nat /\ ts[n] \in Trsync
      BY DEF TaskReport, BoardType, Clock
    <3>2. State(ts[n].can, ts[n].reason, task_clock[n]) \in MessageSet
      BY <3>1, MadeType DEF Trsync
    <3>3. State(ts[n].can, ts[n].reason, task_clock[n]).kind = "state"
      BY DEF State
    <3>4. to_host'[n] = Append(to_host[n], State(ts[n].can, ts[n].reason, task_clock[n]))
      BY DEF TaskReport, WireType
    <3> QED BY <3>2, <3>3, <3>4
  <2>3. Stream(n)' = Append(Stream(n), e)
    <3>1. PICK a \in Seq(MessageSet), b \in Seq(MessageSet) : a = receive_queue[n] /\ b = to_host[n]
      BY StreamTypes
    <3>2. a \o Append(b, e) = Append(a \o b, e)
      BY ConcatSend
    <3> QED BY <1>1, <2>2, <3>1, <3>2 DEF Stream
  <2>4. OnlyStates(Stream(n)) => OnlyStates(Stream(n)')
    BY <2>2, <2>3, StatesAppend, StreamTypes
  <2>5. NoAsk(n) => NoAsk(n)'
    BY <1>1, <2>4 DEF NoAsk, OnlyStates
  <2>6. IsAsked(n) => IsAsked(n)'
    BY <1>1, <1>2, <2>4 DEF IsAsked, AskLast, OnlyStates
  <2> QED BY <2>1, <2>5, <2>6 DEF GoesOn
<1> QED BY <1>1, <1>3, <1>4, AskKept

\* A report that is lost while stop() waits may have been the answer.
LEMMA AskLost ==
    ASSUME TypeOK, AskInv, NEW n \in Boards, LoseState(n) PROVE AskInv'
<1>1. UNCHANGED <<python, is_active, to_mcu, receive_queue, ts, task_clock>>
  BY DEF LoseState, dispatch, board
<1>2. acked' = acked /\ last_params' = last_params
  BY <1>1 DEF python
<1>3. /\ spoiled => spoiled'
      /\ phase = "stop" => spoiled'
  BY DEF LoseState
<1>4. ASSUME NEW m \in Boards PROVE GoesOn(m)
  <2>1. /\ OnlyStates(Stream(m)) => OnlyStates(Stream(m)')
        /\ DoneLast(Stream(m)) => DoneLast(Stream(m)')
        /\ Silent(m) => to_host'[m] = <<>>
    <3>1. CASE m # n
      <4>1. to_host'[m] = to_host[m]
        BY <3>1 DEF LoseState, WireType
      <4> QED BY <1>1, <4>1 DEF Stream, Silent
    <3>2. CASE m = n
      <4>1. to_host'[m] = Tail(to_host[m]) /\ to_host[m] # <<>> /\ Head(to_host[m]).kind = "state"
        BY <3>2 DEF LoseState, WireType
      <4>2. receive_queue[m] \in Seq(MessageSet) /\ to_host[m] \in Seq(MessageSet)
        BY StreamTypes
      <4>3. Stream(m) = receive_queue[m] \o to_host[m] /\ Stream(m)' = receive_queue[m] \o Tail(to_host[m])
        BY <1>1, <4>1 DEF Stream
      <4> QED BY <4>1, <4>2, <4>3, LoseStream DEF Silent
    <3> QED BY <3>1, <3>2
  <2>2. NoAsk(m) => NoAsk(m)'
    BY <1>1, <2>1 DEF NoAsk, OnlyStates
  <2>3. IsAsked(m) => IsAsked(m)'
    BY <1>1, <1>2, <2>1 DEF IsAsked, AskLast, OnlyStates
  <2>4. Quiet(m) => Quiet(m)'
    BY <1>1 DEF Quiet
  <2>5. Silent(m) => Silent(m)'
    BY <1>1, <2>1, <2>4 DEF Silent
  <2>6. phase = "stop" /\ Answers(m) => Answers(m)'
    BY <1>1, <1>2, <1>3, <2>1, <2>4 DEF Answers, DoneLast
  <2> QED BY <1>1, <2>2, <2>3, <2>5, <2>6 DEF GoesOn
<1> QED BY <1>1, <1>3, <1>4, AskKept

\* After a trigger from the host the board is quiet.
LEMMA TriggeredQuiet ==
    ASSUME NEW t \in Trsync, NEW r \in Reason
    PROVE  /\ Triggered(t, r).report_time = Never /\ Triggered(t, r).expire_time = Never
           /\ ~Triggered(t, r).report /\ ~Triggered(t, r).can
           /\ Triggered(t, r).reason \in Reason
<1>1. DoTrigger(t, r) \in Trsync /\ ~DoTrigger(t, r).can
  BY DEF DoTrigger, Trsync
<1> QED BY <1>1 DEF Triggered, Trsync

\* A board runs a command: the answer to stop() ends what it has to say.
LEMMA AskCommand ==
    ASSUME TypeOK, AskInv, NEW n \in Boards, McuCommand(n) PROVE AskInv'
<1>1. UNCHANGED <<python, is_active, task_clock, receive_queue, spoiled>>
  BY DEF McuCommand, dispatch
<1>2. acked' = acked /\ last_params' = last_params
  BY <1>1 DEF python
<1>3. ASSUME NEW m \in Boards, m # n PROVE GoesOn(m)
  <2>1. to_mcu'[m] = to_mcu[m]
    BY <1>3 DEF McuCommand, WireType
  <2>2. to_host'[m] = to_host[m] /\ ts'[m] = ts[m]
    BY <1>3 DEF McuCommand, Run, WireType, BoardType
  <2> QED BY <1>1, <1>2, <2>1, <2>2, GoesOther
<1>4. GoesOn(n)
  <2> DEFINE c == Head(to_mcu[n])
  <2>0. to_mcu[n] # <<>> /\ task_clock[n] = Never /\ to_mcu'[n] = Tail(to_mcu[n]) /\ Run(n, c)
    BY DEF McuCommand, WireType
  <2>1. c \in CommandSet /\ to_mcu[n] \in Seq(CommandSet)
    BY <2>0, StreamTypes, TailProps
  <2> HIDE DEF c
  <2>2. ~Silent(n) /\ ~Answers(n)
    BY <2>0 DEF Silent, Answers
  <2>3. PICK a \in Seq(MessageSet), b \in Seq(MessageSet) :
            a = receive_queue[n] /\ b = to_host[n] /\ Stream(n) = a \o b
    BY StreamTypes DEF Stream
  <2>4. CASE c.op # "trigger"
    <3>1. to_host'[n] = to_host[n]
      BY <2>0, <2>4 DEF Run
    <3>2. Stream(n)' = Stream(n)
      BY <1>1, <3>1 DEF Stream
    <3>3. NoAsk(n) => NoAsk(n)'
      BY <2>0, <2>1, <3>2, AskTaken DEF NoAsk, OnlyStates
    <3>4. IsAsked(n) => IsAsked(n)'
      <4>1. AskLast(to_mcu[n]) => AskLast(Tail(to_mcu[n]))
        BY <2>1, <2>4, AskTaken DEF c
      <4> QED BY <1>2, <2>0, <3>2, <4>1 DEF IsAsked, AskLast, OnlyStates
    <3> QED BY <2>2, <3>3, <3>4 DEF GoesOn
  <2>5. CASE c.op = "trigger"
    <3>0. c.arg \in Reason
      BY <2>1, <2>5 DEF CommandSet
    <3>1. ts'[n] = Triggered(ts[n], c.arg) /\ ts[n] \in Trsync
      BY <2>0, <2>5 DEF Run, BoardType
    <3>2. ts'[n].reason \in Reason /\ Quiet(n)'
      BY <1>1, <2>0, <3>0, <3>1, TriggeredQuiet DEF Quiet
    <3>3. PICK e \in MessageSet : e = State(FALSE, ts'[n].reason, 0) /\ e.kind = "state"
                                  /\ e.reason = ts'[n].reason
      <4>1. State(FALSE, ts'[n].reason, 0) \in MessageSet
        BY <3>2, MadeType
      <4> QED BY <4>1 DEF State
    <3>4. to_host'[n] = b \o <<e>> \o (IF c.ask THEN <<Done>> ELSE <<>>)
      BY <2>0, <2>3, <2>5, <3>3 DEF Run, WireType
    <3>5. Done \in MessageSet /\ Done.kind = "done"
      BY MadeType DEF Done
    <3>6. CASE ~c.ask
      <4>1. to_host'[n] = Append(b, e)
        BY <3>4, <3>6
      <4>2. Stream(n)' = Append(Stream(n), e)
        <5>1. a \o Append(b, e) = Append(a \o b, e)
          BY ConcatSend
        <5> QED BY <1>1, <2>3, <4>1, <5>1 DEF Stream
      <4>3. OnlyStates(Stream(n)) => OnlyStates(Stream(n)')
        BY <3>3, <4>2, StatesAppend, StreamTypes
      <4>4. NoAsk(n) => NoAsk(n)'
        BY <2>0, <2>1, <4>3, AskTaken DEF NoAsk, OnlyStates
      <4>5. IsAsked(n) => IsAsked(n)'
        <5>1. AskLast(to_mcu[n]) => AskLast(Tail(to_mcu[n]))
          BY <2>1, <3>6, AskTaken DEF c
        <5> QED BY <1>2, <2>0, <4>3, <5>1 DEF IsAsked, AskLast, OnlyStates
      <4> QED BY <2>2, <4>4, <4>5 DEF GoesOn
    <3>7. CASE c.ask
      <4>1. ~NoAsk(n)
        BY <2>0, <2>1, <3>7, AskTaken DEF NoAsk, c
      <4>2. ASSUME IsAsked(n) PROVE Answers(n)'
        <5>1. to_mcu'[n] = <<>>
          BY <2>0, <2>1, <3>7, <4>2, AskTaken DEF IsAsked, c
        <5>2. to_host'[n] = Append(Append(b, e), Done)
          BY <3>4, <3>5, <3>7
        <5>3. PICK s \in Seq(MessageSet) : s = Stream(n)
          BY StreamTypes
        <5>4. Append(b, e) \in Seq(MessageSet)
          BY AppendProps
        <5>5. a \o Append(b, e) = Append(s, e)
          <6>1. a \o Append(b, e) = Append(a \o b, e)
            BY ConcatSend
          <6> QED BY <2>3, <5>3, <6>1
        <5>6. a \o Append(Append(b, e), Done) = Append(a \o Append(b, e), Done)
          BY <3>5, <5>4, ConcatSend
        <5>7. Stream(n)' = Append(Append(s, e), Done)
          BY <1>1, <2>3, <5>2, <5>5, <5>6 DEF Stream
        <5>8. PICK t \in Seq(MessageSet) : t = Append(s, e) /\ OnlyStates(t)
                                           /\ Len(t) = Len(s) + 1 /\ Len(s) \in Nat
                                           /\ t[Len(s) + 1] = e
          <6>1. OnlyStates(s)
            BY <4>2, <5>3 DEF IsAsked
          <6>2. /\ Append(s, e) \in Seq(MessageSet) /\ OnlyStates(Append(s, e))
                /\ Len(Append(s, e)) = Len(s) + 1 /\ Len(s) \in Nat
            BY <3>3, <6>1, StatesAppend, AppendProps, LenProperties
          <6>3. Append(s, e)[Len(s) + 1] = e
            BY <6>2, AppendProps
          <6> QED BY <6>2, <6>3
        <5>9. PICK u \in Seq(MessageSet) : u = Append(t, Done) /\ DoneLast(u)
                                           /\ Len(u) = Len(s) + 2 /\ u[Len(s) + 1] = e
          <6>1. /\ Append(t, Done) \in Seq(MessageSet) /\ DoneLast(Append(t, Done))
                /\ Len(Append(t, Done)) = Len(t) + 1
                /\ \A i \in 1..(Len(t) + 1) : Append(t, Done)[i] = IF i <= Len(t) THEN t[i] ELSE Done
            <7>1. DoneLast(Append(t, Done))
              BY <3>5, <5>8, StatesAppend
            <7> QED BY <3>5, <7>1, AppendProps
          <6>2. Append(t, Done)[Len(s) + 1] = e
            BY <5>8, <6>1
          <6>3. Len(Append(t, Done)) = Len(s) + 2
            BY <5>8, <6>1
          <6> QED BY <6>1, <6>2, <6>3, Zenon
        <5>10. Stream(n)' = u
          BY <5>7, <5>8, <5>9
        <5>11. LastWord(Stream(n))' = ts'[n].reason
          <6>1. Len(u) >= 2 /\ Len(u) - 1 = Len(s) + 1
            BY <5>8, <5>9
          <6> QED BY <3>3, <5>9, <5>10, <6>1 DEF LastWord
        <5>12. DoneLast(Stream(n)')
          BY <5>9, <5>10
        <5> QED BY <1>2, <3>2, <4>2, <5>1, <5>11, <5>12 DEF Answers, IsAsked, DoneLast
      <4> QED BY <2>2, <4>1, <4>2 DEF GoesOn
    <3> QED BY <3>6, <3>7
  <2> QED BY <2>4, <2>5
<1> QED BY <1>1, <1>3, <1>4, AskKept

\* A message read by the fastreader is passed on to Python; only while an axis is
\* homing does the dispatch send anything.
LEMMA AskHostReceive ==
    ASSUME TypeOK, AskInv, NEW n \in Boards, HostReceive(n) PROVE AskInv'
<1> DEFINE s == Head(to_host[n])
<1>1. /\ UNCHANGED <<python, is_active, ts, task_clock, spoiled>> /\ to_host[n] # <<>>
      /\ to_host' = [to_host EXCEPT ![n] = Tail(@)]
      /\ receive_queue' = [receive_queue EXCEPT ![n] = Append(@, s)]
  BY DEF HostReceive, board
<1>2. acked' = acked /\ last_params' = last_params /\ phase' = phase /\ handler' = handler
  BY <1>1 DEF python
<1>3. s \in MessageSet
  BY <1>1, StreamTypes, TailProps
<1> HIDE DEF s
<1>4. ASSUME NEW m \in Boards
      PROVE Stream(m)' = Stream(m) /\ (Silent(m) => receive_queue'[m] = <<>> /\ to_host'[m] = <<>>)
  <2>1. CASE m # n
    <3>1. to_host'[m] = to_host[m] /\ receive_queue'[m] = receive_queue[m]
      BY <1>1, <2>1 DEF WireType
    <3> QED BY <3>1 DEF Stream, Silent
  <2>2. CASE m = n
    <3>1. to_host'[m] = Tail(to_host[m]) /\ receive_queue'[m] = Append(receive_queue[m], Head(to_host[m]))
      BY <1>1, <2>2 DEF WireType, s
    <3>2. /\ to_host[m] # <<>> /\ receive_queue[m] \in Seq(MessageSet) /\ to_host[m] \in Seq(MessageSet)
          /\ Head(to_host[m]) \in MessageSet
      BY <1>1, <1>3, <2>2, StreamTypes DEF s
    <3>3. PICK a \in Seq(MessageSet), b \in Seq(MessageSet) : a = receive_queue[m] /\ b = to_host[m]
      BY <3>2
    <3>4. b # <<>> => Append(a, Head(b)) \o Tail(b) = a \o b
      BY <1>3, ConcatMoves
    <3> QED BY <3>1, <3>2, <3>3, <3>4 DEF Stream, Silent
  <2> QED BY <2>1, <2>2
<1>5. CASE ~(s.kind = "state" /\ is_active /\ td_can_trigger)
  <2>1. to_mcu' = to_mcu
    BY <1>5 DEF HostReceive, s
  <2>2. ASSUME NEW m \in Boards PROVE GoesOn(m)
    <3>1. Quiet(m) => Quiet(m)' /\ ts'[m].reason = ts[m].reason
      BY <1>1 DEF Quiet
    <3> QED BY <1>1, <1>2, <1>4, <2>1, <3>1, GoesSame
  <2> QED BY <1>1, <2>2, AskKept
<1>6. CASE s.kind = "state" /\ is_active /\ td_can_trigger
  <2>1. phase \in {"homing", "waiting"} /\ \A m \in Boards : NoAsk(m) /\ handler[m] = "watch"
    BY <1>6 DEF AskInv, PythonType
  <2>2. ASSUME NEW m \in Boards
        PROVE  \/ to_mcu'[m] = to_mcu[m]
               \/ \E c \in CommandSet : ~c.ask /\ to_mcu'[m] = Append(to_mcu[m], c)
    <3>1. CASE ~s.can
      <4>1. to_mcu'[m] = Append(to_mcu[m], Command("trigger", HOST_REQUEST, FALSE))
        BY <1>6, <3>1 DEF HostReceive, Dispatch, s
      <4>2. ~Command("trigger", HOST_REQUEST, FALSE).ask
        BY DEF Command
      <4> QED BY <4>1, <4>2, MadeType
    <3>2. CASE s.can
      <4> DEFINE clock == [last_status_clock EXCEPT ![n] = s.clock]
      <4>1. clock \in [Boards -> Nat]
        BY <1>3 DEF DispatchType, MessageSet
      <4>2. to_mcu'[m] = IF Extended(clock, m) = expire_clock[m] THEN to_mcu[m]
                         ELSE Append(to_mcu[m], Command("timeout", Extended(clock, m), FALSE))
        BY <1>6, <3>2 DEF HostReceive, Dispatch, s
      <4> HIDE DEF clock
      <4>3. Command("timeout", Extended(clock, m), FALSE) \in CommandSet
        BY <4>1, ExtendedProps, MadeType
      <4>4. ~Command("timeout", Extended(clock, m), FALSE).ask
        BY DEF Command
      <4> QED BY <4>2, <4>3, <4>4
    <3> QED BY <3>1, <3>2
  <2>3. ASSUME NEW m \in Boards PROVE NoAsk(m)' /\ handler'[m] = "watch"
    <3>1. OnlyStates(Stream(m)')
      BY <1>4, <2>1 DEF NoAsk
    <3>2. \A i \in 1..Len(to_mcu'[m]) : ~to_mcu'[m][i].ask
      BY <2>1, <2>2, AskSent, StreamTypes DEF NoAsk
    <3> QED BY <1>2, <2>1, <3>1, <3>2 DEF NoAsk, OnlyStates
  <2> QED BY <1>2, <2>1, <2>3, AskHoming
<1> QED BY <1>5, <1>6

\* Python reads a message.  In stop() the reports that were under way set
\* last_params too, but the answer is the last to do so before the acknowledgement.
LEMMA AskPythonReceive ==
    ASSUME TypeOK, AskInv, NEW n \in Boards, PythonReceive(n) PROVE AskInv'
<1> DEFINE s == Head(receive_queue[n])
<1>1. /\ receive_queue[n] # <<>> /\ receive_queue' = [receive_queue EXCEPT ![n] = Tail(@)]
      /\ UNCHANGED <<phase, homings, handler, asked, res, result, is_active, ts, task_clock,
                     to_host, spoiled>>
  BY DEF PythonReceive, board, dispatch
<1>2. s \in MessageSet /\ ~Silent(n)
  BY <1>1, StreamTypes, TailProps DEF Silent
<1>3. /\ last_params' = IF s.kind = "state" /\ handler[n] = "query" THEN s.reason
                        ELSE last_params
      /\ acked' = (acked \/ s.kind = "done")
  BY DEF PythonReceive
<1>4. /\ Stream(n)' = Tail(Stream(n)) /\ Head(Stream(n)) = s
      /\ Stream(n) \in Seq(MessageSet) /\ Stream(n) # <<>>
      /\ Stream(n)' = <<>> <=> receive_queue'[n] = <<>> /\ to_host'[n] = <<>>
  <2>1. /\ receive_queue[n] \in Seq(MessageSet) /\ to_host[n] \in Seq(MessageSet)
        /\ Tail(receive_queue[n]) \in Seq(MessageSet)
    BY <1>1, StreamTypes, TailProps
  <2>2. Tail(receive_queue[n]) \o to_host[n] = Tail(receive_queue[n] \o to_host[n])
        /\ Head(receive_queue[n] \o to_host[n]) = s
    <3>1. PICK a \in Seq(MessageSet), b \in Seq(MessageSet) : a = receive_queue[n] /\ b = to_host[n]
      BY <2>1
    <3>2. a # <<>> => Tail(a) \o b = Tail(a \o b) /\ Head(a \o b) = Head(a)
      BY <1>2, ConcatMoves
    <3> QED BY <1>1, <3>1, <3>2
  <2>3. receive_queue'[n] = Tail(receive_queue[n])
    BY <1>1 DEF WireType
  <2>4. Tail(receive_queue[n]) \o to_host[n] = <<>> <=> Tail(receive_queue[n]) = <<>> /\ to_host[n] = <<>>
    BY <1>2, <2>1, ConcatMoves
  <2> QED BY <1>1, <2>2, <2>3, <2>4, StreamTypes DEF Stream
<1>5. \A m \in Boards \ {n} : receive_queue'[m] = receive_queue[m] /\ Stream(m)' = Stream(m)
  BY <1>1 DEF Stream, WireType
<1> HIDE DEF s
<1>6. CASE phase \in {"homing", "waiting"}
  <2>1. ASSUME NEW m \in Boards PROVE NoAsk(m)' /\ handler'[m] = "watch"
    <3>1. NoAsk(m) /\ handler'[m] = "watch"
      BY <1>1, <1>6 DEF AskInv
    <3>2. OnlyStates(Stream(m)')
      BY <1>4, <1>5, <3>1, StatesTail DEF NoAsk
    <3>3. \/ to_mcu'[m] = to_mcu[m]
          \/ to_mcu'[m] = Append(to_mcu[m], Command("trigger", PAST_END_TIME, FALSE))
      BY DEF PythonReceive, WireType
    <3>4. ~Command("trigger", PAST_END_TIME, FALSE).ask
      BY DEF Command
    <3>5. \A i \in 1..Len(to_mcu'[m]) : ~to_mcu'[m][i].ask
      BY <3>1, <3>3, <3>4, AskSent, StreamTypes, MadeType DEF NoAsk
    <3> QED BY <3>1, <3>2, <3>5 DEF NoAsk, OnlyStates
  <2> QED BY <1>1, <1>6, <2>1, AskHoming
<1>7. ASSUME phase \in {"idle", "stop"} PROVE to_mcu' = to_mcu
  <2>1. handler[1] # "watch"
    BY <1>7 DEF AskInv
  <2>2. ~(s.kind = "state" /\ handler[n] = "watch" /\ PastEnd(n, s))
    BY <2>1 DEF PastEnd
  <2> QED BY <2>2 DEF PythonReceive, s
<1>8. CASE phase = "idle"
  <2>1. result = Error
    BY <1>2, <1>8 DEF AskInv
  <2>2. ASSUME NEW m \in Boards PROVE NoAsk(m)'
    <3>1. NoAsk(m)
      BY <1>8 DEF AskInv
    <3>2. OnlyStates(Stream(m)')
      BY <1>4, <1>5, <3>1, StatesTail DEF NoAsk
    <3> QED BY <1>7, <1>8, <3>1, <3>2 DEF NoAsk, OnlyStates
  <2>3. ~is_active /\ handler[1] # "watch" /\ ~(homings > 0 /\ ~spoiled)
    BY <1>8, <2>1 DEF AskInv
  <2> QED BY <1>1, <1>8, <2>1, <2>2, <2>3 DEF AskInv
<1>9. CASE phase = "stop"
  <2>0. asked \in Boards /\ Boards = 1..N /\ N \in Nat
    BY SyncAssumption DEF PythonType, Boards
  <2>1. /\ ~is_active /\ handler[1] # "watch" /\ handler[asked] = "query" /\ Len(res) = asked - 1
        /\ \A m \in 1..(asked - 1) : Silent(m) /\ (~spoiled => res[m] = ts[m].reason)
        /\ \A m \in (asked + 1)..N : NoAsk(m) /\ handler[m] = "watch"
        /\ IsAsked(asked) \/ Answers(asked) \/ HasAnswered(asked)
    BY <1>9 DEF AskInv
  <2>2. to_mcu' = to_mcu
    BY <1>7, <1>9
  <2>3. n >= asked
    BY <1>2, <2>0, <2>1
  <2>4. ASSUME NEW m \in 1..(asked - 1) PROVE Silent(m)' /\ (~spoiled' => res'[m] = ts'[m].reason)
    <3>1. m \in Boards \ {n}
      BY <2>0, <2>3
    <3> QED BY <1>1, <1>5, <2>1, <2>2, <3>1 DEF Silent, Quiet
  <2>5. ASSUME NEW m \in (asked + 1)..N PROVE NoAsk(m)' /\ handler'[m] = "watch"
    <3>1. m \in Boards /\ NoAsk(m) /\ handler[m] = "watch"
      BY <2>0, <2>1
    <3>2. OnlyStates(Stream(m)')
      BY <1>4, <1>5, <3>1, StatesTail DEF NoAsk
    <3> QED BY <1>1, <2>2, <3>1, <3>2 DEF NoAsk, OnlyStates
  <2>6. IsAsked(asked)' \/ Answers(asked)' \/ HasAnswered(asked)'
    <3>1. CASE n # asked
      <4>1. n \in (asked + 1)..N /\ NoAsk(n) /\ handler[n] = "watch"
        BY <2>0, <2>1, <2>3, <3>1
      <4>2. s.kind = "state"
        BY <1>4, <4>1, StatesTail DEF NoAsk
      <4>3. acked' = acked /\ last_params' = last_params
        BY <1>3, <4>1, <4>2 DEF PythonType
      <4>4. Stream(asked)' = Stream(asked) /\ receive_queue'[asked] = receive_queue[asked]
        <5>1. asked \in Boards \ {n}
          BY <2>0, <3>1
        <5> QED BY <1>1, <1>5, <5>1 DEF Stream
      <4>5. IsAsked(asked) => IsAsked(asked)'
        BY <1>1, <2>2, <4>3, <4>4 DEF IsAsked, AskLast, OnlyStates
      <4>6. Quiet(asked) => Quiet(asked)'
        BY <1>1 DEF Quiet
      <4>7. Answers(asked) => Answers(asked)'
        BY <1>1, <2>2, <4>3, <4>4, <4>6 DEF Answers, DoneLast, LastWord
      <4>8. HasAnswered(asked) => HasAnswered(asked)'
        BY <1>1, <2>2, <4>3, <4>4, <4>6 DEF HasAnswered, Silent
      <4> QED BY <2>1, <4>5, <4>7, <4>8
    <3>2. CASE n = asked
      <4>0. ~HasAnswered(asked)
        BY <1>2, <3>2 DEF HasAnswered
      <4>1. CASE IsAsked(asked)
        <5>1. s.kind = "state" /\ OnlyStates(Stream(n)')
          BY <1>4, <3>2, <4>1, StatesTail DEF IsAsked
        <5>2. ~acked'
          BY <1>3, <4>1, <5>1 DEF IsAsked
        <5>3. IsAsked(n)'
          BY <2>2, <3>2, <4>1, <5>1, <5>2 DEF IsAsked, AskLast, OnlyStates
        <5> QED BY <1>1, <3>2, <5>3
      <4>2. CASE Answers(asked)
        <5>1. PICK x \in Seq(MessageSet) : x = Stream(n)
          BY <1>4
        <5>2. /\ ~acked /\ to_mcu[n] = <<>> /\ Quiet(n) /\ DoneLast(x)
              /\ ~spoiled => LastWord(x) = ts[n].reason
          BY <3>2, <4>2, <5>1 DEF Answers
        <5>3. Quiet(n)'
          BY <1>1, <5>2 DEF Quiet
        <5>4. CASE Len(x) = 1
          <6>1. s.kind = "done" /\ Stream(n)' = <<>>
            BY <1>4, <5>1, <5>2, <5>4, DoneTail
          <6>2. acked' /\ last_params' = last_params
            BY <1>3, <6>1
          <6>3. ~spoiled => last_params = ts[n].reason
            BY <5>2, <5>4 DEF LastWord
          <6>4. HasAnswered(n)'
            BY <1>1, <1>4, <2>2, <5>2, <5>3, <6>1, <6>2, <6>3 DEF HasAnswered, Silent
          <6> QED BY <1>1, <3>2, <6>4
        <5>5. CASE Len(x) # 1
          <6>1. /\ Len(x) >= 2 /\ s.kind = "state" /\ DoneLast(Tail(x))
                /\ x[Len(x) - 1].reason = IF Len(Tail(x)) >= 2 THEN Tail(x)[Len(Tail(x)) - 1].reason
                                          ELSE s.reason
            BY <1>4, <5>1, <5>2, <5>5, DoneTail
          <6>2. ~acked' /\ last_params' = s.reason
            BY <1>3, <2>1, <3>2, <5>2, <6>1
          <6>3. LastWord(x) = x[Len(x) - 1].reason
            BY <6>1 DEF LastWord
          <6>4. Stream(n)' = Tail(x)
            BY <1>4, <5>1
          <6>5. LastWord(Stream(n))' = x[Len(x) - 1].reason
            BY <6>1, <6>2, <6>4 DEF LastWord
          <6>6. DoneLast(Stream(n))'
            BY <6>1, <6>4 DEF DoneLast
          <6>7. Answers(n)'
            BY <1>1, <2>2, <5>2, <5>3, <6>2, <6>3, <6>5, <6>6 DEF Answers
          <6> QED BY <1>1, <3>2, <6>7
        <5> QED BY <5>4, <5>5
      <4> QED BY <2>1, <4>0, <4>1, <4>2
    <3> QED BY <3>1, <3>2
  <2> QED BY <1>1, <1>9, <2>1, <2>4, <2>5, <2>6 DEF AskInv
<1> QED BY <1>6, <1>8, <1>9 DEF PythonType

\* A homing begins, and goes on to wait for its end, without a question.
LEMMA AskStart ==
    ASSUME TypeOK, AskInv, HomeStart \/ WaitEnd PROVE AskInv'
<1>1. /\ phase' \in {"homing", "waiting"} /\ phase \in {"idle", "homing"}
      /\ UNCHANGED <<to_host, receive_queue>>
  BY DEF HomeStart, WaitEnd, wires
<1>2. ASSUME NEW m \in Boards PROVE NoAsk(m)' /\ handler'[m] = "watch"
  <2>1. NoAsk(m) /\ to_mcu[m] \in Seq(CommandSet)
    BY <1>1, StreamTypes DEF AskInv
  <2>2. handler'[m] = "watch"
    BY <1>1 DEF AskInv, HomeStart, WaitEnd
  <2>3. \A i \in 1..Len(to_mcu'[m]) : ~to_mcu'[m][i].ask
    <3>1. CASE WaitEnd
      BY <2>1, <3>1 DEF WaitEnd, wires, NoAsk
    <3>2. CASE HomeStart
      <4>1. PICK a \in CommandSet : a = Command("start", now + Lead, FALSE) /\ ~a.ask
        <5>1. now + Lead \in Nat
          BY SyncAssumption
        <5>2. Command("start", now + Lead, FALSE) \in CommandSet
          BY <5>1, MadeType
        <5> QED BY <5>2 DEF Command
      <4>2. PICK b \in CommandSet : b = Command("home", now + Lead, FALSE) /\ ~b.ask
        <5>1. now + Lead \in Nat
          BY SyncAssumption
        <5>2. Command("home", now + Lead, FALSE) \in CommandSet
          BY <5>1, MadeType
        <5> QED BY <5>2 DEF Command
      <4>3. to_mcu'[m] = to_mcu[m] \o <<a>> \o (IF m = 1 THEN <<b>> ELSE <<>>)
        BY <3>2, <4>1, <4>2 DEF HomeStart
      <4>4. PICK q \in Seq(CommandSet) : q = Append(to_mcu[m], a)
        BY <2>1, AppendProps
      <4>5. \A i \in 1..Len(q) : ~q[i].ask
        BY <2>1, <4>1, <4>4, AskSent DEF NoAsk
      <4>6. to_mcu'[m] = q \/ to_mcu'[m] = Append(q, b)
        <5>1. to_mcu[m] \o <<a>> = q
          BY <2>1, <4>4, AppendIsConcat
        <5>2. q \o <<b>> = Append(q, b) /\ q \o <<>> = q
          BY AppendIsConcat, ConcatEmptySeq
        <5> QED BY <4>3, <5>1, <5>2
      <4> QED BY <4>2, <4>5, <4>6, AskSent
    <3> QED BY <3>1, <3>2
  <2>4. Stream(m)' = Stream(m)
    BY <1>1 DEF Stream
  <2> QED BY <2>1, <2>2, <2>3, <2>4 DEF NoAsk, OnlyStates
<1> QED BY <1>1, <1>2, AskHoming

\* The question, behind what is in the queue of a board of which nothing was asked.
LEMMA AskIsAsked ==
    ASSUME TypeOK, NEW m \in Boards, NoAsk(m), ~acked', Stream(m)' = Stream(m),
           to_mcu'[m] = Append(to_mcu[m], Command("trigger", HOST_REQUEST, TRUE))
    PROVE  IsAsked(m)'
<1>1. PICK c \in CommandSet : /\ c = Command("trigger", HOST_REQUEST, TRUE)
                              /\ c.ask /\ c.op = "trigger"
  <2>1. Command("trigger", HOST_REQUEST, TRUE) \in CommandSet
    BY MadeType
  <2> QED BY <2>1 DEF Command
<1>2. AskLast(to_mcu'[m])
  BY <1>1, AskSent, StreamTypes DEF NoAsk
<1> QED BY <1>2 DEF IsAsked, NoAsk, AskLast, OnlyStates

\* home_wait asks the first board.
LEMMA AskStop ==
    ASSUME TypeOK, AskInv, Stop PROVE AskInv'
<1>0. 1 \in Boards /\ N \in Nat /\ Boards = 1..N
  BY SyncAssumption DEF Boards
<1>1. /\ phase = "waiting" /\ phase' = "stop" /\ res' = <<>> /\ ~is_active' /\ asked' = 1
      /\ ~acked' /\ handler' = [handler EXCEPT ![1] = "query"]
      /\ UNCHANGED <<to_host, receive_queue, ts, task_clock>>
  BY DEF Stop, Ask, board
<1>2. \A m \in Boards : NoAsk(m) /\ handler[m] = "watch"
  BY <1>1 DEF AskInv
<1>3. handler'[1] = "query" /\ \A m \in Boards \ {1} : handler'[m] = "watch"
  BY <1>0, <1>1, <1>2 DEF PythonType
<1>4. \A m \in Boards : Stream(m)' = Stream(m)
  BY <1>1 DEF Stream
<1> DEFINE off == Command("off", 0, FALSE)
           ask == Command("trigger", HOST_REQUEST, TRUE)
<1>5. /\ to_mcu'[1] = Append(Append(to_mcu[1], off), ask)
      /\ \A m \in Boards \ {1} : to_mcu'[m] = to_mcu[m]
  BY <1>0 DEF Stop, Ask, WireType
<1>6. IsAsked(1)'
  <2>1. /\ off \in CommandSet /\ ask \in CommandSet
        /\ ~off.ask /\ ask.ask /\ ask.op = "trigger"
    BY MadeType DEF Command
  <2> HIDE DEF off, ask
  <2>2. PICK q \in Seq(CommandSet) : q = Append(to_mcu[1], off)
    BY <1>0, <2>1, AppendProps, StreamTypes
  <2>3. \A i \in 1..Len(q) : ~q[i].ask
    BY <1>0, <1>2, <2>1, <2>2, AskSent, StreamTypes DEF NoAsk
  <2>4. AskLast(to_mcu'[1])
    BY <1>5, <2>1, <2>2, <2>3, AskSent
  <2>5. OnlyStates(Stream(1)')
    BY <1>0, <1>2, <1>4 DEF NoAsk
  <2> QED BY <1>1, <2>4, <2>5 DEF IsAsked, AskLast, OnlyStates
<1>7. ASSUME NEW m \in 2..N PROVE NoAsk(m)' /\ handler'[m] = "watch"
  <2>1. m \in Boards \ {1}
    BY <1>0
  <2> QED BY <1>2, <1>3, <1>4, <1>5, <2>1 DEF NoAsk, OnlyStates
<1>8. Len(res') = asked' - 1
  BY <1>1
<1> QED BY <1>1, <1>3, <1>6, <1>7, <1>8 DEF AskInv

\* An answer is taken down, and the next board asked; the last one ends the homing.
LEMMA AskAnswered ==
    ASSUME TypeOK, AskInv, Answered PROVE AskInv'
<1>0. asked \in 1..N /\ N \in Nat /\ Boards = 1..N /\ res \in Seq(Reason) /\ Len(res) \in Nat
  BY SyncAssumption DEF PythonType, Boards
<1>1. /\ phase = "stop" /\ acked /\ last_params # NoAnswer /\ res' = Append(res, last_params)
      /\ UNCHANGED <<to_host, receive_queue, ts, task_clock, spoiled, is_active, homings>>
  BY DEF Answered, stopOnly, board, dispatch
<1>2. /\ ~is_active /\ handler[1] # "watch" /\ handler[asked] = "query" /\ Len(res) = asked - 1
      /\ \A m \in 1..(asked - 1) : Silent(m) /\ (~spoiled => res[m] = ts[m].reason)
      /\ \A m \in (asked + 1)..N : NoAsk(m) /\ handler[m] = "watch"
      /\ Silent(asked) /\ (~spoiled => last_params = ts[asked].reason)
  BY <1>1 DEF AskInv, IsAsked, Answers, HasAnswered
<1>3. \A m \in Boards : Stream(m)' = Stream(m) /\ (Quiet(m) => Quiet(m)')
  BY <1>1 DEF Stream, Quiet
<1>4. last_params \in Reason
  BY <1>1 DEF PythonType
<1>5. /\ res' \in Seq(Reason) /\ Len(res') = asked
      /\ \A m \in 1..asked : res'[m] = IF m <= asked - 1 THEN res[m] ELSE last_params
  BY <1>0, <1>1, <1>2, <1>4, AppendProps
<1>6. ASSUME NEW m \in 1..asked PROVE Silent(m) /\ (~spoiled => res'[m] = ts[m].reason)
  <2>1. CASE m = asked
    BY <1>0, <1>2, <1>5, <2>1
  <2>2. CASE m # asked
    <3>1. m \in 1..(asked - 1)
      BY <1>0, <2>2
    <3> QED BY <1>2, <1>5, <3>1
  <2> QED BY <2>1, <2>2
<1>7. CASE asked < N
  <2>1. /\ asked' = asked + 1 /\ ~acked' /\ phase' = "stop" /\ result' = result
        /\ to_mcu' = [to_mcu EXCEPT ![asked + 1] =
                        Append(@, Command("trigger", HOST_REQUEST, TRUE))]
        /\ handler' = [handler EXCEPT ![asked] = "none", ![asked + 1] = "query"]
    BY <1>1, <1>7 DEF Answered, Ask
  <2>2. asked + 1 \in Boards /\ asked + 1 \in (asked + 1)..N
    BY <1>0, <1>7
  <2>3. IsAsked(asked)'
    <3>1. PICK k \in Boards : k = asked + 1
      BY <2>2
    <3>2. to_mcu'[k] = Append(to_mcu[k], Command("trigger", HOST_REQUEST, TRUE)) /\ NoAsk(k)
      BY <1>2, <2>1, <2>2, <3>1 DEF WireType
    <3>3. IsAsked(k)'
      BY <1>3, <2>1, <3>2, AskIsAsked
    <3>4. k = asked'
      BY <2>1, <3>1
    <3> QED BY <3>3, <3>4
  <2>4. ASSUME NEW m \in 1..asked PROVE Silent(m)'
    <3>1. m \in Boards /\ m # asked + 1
      BY <1>0
    <3>2. to_mcu'[m] = to_mcu[m]
      BY <2>1, <3>1 DEF WireType
    <3> QED BY <1>1, <1>3, <1>6, <3>1, <3>2 DEF Silent
  <2>5. ASSUME NEW m \in (asked + 2)..N PROVE NoAsk(m)' /\ handler'[m] = "watch"
    <3>1. m \in Boards /\ m # asked + 1 /\ m # asked /\ m \in (asked + 1)..N
      BY <1>0
    <3>2. to_mcu'[m] = to_mcu[m] /\ handler'[m] = handler[m]
      BY <2>1, <3>1 DEF WireType, PythonType
    <3> QED BY <1>2, <1>3, <3>1, <3>2 DEF NoAsk, OnlyStates
  <2>6. handler'[asked + 1] = "query" /\ handler'[1] # "watch"
    <3>1. handler'[asked + 1] = "query" /\ (asked # 1 => handler'[1] = handler[1]) /\ (asked = 1 => handler'[1] = "none")
      BY <1>0, <2>1, <2>2 DEF PythonType
    <3> QED BY <1>2, <3>1
  <2>7. /\ asked' - 1 = asked /\ asked' + 1 = asked + 2
    BY <1>0, <2>1
  <2>8. \A m \in 1..(asked' - 1) : Silent(m)' /\ (~spoiled' => res'[m] = ts'[m].reason)
    BY <1>1, <1>6, <2>4, <2>7
  <2>9. \A m \in (asked' + 1)..N : NoAsk(m)' /\ handler'[m] = "watch"
    BY <2>5, <2>7
  <2>10. handler'[asked'] = "query" /\ Len(res') = asked' - 1
    BY <1>5, <2>1, <2>6, <2>7
  <2> QED BY <1>1, <1>2, <2>1, <2>3, <2>6, <2>8, <2>9, <2>10 DEF AskInv
<1>8. CASE ~(asked < N)
  <2>0. asked = N
    BY <1>0, <1>8
  <2>1. /\ phase' = "idle" /\ result' = Outcome(res') /\ to_mcu' = to_mcu
        /\ handler' = [handler EXCEPT ![asked] = "none"]
    BY <1>8 DEF Answered
  <2>2. ASSUME NEW m \in Boards
        PROVE  Silent(m)' /\ NoAsk(m)' /\ (~spoiled' => res'[m] = ts'[m].reason)
    <3>1. Silent(m) /\ (~spoiled => res'[m] = ts[m].reason)
      BY <1>0, <1>6, <2>0
    <3>2. NoAsk(m)
      BY <3>1, SilentNoAsk
    <3> QED BY <1>1, <1>3, <2>1, <3>1, <3>2 DEF Silent, NoAsk, OnlyStates
  <2>3. handler'[1] # "watch"
    BY <1>0, <1>2, <2>1 DEF PythonType
  <2>4. result' # Error
    <3>1. 1 \in 1..Len(res')
      BY <1>0, <1>5
    <3>2. res'[1] \in Reason
      BY <1>5, <3>1, ElementOfSeq
    <3>3. Outcome(res') \in Reason
      BY <3>2, MadeType DEF Outcome
    <3> QED BY <2>1, <3>3, MadeType
  <2>5. result' = Outcome(res)' /\ Len(res') = N
    BY <1>5, <2>0, <2>1 DEF Outcome
  <2> QED BY <1>1, <1>2, <2>1, <2>2, <2>3, <2>4, <2>5 DEF AskInv
<1> QED BY <1>7, <1>8

\* No answer: the board, silent by now, is asked again, or the homing has failed.
LEMMA AskNotAnswered ==
    ASSUME TypeOK, AskInv, NotAnswered PROVE AskInv'
<1>0. asked \in 1..N /\ N \in Nat /\ Boards = 1..N
  BY SyncAssumption DEF PythonType, Boards
<1>1. /\ phase = "stop" /\ acked /\ ~acked' /\ res' = res /\ asked' = asked /\ last_params' = last_params
      /\ UNCHANGED <<to_host, receive_queue, ts, task_clock, is_active, homings>>
  BY DEF NotAnswered, stopOnly, board, dispatch
<1>2. /\ ~is_active /\ handler[1] # "watch" /\ handler[asked] = "query" /\ Len(res) = asked - 1
      /\ \A m \in 1..(asked - 1) : Silent(m) /\ (~spoiled => res[m] = ts[m].reason)
      /\ \A m \in (asked + 1)..N : NoAsk(m) /\ handler[m] = "watch"
      /\ Silent(asked)
  BY <1>1 DEF AskInv, IsAsked, Answers, HasAnswered
<1>3. \A m \in Boards : Stream(m)' = Stream(m) /\ (Quiet(m) => Quiet(m)')
  BY <1>1 DEF Stream, Quiet
<1>4. CASE MayRetry
  <2>1. /\ UNCHANGED <<phase, handler, result, spoiled>>
        /\ to_mcu' = [to_mcu EXCEPT ![asked] = Append(@, Command("trigger", HOST_REQUEST, TRUE))]
    BY <1>4 DEF NotAnswered
  <2>2. IsAsked(asked)'
    <3>1. PICK k \in Boards : k = asked
      BY <1>0
    <3>2. to_mcu'[k] = Append(to_mcu[k], Command("trigger", HOST_REQUEST, TRUE)) /\ NoAsk(k)
      BY <1>2, <2>1, <3>1, SilentNoAsk DEF WireType
    <3>3. IsAsked(k)' /\ k = asked'
      BY <1>1, <1>3, <3>1, <3>2, AskIsAsked
    <3> QED BY <3>3
  <2>3. ASSUME NEW m \in 1..(asked - 1) PROVE Silent(m)' /\ (~spoiled' => res'[m] = ts'[m].reason)
    <3>1. m \in Boards /\ m # asked
      BY <1>0
    <3>2. to_mcu'[m] = to_mcu[m]
      BY <2>1, <3>1 DEF WireType
    <3> QED BY <1>1, <1>2, <1>3, <2>1, <3>1, <3>2 DEF Silent
  <2>4. ASSUME NEW m \in (asked + 1)..N PROVE NoAsk(m)' /\ handler'[m] = "watch"
    <3>1. m \in Boards /\ m # asked
      BY <1>0
    <3>2. to_mcu'[m] = to_mcu[m]
      BY <2>1, <3>1 DEF WireType
    <3> QED BY <1>2, <1>3, <2>1, <3>1, <3>2 DEF NoAsk, OnlyStates
  <2> QED BY <1>1, <1>2, <2>1, <2>2, <2>3, <2>4 DEF AskInv
<1>5. CASE ~MayRetry
  <2>1. /\ phase' = "idle" /\ result' = Error /\ spoiled' /\ to_mcu' = to_mcu
        /\ handler' = [handler EXCEPT ![asked] = "none"]
    BY <1>5 DEF NotAnswered
  <2>2. ASSUME NEW m \in Boards PROVE NoAsk(m)'
    <3>1. m \in 1..(asked - 1) \/ m = asked \/ m \in (asked + 1)..N
      BY <1>0
    <3>2. NoAsk(m)
      BY <1>2, <3>1, SilentNoAsk
    <3> QED BY <1>3, <2>1, <3>2 DEF NoAsk, OnlyStates
  <2>3. handler'[1] # "watch"
    BY <1>0, <1>2, <2>1 DEF PythonType
  <2> QED BY <1>1, <1>2, <2>1, <2>2, <2>3 DEF AskInv
<1> QED BY <1>4, <1>5

\* Where the boards are with their answers, all along.
THEOREM AskInvariance == Spec => []AskInv
<1>1. Init => AskInv
  <2> SUFFICES ASSUME Init PROVE AskInv
    OBVIOUS
  <2>0. TypeOK
    BY TypeInit
  <2>1. /\ phase = "idle" /\ homings = 0 /\ ~is_active /\ handler = [m \in Boards |-> "none"]
        /\ 1 \in Boards
    BY SyncAssumption DEF Init, Boards
  <2>2. ASSUME NEW m \in Boards PROVE Silent(m)
    BY DEF Init, Silent, Quiet, Cleared
  <2>3. \A m \in Boards : NoAsk(m)
    BY <2>0, <2>2, SilentNoAsk
  <2> QED BY <2>1, <2>2, <2>3 DEF AskInv
<1>2. IInv /\ AskInv /\ [Next]_vars => AskInv'
  <2> SUFFICES ASSUME TypeOK, AskInv, [Next]_vars PROVE AskInv'
    BY DEF IInv
  <2> QED
    BY AskTimers, AskReport, AskLost, AskCommand, AskHostReceive, AskPythonReceive,
       AskStart, AskStop, AskAnswered, AskNotAnswered
       DEF Next, Timers, Python, Messages, Task
<1> QED BY <1>1, <1>2, Invariance, PTL DEF Spec

\* When home_wait returns without an error every board is silent and nothing is
\* under way, with reports lost, late and repeated questions: no message of this
\* homing can end the next one.
THEOREM NothingIsStale == Spec => []NothingStale
<1>1. AskInv => NothingStale
  BY DEF AskInv, NothingStale, Silent, Quiet
<1> QED BY <1>1, AskInvariance, PTL

\* The reasons stop() collects are those for which the boards stopped, although
\* every report that was under way is taken for an answer first.
THEOREM ResultsAreExact == Spec => []ResultExact
<1>1. TypeOK /\ AskInv => ResultExact
  <2> SUFFICES ASSUME TypeOK, AskInv, phase = "idle", homings > 0, ~spoiled
               PROVE  IF \E m \in Boards : ts[m].reason = COMMS_TIMEOUT
                      THEN result = COMMS_TIMEOUT ELSE result = ts[1].reason
    BY DEF ResultExact
  <2>1. /\ result = Outcome(res) /\ Len(res) = N /\ \A m \in Boards : res[m] = ts[m].reason
    BY DEF AskInv
  <2>2. DOMAIN res = Boards /\ 1 \in Boards
    BY <2>1, LenProperties, SyncAssumption DEF PythonType, Boards
  <2> QED BY <2>1, <2>2 DEF Outcome
<1> QED BY <1>1, AskInvariance, TypeCorrect, PTL
==============================================================================
