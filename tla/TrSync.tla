------------------------------- MODULE TrSync --------------------------------
(***************************************************************************)
(* Homing an axis whose motors sit on several boards.  Board 1 reads the   *)
(* endstop.  Each board has a "trsync" (src/trsync.c) that stops its       *)
(* motors once: because the endstop was hit, because the host says so, or  *)
(* because the host did not extend a timeout.  Boards report to the host   *)
(* periodically; the host (klippy/chelper/trdispatch.c) extends the        *)
(* timeout of a board from the reports of the others and passes a trigger  *)
(* on.  Above it klippy/mcu.py starts the homing, waits for its end and    *)
(* asks every board why it stopped.                                        *)
(*                                                                         *)
(* Commands reach a board in order and once, however late: that is what    *)
(* SerialLink provides.  Messages to the host come in order but can be     *)
(* lost.  The clocks of the boards are taken as synchronised (clocksync.py *)
(* is not modelled), and a due timer runs before time goes on.             *)
(***************************************************************************)
EXTENDS Integers, Sequences

CONSTANTS
    N,              \* boards
    Expire,         \* expire_ticks, TRSYNC_TIMEOUT
    Report,         \* report_ticks, 0.3 of it
    MinExtend,      \* min_extend_ticks, 0.8 of that
    Lead,           \* how far ahead of the motion a homing is set up
    HomeLen,        \* length of the homing move
    Rest, SampleTicks, SampleCount, \* sampling of the endstop
    Retries,        \* attempts SerialRetryCommand makes after the first
    MaxTime, MaxHomings, \* bounds on the time and on the homings
    StartBy,        \* bound on the time a homing starts
    MaxLost,        \* bound on the messages lost
    MaxLate         \* bound on the time that passes with work waiting

ASSUME SyncAssumption ==
    /\ N \in Nat \ {0}
    /\ Expire \in Nat /\ Report \in Nat \ {0} /\ MinExtend \in Nat \ {0}
    /\ Lead \in Nat \ {0} /\ HomeLen \in Nat
    /\ Rest \in Nat \ {0} /\ SampleTicks \in Nat \ {0} /\ SampleCount \in Nat \ {0}
    /\ Retries \in Nat /\ MaxTime \in Nat /\ MaxHomings \in Nat
    /\ StartBy \in Nat
    /\ MaxLost \in Nat /\ MaxLate \in Nat

VARIABLES
    now,
    \* mcu.py: home_start, home_wait, TriggerDispatch, MCU_trsync
    phase,          \* "idle", "homing", "waiting" (wait_end), "stop"
    homings,        \* homings started
    print_time,     \* start of the motion
    home_end_clock, \* of board 1
    handler,        \* per board, who gets trsync_state: "none", "watch", "query"
    completed,      \* _trigger_completion
    asked,          \* the board stop() is asking
    last_params,    \* the reason in the last answer, or NoAnswer
    acked,          \* raw_send_wait_ack has returned
    retries,
    res, result,    \* reasons collected by stop(), and what it returned
    \* trdispatch.c
    is_active,      \* fastreaders registered
    td_can_trigger,
    last_status_clock, expire_clock,
    \* trsync.c, per board
    ts,             \* struct trsync
    task_clock,     \* trsync_task has read the time and not yet the flags
    stopped_at,     \* (history) when the board stopped its motors
    too_close,      \* (history) a timer was added in the past
    \* endstop.c, board 1
    es,
    run_start, run_len, \* (history) the current run of matching samples
    \* between host and boards
    to_mcu, to_host,
    receive_queue,  \* read by the fastreader, not yet by Python
    lost,
    spoiled,        \* (history) an answer was lost, or a homing ended in an error
    late

python   == <<phase, homings, print_time, home_end_clock, handler, completed,
              asked, last_params, acked, retries, res, result>>
dispatch == <<is_active, td_can_trigger, last_status_clock, expire_clock>>
board    == <<ts, task_clock, stopped_at, too_close>>
endstop  == <<es, run_start, run_len>>
wires    == <<to_mcu, to_host, receive_queue, lost, spoiled>>
vars     == <<now, python, dispatch, board, endstop, wires, late>>

Boards == 1..N
Never  == -1
NoAnswer == -1
Error  == 5         \* "Unable to obtain 'trsync_state' response"

ENDSTOP_HIT   == 1
HOST_REQUEST  == 2
PAST_END_TIME == 3
COMMS_TIMEOUT == 4

Command(op, arg, ask) == [op |-> op, arg |-> arg, ask |-> ask]
State(can, reason, clock) ==
    [kind |-> "state", can |-> can, reason |-> reason, clock |-> clock]
Done == [kind |-> "done", can |-> FALSE, reason |-> 0, clock |-> 0]

Cleared == [can |-> FALSE, report |-> FALSE, reason |-> 0,
            report_time |-> Never, expire_time |-> Never]

------------------------------------------------------------------------------
Init ==
    /\ now = 0 /\ late = 0 /\ lost = 0 /\ spoiled = FALSE
    /\ phase = "idle" /\ homings = 0 /\ print_time = 0 /\ home_end_clock = Never
    /\ handler = [m \in Boards |-> "none"] /\ completed = FALSE
    /\ asked = 1 /\ last_params = NoAnswer /\ acked = FALSE /\ retries = 0
    /\ res = <<>> /\ result = 0
    /\ is_active = FALSE /\ td_can_trigger = FALSE
    /\ last_status_clock = [m \in Boards |-> 0]
    /\ expire_clock = [m \in Boards |-> 0]
    /\ ts = [m \in Boards |-> Cleared]
    /\ task_clock = [m \in Boards |-> Never]
    /\ stopped_at = [m \in Boards |-> Never] /\ too_close = FALSE
    /\ es = [time |-> Never, over |-> FALSE, count |-> 0, nextwake |-> 0]
    /\ run_start = Never /\ run_len = 0
    /\ to_mcu = [m \in Boards |-> <<>>] /\ to_host = [m \in Boards |-> <<>>]
    /\ receive_queue = [m \in Boards |-> <<>>]

------------------------------------------------------------------------------
(* mcu.py *)

\* home_start: set up every board, start the dispatch, arm the endstop.  The
\* command "start" stands for trsync_start, stepper_stop_on_trigger and the
\* first trsync_set_timeout, sent in a row.
HomeStart ==
    LET start == now + Lead
    IN  /\ phase = "idle" /\ homings < MaxHomings /\ now <= StartBy
        /\ phase' = "homing" /\ homings' = homings + 1
        /\ print_time' = start
        /\ home_end_clock' = Never
        /\ completed' = FALSE
        /\ handler' = [m \in Boards |-> "watch"]
        /\ last_status_clock' = [m \in Boards |-> start]
        /\ expire_clock' = [m \in Boards |-> start + Expire]
        /\ is_active' = TRUE /\ td_can_trigger' = TRUE
        /\ to_mcu' = [m \in Boards |-> to_mcu[m] \o <<Command("start", start, FALSE)>>
              \o (IF m = 1 THEN <<Command("home", start, FALSE)>> ELSE <<>>)]
        /\ stopped_at' = [m \in Boards |-> Never]
        /\ UNCHANGED <<now, asked, last_params, acked, retries, res, result, ts,
                       task_clock, too_close, endstop, to_host, receive_queue,
                       lost, spoiled, late>>

\* wait_end: the end of the move is known, wait for the trigger.
WaitEnd ==
    /\ phase = "homing"
    /\ phase' = "waiting"
    /\ home_end_clock' = print_time + HomeLen
    /\ UNCHANGED <<now, homings, print_time, handler, completed, asked, last_params,
                   acked, retries, res, result, dispatch, board, endstop, wires, late>>

\* MCU_trsync.stop: from here on trsync_state is taken for the answer.
Ask(m, q) ==
    /\ asked' = m /\ last_params' = NoAnswer /\ acked' = FALSE
    /\ retries' = Retries
    /\ to_mcu' = [q EXCEPT ![m] = Append(@, Command("trigger", HOST_REQUEST, TRUE))]

\* home_wait after the completion: endstop off, trdispatch_stop, first stop().
Stop ==
    /\ phase = "waiting" /\ completed
    /\ phase' = "stop" /\ res' = <<>>
    /\ is_active' = FALSE
    /\ handler' = [handler EXCEPT ![1] = "query"]
    /\ Ask(1, [to_mcu EXCEPT ![1] = Append(@, Command("off", 0, FALSE))])
    /\ UNCHANGED <<now, homings, print_time, home_end_clock, completed, result,
                   td_can_trigger, last_status_clock, expire_clock, board, endstop,
                   to_host, receive_queue, lost, spoiled, late>>

\* Mutant: what board 1 says.
OutcomeFirst(reasons) == reasons[1]

\* TriggerDispatch.stop: a timeout of any board, otherwise what board 1 says.
Outcome(reasons) ==
    IF \E i \in DOMAIN reasons : reasons[i] = COMMS_TIMEOUT THEN COMMS_TIMEOUT
    ELSE reasons[1]

stopOnly == <<now, homings, print_time, home_end_clock, completed, dispatch, board,
              endstop, to_host, receive_queue, lost, late>>

\* SerialRetryCommand.get_response with an answer; stop() of the next board.
Answered ==
    /\ phase = "stop" /\ acked /\ last_params # NoAnswer
    /\ res' = Append(res, last_params)
    /\ IF asked < N
       THEN /\ Ask(asked + 1, to_mcu)
            /\ handler' = [handler EXCEPT ![asked] = "none", ![asked + 1] = "query"]
            /\ UNCHANGED <<phase, result>>
       ELSE /\ phase' = "idle" /\ result' = Outcome(res')
            /\ handler' = [handler EXCEPT ![asked] = "none"]
            /\ UNCHANGED <<asked, last_params, acked, retries, to_mcu>>
    /\ UNCHANGED <<spoiled, stopOnly>>

\* Mutant: the attempts are counted and not limited.
MayRetryForever == TRUE

MayRetry == retries > 0

\* ... without: ask again, or give up with an error.
NotAnswered ==
    /\ phase = "stop" /\ acked /\ last_params = NoAnswer
    /\ acked' = FALSE
    /\ IF MayRetry
       THEN /\ retries' = retries - 1
            /\ to_mcu' = [to_mcu EXCEPT ![asked] =
                            Append(@, Command("trigger", HOST_REQUEST, TRUE))]
            /\ UNCHANGED <<phase, handler, result, spoiled>>
       ELSE /\ phase' = "idle" /\ result' = Error /\ spoiled' = TRUE
            /\ handler' = [handler EXCEPT ![asked] = "none"]
            /\ UNCHANGED <<retries, to_mcu>>
    /\ UNCHANGED <<asked, last_params, res, stopOnly>>

\* _handle_trsync_state: the move is over and nothing was hit.
PastEnd(m, s) == s.can /\ m = 1 /\ home_end_clock # Never /\ s.clock >= home_end_clock

\* serialhdl._bg_thread: hands a message to its handler, _handle_trsync_state
\* or SerialRetryCommand.handle_callback, or reports that a command arrived.
PythonReceive(m) ==
    LET s       == Head(receive_queue[m])
        watched == s.kind = "state" /\ handler[m] = "watch"
        past    == watched /\ PastEnd(m, s)
    IN  /\ receive_queue[m] # <<>>
        /\ receive_queue' = [receive_queue EXCEPT ![m] = Tail(@)]
        /\ completed' = (completed \/ (watched /\ ~s.can))
        /\ home_end_clock' = IF past THEN Never ELSE home_end_clock
        /\ to_mcu' = IF past
                     THEN [to_mcu EXCEPT ![m] =
                             Append(@, Command("trigger", PAST_END_TIME, FALSE))]
                     ELSE to_mcu
        /\ last_params' = IF s.kind = "state" /\ handler[m] = "query" THEN s.reason
                          ELSE last_params
        /\ acked' = (acked \/ s.kind = "done")
        /\ UNCHANGED <<now, phase, homings, print_time, handler, asked, retries, res,
                       result, dispatch, board, endstop, to_host, lost, spoiled, late>>

------------------------------------------------------------------------------
(* trdispatch.c *)

\* Mutant: a board extends its own timeout.
OthersStatusOwn(clock, m) == clock[m]

\* The least clock acknowledged by the boards other than m: min_time, or
\* next_min_time when m itself is the minimum.  A board alone counts itself.
OthersStatus(clock, m) ==
    LET others == IF N = 1 THEN Boards ELSE Boards \ {m}
    IN  clock[CHOOSE n \in others : \A k \in others : clock[n] <= clock[k]]

\* The timeout of board m after a report: moved on only if that is worth a message.
Extended(clock, m) ==
    IF OthersStatus(clock, m) + Expire - expire_clock[m] >= MinExtend
    THEN OthersStatus(clock, m) + Expire ELSE expire_clock[m]

\* handle_trsync_state
Dispatch(m, s) ==
    IF ~s.can
    THEN /\ td_can_trigger' = FALSE
         /\ to_mcu' = [n \in Boards |->
                         Append(to_mcu[n], Command("trigger", HOST_REQUEST, FALSE))]
         /\ UNCHANGED <<last_status_clock, expire_clock>>
    ELSE LET clock == [last_status_clock EXCEPT ![m] = s.clock]
         IN  /\ last_status_clock' = clock
             /\ expire_clock' = [n \in Boards |-> Extended(clock, n)]
             /\ to_mcu' = [n \in Boards |->
                   IF Extended(clock, n) = expire_clock[n] THEN to_mcu[n]
                   ELSE Append(to_mcu[n],
                               Command("timeout", Extended(clock, n), FALSE))]
             /\ UNCHANGED td_can_trigger

\* serialqueue.c handle_message: the fastreader, then receive_queue.
HostReceive(m) ==
    /\ to_host[m] # <<>>
    /\ LET s == Head(to_host[m])
       IN  /\ to_host' = [to_host EXCEPT ![m] = Tail(@)]
           /\ receive_queue' = [receive_queue EXCEPT ![m] = Append(@, s)]
           /\ IF s.kind = "state" /\ is_active /\ td_can_trigger THEN Dispatch(m, s)
              ELSE UNCHANGED <<td_can_trigger, last_status_clock, expire_clock, to_mcu>>
    /\ UNCHANGED <<now, python, is_active, board, endstop, lost, spoiled, late>>

------------------------------------------------------------------------------
(* trsync.c *)

\* trsync_do_trigger, the stepper_stop it calls included.
DoTrigger(t, reason) ==
    IF ~t.can THEN t
    ELSE [t EXCEPT !.can = FALSE, !.reason = reason, !.report = TRUE]

\* Steppers stop when the trigger goes off.
NoteStop(m) ==
    stopped_at' = [stopped_at EXCEPT ![m] = IF ts[m].can /\ ~ts'[m].can THEN now ELSE @]

\* The boards report in turn: report_offset.
Offset(m) == (Report * (m - 1)) \div N

\* command_trsync_start (trsync_clear first), then the first timeout.
Started(m, clock) ==
    [can |-> TRUE, report |-> FALSE, reason |-> 0,
     report_time |-> clock + Offset(m), expire_time |-> clock + Expire]

\* Mutant: the timeout is set whether or not the trigger has gone off.
SetTimeoutAlways(t, clock) == [t EXCEPT !.expire_time = clock]

\* command_trsync_set_timeout
SetTimeout(t, clock) == IF t.can THEN [t EXCEPT !.expire_time = clock] ELSE t

\* Mutant: a report that is due is still sent.
TriggeredReports(t, reason) ==
    [DoTrigger(t, reason) EXCEPT !.expire_time = Never, !.report_time = Never]

\* command_trsync_trigger
Triggered(t, reason) ==
    [DoTrigger(t, reason) EXCEPT !.report = FALSE,
                                 !.expire_time = Never, !.report_time = Never]

\* The main loop runs a command, but not in the middle of trsync_task.
Run(m, c) ==
    \/ /\ c.op = "start"
       /\ ts' = [ts EXCEPT ![m] = Started(m, c.arg)]
       /\ stopped_at' = [stopped_at EXCEPT ![m] = Never]
       /\ UNCHANGED <<es, run_start, run_len, to_host>>
    \/ /\ c.op = "timeout"
       /\ ts' = [ts EXCEPT ![m] = SetTimeout(@, c.arg)]
       /\ UNCHANGED <<stopped_at, es, run_start, run_len, to_host>>
    \/ /\ c.op = "trigger"
       /\ ts' = [ts EXCEPT ![m] = Triggered(@, c.arg)]
       /\ NoteStop(m)
       /\ to_host' = [to_host EXCEPT ![m] = @ \o <<State(FALSE, ts'[m].reason, 0)>>
                         \o (IF c.ask THEN <<Done>> ELSE <<>>)]
       /\ UNCHANGED <<es, run_start, run_len>>
    \/ /\ c.op = "home"
       /\ es' = [time |-> c.arg, over |-> FALSE, count |-> SampleCount,
                 nextwake |-> es.nextwake]
       /\ run_start' = Never /\ run_len' = 0
       /\ UNCHANGED <<ts, stopped_at, to_host>>
    \/ /\ c.op = "off"
       /\ es' = [es EXCEPT !.time = Never]
       /\ UNCHANGED <<ts, stopped_at, run_start, run_len, to_host>>

McuCommand(m) ==
    /\ to_mcu[m] # <<>> /\ task_clock[m] = Never
    /\ to_mcu' = [to_mcu EXCEPT ![m] = Tail(@)]
    /\ Run(m, Head(to_mcu[m]))
    /\ too_close' = (too_close \/
          \E t \in {ts'[m].report_time, ts'[m].expire_time, es'.time} \
                   {ts[m].report_time, ts[m].expire_time, es.time, Never} : t < now)
    /\ UNCHANGED <<now, python, dispatch, task_clock, receive_queue, lost, spoiled, late>>

boardOnly == <<now, python, dispatch, too_close, endstop, to_mcu, receive_queue,
               lost, spoiled, late>>

\* trsync_expire_event
ExpireEvent(m) ==
    /\ ts[m].expire_time # Never /\ ts[m].expire_time <= now
    /\ ts' = [ts EXCEPT ![m] = [DoTrigger(@, COMMS_TIMEOUT) EXCEPT !.expire_time = Never]]
    /\ NoteStop(m)
    /\ UNCHANGED <<task_clock, to_host, boardOnly>>

\* Mutant: the reports end with the trigger.
ReportedOnce(t) ==
    [t EXCEPT !.report = TRUE, !.report_time = IF t.can THEN @ + Report ELSE Never]

Reported(t) == [t EXCEPT !.report = TRUE, !.report_time = @ + Report]

\* trsync_report_event: goes on after a trigger, until the host asks.
ReportEvent(m) ==
    /\ ts[m].report_time # Never /\ ts[m].report_time <= now
    /\ ts' = [ts EXCEPT ![m] = Reported(@)]
    /\ UNCHANGED <<task_clock, stopped_at, to_host, boardOnly>>

\* trsync_task reads the time first ...
TaskTime(m) ==
    /\ ts[m].report /\ task_clock[m] = Never
    /\ task_clock' = [task_clock EXCEPT ![m] = now]
    /\ UNCHANGED <<ts, stopped_at, to_host, boardOnly>>

\* ... and then, timers held off, the flags.
TaskReport(m) ==
    /\ task_clock[m] # Never
    /\ task_clock' = [task_clock EXCEPT ![m] = Never]
    /\ ts' = [ts EXCEPT ![m] = [@ EXCEPT !.report = FALSE]]
    /\ to_host' = [to_host EXCEPT ![m] =
                     Append(@, State(ts[m].can, ts[m].reason, task_clock[m]))]
    /\ UNCHANGED <<stopped_at, boardOnly>>

------------------------------------------------------------------------------
(* endstop.c, and the line *)

\* Mutant: the count goes on after a sample that does not match.
SampledOn(match) ==
    IF ~match
    THEN [es EXCEPT !.over = FALSE, !.time = IF es.over THEN es.nextwake ELSE @ + Rest]
    ELSE [time     |-> IF es.count = 1 THEN Never ELSE es.time + SampleTicks,
          over     |-> TRUE,
          count    |-> es.count - 1,
          nextwake |-> IF es.over THEN es.nextwake ELSE es.time + Rest]

\* endstop_event and endstop_oversample_event, with the pin as match.  The two
\* reads of a first sample, one right after the other, are one: the second
\* failing leaves all but nextwake as the first failing does.
Sampled(match) ==
    IF ~match
    THEN [es EXCEPT !.over = FALSE, !.count = SampleCount,
                    !.time = IF es.over THEN es.nextwake ELSE @ + Rest]
    ELSE [time     |-> IF es.count = 1 THEN Never ELSE es.time + SampleTicks,
          over     |-> TRUE,
          count    |-> es.count - 1,
          nextwake |-> IF es.over THEN es.nextwake ELSE es.time + Rest]

EndstopEvent ==
    /\ es.time # Never /\ es.time <= now
    /\ \E match \in BOOLEAN :
          /\ es' = Sampled(match)
          /\ run_start' = IF ~match THEN Never
                          ELSE IF run_start = Never THEN es.time ELSE run_start
          /\ run_len' = IF match THEN run_len + 1 ELSE 0
    /\ ts' = IF es'.time = Never THEN [ts EXCEPT ![1] = DoTrigger(@, ENDSTOP_HIT)] ELSE ts
    /\ NoteStop(1)
    /\ UNCHANGED <<now, python, dispatch, task_clock, too_close, wires, late>>

LoseState(m) ==
    /\ lost < MaxLost /\ to_host[m] # <<>> /\ Head(to_host[m]).kind = "state"
    /\ lost' = lost + 1 /\ spoiled' = (spoiled \/ phase = "stop")
    /\ to_host' = [to_host EXCEPT ![m] = Tail(@)]
    /\ UNCHANGED <<now, python, dispatch, board, endstop, to_mcu, receive_queue, late>>

------------------------------------------------------------------------------
(* Time *)

Due(t) == t # Never /\ t <= now

TimerDue ==
    \/ \E m \in Boards : Due(ts[m].expire_time) \/ Due(ts[m].report_time)
    \/ Due(es.time)

\* Something waits for the host, for the line or for a main loop.
Waiting ==
    \/ \E m \in Boards : \/ to_mcu[m] # <<>> \/ to_host[m] # <<>>
                         \/ receive_queue[m] # <<>>
                         \/ ts[m].report
    \/ phase = "homing" \/ (phase = "waiting" /\ completed) \/ (phase = "stop" /\ acked)

\* A homing is set up before its motion starts; everything else can take its time.
Tick ==
    /\ now < MaxTime
    /\ \A m \in Boards : \A i \in DOMAIN to_mcu[m] :
          to_mcu[m][i].op \in {"start", "home"} => now < to_mcu[m][i].arg
    /\ IF Waiting THEN late < MaxLate /\ late' = late + 1 ELSE UNCHANGED late
    /\ now' = now + 1
    /\ UNCHANGED <<python, dispatch, board, endstop, wires>>

------------------------------------------------------------------------------
Python == WaitEnd \/ Stop \/ Answered \/ NotAnswered
Timers == EndstopEvent \/ \E m \in Boards : ExpireEvent(m) \/ ReportEvent(m)
Messages(m) == PythonReceive(m) \/ HostReceive(m) \/ McuCommand(m)
Task(m) == TaskTime(m) \/ TaskReport(m)

\* Timers interrupt everything else.
Next ==
    \/ Timers
    \/ ~TimerDue /\ \/ HomeStart \/ Python \/ Tick
                    \/ \E m \in Boards : Messages(m) \/ Task(m) \/ LoseState(m)

Spec == Init /\ [][Next]_vars

\* Every thread, main loop and timer keeps running, and time goes on.
FairSpec ==
    /\ Spec
    /\ WF_vars(Timers) /\ WF_vars(Python) /\ WF_vars(Tick)
    /\ \A m \in Boards :
          /\ WF_vars(PythonReceive(m)) /\ WF_vars(HostReceive(m))
          /\ WF_vars(McuCommand(m)) /\ WF_vars(Task(m))

------------------------------------------------------------------------------
(* Properties *)

Clock  == Nat \cup {Never}
Reason == 0..COMMS_TIMEOUT

PythonType ==
    /\ phase \in {"idle", "homing", "waiting", "stop"}
    /\ homings \in Nat /\ print_time \in Nat /\ home_end_clock \in Clock
    /\ handler \in [Boards -> {"none", "watch", "query"}]
    /\ completed \in BOOLEAN /\ acked \in BOOLEAN
    /\ asked \in Boards /\ last_params \in Reason \cup {NoAnswer}
    /\ retries \in 0..Retries
    /\ res \in Seq(Reason) /\ result \in Reason \cup {Error}

DispatchType ==
    /\ is_active \in BOOLEAN /\ td_can_trigger \in BOOLEAN
    /\ last_status_clock \in [Boards -> Nat] /\ expire_clock \in [Boards -> Nat]

Trsync == [can : BOOLEAN, report : BOOLEAN, reason : Reason,
           report_time : Clock, expire_time : Clock]

BoardType ==
    /\ ts \in [Boards -> Trsync]
    /\ task_clock \in [Boards -> Clock] /\ stopped_at \in [Boards -> Clock]
    /\ too_close \in BOOLEAN
    /\ es \in [time : Clock, over : BOOLEAN, count : 0..SampleCount, nextwake : Nat]
    /\ run_start \in Clock /\ run_len \in Nat

CommandSet ==
    {c \in [op : {"start", "timeout", "trigger", "home", "off"}, arg : Nat, ask : BOOLEAN] :
        c.op = "trigger" => c.arg \in Reason}
MessageSet == [kind : {"state", "done"}, can : BOOLEAN, reason : Reason, clock : Nat]

WireType ==
    /\ to_mcu \in [Boards -> Seq(CommandSet)]
    /\ to_host \in [Boards -> Seq(MessageSet)]
    /\ receive_queue \in [Boards -> Seq(MessageSet)]
    /\ lost \in Nat /\ spoiled \in BOOLEAN

\* Every variable holds a value of its kind; in particular the attempts of
\* SerialRetryCommand and the count of endstop_oversample_event stay in range.
TypeOK == now \in Nat /\ late \in Nat /\ PythonType /\ DispatchType /\ BoardType /\ WireType

MaxOf(a, b) == IF a < b THEN b ELSE a

\* A board goes on for at most Expire after another one has stopped, however
\* late and however few messages get through: handle_trsync_state extends the
\* timeout of a board only from what the others report.
StopsTogether ==
    \A m, n \in Boards : m # n /\ ts[m].can /\ stopped_at[n] # Never =>
        now <= MaxOf(stopped_at[n], print_time) + Expire

\* A timeout that comes late never shuts the board down with "Timer too close"
\* (command_trsync_set_timeout with the check in sched_add_timer).
NeverTooClose == ~too_close

\* When home_wait returns, the boards are silent and nothing is on its way: the
\* next homing cannot be ended by a message of this one.
NothingStale ==
    phase = "idle" /\ result # Error =>
        \A m \in Boards : /\ to_mcu[m] = <<>> /\ to_host[m] = <<>>
                          /\ receive_queue[m] = <<>>
                          /\ task_clock[m] = Never
                          /\ ts[m].report_time = Never /\ ts[m].expire_time = Never

\* home_wait is told of a timeout of any board, and otherwise why the board of
\* the endstop stopped, whatever reports were still under way when stop() began
\* to take trsync_state for its answer.
ResultExact ==
    phase = "idle" /\ homings > 0 /\ ~spoiled =>
        IF \E m \in Boards : ts[m].reason = COMMS_TIMEOUT THEN result = COMMS_TIMEOUT
        ELSE result = ts[1].reason

\* A hit is SampleCount samples in a row, and nextwake, from which home_wait
\* takes the time of the hit, belongs to the first of them.
HitIsReal ==
    ts[1].reason = ENDSTOP_HIT => run_len >= SampleCount /\ es.nextwake = run_start + Rest

\* A homing that has begun ends, with the endstop hit or not and with messages
\* lost: reports go on until the host has asked.
HomingEnds == phase # "idle" ~> phase = "idle"
==============================================================================
