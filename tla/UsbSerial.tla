------------------------------ MODULE UsbSerial ------------------------------
(***************************************************************************)
(* UsbSerialManager: USB printers are opened, each gets a pseudo terminal   *)
(* with a name under serial/ and a thread that copies what the printer      *)
(* says.  connect() and close() fill and empty three maps, one after the    *)
(* other and without a lock, on the main thread, in the coroutine that      *)
(* initialises, on the web server's thread and on the read threads.         *)
(***************************************************************************)
EXTENDS Integers, Sequences, FiniteSets

CONSTANTS
    Devs,       \* devices (by their path)
    Models,     \* vendor and product
    ModelOf,    \* the model of each device
    NoDev,
    MaxConns,   \* bound: ports opened
    MaxPlugs,   \* bound: devices plugged in or out
    MaxIntents, \* bound: intents that reach MainActivity
    MaxResets,  \* bound: requests to /beam/arduino_reset
    MaxNamings  \* bound: changes of the naming preference

ASSUME UsbAssumption ==
    /\ ModelOf \in [Devs -> Models] /\ IsFiniteSet(Devs)
    /\ Devs \cap Models = {} /\ NoDev \notin Devs \cup Models
    /\ \A n \in {MaxConns, MaxPlugs, MaxIntents, MaxResets, MaxNamings} : n \in Nat

Conns == 1 .. MaxConns      \* a UsbSerialPort, its NativeSerialPort and ReadThread
None  == 0
Old   == -1                 \* a file that a former run of the program has left
Uids  == Devs \cup Models
MAIN  == 0                  \* actors; a read thread has its connection's number
IO    == -1
WEB   == -2
Actors == {MAIN, IO, WEB} \cup Conns
Kinds  == {"native", "port", "thread"}
Outside == {"idle", "drivers", "next", "open", "crash", "reset"}
Phases == Outside \cup {"create", "putNative", "putPort", "putThread", "rmNative", "rmPort",
                        "rmThread", "release", "shut", "interrupt", "naming"}

VARIABLES
    attached, perm, asked,  \* Android's: plugged in, permitted, dialog shown
    registered,     \* init() has registered the receiver
    naming,         \* the preference: "path" or "model"
    map,            \* nativePortMap, portMap and readThreadMap
    link,           \* serial/<uid>: the connection whose terminal it leads to
    conn, last,     \* the connections made, and their number
    job,            \* what each actor is doing
    queue, delayed, \* messages of the main Looper; the resets to come
    crashed,        \* an exception that nobody catches has ended the process
    budget,         \* what the world has done
    calm            \* history: see Orderly

android  == <<attached, perm, asked>>
settings == <<registered, naming>>
looper   == <<queue, delayed>>
vars == <<android, settings, map, link, conn, last, job, looper, crashed, budget, calm>>

NoConn == [dev |-> NoDev, uid |-> NoDev, port |-> "none", native |-> "none",
           reader |-> "none", interrupted |-> FALSE]
NoJob  == [at |-> "idle", dev |-> NoDev, uid |-> NoDev, conn |-> None, rest |-> {},
           then |-> "next", taken |-> [k \in Kinds |-> None]]

getUID(d)  == IF naming = "model" THEN ModelOf[d] ELSE d
Keys(k)    == {u \in Uids : map[k][u] # None}
Running(c) == conn[c].reader \notin {"none", "posted", "ended"}
\* The open ports of a device become unreadable.
Lose(d) == [c \in Conns |-> IF conn[c].dev = d /\ conn[c].port = "open"
                            THEN [conn[c] EXCEPT !.port = "lost"] ELSE conn[c]]

(***************************************************************************)
(* calm stays TRUE while the code meets only orderly states.  The others:   *)
(* two actors are inside connect() or close(); a connect() is going to      *)
(* replace an entry; a read thread closes its successor; a thread is        *)
(* interrupted that has not been started.                                   *)
(***************************************************************************)
Inside(a) == job[a].at \notin Outside
Orderly ==
    /\ \A a, b \in Actors : Inside(a) /\ Inside(b) => a = b
    /\ \A a \in Actors : job[a].at = "putNative" => map["native"][job[a].uid] = None
    /\ \A c \in Conns : Inside(c) => \A k \in Kinds : map[k][conn[c].uid] \in {None, c}
    /\ \A a \in Actors : LET t == job[a].taken["thread"] IN
           job[a].at = "interrupt" /\ t # None => conn[t].reader # "posted"

\* "next" is the end of a call: the next driver of connectAll(), if there is one.
Goto(a, at) == job' = [job EXCEPT ![a] =
    IF at = "next" /\ @.rest = {} THEN NoJob ELSE [@ EXCEPT !.at = at]]

-----------------------------------------------------------------------------
(* Android: devices come and go, the user answers the permission dialog.    *)

Tell(msgs) == queue' = IF registered THEN queue \o msgs ELSE queue
Spend(what, max) == budget[what] < max /\ budget' = [budget EXCEPT ![what] = @ + 1]

\* The system may grant permission with the intent it sends to the activity.
Attach(d) ==
    /\ d \notin attached /\ Spend("plugs", MaxPlugs)
    /\ attached' = attached \cup {d}
    /\ perm' \in {perm, perm \cup {d}}
    /\ Tell(<<<<"attached", d>>>>)
    /\ UNCHANGED <<asked, settings, map, link, conn, last, job, delayed, crashed>>

Detach(d) ==
    /\ d \in attached /\ Spend("plugs", MaxPlugs)
    /\ attached' = attached \ {d} /\ perm' = perm \ {d} /\ asked' = asked \ {d}
    /\ conn' = Lose(d)
    /\ Tell(<<<<"detached", d>>>>)
    /\ UNCHANGED <<settings, map, link, last, job, delayed, crashed>>

Answer(d) ==
    /\ d \in asked /\ asked' = asked \ {d}
    /\ \/ perm' = perm \cup {d} /\ Tell(<<<<"connected", d>>>>)
       \/ UNCHANGED <<perm, queue>>
    /\ UNCHANGED <<attached, settings, map, link, conn, last, job, delayed, crashed, budget>>

\* MainActivity announces every device again, or asks for it.
processIntent ==
    /\ job[MAIN].at = "idle" /\ attached # {} /\ Spend("intents", MaxIntents)
    /\ asked' = asked \cup (attached \ perm)
    /\ \E order \in [1 .. Cardinality(attached \cap perm) -> attached \cap perm] :
        /\ \A i, j \in DOMAIN order : order[i] = order[j] => i = j
        /\ Tell([i \in DOMAIN order |-> <<"connected", order[i]>>])
    /\ UNCHANGED <<attached, perm, settings, map, link, conn, last, job, delayed, crashed>>

-----------------------------------------------------------------------------
(* connect() and close(), one shared access a step, for every actor.        *)

\* connectAll(): the devices at this moment, then one after the other.
Drivers(a) ==
    /\ job[a].at = "drivers"
    /\ job' = [job EXCEPT ![a] =
          IF attached = {} THEN NoJob ELSE [NoJob EXCEPT !.at = "next", !.rest = attached]]
    /\ UNCHANGED <<android, settings, map, link, conn, last, looper, crashed, budget>>

NextDriver(a) ==
    /\ job[a].at = "next"
    /\ \E d \in job[a].rest :
        job' = [job EXCEPT ![a].at = "open", ![a].dev = d, ![a].rest = @ \ {d}]
    /\ UNCHANGED <<android, settings, map, link, conn, last, looper, crashed, budget>>

\* Without permission the user is asked, unless init() has not run yet.
Ask(a) ==
    /\ job[a].at = "open" /\ ~(registered /\ job[a].dev \in perm)
    /\ asked' = IF registered THEN asked \cup ({job[a].dev} \cap attached) ELSE asked
    /\ Goto(a, "next")
    /\ UNCHANGED <<attached, perm, settings, map, link, conn, last, looper, crashed, budget>>

\* open() throws, or opens the device, taking it over from an earlier port; the
\* calls after open() may throw and leave it open.
Open(a) ==
    /\ job[a].at = "open" /\ registered /\ job[a].dev \in perm
    /\ \/ Goto(a, "next") /\ UNCHANGED <<conn, last>>
       \/ /\ last < MaxConns /\ last' = last + 1
          /\ conn' = [Lose(job[a].dev) EXCEPT ![last'].dev = job[a].dev, ![last'].port = "open"]
          /\ \/ Goto(a, "next")
             \/ job' = [job EXCEPT ![a].at = "create", ![a].conn = last']
    /\ UNCHANGED <<android, settings, map, link, looper, crashed, budget>>

\* NativeSerialPort(uid) replaces the file; the thread's start is posted.
Create(a) ==
    LET c == job[a].conn
        u == getUID(job[a].dev)
    IN
    /\ job[a].at = "create"
    /\ conn' = [conn EXCEPT ![c].uid = u, ![c].native = "live", ![c].reader = "posted"]
    /\ link' = [link EXCEPT ![u] = c]
    /\ queue' = Append(queue, <<"start", c>>)
    /\ job' = [job EXCEPT ![a].at = "putNative", ![a].uid = u]
    /\ UNCHANGED <<android, settings, map, last, delayed, crashed, budget>>

Put(a, kind, from, to) ==
    /\ job[a].at = from
    /\ map' = [map EXCEPT ![kind][job[a].uid] = job[a].conn]
    /\ Goto(a, to)
    /\ UNCHANGED <<android, settings, link, conn, last, looper, crashed, budget>>

PutNative(a) == Put(a, "native", "putNative", "putPort")
PutPort(a)   == Put(a, "port", "putPort", "putThread")
\* Mutant: the thread's entry goes to the wrong map.
PutThreadAsPort(a) == Put(a, "port", "putThread", "next")
PutThread(a) == Put(a, "thread", "putThread", "next")

Close(u, then) == [NoJob EXCEPT !.at = "rmNative", !.uid = u, !.then = then]

\* Mutant: the thread stays in its map.
WithoutEntryOfThread(k, u) == IF k = "thread" THEN map ELSE [map EXCEPT ![k][u] = None]
WithoutEntry(k, u) == [map EXCEPT ![k][u] = None]

Remove(a, kind, from, to) ==
    /\ job[a].at = from
    /\ map' = WithoutEntry(kind, job[a].uid)
    /\ job' = [job EXCEPT ![a].at = to, ![a].taken[kind] = map[kind][job[a].uid]]
    /\ UNCHANGED <<android, settings, link, conn, last, looper, crashed, budget>>

RemoveNative(a) == Remove(a, "native", "rmNative", "rmPort")
RemovePort(a)   == Remove(a, "port", "rmPort", "rmThread")
RemoveThread(a) == Remove(a, "thread", "rmThread", "release")

\* The rest of close() acts on what was taken, if anything was.
OnTaken(a, from, to) ==
    /\ job[a].at = from /\ Goto(a, to)
    /\ UNCHANGED <<android, settings, map, last, looper, crashed, budget>>

\* Mutant: the terminal stays open.
ReleasedNever(c) == conn
Released(c) == IF c = None THEN conn ELSE [conn EXCEPT ![c].native = "released"]
\* release() deletes the file by its name.
WithoutLink(c) == IF c = None THEN link ELSE [link EXCEPT ![conn[c].uid] = None]
Closed(c) == IF c = None THEN conn ELSE [conn EXCEPT ![c].port = "closed"]
\* Mutant: nobody is interrupted.
InterruptedNever(c) == conn
\* Interrupting a thread that is not alive need not have any effect.
Interrupted(c) ==
    IF c = None \/ ~Running(c) THEN conn ELSE [conn EXCEPT ![c].interrupted = TRUE]

Release(a) ==
    /\ OnTaken(a, "release", "shut")
    /\ conn' = Released(job[a].taken["native"]) /\ link' = WithoutLink(job[a].taken["native"])
Shut(a) ==
    /\ OnTaken(a, "shut", "interrupt")
    /\ conn' = Closed(job[a].taken["port"]) /\ UNCHANGED link
Interrupt(a) ==
    /\ OnTaken(a, "interrupt", job[a].then)
    /\ conn' = Interrupted(job[a].taken["thread"]) /\ UNCHANGED link

-----------------------------------------------------------------------------
(* The coroutine, the main thread and the web server's thread.              *)

\* Mutant: the files of the former run stay.
FilesAfterInitOld == link
FilesAfterInit == [u \in Uids |-> None]

init ==
    /\ ~registered /\ job[IO].at = "idle"
    /\ registered' = TRUE /\ link' = FilesAfterInit
    /\ Goto(IO, "drivers")
    /\ UNCHANGED <<android, naming, map, conn, last, looper, crashed, budget>>

\* Mutant: a device that is unplugged is not closed.
OnReceiveDeaf(msg) ==
    IF msg[1] = "detached" \/ msg[2] \notin perm THEN NoJob
    ELSE [NoJob EXCEPT !.at = "open", !.dev = msg[2]]
\* onReceive: a message about a device turns into a connect() or a close().
onReceive(msg) ==
    IF msg[1] = "detached" THEN Close(getUID(msg[2]), "next")
    ELSE IF msg[2] \in perm THEN [NoJob EXCEPT !.at = "open", !.dev = msg[2]]
    ELSE NoJob

Deliver ==
    /\ job[MAIN].at = "idle" /\ queue # <<>>
    /\ queue' = Tail(queue)
    /\ LET msg == Head(queue) IN
       IF msg[1] = "start"
       THEN conn' = [conn EXCEPT ![msg[2]].reader = "test"] /\ UNCHANGED job
       ELSE job' = [job EXCEPT ![MAIN] = onReceive(msg)] /\ UNCHANGED conn
    /\ UNCHANGED <<android, settings, map, link, last, delayed, crashed, budget>>

\* The setter begins with disconnectAll(), which removes keys from the map that
\* its loop goes through: with a second key the loop throws.
usbDeviceNaming ==
    /\ job[MAIN].at = "idle" /\ Spend("namings", MaxNamings)
    /\ \/ Keys("port") = {} /\ Goto(MAIN, "naming")
       \/ \E u \in Keys("port") : job' = [job EXCEPT ![MAIN] =
              Close(u, IF Cardinality(Keys("port")) = 1 THEN "naming" ELSE "crash")]
    /\ UNCHANGED <<android, settings, map, link, conn, last, looper, crashed>>

\* Mutant: the setter stores a value that getUID does not know.
OtherNamingUnknown == "name"
OtherNaming == IF naming = "path" THEN "model" ELSE "path"

PutNaming ==
    /\ job[MAIN].at = "naming" /\ Goto(MAIN, "drivers")
    /\ naming' = OtherNaming
    /\ UNCHANGED <<android, registered, map, link, conn, last, looper, crashed, budget>>

ConcurrentModification ==
    /\ job[MAIN].at = "crash" /\ crashed' = TRUE
    /\ UNCHANGED <<android, settings, map, link, conn, last, job, looper, budget>>

\* /beam/arduino_reset: close now, connect on the main thread 100 ms later.
arduinoReset(u) ==
    /\ job[WEB].at = "idle" /\ map["port"][u] # None /\ Spend("resets", MaxResets)
    /\ job' = [job EXCEPT ![WEB] = [Close(u, "reset") EXCEPT !.dev = conn[map["port"][u]].dev]]
    /\ UNCHANGED <<android, settings, map, link, conn, last, looper, crashed>>

PostReset ==
    /\ job[WEB].at = "reset"
    /\ delayed' = delayed \cup {job[WEB].dev}
    /\ Goto(WEB, "next")
    /\ UNCHANGED <<android, settings, map, link, conn, last, queue, crashed, budget>>

ResetDue ==
    /\ job[MAIN].at = "idle"
    /\ \E d \in delayed :
        /\ delayed' = delayed \ {d}
        /\ job' = [job EXCEPT ![MAIN].at = "open", ![MAIN].dev = d]
    /\ UNCHANGED <<android, settings, map, link, conn, last, queue, crashed, budget>>

-----------------------------------------------------------------------------
(* ReadThread.run().                                                        *)

Reads(c, from, to) ==
    /\ conn[c].reader = from /\ conn' = [conn EXCEPT ![c].reader = to]
    /\ UNCHANGED <<android, settings, map, link, last, looper, budget>>

\* Mutant: the loop does not look whether it is interrupted.
LoopExitNever(c) == "reading"
LoopExit(c) == IF conn[c].interrupted THEN "ended" ELSE "reading"

LoopTest(c)  == Reads(c, "test", LoopExit(c)) /\ UNCHANGED <<job, crashed>>
ReadData(c)  == conn[c].port = "open" /\ Reads(c, "reading", "got") /\ UNCHANGED <<job, crashed>>
ReadFails(c) == Reads(c, "reading", "failed") /\ UNCHANGED <<job, crashed>>

\* The native port may have been released: then anything may happen.
WriteNative(c) ==
    /\ Reads(c, "got", "test") /\ UNCHANGED job
    /\ UNCHANGED crashed \/ (conn[c].native = "released" /\ crashed' = TRUE)

\* The exception handler calls close(uid).
HandleIOException(c) ==
    /\ Reads(c, "failed", "closing") /\ UNCHANGED crashed
    /\ job' = [job EXCEPT ![c] = Close(conn[c].uid, "next")]
Return(c) == job[c].at = "idle" /\ Reads(c, "closing", "test") /\ UNCHANGED <<job, crashed>>

-----------------------------------------------------------------------------
Init ==
    /\ attached \in SUBSET Devs /\ perm \in SUBSET attached /\ asked = {}
    /\ registered = FALSE /\ naming \in {"path", "model"}
    /\ map = [k \in Kinds |-> [u \in Uids |-> None]]
    /\ link = [u \in Uids |-> Old]
    /\ conn = [c \in Conns |-> NoConn] /\ last = 0
    /\ job = [a \in Actors |-> NoJob]
    /\ queue = <<>> /\ delayed = {} /\ crashed = FALSE
    /\ budget = [plugs |-> 0, intents |-> 0, resets |-> 0, namings |-> 0]
    /\ calm = TRUE

JobStep(a) ==
    \/ Drivers(a) \/ NextDriver(a) \/ Ask(a) \/ Open(a) \/ Create(a)
    \/ PutNative(a) \/ PutPort(a) \/ PutThread(a)
    \/ RemoveNative(a) \/ RemovePort(a) \/ RemoveThread(a)
    \/ Release(a) \/ Shut(a) \/ Interrupt(a)

MainStep == JobStep(MAIN) \/ PutNaming \/ ConcurrentModification \/ Deliver \/ ResetDue
ReaderStep(c) == \/ LoopTest(c) \/ WriteNative(c) \/ HandleIOException(c)
                 \/ JobStep(c) \/ Return(c)
                 \/ conn[c].port # "open" /\ ReadFails(c)
World == \/ \E d \in Devs : Attach(d) \/ Detach(d) \/ Answer(d)
         \/ processIntent \/ usbDeviceNaming
         \/ \E u \in Uids : arduinoReset(u)
         \/ \E c \in Conns : ReadData(c) \/ (conn[c].port = "open" /\ ReadFails(c))

Live      == ~crashed /\ calm' = (calm /\ Orderly')
Main      == MainStep /\ Live
Io        == (JobStep(IO) \/ init) /\ Live
Web       == (JobStep(WEB) \/ PostReset) /\ Live
Reader(c) == ReaderStep(c) /\ Live

Next == Main \/ Io \/ Web \/ (\E c \in Conns : Reader(c)) \/ (World /\ Live)

\* Threads go on; the world owes nothing.
Fairness == /\ WF_vars(Main) /\ WF_vars(Io) /\ WF_vars(Web)
            /\ \A c \in Conns : WF_vars(Reader(c))

Spec == Init /\ [][Next]_vars /\ Fairness

-----------------------------------------------------------------------------
\* Every variable keeps its type, and only devices that are there have permission.
TypeOK ==
    /\ attached \subseteq Devs /\ perm \subseteq attached /\ asked \subseteq attached
    /\ registered \in BOOLEAN /\ naming \in {"path", "model"}
    /\ map \in [Kinds -> [Uids -> Conns \cup {None}]]
    /\ link \in [Uids -> Conns \cup {None, Old}]
    /\ conn \in [Conns -> [dev : Devs \cup {NoDev}, uid : Uids \cup {NoDev},
                           port : {"none", "open", "lost", "closed"},
                           native : {"none", "live", "released"},
                           reader : {"none", "posted", "test", "reading", "got", "failed",
                                     "closing", "ended"},
                           interrupted : BOOLEAN]]
    /\ last \in 0 .. MaxConns
    /\ job \in [Actors -> [at : Phases, dev : Devs \cup {NoDev}, uid : Uids \cup {NoDev},
                           conn : Conns \cup {None}, rest : SUBSET Devs,
                           then : {"next", "naming", "crash", "reset"},
                           taken : [Kinds -> Conns \cup {None}]]]
    /\ delayed \subseteq Devs /\ crashed \in BOOLEAN /\ calm \in BOOLEAN

\* Nobody is inside connect() or close().
AtRest == registered /\ ~crashed /\ \A a \in Actors : ~Inside(a)

\* Between two calls the three maps name the same connections, each under its uid.
MapsAgree ==
    calm /\ AtRest => \A u \in Uids :
        /\ map["native"][u] = map["port"][u] /\ map["port"][u] = map["thread"][u]
        /\ map["port"][u] # None => conn[map["port"][u]].uid = u

\* Nothing is lost from sight: a live terminal and a thread that will go on are
\* in the maps, and what is in the maps is live.
NothingLeaked ==
    calm /\ AtRest => \A c \in Conns :
        LET mapped(k) == \E u \in Uids : map[k][u] = c IN
        /\ conn[c].native = "live" <=> mapped("native")
        /\ conn[c].reader \notin {"none", "ended"} /\ ~conn[c].interrupted => mapped("thread")

\* The files under serial/ are the terminals of the connections.
FilesAreTerminals == calm /\ AtRest => link = map["native"]

\* Once every message is delivered, no connection to a device that is gone is left.
DetachedIsForgotten ==
    calm /\ AtRest /\ queue = <<>> => \A u \in Uids :
        map["port"][u] # None => conn[map["port"][u]].dev \in attached

Stranded(c) == Running(c) /\ conn[c].port \in {"lost", "closed"}

\* A read thread whose port is closed or whose device is gone ends.
ReadersEnd == \A c \in Conns :
    Stranded(c) ~> conn[c].reader = "ended" \/ ~calm \/ crashed

\* "automatic cleanup of background threads, no more leaks": between two calls,
\* every read thread that will go on is one that a close() can still interrupt.
NoLeakedThreads ==
    AtRest => \A c \in Conns :
        Running(c) /\ ~conn[c].interrupted => \E u \in Uids : map["thread"][u] = c
=============================================================================
