--------------------------- MODULE UsbSerial_proofs ---------------------------
(***************************************************************************)
(* Proofs about UsbSerial, for any number of devices, models, connections  *)
(* and events: the types, and, as long as the calls come one at a time,    *)
(* that the maps agree, that nothing is lost from sight, that the files    *)
(* are the terminals and that a device that is gone is forgotten.          *)
(***************************************************************************)
EXTENDS UsbSerial, FiniteSetTheorems, SequenceTheorems, TLAPS

USE DEF None, Old, MAIN, IO, WEB

ConnSet == [dev : Devs \cup {NoDev}, uid : Uids \cup {NoDev},
            port : {"none", "open", "lost", "closed"},
            native : {"none", "live", "released"},
            reader : {"none", "posted", "test", "reading", "got", "failed",
                      "closing", "ended"},
            interrupted : BOOLEAN]
JobSet == [at : Phases, dev : Devs \cup {NoDev}, uid : Uids \cup {NoDev},
           conn : Conns \cup {None}, rest : SUBSET Devs,
           then : {"next", "naming", "crash", "reset"},
           taken : [Kinds -> Conns \cup {None}]]
MsgSet == ({"attached", "detached", "connected"} \X Devs) \cup ({"start"} \X Conns)

Putting == {"putNative", "putPort", "putThread"}
Closing == {"rmNative", "rmPort", "rmThread", "release", "shut", "interrupt"}

\* connect() has come as far as the terminal and the thread of connection c.
Made(c)  == /\ conn[c].uid \in Uids /\ conn[c].dev \in Devs
            /\ conn[c].native # "none" /\ conn[c].reader # "none"
Blank(c) == conn[c].uid = NoDev /\ conn[c].native = "none" /\ conn[c].reader = "none"

\* What an actor works on is there.
JobOK(a) ==
    /\ job[a].at = "open" => job[a].dev \in Devs
    /\ job[a].at = "reset" => job[a].dev \in Devs
    /\ job[a].at = "create" =>
          /\ job[a].dev \in Devs /\ job[a].conn \in Conns /\ job[a].conn <= last
          /\ Blank(job[a].conn) /\ conn[job[a].conn].dev = job[a].dev
    /\ job[a].at \in Putting =>
          job[a].uid \in Uids /\ job[a].conn \in Conns /\ Made(job[a].conn)
    /\ job[a].at \in Closing =>
          /\ job[a].uid \in Uids /\ (job[a].then = "reset" => job[a].dev \in Devs)
          /\ \A k \in Kinds : job[a].taken[k] # None => Made(job[a].taken[k])

ConnInv == \A c \in Conns : /\ last < c => conn[c] = NoConn
                            /\ Made(c) \/ Blank(c)
                            /\ conn[c].reader = "ended" => conn[c].interrupted
MapInv == \A k \in Kinds, u \in Uids : map[k][u] # None => Made(map[k][u])
JobInv == /\ \A a \in Actors : JobOK(a)
          /\ \A a, b \in Actors : job[a].at = "create" /\ job[b].at = "create" /\ a # b =>
                job[a].conn # job[b].conn
QueueInv == /\ queue \in Seq(MsgSet)
            /\ \A i \in 1..Len(queue) : queue[i][1] = "start" => Made(queue[i][2])
\* Before init() nothing can be opened and nobody is told of anything.
EarlyInv == ~registered =>
    /\ last = 0 /\ queue = <<>> /\ \A k \in Kinds, u \in Uids : map[k][u] = None
    /\ \A a \in Actors : job[a].at \notin Closing \cup Putting \cup {"create"}

TypeInv == TypeOK /\ ConnInv /\ MapInv /\ JobInv /\ QueueInv /\ EarlyInv

------------------------------------------------------------------------------
(* The types of what the code makes. *)

LEMMA Constants ==
    /\ Conns \subseteq Nat \ {0} /\ None \notin Conns
    /\ Conns \subseteq Actors /\ MAIN \in Actors /\ IO \in Actors /\ WEB \in Actors
    /\ \A c \in Conns : c # MAIN /\ c # IO /\ c # WEB
    /\ MAIN # IO /\ MAIN # WEB /\ IO # WEB
    /\ NoDev \notin Uids /\ NoDev \notin Devs /\ Devs \subseteq Uids
    /\ MaxConns \in Nat
    /\ \A d \in Devs : ModelOf[d] \in Uids
  BY UsbAssumption DEF Conns, Actors, Uids

LEMMA NoJobShape ==
    /\ NoJob \in JobSet /\ NoJob.at = "idle" /\ NoJob.rest = {}
    /\ NoJob.conn = None /\ NoJob.then = "next" /\ NoJob.uid = NoDev /\ NoJob.dev = NoDev
    /\ \A k \in Kinds : NoJob.taken[k] = None
  BY DEF NoJob, JobSet, Phases, Outside

LEMMA NoConnShape ==
    /\ NoConn \in ConnSet /\ NoConn.dev = NoDev /\ NoConn.uid = NoDev
    /\ NoConn.port = "none" /\ NoConn.native = "none" /\ NoConn.reader = "none"
    /\ ~NoConn.interrupted
  BY DEF NoConn, ConnSet

LEMMA CloseShape ==
    ASSUME NEW u \in Uids, NEW then \in {"next", "naming", "crash", "reset"}
    PROVE  /\ Close(u, then) \in JobSet /\ Close(u, then).at = "rmNative"
           /\ Close(u, then).uid = u /\ Close(u, then).then = then
           /\ \A k \in Kinds : Close(u, then).taken[k] = None
<1>1. /\ Close(u, then).at = "rmNative" /\ Close(u, then).uid = u /\ Close(u, then).then = then
      /\ Close(u, then).taken = NoJob.taken
  BY DEF Close, NoJob
<1>2. Close(u, then) \in JobSet
  BY DEF Close, NoJob, JobSet, Phases
<1> QED BY <1>1, <1>2, NoJobShape

LEMMA Types ==
    ASSUME TypeOK
    PROVE  /\ conn \in [Conns -> ConnSet] /\ job \in [Actors -> JobSet]
           /\ map \in [Kinds -> [Uids -> Conns \cup {None}]]
           /\ link \in [Uids -> Conns \cup {None, Old}]
           /\ \A a \in Actors : job[a] \in JobSet
           /\ \A c \in Conns : conn[c] \in ConnSet
  BY DEF TypeOK, ConnSet, JobSet

\* The uid of a device, under either naming.
LEMMA UidType ==
    ASSUME NEW d \in Devs PROVE getUID(d) \in Uids
  BY Constants DEF getUID

\* One actor goes on to its next step, the others stay where they are.
LEMMA GotoShape ==
    ASSUME job \in [Actors -> JobSet], NEW a \in Actors, NEW at \in Phases, Goto(a, at)
    PROVE  /\ job' \in [Actors -> JobSet]
           /\ \A b \in Actors \ {a} : job'[b] = job[b]
           /\ at # "next" => /\ job'[a].at = at /\ job'[a].dev = job[a].dev
                             /\ job'[a].uid = job[a].uid /\ job'[a].conn = job[a].conn
                             /\ job'[a].then = job[a].then /\ job'[a].taken = job[a].taken
           /\ at = "next" => job'[a].at \in {"next", "idle"}
<1>1. job[a] \in JobSet /\ NoJob \in JobSet /\ NoJob.at = "idle"
  BY NoJobShape
<1>2. PICK j \in JobSet : j = [job[a] EXCEPT !.at = at]
  BY <1>1 DEF JobSet
<1>3. /\ j.at = at /\ j.dev = job[a].dev /\ j.uid = job[a].uid /\ j.conn = job[a].conn
      /\ j.then = job[a].then /\ j.taken = job[a].taken
  BY <1>1, <1>2 DEF JobSet
<1>4. /\ job' = [job EXCEPT ![a] = job'[a]]
      /\ job'[a] = IF at = "next" /\ job[a].rest = {} THEN NoJob ELSE j
  BY <1>2 DEF Goto
<1>5. job'[a] \in JobSet
  BY <1>1, <1>4
<1>6. /\ job' \in [Actors -> JobSet] /\ \A b \in Actors \ {a} : job'[b] = job[b]
  BY <1>4, <1>5
<1> QED BY <1>1, <1>3, <1>4, <1>6

SmallType ==
    /\ attached \subseteq Devs /\ perm \subseteq attached /\ asked \subseteq attached
    /\ registered \in BOOLEAN /\ naming \in {"path", "model"}
    /\ link \in [Uids -> Conns \cup {None, Old}] /\ last \in 0 .. MaxConns
    /\ delayed \subseteq Devs /\ crashed \in BOOLEAN /\ calm \in BOOLEAN

LEMMA SmallTypes == TypeOK => SmallType
  BY DEF TypeOK, SmallType

LEMMA TypesNext ==
    ASSUME SmallType', map' \in [Kinds -> [Uids -> Conns \cup {None}]],
           conn' \in [Conns -> ConnSet], job' \in [Actors -> JobSet]
    PROVE  TypeOK'
  BY DEF TypeOK, SmallType, ConnSet, JobSet

------------------------------------------------------------------------------
(* The types are kept. *)

\* A step that neither opens a port nor makes a terminal.
Similar(c) ==
    /\ conn'[c].uid = conn[c].uid /\ conn'[c].dev = conn[c].dev
    /\ conn'[c].native = "none" <=> conn[c].native = "none"
    /\ conn'[c].reader = "none" <=> conn[c].reader = "none"
    /\ conn'[c].reader = "ended" => conn'[c].interrupted
    /\ last < c => conn'[c] = conn[c]

LEMMA MadeKept ==
    ASSUME \A c \in Conns : Similar(c)
    PROVE  \A c \in Conns : /\ Made(c)' <=> Made(c)
                            /\ Blank(c)' <=> Blank(c)
  BY DEF Similar, Made, Blank

\* An actor whose job stays as it is.
LEMMA JobKept ==
    ASSUME TypeOK, NEW a \in Actors, JobOK(a), job'[a] = job[a], last <= last', last' \in Int,
           \A c \in Conns : Made(c) => Made(c)',
           job[a].at = "create" =>
               Blank(job[a].conn)' /\ conn'[job[a].conn].dev = conn[job[a].conn].dev
    PROVE  JobOK(a)'
<1>1. job[a] \in JobSet /\ last \in Int /\ Conns \subseteq Nat
  BY Types, SmallTypes, Constants DEF SmallType
<1>2. \A k \in Kinds : job[a].taken[k] \in Conns \cup {None}
  BY <1>1 DEF JobSet
<1>3. job[a].at \in Closing => \A k \in Kinds : job'[a].taken[k] # None => Made(job[a].taken[k])'
  BY <1>2 DEF JobOK
<1>4. job[a].at \in Putting => Made(job[a].conn)'
  BY DEF JobOK
<1>5. job[a].at = "create" =>
          /\ job[a].dev \in Devs /\ job[a].conn \in Conns /\ job[a].conn <= last'
          /\ Blank(job[a].conn)' /\ conn'[job[a].conn].dev = job[a].dev
  <2>1. job[a].at = "create" => /\ job[a].dev \in Devs /\ job[a].conn \in Conns
                                /\ job[a].conn <= last /\ conn[job[a].conn].dev = job[a].dev
    BY DEF JobOK
  <2>2. job[a].at = "create" => job[a].conn <= last'
    <3>1. \A x, y, z \in Int : x <= y /\ y <= z => x <= z
      OBVIOUS
    <3>2. job[a].at = "create" => job[a].conn \in Int
      BY <2>1 DEF Conns
    <3> QED BY <1>1, <2>1, <3>1, <3>2
  <2> QED BY <2>1, <2>2
<1> QED BY <1>3, <1>4, <1>5 DEF JobOK

\* All that a step of one actor must still be shown to keep.
LEMMA StepKept ==
    ASSUME TypeInv, last' = last, \A c \in Conns : Similar(c), NEW a \in Actors,
           \A b \in Actors \ {a} : job'[b] = job[b],
           JobOK(a)' \/ job'[a] = job[a],
           job'[a].at = "create" => job'[a] = job[a]
    PROVE  /\ ConnInv' /\ JobInv'
           /\ map' = map => MapInv'
           /\ queue' = queue => QueueInv'
<1> USE DEF TypeInv
<1>1. \A c \in Conns : (Made(c)' <=> Made(c)) /\ (Blank(c)' <=> Blank(c))
  BY MadeKept
<1>2. ConnInv'
  BY <1>1 DEF ConnInv, Similar
<1>3. last \in Int
  BY SmallTypes, Constants DEF SmallType
<1>4. ASSUME NEW b \in Actors PROVE JobOK(b)'
  <2>1. CASE job'[b] = job[b]
    <3>1. job[b].at = "create" =>
              Blank(job[b].conn)' /\ conn'[job[b].conn].dev = conn[job[b].conn].dev
      <4>1. job[b].at = "create" => job[b].conn \in Conns /\ Blank(job[b].conn)
        BY DEF JobInv, JobOK
      <4>2. job[b].at = "create" => Blank(job[b].conn)'
        <5> SUFFICES ASSUME job[b].at = "create" PROVE Blank(job[b].conn)'
          OBVIOUS
        <5>1. PICK c \in Conns : c = job[b].conn /\ c = job'[b].conn
          BY <2>1, <4>1
        <5>2. Blank(c)'
          BY <1>1, <4>1, <5>1
        <5> QED BY <5>1, <5>2 DEF Blank
      <4> QED BY <4>1, <4>2 DEF Similar
    <3> QED BY <1>1, <1>3, <2>1, <3>1, JobKept DEF JobInv
  <2>2. CASE job'[b] # job[b]
    BY <2>2
  <2> QED BY <2>1, <2>2
<1>5. ASSUME NEW b \in Actors, NEW d \in Actors, b # d,
             job'[b].at = "create", job'[d].at = "create"
      PROVE  job'[b].conn # job'[d].conn
  BY <1>5 DEF JobInv
<1>6. map' = map => MapInv'
  <2> SUFFICES ASSUME map' = map, NEW k \in Kinds, NEW u \in Uids, map[k][u] # None
               PROVE  Made(map[k][u])'
    BY DEF MapInv
  <2>1. map[k][u] \in Conns /\ Made(map[k][u])
    BY Types DEF MapInv
  <2> QED BY <1>1, <2>1
<1>7. queue' = queue => QueueInv'
  <2> SUFFICES ASSUME queue' = queue, NEW i \in 1..Len(queue), queue[i][1] = "start"
               PROVE  Made(queue[i][2])'
    BY DEF QueueInv
  <2>1. queue[i] \in MsgSet /\ Made(queue[i][2])
    BY ElementOfSeq DEF QueueInv
  <2>2. queue[i][2] \in Conns
    BY <2>1 DEF MsgSet
  <2> QED BY <1>1, <2>1, <2>2
<1> QED BY <1>2, <1>4, <1>5, <1>6, <1>7 DEF JobInv

\* The phases outside connect() and close() in which an actor carries nothing.
LEMMA FreeJob ==
    ASSUME NEW a, job'[a].at \in {"idle", "drivers", "next", "crash", "naming"} PROVE JobOK(a)'
  BY DEF JobOK, Putting, Closing

\* Calls that begin, and the steps between them.
LEMMA BetweenShape ==
    ASSUME TypeInv, NEW a \in Actors, Drivers(a) \/ NextDriver(a) \/ Ask(a)
    PROVE  /\ UNCHANGED <<settings, map, link, conn, last, looper, crashed, attached, perm>>
           /\ job[a].at \in {"drivers", "next", "open"}
           /\ job' \in [Actors -> JobSet] /\ \A b \in Actors \ {a} : job'[b] = job[b]
           /\ job'[a].at \in {"idle", "next"} \/ (job'[a].at = "open" /\ job'[a].dev \in Devs)
<1> USE DEF TypeInv
<1>0. job[a] \in JobSet /\ job \in [Actors -> JobSet] /\ attached \subseteq Devs
  BY Types, SmallTypes DEF SmallType
<1>1. /\ UNCHANGED <<settings, map, link, conn, last, looper, crashed, attached, perm>>
      /\ job[a].at \in {"drivers", "next", "open"}
  BY DEF Drivers, NextDriver, Ask, android
<1>3. /\ job' \in [Actors -> JobSet] /\ \A b \in Actors \ {a} : job'[b] = job[b]
      /\ job'[a].at \in {"idle", "next"} \/ (job'[a].at = "open" /\ job'[a].dev \in Devs)
  <2>1. CASE Drivers(a)
    <3> DEFINE j == [NoJob EXCEPT !.at = "next", !.rest = attached]
    <3>1. j \in JobSet /\ j.at = "next"
      BY <1>0 DEF NoJob, JobSet, Phases, Outside
    <3>2. /\ job' = [job EXCEPT ![a] = job'[a]] /\ job'[a] \in {NoJob, j}
      BY <1>0, <2>1 DEF Drivers
    <3> HIDE DEF j
    <3> QED BY <1>0, <3>1, <3>2, NoJobShape
  <2>2. CASE NextDriver(a)
    <3>1. PICK d \in job[a].rest :
              job' = [job EXCEPT ![a].at = "open", ![a].dev = d, ![a].rest = @ \ {d}]
      BY <2>2 DEF NextDriver
    <3>2. d \in Devs
      BY <1>0 DEF JobSet
    <3> DEFINE j == [job[a] EXCEPT !.at = "open", !.dev = d, !.rest = @ \ {d}]
    <3>3. j \in JobSet /\ j.at = "open" /\ j.dev = d
      BY <1>0, <3>2 DEF JobSet, Phases, Outside
    <3>4. job' = [job EXCEPT ![a] = j]
      BY <1>0, <3>1
    <3> HIDE DEF j
    <3> QED BY <1>0, <3>2, <3>3, <3>4
  <2>3. CASE Ask(a)
    BY <1>0, <2>3, GotoShape DEF Ask, Phases, Outside
  <2> QED BY <2>1, <2>2, <2>3
<1> QED BY <1>1, <1>3

LEMMA TypeBetween ==
    ASSUME TypeInv, NEW a \in Actors, Live, Drivers(a) \/ NextDriver(a) \/ Ask(a) PROVE TypeInv'
<1> USE DEF TypeInv
<1>0. job[a] \in JobSet /\ job \in [Actors -> JobSet] /\ attached \subseteq Devs
  BY Types, SmallTypes DEF SmallType
<1>1. UNCHANGED <<settings, map, link, conn, last, looper, crashed>> /\ calm' \in BOOLEAN
  BY DEF Drivers, NextDriver, Ask, Live
<1>2. \A c \in Conns : Similar(c)
  BY <1>1 DEF Similar, ConnInv
<1>3. /\ job' \in [Actors -> JobSet] /\ \A b \in Actors \ {a} : job'[b] = job[b]
      /\ job'[a].at \in {"idle", "next"} \/ (job'[a].at = "open" /\ job'[a].dev \in Devs)
  BY BetweenShape
<1>4. JobOK(a)'
  BY <1>3, FreeJob DEF JobOK, Putting, Closing
<1>5. ConnInv' /\ JobInv' /\ MapInv' /\ QueueInv'
  BY <1>1, <1>2, <1>3, <1>4, StepKept DEF looper
<1>6. SmallType'
  <2>1. asked' \subseteq attached' /\ UNCHANGED <<attached, perm>>
    BY SmallTypes DEF Drivers, NextDriver, Ask, android, SmallType
  <2> QED BY <1>1, <2>1, SmallTypes DEF SmallType, settings, looper
<1>7. TypeOK'
  BY <1>1, <1>3, <1>6, Types, TypesNext
<1>8. EarlyInv'
  BY <1>1, <1>3 DEF EarlyInv, settings, looper, Closing, Putting
<1> QED BY <1>5, <1>7, <1>8

\* The ports of a device that is unplugged or opened again.
LEMMA LoseShape ==
    ASSUME TypeOK, NEW d
    PROVE  /\ Lose(d) \in [Conns -> ConnSet]
           /\ \A c \in Conns : /\ Lose(d)[c].uid = conn[c].uid /\ Lose(d)[c].dev = conn[c].dev
                               /\ Lose(d)[c].native = conn[c].native
                               /\ Lose(d)[c].reader = conn[c].reader
                               /\ Lose(d)[c].interrupted = conn[c].interrupted
                               /\ conn[c].port # "open" => Lose(d)[c] = conn[c]
<1>1. ASSUME NEW c \in Conns
      PROVE  /\ Lose(d)[c] \in ConnSet
             /\ Lose(d)[c].uid = conn[c].uid /\ Lose(d)[c].dev = conn[c].dev
             /\ Lose(d)[c].native = conn[c].native /\ Lose(d)[c].reader = conn[c].reader
             /\ Lose(d)[c].interrupted = conn[c].interrupted
             /\ conn[c].port # "open" => Lose(d)[c] = conn[c]
  <2>1. conn[c] \in ConnSet
    BY Types
  <2>2. Lose(d)[c] = IF conn[c].dev = d /\ conn[c].port = "open"
                     THEN [conn[c] EXCEPT !.port = "lost"] ELSE conn[c]
    BY DEF Lose
  <2> QED BY <2>1, <2>2 DEF ConnSet
<1>2. Lose(d) = [c \in Conns |-> Lose(d)[c]]
  BY DEF Lose
<1> QED BY <1>1, <1>2

\* openPort(): a new connection, or none.  Fresh describes the new one.
Fresh(n, a) ==
    /\ n = last + 1 /\ last' = n /\ conn[n] = NoConn /\ conn' \in [Conns -> ConnSet]
    /\ \A c \in Conns \ {n} : conn'[c] = Lose(job[a].dev)[c]
    /\ conn'[n].dev = job[a].dev /\ conn'[n].uid = NoDev /\ conn'[n].native = "none"
    /\ conn'[n].reader = "none" /\ ~conn'[n].interrupted
    /\ \/ job'[a].at \in {"next", "idle"}
       \/ job'[a].at = "create" /\ job'[a].conn = n /\ job'[a].dev = job[a].dev

LEMMA OpenShape ==
    ASSUME TypeInv, NEW a \in Actors, Open(a)
    PROVE  /\ UNCHANGED <<android, settings, map, link, looper, crashed>>
           /\ registered /\ job[a].at = "open" /\ job[a].dev \in perm /\ job[a].dev \in Devs
           /\ job' \in [Actors -> JobSet] /\ \A b \in Actors \ {a} : job'[b] = job[b]
           /\ \/ UNCHANGED <<conn, last>> /\ job'[a].at \in {"next", "idle"}
              \/ \E n \in Conns : Fresh(n, a)
<1> USE DEF TypeInv
<1>0. /\ job[a] \in JobSet /\ job \in [Actors -> JobSet] /\ job[a].at = "open" /\ job[a].dev \in Devs
      /\ last \in 0..MaxConns /\ MaxConns \in Nat /\ registered /\ job[a].dev \in perm
  BY Types, SmallTypes, Constants DEF SmallType, Open, JobInv, JobOK
<1>1. UNCHANGED <<android, settings, map, link, looper, crashed>>
  BY DEF Open
<1>3. CASE Goto(a, "next") /\ UNCHANGED <<conn, last>>
  <2>1. /\ job' \in [Actors -> JobSet] /\ \A b \in Actors \ {a} : job'[b] = job[b]
        /\ job'[a].at \in {"next", "idle"}
    BY <1>0, <1>3, GotoShape DEF Phases, Outside
  <2> QED BY <1>0, <1>1, <1>3, <2>1
<1>4. ASSUME last < MaxConns, last' = last + 1,
             conn' = [Lose(job[a].dev) EXCEPT ![last'].dev = job[a].dev, ![last'].port = "open"],
             \/ Goto(a, "next")
             \/ job' = [job EXCEPT ![a].at = "create", ![a].conn = last']
      PROVE  /\ job' \in [Actors -> JobSet] /\ \A b \in Actors \ {a} : job'[b] = job[b]
             /\ \E n \in Conns : Fresh(n, a)
  <2>0. PICK n \in Conns : n = last' /\ n = last + 1
    BY <1>0, <1>4 DEF Conns
  <2>1. conn[n] = NoConn /\ Lose(job[a].dev)[n] = NoConn
    <3>1. conn[n] = NoConn
      BY <1>0, <2>0 DEF ConnInv
    <3> QED BY <3>1, LoseShape, NoConnShape
  <2>2. /\ conn' \in [Conns -> ConnSet]
        /\ \A c \in Conns \ {n} : conn'[c] = Lose(job[a].dev)[c]
        /\ conn'[n].dev = job[a].dev /\ conn'[n].uid = NoDev /\ conn'[n].native = "none"
        /\ conn'[n].reader = "none" /\ ~conn'[n].interrupted
    <3> DEFINE e == [NoConn EXCEPT !.dev = job[a].dev, !.port = "open"]
    <3>1. /\ e \in ConnSet /\ e.dev = job[a].dev /\ e.uid = NoDev /\ e.native = "none"
          /\ e.reader = "none" /\ ~e.interrupted
      BY <1>0, NoConnShape DEF NoConn, ConnSet
    <3>2. Lose(job[a].dev) \in [Conns -> ConnSet]
      BY LoseShape
    <3>3. conn' = [Lose(job[a].dev) EXCEPT ![n] = e]
      BY <1>4, <2>0, <2>1, <3>2
    <3> HIDE DEF e
    <3>4. conn'[n] = e /\ conn' \in [Conns -> ConnSet] /\ \A c \in Conns \ {n} : conn'[c] = Lose(job[a].dev)[c]
      BY <3>1, <3>2, <3>3
    <3> QED BY <3>1, <3>4
  <2>8. /\ job' \in [Actors -> JobSet] /\ \A b \in Actors \ {a} : job'[b] = job[b]
        /\ \/ job'[a].at \in {"next", "idle"}
           \/ job'[a].at = "create" /\ job'[a].conn = n /\ job'[a].dev = job[a].dev
    <3>1. CASE Goto(a, "next")
      BY <1>0, <3>1, GotoShape DEF Phases, Outside
    <3>2. CASE job' = [job EXCEPT ![a].at = "create", ![a].conn = last']
      <4> DEFINE j == [job[a] EXCEPT !.at = "create", !.conn = n]
      <4>1. j \in JobSet /\ j.at = "create" /\ j.conn = n /\ j.dev = job[a].dev
        BY <1>0, <2>0 DEF JobSet, Phases
      <4>2. job' = [job EXCEPT ![a] = j]
        BY <1>0, <2>0, <3>2
      <4> HIDE DEF j
      <4> QED BY <1>0, <4>1, <4>2
    <3> QED BY <1>4, <3>1, <3>2
  <2> QED BY <2>0, <2>1, <2>2, <2>8 DEF Fresh
<1> QED BY <1>0, <1>1, <1>3, <1>4 DEF Open

LEMMA TypeOpen ==
    ASSUME TypeInv, NEW a \in Actors, Live, Open(a) PROVE TypeInv'
<1> USE DEF TypeInv
<1>0. /\ job[a] \in JobSet /\ job \in [Actors -> JobSet] /\ job[a].at = "open" /\ job[a].dev \in Devs
      /\ last \in 0..MaxConns /\ MaxConns \in Nat /\ registered
  BY Types, SmallTypes, Constants DEF SmallType, Open, JobInv, JobOK
<1>1. UNCHANGED <<android, settings, map, link, looper, crashed>> /\ calm' \in BOOLEAN
  BY OpenShape DEF Live
<1>2. EarlyInv'
  BY <1>0, <1>1 DEF EarlyInv, settings
<1>3. CASE UNCHANGED <<conn, last>> /\ job'[a].at \in {"next", "idle"}
  <2>1. /\ job' \in [Actors -> JobSet] /\ \A b \in Actors \ {a} : job'[b] = job[b]
        /\ job'[a].at \in {"next", "idle"}
    BY <1>3, OpenShape
  <2>2. \A c \in Conns : Similar(c)
    BY <1>3 DEF Similar, ConnInv
  <2>3. JobOK(a)'
    BY <2>1, FreeJob
  <2>4. ConnInv' /\ JobInv' /\ MapInv' /\ QueueInv'
    BY <1>1, <1>3, <2>1, <2>2, <2>3, StepKept DEF looper
  <2>5. SmallType'
    BY <1>1, <1>3, SmallTypes DEF SmallType, android, settings, looper
  <2> QED BY <1>1, <1>2, <1>3, <2>1, <2>4, <2>5, Types, TypesNext
<1>4. CASE \E n \in Conns : Fresh(n, a)
  <2>0. PICK n \in Conns : Fresh(n, a)
    BY <1>4
  <2>1. n = last + 1 /\ last' = n /\ conn[n] = NoConn
    BY <2>0 DEF Fresh
  <2>2. /\ conn' \in [Conns -> ConnSet]
        /\ \A c \in Conns \ {n} : conn'[c] = Lose(job[a].dev)[c]
        /\ Blank(n)' /\ conn'[n].dev = job[a].dev /\ conn'[n].reader = "none"
    BY <2>0 DEF Fresh, Blank
  <2>3. \A c \in Conns : Made(c) => Made(c)'
    <3>1. ~Made(n)
      BY <2>1, NoConnShape DEF Made
    <3> QED BY <2>2, <3>1, LoseShape DEF Made
  <2>4. \A c \in Conns \ {n} : Blank(c) => Blank(c)' /\ conn'[c].dev = conn[c].dev
    BY <2>2, LoseShape DEF Blank
  <2>5. ConnInv'
    <3> SUFFICES ASSUME NEW c \in Conns
                 PROVE  /\ last' < c => conn'[c] = NoConn
                        /\ Made(c)' \/ Blank(c)'
                        /\ conn'[c].reader = "ended" => conn'[c].interrupted
      BY DEF ConnInv
    <3>1. CASE c = n
      BY <2>1, <2>2, <3>1 DEF Conns
    <3>2. CASE c # n
      <4>1. last' < c => last < c
        BY <1>0, <2>1 DEF Conns
      <4>2. last' < c => conn'[c] = NoConn
        BY <2>2, <3>2, <4>1, LoseShape, NoConnShape DEF ConnInv
      <4>3. conn'[c].reader = "ended" => conn'[c].interrupted
        BY <2>2, <3>2, LoseShape DEF ConnInv
      <4> QED BY <2>3, <2>4, <3>2, <4>2, <4>3 DEF ConnInv
    <3> QED BY <3>1, <3>2
  <2>6. MapInv'
    BY <1>1, <2>3, Types DEF MapInv
  <2>7. QueueInv'
    <3> SUFFICES ASSUME NEW i \in 1..Len(queue), queue[i][1] = "start" PROVE Made(queue[i][2])'
      BY <1>1 DEF QueueInv, looper
    <3>1. queue[i] \in MsgSet /\ Made(queue[i][2])
      BY ElementOfSeq DEF QueueInv
    <3>2. queue[i][2] \in Conns
      BY <3>1 DEF MsgSet
    <3> QED BY <1>1, <2>3, <3>1, <3>2 DEF looper
  <2>8. /\ job' \in [Actors -> JobSet] /\ \A b \in Actors \ {a} : job'[b] = job[b]
        /\ \/ job'[a].at \in {"next", "idle"}
           \/ job'[a].at = "create" /\ job'[a].conn = n /\ job'[a].dev = job[a].dev
    BY <2>0, OpenShape DEF Fresh
  <2>9. ASSUME NEW b \in Actors \ {a} PROVE JobOK(b)' /\ (job'[b].at = "create" => job'[b].conn # n)
    <3>1. JobOK(b) /\ job'[b] = job[b]
      BY <2>8 DEF JobInv
    <3>2. job[b].at = "create" => job[b].conn \in Conns \ {n} /\ Blank(job[b].conn)
      BY <1>0, <2>1, <3>1 DEF JobOK, Conns
    <3>3. job[b].at = "create" => Blank(job[b].conn)' /\ conn'[job[b].conn].dev = conn[job[b].conn].dev
      <4> SUFFICES ASSUME job[b].at = "create"
                   PROVE  Blank(job[b].conn)' /\ conn'[job[b].conn].dev = conn[job[b].conn].dev
        OBVIOUS
      <4>1. PICK c \in Conns \ {n} : c = job[b].conn /\ c = job'[b].conn
        BY <3>1, <3>2
      <4>2. Blank(c)' /\ conn'[c].dev = conn[c].dev
        BY <2>4, <3>2, <4>1
      <4> QED BY <4>1, <4>2 DEF Blank
    <3>4. last <= last' /\ last' \in Int
      BY <1>0, <2>1
    <3> QED BY <2>3, <3>1, <3>2, <3>3, <3>4, JobKept
  <2>10. JobOK(a)'
    <3>1. CASE job'[a].at \in {"next", "idle"}
      BY <3>1, FreeJob
    <3>2. CASE job'[a].at = "create" /\ job'[a].conn = n /\ job'[a].dev = job[a].dev
      <4>1. Blank(job[a].conn)' /\ conn'[job'[a].conn].dev = job'[a].dev
        BY <2>2, <3>2 DEF Blank
      <4>2. job'[a].conn <= last'
        BY <1>0, <2>1, <3>2
      <4> QED BY <1>0, <3>2, <4>1, <4>2 DEF JobOK, Putting, Closing
    <3> QED BY <2>8, <3>1, <3>2
  <2>11. JobInv'
    <3>1. \A b \in Actors : JobOK(b)'
      BY <2>9, <2>10
    <3>2. ASSUME NEW b \in Actors, NEW d \in Actors, b # d,
                 job'[b].at = "create", job'[d].at = "create"
          PROVE  job'[b].conn # job'[d].conn
      BY <2>8, <2>9, <3>2 DEF JobInv
    <3> QED BY <3>1, <3>2 DEF JobInv
  <2>12. SmallType'
    <3>1. last' \in 0..MaxConns
      BY <1>0, <2>1 DEF Conns
    <3> QED BY <1>1, <3>1, SmallTypes DEF SmallType, android, settings, looper
  <2>13. TypeOK'
    BY <1>1, <2>2, <2>8, <2>12, Types, TypesNext
  <2> QED BY <1>2, <2>5, <2>6, <2>7, <2>11, <2>13
<1> QED BY <1>3, <1>4, OpenShape

\* NativeSerialPort(uid) and the thread: Making describes connection c, named u.
Making(c, u, a) ==
    /\ c = job[a].conn /\ c <= last /\ u = getUID(job[a].dev) /\ Blank(c) /\ Made(c)'
    /\ conn' \in [Conns -> ConnSet] /\ \A d \in Conns \ {c} : conn'[d] = conn[d]
    /\ conn[c].dev = job[a].dev /\ conn'[c].dev = job[a].dev /\ conn'[c].uid = u
    /\ conn'[c].native = "live" /\ conn'[c].reader = "posted"
    /\ link' = [link EXCEPT ![u] = c] /\ queue' = Append(queue, <<"start", c>>)
    /\ job'[a].at = "putNative" /\ job'[a].uid = u /\ job'[a].conn = c

LEMMA CreateShape ==
    ASSUME TypeInv, NEW a \in Actors, Create(a)
    PROVE  /\ UNCHANGED <<android, settings, map, last, delayed, crashed>>
           /\ job[a].at = "create" /\ job[a].dev \in Devs
           /\ job' \in [Actors -> JobSet] /\ \A b \in Actors \ {a} : job'[b] = job[b]
           /\ \E c \in Conns, u \in Uids : Making(c, u, a)
<1> USE DEF TypeInv
<1>0. /\ job[a] \in JobSet /\ job \in [Actors -> JobSet] /\ job[a].at = "create"
      /\ job[a].dev \in Devs /\ Blank(job[a].conn) /\ conn[job[a].conn].dev = job[a].dev
  BY Types DEF Create, JobInv, JobOK
<1>a. PICK c \in Conns : c = job[a].conn /\ c <= last
  BY <1>0 DEF JobInv, JobOK
<1>b. PICK u \in Uids : u = getUID(job[a].dev)
  BY <1>0, UidType
<1>1. UNCHANGED <<android, settings, map, last, delayed, crashed>>
  BY DEF Create
<1>2. /\ conn' \in [Conns -> ConnSet] /\ \A d \in Conns \ {c} : conn'[d] = conn[d]
      /\ Made(c)' /\ conn'[c].reader = "posted" /\ conn'[c].dev = job[a].dev /\ conn'[c].uid = u
      /\ conn'[c].native = "live"
  <2> DEFINE e == [conn[c] EXCEPT !.uid = u, !.native = "live", !.reader = "posted"]
  <2>1. conn[c] \in ConnSet /\ conn \in [Conns -> ConnSet]
    BY Types
  <2>2. e \in ConnSet /\ e.uid = u /\ e.dev = job[a].dev /\ e.native = "live" /\ e.reader = "posted"
    BY <1>0, <1>a, <2>1 DEF ConnSet
  <2>3. conn' = [conn EXCEPT ![c] = e]
    BY <1>a, <1>b, <2>1 DEF Create
  <2> HIDE DEF e
  <2>4. conn'[c] = e /\ conn' \in [Conns -> ConnSet] /\ \A d \in Conns \ {c} : conn'[d] = conn[d]
    BY <2>1, <2>2, <2>3
  <2> QED BY <1>0, <2>2, <2>4 DEF Made
<1>8. /\ job' \in [Actors -> JobSet] /\ \A b \in Actors \ {a} : job'[b] = job[b]
      /\ job'[a].at = "putNative" /\ job'[a].uid = u /\ job'[a].conn = c
  <2> DEFINE j == [job[a] EXCEPT !.at = "putNative", !.uid = u]
  <2>1. j \in JobSet /\ j.at = "putNative" /\ j.uid = u /\ j.conn = c
    BY <1>0, <1>a DEF JobSet, Phases
  <2>2. job' = [job EXCEPT ![a] = j]
    BY <1>0, <1>b DEF Create
  <2> HIDE DEF j
  <2> QED BY <1>0, <2>1, <2>2
<1>9. link' = [link EXCEPT ![u] = c] /\ queue' = Append(queue, <<"start", c>>)
  BY <1>a, <1>b DEF Create
<1>10. Making(c, u, a)
  BY <1>0, <1>a, <1>b, <1>2, <1>8, <1>9 DEF Making
<1> QED BY <1>0, <1>1, <1>8, <1>10

LEMMA TypeCreate ==
    ASSUME TypeInv, NEW a \in Actors, Live, Create(a) PROVE TypeInv'
<1> USE DEF TypeInv
<1>a. PICK c \in Conns, u \in Uids : Making(c, u, a)
  BY CreateShape
<1>0. /\ job[a].at = "create" /\ job[a].dev \in Devs /\ c = job[a].conn /\ c <= last
      /\ job \in [Actors -> JobSet]
  BY <1>a, CreateShape, Types DEF Making
<1>1. UNCHANGED <<android, settings, map, last, delayed, crashed>> /\ calm' \in BOOLEAN
  BY CreateShape DEF Live
<1>2. /\ conn' \in [Conns -> ConnSet] /\ \A d \in Conns \ {c} : conn'[d] = conn[d]
      /\ Made(c)' /\ conn'[c].reader = "posted"
  BY <1>a DEF Making
<1>3. \A d \in Conns : Made(d) => Made(d)'
  BY <1>2 DEF Made
<1>4. \A d \in Conns \ {c} : Blank(d) => Blank(d)' /\ conn'[d].dev = conn[d].dev
  BY <1>2 DEF Blank
<1>5. ConnInv'
  <2> SUFFICES ASSUME NEW d \in Conns
               PROVE  /\ last' < d => conn'[d] = NoConn
                      /\ Made(d)' \/ Blank(d)'
                      /\ conn'[d].reader = "ended" => conn'[d].interrupted
    BY DEF ConnInv
  <2>1. CASE d = c
    <3>1. ~(last' < d)
      BY <1>0, <1>1, <2>1, SmallTypes, Constants DEF SmallType, Conns
    <3> QED BY <1>2, <2>1, <3>1
  <2>2. CASE d # c
    BY <1>1, <1>2, <1>3, <1>4, <2>2 DEF ConnInv
  <2> QED BY <2>1, <2>2
<1>6. MapInv'
  BY <1>1, <1>3, Types DEF MapInv
<1>7. QueueInv'
  <2>1. PICK m \in MsgSet : m = <<"start", c>> /\ m[1] = "start" /\ m[2] = c
    <3>1. <<"start", c>> \in MsgSet
      BY DEF MsgSet
    <3> QED BY <3>1
  <2>2. /\ queue' = Append(queue, m) /\ queue \in Seq(MsgSet) /\ Len(queue) \in Nat
    BY <1>a, <2>1 DEF Making, QueueInv
  <2>3. /\ queue' \in Seq(MsgSet) /\ Len(queue') = Len(queue) + 1
        /\ \A i \in 1..(Len(queue) + 1) : queue'[i] = IF i <= Len(queue) THEN queue[i] ELSE m
    BY <2>2
  <2>4. ASSUME NEW i \in 1..Len(queue'), queue'[i][1] = "start" PROVE Made(queue[i][2])'
    <3>1. CASE i <= Len(queue)
      <4>1. i \in 1..Len(queue) /\ queue'[i] = queue[i]
        BY <2>2, <2>3, <3>1
      <4>2. queue[i] \in MsgSet /\ Made(queue[i][2])
        BY <2>4, <4>1, ElementOfSeq DEF QueueInv
      <4>3. queue[i][2] \in Conns
        BY <2>4, <4>1, <4>2 DEF MsgSet
      <4>4. PICK d \in Conns : d = queue'[i][2] /\ Made(d)
        BY <4>1, <4>2, <4>3
      <4>5. Made(d)'
        BY <1>3, <4>4
      <4> QED BY <4>4, <4>5 DEF Made
    <3>2. CASE ~(i <= Len(queue))
      <4>1. queue'[i][2] = c
        BY <2>1, <2>2, <2>3, <3>2
      <4> QED BY <1>2, <4>1 DEF Made
    <3> QED BY <3>1, <3>2
  <2> QED BY <2>3, <2>4 DEF QueueInv
<1>8. /\ job' \in [Actors -> JobSet] /\ \A b \in Actors \ {a} : job'[b] = job[b]
      /\ job'[a].at = "putNative" /\ job'[a].uid = u /\ job'[a].conn = c
  BY <1>a, CreateShape DEF Making
<1>9. ASSUME NEW b \in Actors \ {a} PROVE JobOK(b)'
  <2>1. JobOK(b) /\ job'[b] = job[b]
    BY <1>8 DEF JobInv
  <2>2. job[b].at = "create" => job[b].conn \in Conns \ {c} /\ Blank(job[b].conn)
    BY <1>0, <2>1 DEF JobOK, JobInv
  <2>3. job[b].at = "create" => Blank(job[b].conn)' /\ conn'[job[b].conn].dev = conn[job[b].conn].dev
    <3> SUFFICES ASSUME job[b].at = "create"
                 PROVE  Blank(job[b].conn)' /\ conn'[job[b].conn].dev = conn[job[b].conn].dev
      OBVIOUS
    <3>1. PICK d \in Conns \ {c} : d = job[b].conn /\ d = job'[b].conn
      BY <2>1, <2>2
    <3>2. Blank(d)' /\ conn'[d].dev = conn[d].dev
      BY <1>4, <2>2, <3>1
    <3> QED BY <3>1, <3>2 DEF Blank
  <2>4. last <= last' /\ last' \in Int
    BY <1>1, SmallTypes, Constants DEF SmallType
  <2> QED BY <1>3, <2>1, <2>3, <2>4, JobKept
<1>10. JobOK(a)'
  <2>1. Made(job[a].conn)'
    BY <1>2, <1>8 DEF Made
  <2> QED BY <1>8, <2>1 DEF JobOK, Putting, Closing
<1>11. JobInv'
  <2>1. \A b \in Actors : JobOK(b)'
    BY <1>9, <1>10
  <2>2. ASSUME NEW b \in Actors, NEW d \in Actors, b # d,
               job'[b].at = "create", job'[d].at = "create"
        PROVE  job'[b].conn # job'[d].conn
    BY <1>8, <2>2 DEF JobInv
  <2> QED BY <2>1, <2>2 DEF JobInv
<1>12. SmallType'
  <2>1. link' \in [Uids -> Conns \cup {None, Old}]
    BY <1>a, Types DEF Making
  <2> QED BY <1>1, <2>1, SmallTypes DEF SmallType, android, settings
<1>13. TypeOK'
  BY <1>1, <1>2, <1>8, <1>12, Types, TypesNext
<1>14. registered
  BY <1>0 DEF EarlyInv
<1>15. EarlyInv'
  BY <1>1, <1>14 DEF EarlyInv, settings
<1> QED BY <1>5, <1>6, <1>7, <1>11, <1>13, <1>15

\* connect() fills the maps.
LEMMA PutShape ==
    ASSUME TypeInv, NEW a \in Actors, NEW k \in Kinds, NEW from \in Putting,
           NEW to \in Putting \cup {"next"}, Put(a, k, from, to)
    PROVE  /\ UNCHANGED <<android, settings, link, conn, last, looper, crashed>>
           /\ job[a].at = from /\ job[a].uid \in Uids /\ job[a].conn \in Conns /\ Made(job[a].conn)
           /\ map' \in [Kinds -> [Uids -> Conns \cup {None}]]
           /\ \A l \in Kinds, u \in Uids :
                map'[l][u] = IF l = k /\ u = job[a].uid THEN job[a].conn ELSE map[l][u]
           /\ job' \in [Actors -> JobSet] /\ \A b \in Actors \ {a} : job'[b] = job[b]
           /\ IF to = "next" THEN job'[a].at \in {"next", "idle"}
              ELSE job'[a].at = to /\ job'[a].uid = job[a].uid /\ job'[a].conn = job[a].conn
<1> USE DEF TypeInv
<1>1. Put(a, k, from, to)
  OBVIOUS
<1>2. /\ job[a] \in JobSet /\ job \in [Actors -> JobSet] /\ job[a].at = from
      /\ job[a].uid \in Uids /\ job[a].conn \in Conns /\ Made(job[a].conn)
  BY <1>1, Types DEF Put, JobInv, JobOK
<1>3. /\ UNCHANGED <<android, settings, link, conn, last, looper, crashed>>
      /\ Goto(a, to)
  BY <1>1 DEF Put
<1>4. /\ map' \in [Kinds -> [Uids -> Conns \cup {None}]]
      /\ \A l \in Kinds, u \in Uids :
            map'[l][u] = IF l = k /\ u = job[a].uid THEN job[a].conn ELSE map[l][u]
  <2>1. map \in [Kinds -> [Uids -> Conns \cup {None}]]
    BY Types
  <2>2. map' = [map EXCEPT ![k] = [map[k] EXCEPT ![job[a].uid] = job[a].conn]]
    BY <1>1, <2>1 DEF Put
  <2>3. [map[k] EXCEPT ![job[a].uid] = job[a].conn] \in [Uids -> Conns \cup {None}]
    BY <1>2, <2>1
  <2> QED BY <1>2, <2>1, <2>2, <2>3
<1>5. /\ job' \in [Actors -> JobSet] /\ \A b \in Actors \ {a} : job'[b] = job[b]
      /\ IF to = "next" THEN job'[a].at \in {"next", "idle"}
         ELSE job'[a].at = to /\ job'[a].uid = job[a].uid /\ job'[a].conn = job[a].conn
  <2>1. to \in Phases
    BY DEF Phases, Outside, Putting
  <2> QED BY <1>2, <1>3, <2>1, GotoShape DEF Putting
<1> QED BY <1>2, <1>3, <1>4, <1>5

LEMMA TypePut ==
    ASSUME TypeInv, NEW a \in Actors, Live, PutNative(a) \/ PutPort(a) \/ PutThread(a)
    PROVE  TypeInv'
<1> USE DEF TypeInv
<1>1. PICK k \in Kinds, from \in Putting, to \in Putting \cup {"next"} : Put(a, k, from, to)
  BY DEF PutNative, PutPort, PutThread, Kinds, Putting
<1>2. /\ job[a].at \in Putting
      /\ job[a].uid \in Uids /\ job[a].conn \in Conns /\ Made(job[a].conn)
  BY <1>1, PutShape
<1>3. UNCHANGED <<android, settings, link, conn, last, looper, crashed>> /\ calm' \in BOOLEAN
  BY <1>1, PutShape DEF Live
<1>4. /\ map' \in [Kinds -> [Uids -> Conns \cup {None}]]
      /\ \A l \in Kinds, u \in Uids : map'[l][u] = map[l][u] \/ map'[l][u] = job[a].conn
  BY <1>1, PutShape
<1>5. /\ job' \in [Actors -> JobSet] /\ \A b \in Actors \ {a} : job'[b] = job[b]
      /\ \/ job'[a].at \in {"next", "idle"}
         \/ job'[a].at \in Putting /\ job'[a].uid = job[a].uid /\ job'[a].conn = job[a].conn
  BY <1>1, PutShape
<1>6. \A c \in Conns : Similar(c)
  BY <1>3 DEF Similar, ConnInv
<1>7. \A c \in Conns : Made(c)' <=> Made(c)
  BY <1>6, MadeKept
<1>8. JobOK(a)' /\ job'[a].at # "create"
  <2>1. CASE job'[a].at \in {"next", "idle"}
    BY <2>1, FreeJob
  <2>2. CASE job'[a].at \in Putting /\ job'[a].uid = job[a].uid /\ job'[a].conn = job[a].conn
    <3>1. Made(job[a].conn)'
      BY <1>2, <1>3, <2>2 DEF Made
    <3> QED BY <1>2, <2>2, <3>1 DEF JobOK, Putting, Closing
  <2> QED BY <1>5, <2>1, <2>2
<1>9. ConnInv' /\ JobInv' /\ QueueInv'
  BY <1>3, <1>5, <1>6, <1>8, StepKept DEF looper
<1>10. MapInv'
  <2> SUFFICES ASSUME NEW l \in Kinds, NEW u \in Uids, map'[l][u] # None PROVE Made(map[l][u])'
    BY DEF MapInv
  <2>1. map'[l][u] \in Conns /\ Made(map'[l][u])
    BY <1>2, <1>4, Types DEF MapInv
  <2> QED BY <1>3, <2>1 DEF Made
<1>11. SmallType'
  BY <1>3, SmallTypes DEF SmallType, android, settings, looper
<1>12. TypeOK'
  BY <1>3, <1>4, <1>5, <1>11, Types, TypesNext
<1>13. registered
  BY <1>2 DEF EarlyInv
<1>14. EarlyInv'
  BY <1>3, <1>13 DEF EarlyInv, settings
<1> QED BY <1>9, <1>10, <1>12, <1>14

\* close() empties the maps.
LEMMA RemoveShape ==
    ASSUME TypeInv, NEW a \in Actors, NEW k \in Kinds, NEW from \in Closing,
           NEW to \in Closing, Remove(a, k, from, to)
    PROVE  /\ UNCHANGED <<android, settings, link, conn, last, looper, crashed>>
           /\ job[a].at = from /\ job[a].uid \in Uids
           /\ map' \in [Kinds -> [Uids -> Conns \cup {None}]]
           /\ \A l \in Kinds, u \in Uids :
                map'[l][u] = IF l = k /\ u = job[a].uid THEN None ELSE map[l][u]
           /\ job' \in [Actors -> JobSet] /\ \A b \in Actors \ {a} : job'[b] = job[b]
           /\ job'[a].at = to /\ job'[a].uid = job[a].uid /\ job'[a].then = job[a].then
           /\ job'[a].dev = job[a].dev
           /\ \A l \in Kinds :
                job'[a].taken[l] = IF l = k THEN map[k][job[a].uid] ELSE job[a].taken[l]
<1> USE DEF TypeInv
<1>1. Remove(a, k, from, to)
  OBVIOUS
<1>2. job[a] \in JobSet /\ job \in [Actors -> JobSet] /\ job[a].at = from /\ job[a].uid \in Uids
  BY <1>1, Types DEF Remove, JobInv, JobOK
<1>3. UNCHANGED <<android, settings, link, conn, last, looper, crashed>>
  BY <1>1 DEF Remove
<1>a. PICK t \in Conns \cup {None} : t = map[k][job[a].uid]
  BY <1>2, Types
<1>4. /\ map' \in [Kinds -> [Uids -> Conns \cup {None}]]
      /\ \A l \in Kinds, u \in Uids :
            map'[l][u] = IF l = k /\ u = job[a].uid THEN None ELSE map[l][u]
  <2>1. map \in [Kinds -> [Uids -> Conns \cup {None}]]
    BY Types
  <2>2. map' = [map EXCEPT ![k] = [map[k] EXCEPT ![job[a].uid] = None]]
    BY <1>1, <2>1 DEF Remove, WithoutEntry
  <2>3. [map[k] EXCEPT ![job[a].uid] = None] \in [Uids -> Conns \cup {None}]
    BY <1>2, <2>1
  <2> QED BY <1>2, <2>1, <2>2, <2>3
<1>5. /\ job' \in [Actors -> JobSet] /\ \A b \in Actors \ {a} : job'[b] = job[b]
      /\ job'[a].at = to /\ job'[a].uid = job[a].uid /\ job'[a].then = job[a].then
      /\ job'[a].dev = job[a].dev
      /\ \A l \in Kinds : job'[a].taken[l] = IF l = k THEN t ELSE job[a].taken[l]
  <2> DEFINE w == [job[a].taken EXCEPT ![k] = t]
             j == [job[a] EXCEPT !.at = to, !.taken = w]
  <2>1. job[a].taken \in [Kinds -> Conns \cup {None}]
    BY <1>2 DEF JobSet
  <2>2. w \in [Kinds -> Conns \cup {None}] /\ \A l \in Kinds : w[l] = IF l = k THEN t ELSE job[a].taken[l]
    BY <2>1
  <2>3. job' = [job EXCEPT ![a] = j]
    <3>1. job' = [job EXCEPT ![a].at = to, ![a].taken[k] = t]
      BY <1>1, <1>a DEF Remove
    <3> QED BY <1>2, <3>1
  <2> HIDE DEF w
  <2>4. to \in Phases
    BY DEF Phases, Closing
  <2>5. /\ j \in JobSet /\ j.at = to /\ j.uid = job[a].uid /\ j.then = job[a].then
        /\ j.dev = job[a].dev /\ j.taken = w
    BY <1>2, <2>2, <2>4 DEF JobSet
  <2> HIDE DEF j
  <2> QED BY <1>2, <2>2, <2>3, <2>5
<1> QED BY <1>2, <1>3, <1>a, <1>4, <1>5

LEMMA TypeRemove ==
    ASSUME TypeInv, NEW a \in Actors, Live, RemoveNative(a) \/ RemovePort(a) \/ RemoveThread(a)
    PROVE  TypeInv'
<1> USE DEF TypeInv
<1>1. PICK k \in Kinds, from \in Closing, to \in Closing : Remove(a, k, from, to)
  BY DEF RemoveNative, RemovePort, RemoveThread, Kinds, Closing
<1>2. /\ job[a] \in JobSet /\ job[a].at \in Closing
      /\ job[a].uid \in Uids /\ (job[a].then = "reset" => job[a].dev \in Devs)
      /\ \A l \in Kinds : job[a].taken[l] # None => Made(job[a].taken[l])
  BY <1>1, Types DEF Remove, JobInv, JobOK
<1>3. UNCHANGED <<android, settings, link, conn, last, looper, crashed>> /\ calm' \in BOOLEAN
  BY <1>1, RemoveShape DEF Live
<1>a. PICK t \in Conns \cup {None} : t = map[k][job[a].uid] /\ (t # None => Made(t))
  BY <1>2, Types DEF MapInv
<1>4. /\ map' \in [Kinds -> [Uids -> Conns \cup {None}]]
      /\ \A l \in Kinds, u \in Uids : map'[l][u] = map[l][u] \/ map'[l][u] = None
  BY <1>1, RemoveShape
<1>5. /\ job' \in [Actors -> JobSet] /\ \A b \in Actors \ {a} : job'[b] = job[b]
      /\ job'[a].at = to /\ job'[a].uid = job[a].uid /\ job'[a].then = job[a].then
      /\ job'[a].dev = job[a].dev
      /\ \A l \in Kinds : job'[a].taken[l] = IF l = k THEN t ELSE job[a].taken[l]
  BY <1>1, <1>a, RemoveShape
<1>6. \A c \in Conns : Similar(c)
  BY <1>3 DEF Similar, ConnInv
<1>7. \A c \in Conns : Made(c)' <=> Made(c)
  BY <1>6, MadeKept
<1>8. JobOK(a)' /\ job'[a].at # "create"
  <2>1. ASSUME NEW l \in Kinds, job'[a].taken[l] # None PROVE Made(job[a].taken[l])'
    <3>1. PICK c \in Conns : c = job'[a].taken[l] /\ Made(c)
      <4>1. job[a].taken[l] \in Conns \cup {None}
        BY <1>2 DEF JobSet
      <4> QED BY <1>2, <1>5, <1>a, <2>1, <4>1
    <3>2. Made(c)'
      BY <1>7, <3>1
    <3> QED BY <3>1, <3>2 DEF Made
  <2> QED BY <1>2, <1>5, <2>1 DEF JobOK, Putting, Closing
<1>9. ConnInv' /\ JobInv' /\ QueueInv'
  BY <1>3, <1>5, <1>6, <1>8, StepKept DEF looper
<1>10. MapInv'
  <2> SUFFICES ASSUME NEW l \in Kinds, NEW u \in Uids, map'[l][u] # None PROVE Made(map[l][u])'
    BY DEF MapInv
  <2>1. map'[l][u] \in Conns /\ Made(map'[l][u])
    BY <1>4, Types DEF MapInv
  <2> QED BY <1>3, <2>1 DEF Made
<1>11. SmallType'
  BY <1>3, SmallTypes DEF SmallType, android, settings, looper
<1>12. TypeOK'
  BY <1>3, <1>4, <1>5, <1>11, Types, TypesNext
<1>13. registered
  BY <1>2 DEF EarlyInv
<1>14. EarlyInv'
  BY <1>3, <1>13 DEF EarlyInv, settings
<1> QED BY <1>9, <1>10, <1>12, <1>14

\* One connection changes, and not by being opened or made.
LEMMA OneConn ==
    ASSUME TypeInv, NEW c \in Conns, NEW e \in ConnSet, conn' = [conn EXCEPT ![c] = e],
           e.uid = conn[c].uid, e.dev = conn[c].dev, ~Blank(c), e.native = "none" <=> conn[c].native = "none",
           e.reader = "none" <=> conn[c].reader = "none", e.reader = "ended" => e.interrupted
    PROVE  conn' \in [Conns -> ConnSet] /\ \A d \in Conns : Similar(d)
<1> USE DEF TypeInv
<1>1. conn \in [Conns -> ConnSet]
  BY Types
<1>2. conn' \in [Conns -> ConnSet] /\ conn'[c] = e /\ \A d \in Conns \ {c} : conn'[d] = conn[d]
  BY <1>1
<1>3. ~(last < c)
  BY NoConnShape DEF ConnInv, Blank
<1>4. Similar(c)
  BY <1>2, <1>3 DEF Similar
<1>5. \A d \in Conns \ {c} : Similar(d)
  BY <1>2 DEF Similar, ConnInv
<1> QED BY <1>2, <1>4, <1>5

\* The rest of close() acts on what was taken.
LEMMA TypeTaken ==
    ASSUME TypeInv, NEW a \in Actors, Live, Release(a) \/ Shut(a) \/ Interrupt(a)
    PROVE  TypeInv'
<1> USE DEF TypeInv
<1>1. PICK to \in {"shut", "interrupt", job[a].then} :
          /\ job[a].at \in {"release", "shut", "interrupt"} /\ Goto(a, to)
          /\ UNCHANGED <<android, settings, map, last, looper, crashed>>
  BY DEF Release, Shut, Interrupt, OnTaken
<1>2. /\ job[a] \in JobSet /\ job \in [Actors -> JobSet] /\ job[a].at \in Closing
      /\ job[a].uid \in Uids /\ (job[a].then = "reset" => job[a].dev \in Devs)
      /\ \A l \in Kinds : /\ job[a].taken[l] \in Conns \cup {None}
                          /\ job[a].taken[l] # None => Made(job[a].taken[l])
  BY <1>1, Types DEF JobInv, JobOK, Closing, JobSet
<1>3. calm' \in BOOLEAN /\ registered
  BY <1>2 DEF Live, EarlyInv
<1>4. conn' \in [Conns -> ConnSet] /\ \A c \in Conns : Similar(c)
  <2>1. CASE conn' = conn
    BY <2>1, Types DEF Similar, ConnInv
  <2>2. ASSUME NEW c \in Conns, Made(c), conn' = [conn EXCEPT ![c].native = "released"]
        PROVE  conn' \in [Conns -> ConnSet] /\ \A d \in Conns : Similar(d)
    <3> DEFINE e == [conn[c] EXCEPT !.native = "released"]
    <3>1. conn[c] \in ConnSet /\ conn' = [conn EXCEPT ![c] = e]
      BY <2>2, Types
    <3>2. /\ e \in ConnSet /\ e.uid = conn[c].uid /\ e.dev = conn[c].dev /\ e.native = "released"
          /\ e.reader = conn[c].reader /\ e.interrupted = conn[c].interrupted
      BY <3>1 DEF ConnSet
    <3> HIDE DEF e
    <3>3. ~Blank(c) /\ conn[c].native # "none" /\ (e.reader = "ended" => e.interrupted)
      BY <2>2, <3>2 DEF Blank, Made, ConnInv
    <3> QED BY <3>1, <3>2, <3>3, OneConn
  <2>3. ASSUME NEW c \in Conns, Made(c), conn' = [conn EXCEPT ![c].port = "closed"]
        PROVE  conn' \in [Conns -> ConnSet] /\ \A d \in Conns : Similar(d)
    <3> DEFINE e == [conn[c] EXCEPT !.port = "closed"]
    <3>1. conn[c] \in ConnSet /\ conn' = [conn EXCEPT ![c] = e]
      BY <2>3, Types
    <3>2. /\ e \in ConnSet /\ e.uid = conn[c].uid /\ e.dev = conn[c].dev /\ e.native = conn[c].native
          /\ e.reader = conn[c].reader /\ e.interrupted = conn[c].interrupted
      BY <3>1 DEF ConnSet
    <3> HIDE DEF e
    <3>3. ~Blank(c) /\ (e.reader = "ended" => e.interrupted)
      BY <2>3, <3>2 DEF Blank, Made, ConnInv
    <3> QED BY <3>1, <3>2, <3>3, OneConn
  <2>4. ASSUME NEW c \in Conns, Made(c), conn' = [conn EXCEPT ![c].interrupted = TRUE]
        PROVE  conn' \in [Conns -> ConnSet] /\ \A d \in Conns : Similar(d)
    <3> DEFINE e == [conn[c] EXCEPT !.interrupted = TRUE]
    <3>1. conn[c] \in ConnSet /\ conn' = [conn EXCEPT ![c] = e]
      BY <2>4, Types
    <3>2. /\ e \in ConnSet /\ e.uid = conn[c].uid /\ e.dev = conn[c].dev /\ e.native = conn[c].native
          /\ e.reader = conn[c].reader /\ e.interrupted
      BY <3>1 DEF ConnSet
    <3> HIDE DEF e
    <3>3. ~Blank(c)
      BY <2>4 DEF Blank, Made
    <3> QED BY <3>1, <3>2, <3>3, OneConn
  <2>5. \A k \in {"native", "port", "thread"} : k \in Kinds
    BY DEF Kinds
  <2> QED
    BY <1>2, <2>1, <2>2, <2>3, <2>4, <2>5
       DEF Release, Shut, Interrupt, Released, Closed, Interrupted
<1>5. link' \in [Uids -> Conns \cup {None, Old}]
  BY Types, Zenon DEF Release, Shut, Interrupt, WithoutLink
<1>6. /\ job' \in [Actors -> JobSet] /\ \A b \in Actors \ {a} : job'[b] = job[b]
      /\ \/ job'[a].at \in {"next", "idle", "naming", "crash"}
         \/ job'[a].at = "reset" /\ job'[a].dev \in Devs
         \/ /\ job'[a].at \in {"shut", "interrupt"} /\ job'[a].uid = job[a].uid
            /\ job'[a].then = job[a].then /\ job'[a].dev = job[a].dev
            /\ job'[a].taken = job[a].taken
  <2>1. to \in {"shut", "interrupt", "next", "naming", "crash", "reset"} /\ to \in Phases
    BY <1>2 DEF JobSet, Phases, Outside
  <2>2. CASE to = "next"
    BY <1>1, <1>2, <2>1, <2>2, GotoShape
  <2>3. CASE to # "next"
    <3>1. /\ job' \in [Actors -> JobSet] /\ \A b \in Actors \ {a} : job'[b] = job[b]
          /\ job'[a].at = to /\ job'[a].dev = job[a].dev /\ job'[a].uid = job[a].uid
          /\ job'[a].then = job[a].then /\ job'[a].taken = job[a].taken
      BY <1>1, <1>2, <2>1, <2>3, GotoShape
    <3> QED BY <1>2, <2>1, <2>3, <3>1
  <2> QED BY <2>2, <2>3
<1>7. \A c \in Conns : Made(c)' <=> Made(c)
  BY <1>4, MadeKept
<1>8. JobOK(a)' /\ job'[a].at # "create"
  <2>1. CASE job'[a].at \in {"next", "idle", "naming", "crash"}
    BY <2>1, FreeJob
  <2>2. CASE job'[a].at = "reset" /\ job'[a].dev \in Devs
    BY <2>2 DEF JobOK, Putting, Closing
  <2>3. CASE /\ job'[a].at \in {"shut", "interrupt"} /\ job'[a].uid = job[a].uid
             /\ job'[a].then = job[a].then /\ job'[a].dev = job[a].dev
             /\ job'[a].taken = job[a].taken
    <3>1. ASSUME NEW l \in Kinds, job'[a].taken[l] # None PROVE Made(job[a].taken[l])'
      <4>1. PICK c \in Conns : c = job'[a].taken[l] /\ Made(c)
        BY <1>2, <2>3, <3>1
      <4>2. Made(c)'
        BY <1>7, <4>1
      <4> QED BY <4>1, <4>2 DEF Made
    <3> QED BY <1>2, <2>3, <3>1 DEF JobOK, Putting, Closing
  <2> QED BY <1>6, <2>1, <2>2, <2>3
<1>9. ConnInv' /\ JobInv' /\ QueueInv' /\ MapInv'
  BY <1>1, <1>4, <1>6, <1>8, StepKept DEF looper
<1>10. SmallType'
  BY <1>1, <1>3, <1>5, SmallTypes DEF SmallType, android, settings, looper
<1>11. TypeOK'
  BY <1>1, <1>4, <1>6, <1>10, Types, TypesNext
<1>12. EarlyInv'
  BY <1>1, <1>3 DEF EarlyInv, settings
<1> QED BY <1>9, <1>11, <1>12

\* A step after which one actor has another job, and nothing else that the
\* types depend on has changed.
LEMMA TypeJob ==
    ASSUME TypeInv, NEW a \in Actors, calm' \in BOOLEAN, SmallType', registered => registered',
           UNCHANGED <<map, conn, last, queue>>,
           job' \in [Actors -> JobSet], \A b \in Actors \ {a} : job'[b] = job[b],
           JobOK(a)', job'[a].at # "create",
           job'[a].at \in Closing \cup Putting => registered
    PROVE  TypeInv'
<1> USE DEF TypeInv
<1>1. \A c \in Conns : Similar(c)
  BY DEF Similar, ConnInv
<1>2. ConnInv' /\ JobInv' /\ MapInv' /\ QueueInv'
  BY <1>1, StepKept
<1>3. TypeOK'
  BY Types, TypesNext
<1>4. EarlyInv'
  BY DEF EarlyInv
<1> QED BY <1>2, <1>3, <1>4

LEMMA TypeInit ==
    ASSUME TypeInv, Live, init PROVE TypeInv'
<1> USE DEF TypeInv
<1>1. /\ job \in [Actors -> JobSet] /\ IO \in Actors
      /\ UNCHANGED <<android, naming, map, conn, last, looper, crashed>> /\ calm' \in BOOLEAN
      /\ registered' = TRUE /\ link' = [u \in Uids |-> None] /\ Goto(IO, "drivers")
  BY Types, Constants DEF init, Live, FilesAfterInit
<1>2. /\ job' \in [Actors -> JobSet] /\ \A b \in Actors \ {IO} : job'[b] = job[b]
      /\ job'[IO].at = "drivers"
  BY <1>1, GotoShape DEF Phases, Outside
<1>3. JobOK(IO)' /\ job'[IO].at \notin Closing \cup Putting \cup {"create"}
  BY <1>2, FreeJob DEF Closing, Putting
<1>4. SmallType'
  BY <1>1, SmallTypes DEF SmallType, android, looper
<1> QED BY <1>1, <1>2, <1>3, <1>4, TypeJob DEF looper

\* The setter of the naming preference, and the reset of a board.
LEMMA TypeCalls ==
    ASSUME TypeInv, Live, usbDeviceNaming \/ PutNaming \/ PostReset \/ ResetDue
                          \/ (\E u \in Uids : arduinoReset(u))
    PROVE  TypeInv'
<1> USE DEF TypeInv
<1>1. /\ job \in [Actors -> JobSet] /\ MAIN \in Actors /\ WEB \in Actors /\ calm' \in BOOLEAN
      /\ job[MAIN] \in JobSet /\ job[WEB] \in JobSet
  BY Types, Constants DEF Live
<1>2. CASE usbDeviceNaming
  <2>1. UNCHANGED <<android, settings, map, link, conn, last, looper, crashed>>
    BY <1>2 DEF usbDeviceNaming
  <2>2. SmallType'
    BY <1>1, <2>1, SmallTypes DEF SmallType, android, settings, looper
  <2>3. CASE Keys("port") = {} /\ Goto(MAIN, "naming")
    <3>1. /\ job' \in [Actors -> JobSet] /\ \A b \in Actors \ {MAIN} : job'[b] = job[b]
          /\ job'[MAIN].at = "naming"
      BY <1>1, <2>3, GotoShape DEF Phases, Outside
    <3>2. JobOK(MAIN)' /\ job'[MAIN].at \notin Closing \cup Putting \cup {"create"}
      BY <3>1, FreeJob DEF Closing, Putting
    <3> QED BY <1>1, <2>1, <2>2, <3>1, <3>2, TypeJob DEF looper, settings
  <2>4. CASE \E u \in Keys("port") : job' = [job EXCEPT ![MAIN] =
                 Close(u, IF Cardinality(Keys("port")) = 1 THEN "naming" ELSE "crash")]
    <3>1. PICK u \in Keys("port") : job' = [job EXCEPT ![MAIN] =
                 Close(u, IF Cardinality(Keys("port")) = 1 THEN "naming" ELSE "crash")]
      BY <2>4
    <3>2. PICK then \in {"next", "naming", "crash", "reset"} : job' = [job EXCEPT ![MAIN] = Close(u, then)]
                                               /\ then \in {"naming", "crash"}
      BY <3>1
    <3>3. u \in Uids /\ map["port"][u] # None /\ "port" \in Kinds
      BY DEF Keys, Kinds
    <3>4. /\ job' \in [Actors -> JobSet] /\ \A b \in Actors \ {MAIN} : job'[b] = job[b]
          /\ job'[MAIN].at = "rmNative" /\ job'[MAIN].uid = u /\ job'[MAIN].then # "reset"
          /\ \A k \in Kinds : job'[MAIN].taken[k] = None
      BY <1>1, <3>2, <3>3, CloseShape
    <3>5. JobOK(MAIN)' /\ job'[MAIN].at # "create"
      BY <3>3, <3>4 DEF JobOK, Putting, Closing
    <3>6. registered
      BY <3>3 DEF EarlyInv
    <3> QED BY <1>1, <2>1, <2>2, <3>4, <3>5, <3>6, TypeJob DEF looper, settings
  <2> QED BY <1>2, <2>3, <2>4 DEF usbDeviceNaming
<1>3. CASE PutNaming
  <2>1. /\ UNCHANGED <<android, registered, map, link, conn, last, looper, crashed>>
        /\ Goto(MAIN, "drivers") /\ naming' \in {"path", "model"}
    BY <1>3 DEF PutNaming, OtherNaming
  <2>2. SmallType'
    BY <1>1, <2>1, SmallTypes DEF SmallType, android, looper
  <2>3. /\ job' \in [Actors -> JobSet] /\ \A b \in Actors \ {MAIN} : job'[b] = job[b]
        /\ job'[MAIN].at = "drivers"
    BY <1>1, <2>1, GotoShape DEF Phases, Outside
  <2>4. JobOK(MAIN)' /\ job'[MAIN].at \notin Closing \cup Putting \cup {"create"}
    BY <2>3, FreeJob DEF Closing, Putting
  <2> QED BY <1>1, <2>1, <2>2, <2>3, <2>4, TypeJob DEF looper
<1>4. CASE PostReset
  <2>1. /\ UNCHANGED <<android, settings, map, link, conn, last, queue, crashed>>
        /\ Goto(WEB, "next") /\ delayed' = delayed \cup {job[WEB].dev} /\ job[WEB].dev \in Devs
    BY <1>1, <1>4 DEF PostReset, JobInv, JobOK
  <2>2. SmallType'
    BY <1>1, <2>1, SmallTypes DEF SmallType, android, settings
  <2>3. /\ job' \in [Actors -> JobSet] /\ \A b \in Actors \ {WEB} : job'[b] = job[b]
        /\ job'[WEB].at \in {"next", "idle"}
    BY <1>1, <2>1, GotoShape DEF Phases, Outside
  <2>4. JobOK(WEB)' /\ job'[WEB].at \notin Closing \cup Putting \cup {"create"}
    BY <2>3, FreeJob DEF Closing, Putting
  <2> QED BY <1>1, <2>1, <2>2, <2>3, <2>4, TypeJob DEF settings
<1>5. CASE ResetDue
  <2>1. /\ UNCHANGED <<android, settings, map, link, conn, last, queue, crashed>>
    BY <1>5 DEF ResetDue
  <2>2. PICK d \in delayed : /\ delayed' = delayed \ {d}
                             /\ job' = [job EXCEPT ![MAIN].at = "open", ![MAIN].dev = d]
    BY <1>5 DEF ResetDue
  <2>3. SmallType' /\ d \in Devs
    BY <1>1, <2>1, <2>2, SmallTypes DEF SmallType, android, settings
  <2> DEFINE j == [job[MAIN] EXCEPT !.at = "open", !.dev = d]
  <2>4. j \in JobSet /\ j.at = "open" /\ j.dev = d
    BY <1>1, <2>3 DEF JobSet, Phases, Outside
  <2>5. job' = [job EXCEPT ![MAIN] = j]
    BY <1>1, <2>2
  <2> HIDE DEF j
  <2>6. /\ job' \in [Actors -> JobSet] /\ \A b \in Actors \ {MAIN} : job'[b] = job[b]
        /\ job'[MAIN].at = "open" /\ job'[MAIN].dev = d
    BY <1>1, <2>4, <2>5
  <2>7. JobOK(MAIN)' /\ job'[MAIN].at \notin Closing \cup Putting \cup {"create"}
    BY <2>3, <2>6 DEF JobOK, Closing, Putting
  <2> QED BY <1>1, <2>1, <2>3, <2>6, <2>7, TypeJob DEF settings
<1>6. CASE \E u \in Uids : arduinoReset(u)
  <2>1. PICK u \in Uids : arduinoReset(u)
    BY <1>6
  <2>2. /\ UNCHANGED <<android, settings, map, link, conn, last, looper, crashed>>
        /\ map["port"][u] # None /\ "port" \in Kinds
        /\ job' = [job EXCEPT ![WEB] = [Close(u, "reset") EXCEPT !.dev = conn[map["port"][u]].dev]]
    BY <2>1 DEF arduinoReset, Kinds
  <2>3. SmallType'
    BY <1>1, <2>2, SmallTypes DEF SmallType, android, settings, looper
  <2>4. registered /\ conn[map["port"][u]].dev \in Devs
    BY <2>2 DEF EarlyInv, MapInv, Made
  <2>5. PICK s \in JobSet : s = Close(u, "reset") /\ s.at = "rmNative" /\ s.uid = u
                            /\ s.then = "reset" /\ \A k \in Kinds : s.taken[k] = None
    BY CloseShape
  <2> DEFINE j == [s EXCEPT !.dev = conn[map["port"][u]].dev]
  <2>6. /\ j \in JobSet /\ j.at = "rmNative" /\ j.uid = u /\ j.dev \in Devs
        /\ \A k \in Kinds : j.taken[k] = None
    BY <2>4, <2>5 DEF JobSet
  <2>7. job' = [job EXCEPT ![WEB] = j]
    BY <2>2, <2>5
  <2> HIDE DEF j
  <2>8. /\ job' \in [Actors -> JobSet] /\ \A b \in Actors \ {WEB} : job'[b] = job[b]
        /\ job'[WEB] = j
    BY <1>1, <2>6, <2>7
  <2>9. JobOK(WEB)' /\ job'[WEB].at # "create"
    BY <2>6, <2>8 DEF JobOK, Closing, Putting
  <2> QED BY <1>1, <2>2, <2>3, <2>4, <2>8, <2>9, TypeJob DEF settings, looper
<1> QED BY <1>2, <1>3, <1>4, <1>5, <1>6

\* A message of the main Looper.
LEMMA TypeDeliver ==
    ASSUME TypeInv, Live, Deliver PROVE TypeInv'
<1> USE DEF TypeInv
<1>1. /\ job \in [Actors -> JobSet] /\ MAIN \in Actors /\ calm' \in BOOLEAN /\ queue # <<>>
      /\ UNCHANGED <<android, settings, map, link, last, delayed, crashed>> /\ queue' = Tail(queue)
  BY Types, Constants DEF Deliver, Live
<1>2. queue \in Seq(MsgSet) /\ Len(queue) \in Nat /\ Len(queue) > 0
  BY <1>1, EmptySeq, LenProperties DEF QueueInv
<1>3. /\ queue' \in Seq(MsgSet) /\ Len(queue') = Len(queue) - 1
      /\ \A i \in 1..Len(queue') : queue'[i] = queue[i + 1]
  BY <1>1, <1>2, HeadTailProperties
<1>4. PICK msg \in MsgSet : msg = Head(queue) /\ msg = queue[1]
  BY <1>1, <1>2, HeadTailProperties
<1>5. SmallType' /\ registered
  BY <1>1, SmallTypes DEF SmallType, android, settings, EarlyInv
<1>6. /\ conn' \in [Conns -> ConnSet] /\ \A c \in Conns : Similar(c)
      /\ job' \in [Actors -> JobSet] /\ \A b \in Actors \ {MAIN} : job'[b] = job[b]
      /\ job'[MAIN] = job[MAIN] \/ (JobOK(MAIN)' /\ job'[MAIN].at # "create")
  <2>1. CASE msg[1] = "start"
    <3>1. msg[2] \in Conns /\ Made(msg[2])
      <4>1. 1 \in 1..Len(queue)
        BY <1>2
      <4> QED BY <1>4, <2>1, <4>1 DEF MsgSet, QueueInv
    <3>2. PICK c \in Conns : c = msg[2] /\ Made(c)
      BY <3>1
    <3>3. conn' = [conn EXCEPT ![c].reader = "test"] /\ job' = job
      BY <1>4, <2>1, <3>2 DEF Deliver
    <3> DEFINE e == [conn[c] EXCEPT !.reader = "test"]
    <3>4. conn[c] \in ConnSet /\ conn' = [conn EXCEPT ![c] = e]
      BY <3>3, Types
    <3>5. /\ e \in ConnSet /\ e.uid = conn[c].uid /\ e.dev = conn[c].dev /\ e.native = conn[c].native
          /\ e.reader = "test"
      BY <3>4 DEF ConnSet
    <3> HIDE DEF e
    <3>6. ~Blank(c) /\ conn[c].reader # "none"
      BY <3>2 DEF Blank, Made
    <3>7. conn' \in [Conns -> ConnSet] /\ \A d \in Conns : Similar(d)
      BY <3>4, <3>5, <3>6, OneConn
    <3> QED BY <1>1, <3>3, <3>7
  <2>2. CASE msg[1] # "start"
    <3>1. conn' = conn /\ job' = [job EXCEPT ![MAIN] = onReceive(msg)]
      BY <1>4, <2>2 DEF Deliver
    <3>2. msg[2] \in Devs
      BY <2>2 DEF MsgSet
    <3>3. \A c \in Conns : Similar(c)
      BY <3>1 DEF Similar, ConnInv
    <3>4. CASE msg[1] = "detached"
      <4>1. PICK u \in Uids : u = getUID(msg[2])
        BY <3>2, UidType
      <4>2. job' = [job EXCEPT ![MAIN] = Close(u, "next")]
        BY <3>1, <3>4, <4>1 DEF onReceive
      <4>3. /\ job' \in [Actors -> JobSet] /\ \A b \in Actors \ {MAIN} : job'[b] = job[b]
            /\ job'[MAIN].at = "rmNative" /\ job'[MAIN].uid = u /\ job'[MAIN].then = "next"
            /\ \A k \in Kinds : job'[MAIN].taken[k] = None
        BY <1>1, <4>2, CloseShape
      <4>4. JobOK(MAIN)' /\ job'[MAIN].at # "create"
        BY <4>3 DEF JobOK, Putting, Closing
      <4> QED BY <3>1, <3>3, <4>3, <4>4, Types
    <3>5. CASE msg[1] # "detached"
      <4> DEFINE j == [NoJob EXCEPT !.at = "open", !.dev = msg[2]]
      <4>1. j \in JobSet /\ j.at = "open" /\ j.dev = msg[2]
        BY <3>2 DEF NoJob, JobSet, Phases, Outside
      <4>2. PICK i \in JobSet : i \in {NoJob, j} /\ job' = [job EXCEPT ![MAIN] = i]
        BY <3>1, <3>5, <4>1, NoJobShape DEF onReceive
      <4> HIDE DEF j
      <4>3. /\ job' \in [Actors -> JobSet] /\ \A b \in Actors \ {MAIN} : job'[b] = job[b]
            /\ job'[MAIN] = i
        BY <1>1, <4>2
      <4>4. JobOK(MAIN)' /\ job'[MAIN].at # "create"
        BY <3>2, <4>1, <4>2, <4>3, NoJobShape DEF JobOK, Putting, Closing
      <4> QED BY <3>1, <3>3, <4>3, <4>4, Types
    <3> QED BY <3>4, <3>5
  <2> QED BY <2>1, <2>2
<1>7. ConnInv' /\ JobInv' /\ MapInv'
  BY <1>1, <1>6, StepKept
<1>8. QueueInv'
  <2> SUFFICES ASSUME NEW i \in 1..Len(queue'), queue'[i][1] = "start" PROVE Made(queue[i][2])'
    BY <1>3 DEF QueueInv
  <2>1. i + 1 \in 1..Len(queue) /\ queue'[i] = queue[i + 1]
    BY <1>2, <1>3
  <2>2. queue[i + 1] \in MsgSet /\ Made(queue[i + 1][2])
    BY <1>2, <2>1, ElementOfSeq DEF QueueInv
  <2>3. PICK c \in Conns : c = queue'[i][2] /\ Made(c)
    BY <2>1, <2>2 DEF MsgSet
  <2>4. Made(c)'
    BY <1>6, <2>3, MadeKept
  <2> QED BY <2>3, <2>4 DEF Made
<1>9. TypeOK'
  BY <1>1, <1>5, <1>6, Types, TypesNext
<1>10. EarlyInv'
  BY <1>1, <1>5 DEF EarlyInv, settings
<1> QED BY <1>7, <1>8, <1>9, <1>10

\* The read threads.
LEMMA TypeReads ==
    ASSUME TypeInv, Live, NEW c \in Conns,
           LoopTest(c) \/ ReadData(c) \/ ReadFails(c) \/ WriteNative(c) \/ Return(c)
           \/ HandleIOException(c)
    PROVE  TypeInv'
<1> USE DEF TypeInv
<1>1. PICK to \in {"test", "reading", "got", "failed", "closing", "ended"} :
          /\ conn[c].reader \notin {"none", "posted", "ended"}
          /\ conn' = [conn EXCEPT ![c].reader = to]
          /\ to = "ended" => conn[c].interrupted
          /\ UNCHANGED <<android, settings, map, link, last, looper>>
  BY DEF LoopTest, ReadData, ReadFails, WriteNative, Return, HandleIOException, Reads, LoopExit
<1>2. /\ crashed' \in BOOLEAN /\ calm' \in BOOLEAN
  BY SmallTypes DEF LoopTest, ReadData, ReadFails, WriteNative, Return, HandleIOException, Live,
                    SmallType
<1>3. job \in [Actors -> JobSet] /\ c \in Actors /\ conn[c] \in ConnSet
  BY Types, Constants
<1>4. Made(c) /\ ~Blank(c)
  BY <1>1 DEF ConnInv, Blank
<1>5. registered
  <2>1. c > 0
    BY Constants DEF Conns
  <2> QED BY <1>1, <2>1, NoConnShape DEF ConnInv, EarlyInv
<1>6. conn' \in [Conns -> ConnSet] /\ \A d \in Conns : Similar(d)
  <2> DEFINE e == [conn[c] EXCEPT !.reader = to]
  <2>1. conn' = [conn EXCEPT ![c] = e]
    BY <1>1, Types
  <2>2. /\ e \in ConnSet /\ e.uid = conn[c].uid /\ e.dev = conn[c].dev /\ e.native = conn[c].native
        /\ e.reader = to /\ e.interrupted = conn[c].interrupted
    BY <1>3 DEF ConnSet
  <2> HIDE DEF e
  <2> QED BY <1>1, <1>4, <2>1, <2>2, OneConn
<1>7. /\ job' \in [Actors -> JobSet] /\ \A b \in Actors \ {c} : job'[b] = job[b]
      /\ job'[c] = job[c] \/ (JobOK(c)' /\ job'[c].at # "create")
  <2>1. CASE job' = job
    BY <1>3, <2>1
  <2>2. CASE HandleIOException(c)
    <3>1. PICK u \in Uids : job' = [job EXCEPT ![c] = Close(u, "next")]
      BY <1>4, <2>2 DEF HandleIOException, Made
    <3>2. /\ job' \in [Actors -> JobSet] /\ \A b \in Actors \ {c} : job'[b] = job[b]
          /\ job'[c].at = "rmNative" /\ job'[c].uid = u /\ job'[c].then = "next"
          /\ \A k \in Kinds : job'[c].taken[k] = None
      BY <1>3, <3>1, CloseShape
    <3>3. JobOK(c)' /\ job'[c].at # "create"
      BY <3>2 DEF JobOK, Putting, Closing
    <3> QED BY <3>2, <3>3
  <2> QED BY <2>1, <2>2 DEF LoopTest, ReadData, ReadFails, WriteNative, Return
<1>8. ConnInv' /\ JobInv' /\ MapInv' /\ QueueInv'
  BY <1>1, <1>3, <1>6, <1>7, StepKept DEF looper
<1>9. SmallType'
  BY <1>1, <1>2, SmallTypes DEF SmallType, android, settings, looper
<1>10. TypeOK'
  BY <1>1, <1>6, <1>7, <1>9, Types, TypesNext
<1>11. EarlyInv'
  BY <1>1, <1>5 DEF EarlyInv, settings
<1> QED BY <1>8, <1>10, <1>11

\* What Android tells about devices.
LEMMA TellShape ==
    ASSUME TypeInv, NEW n \in Nat,
           NEW msgs \in [1..n -> {"attached", "detached", "connected"} \X Devs],
           Tell(msgs), \A c \in Conns : Similar(c)
    PROVE  QueueInv' /\ (~registered => queue' = queue)
<1> USE DEF TypeInv
<1>1. \A c \in Conns : Made(c) => Made(c)'
  BY MadeKept
<1>2. msgs \in Seq(MsgSet) /\ Len(msgs) = n /\ \A i \in 1..n : msgs[i][1] # "start"
  BY IsASeq DEF MsgSet
<1>3. queue \in Seq(MsgSet)
  BY DEF QueueInv
<1>4. CASE registered
  <2>1. queue' = queue \o msgs
    BY <1>4 DEF Tell
  <2>2. /\ queue' \in Seq(MsgSet) /\ Len(queue') = Len(queue) + Len(msgs)
        /\ \A i \in 1..(Len(queue) + Len(msgs)) :
              queue'[i] = IF i <= Len(queue) THEN queue[i] ELSE msgs[i - Len(queue)]
    BY <1>2, <1>3, <2>1, ConcatProperties
  <2>3. Len(queue) \in Nat
    BY <1>3, LenProperties
  <2>4. ASSUME NEW i \in 1..Len(queue'), queue'[i][1] = "start" PROVE Made(queue[i][2])'
    <3>1. i \in 1..Len(queue) /\ queue'[i] = queue[i]
      BY <1>2, <2>2, <2>3, <2>4
    <3>2. queue[i] \in MsgSet /\ Made(queue[i][2])
      BY <1>3, <2>4, <3>1, ElementOfSeq DEF QueueInv
    <3>3. PICK c \in Conns : c = queue'[i][2] /\ Made(c)
      BY <2>4, <3>1, <3>2 DEF MsgSet
    <3>4. Made(c)'
      BY <1>1, <3>3
    <3> QED BY <3>3, <3>4 DEF Made
  <2> QED BY <1>4, <2>2, <2>4 DEF QueueInv
<1>5. CASE ~registered
  <2>1. queue' = queue /\ queue = <<>>
    BY <1>5 DEF Tell, EarlyInv
  <2>2. Len(queue) = 0
    BY <2>1
  <2>3. \A i \in 1..Len(queue') : FALSE
    BY <2>1, <2>2
  <2>4. queue' \in Seq(MsgSet)
    BY <1>3, <2>1
  <2> QED BY <2>1, <2>3, <2>4 DEF QueueInv
<1> QED BY <1>4, <1>5

LEMMA OneMessage ==
    ASSUME NEW what \in {"attached", "detached", "connected"}, NEW d \in Devs
    PROVE  <<<<what, d>>>> \in [1..1 -> {"attached", "detached", "connected"} \X Devs]
<1> DEFINE S == {"attached", "detached", "connected"} \X Devs
           m == <<what, d>>
<1>1. m \in S
  OBVIOUS
<1> HIDE DEF S, m
<1>2. <<m>> \in Seq(S) /\ Len(<<m>>) = 1
  BY <1>1
<1>3. <<m>> \in [1..1 -> S]
  BY <1>2, LenProperties
<1> QED BY <1>3 DEF S, m

\* Devices come and go, the user answers, the activity announces them again.
LEMMA TypeWorld ==
    ASSUME TypeInv, Live,
           (\E d \in Devs : Attach(d) \/ Detach(d) \/ Answer(d)) \/ processIntent
    PROVE  TypeInv'
<1> USE DEF TypeInv
<1>1. /\ UNCHANGED <<settings, map, link, last, job, delayed, crashed>> /\ calm' \in BOOLEAN
      /\ MAIN \in Actors
  BY Constants DEF Attach, Detach, Answer, processIntent, Live
<1>2. SmallType
  BY SmallTypes
<1>3. /\ conn' \in [Conns -> ConnSet] /\ \A c \in Conns : Similar(c)
      /\ SmallType' /\ QueueInv' /\ (~registered => queue' = queue)
  <2>1. CASE conn' = conn
    <3>1. conn' \in [Conns -> ConnSet] /\ \A c \in Conns : Similar(c)
      BY <2>1, Types DEF Similar, ConnInv
    <3>2. QueueInv /\ (queue' = queue => QueueInv')
      BY <1>1, <3>1, StepKept
    <3>3. ASSUME NEW d \in Devs, Attach(d) PROVE SmallType' /\ QueueInv' /\ (~registered => queue' = queue)
      <4>1. SmallType'
        BY <1>1, <1>2, <3>3 DEF SmallType, settings, Attach
      <4>2. QueueInv' /\ (~registered => queue' = queue)
        BY <3>1, <3>3, OneMessage, TellShape DEF Attach
      <4> QED BY <4>1, <4>2
    <3>4. ASSUME NEW d \in Devs, Answer(d) PROVE SmallType' /\ QueueInv' /\ (~registered => queue' = queue)
      <4>1. SmallType'
        BY <1>1, <1>2, <3>4 DEF SmallType, settings, Answer
      <4>2. CASE Tell(<<<<"connected", d>>>>)
        BY <3>1, <4>1, <4>2, OneMessage, TellShape
      <4>3. CASE queue' = queue
        BY <3>2, <4>1, <4>3
      <4> QED BY <3>4, <4>2, <4>3 DEF Answer
    <3>5. ASSUME processIntent PROVE SmallType' /\ QueueInv' /\ (~registered => queue' = queue)
      <4>1. SmallType'
        BY <1>1, <1>2, <3>5 DEF SmallType, settings, processIntent
      <4>2. Cardinality(attached \cap perm) \in Nat
        BY <1>2, FS_Subset, FS_CardinalityType, UsbAssumption DEF SmallType
      <4>3. PICK n \in Nat : n = Cardinality(attached \cap perm)
        BY <4>2
      <4>4. PICK order \in [1..n -> attached \cap perm] :
                Tell([i \in DOMAIN order |-> <<"connected", order[i]>>])
        BY <3>5, <4>3 DEF processIntent
      <4>5. [i \in DOMAIN order |-> <<"connected", order[i]>>]
                \in [1..n -> {"attached", "detached", "connected"} \X Devs]
        BY <1>2, <4>4 DEF SmallType
      <4>6. QueueInv' /\ (~registered => queue' = queue)
        BY <3>1, <4>4, <4>5, TellShape
      <4> QED BY <4>1, <4>6
    <3>6. ASSUME NEW d \in Devs, Detach(d) PROVE SmallType' /\ QueueInv' /\ (~registered => queue' = queue)
      <4>1. SmallType'
        BY <1>1, <1>2, <3>6 DEF SmallType, settings, Detach
      <4>2. QueueInv' /\ (~registered => queue' = queue)
        BY <3>1, <3>6, OneMessage, TellShape DEF Detach
      <4> QED BY <4>1, <4>2
    <3> QED BY <3>1, <3>3, <3>4, <3>5, <3>6
  <2>2. ASSUME NEW d \in Devs, Detach(d)
        PROVE  /\ conn' \in [Conns -> ConnSet] /\ \A c \in Conns : Similar(c)
               /\ SmallType' /\ QueueInv' /\ (~registered => queue' = queue)
    <3>1. conn' = Lose(d)
      BY <2>2 DEF Detach
    <3>2. conn' \in [Conns -> ConnSet]
      BY <3>1, LoseShape
    <3>3. ASSUME NEW c \in Conns PROVE Similar(c)
      <4>1. last < c => conn'[c] = conn[c]
        BY <3>1, LoseShape, NoConnShape DEF ConnInv
      <4> QED BY <3>1, <4>1, LoseShape DEF Similar, ConnInv
    <3>4. SmallType'
      BY <1>1, <1>2, <2>2 DEF SmallType, settings, Detach
    <3>5. QueueInv' /\ (~registered => queue' = queue)
      BY <2>2, <3>3, OneMessage, TellShape DEF Detach
    <3> QED BY <3>2, <3>3, <3>4, <3>5
  <2> QED BY <2>1, <2>2 DEF Attach, Answer, processIntent
<1>4. ConnInv' /\ JobInv' /\ MapInv'
  BY <1>1, <1>3, StepKept
<1>5. TypeOK'
  BY <1>1, <1>3, Types, TypesNext
<1>6. EarlyInv'
  BY <1>1, <1>3 DEF EarlyInv, settings
<1> QED BY <1>3, <1>4, <1>5, <1>6

LEMMA TypeInitial == Init => TypeInv
<1> SUFFICES ASSUME Init PROVE TypeInv
  OBVIOUS
<1>1. TypeOK
  <2>1. conn \in [Conns -> ConnSet] /\ job \in [Actors -> JobSet]
    BY NoConnShape, NoJobShape DEF Init
  <2>2. last \in 0..MaxConns
    BY Constants DEF Init
  <2>3. map \in [Kinds -> [Uids -> Conns \cup {None}]] /\ link \in [Uids -> Conns \cup {None, Old}]
    BY DEF Init
  <2> QED BY <2>1, <2>2, <2>3 DEF TypeOK, Init, ConnSet, JobSet
<1>2. ConnInv
  BY NoConnShape DEF Init, ConnInv, Blank
<1>3. \A k \in Kinds, u \in Uids : map[k][u] = None
  BY DEF Init
<1>4. \A a \in Actors : job[a].at = "idle"
  BY NoJobShape DEF Init
<1>5. JobInv
  BY <1>4 DEF JobInv, JobOK, Putting, Closing
<1>6. QueueInv
  <2>1. queue = <<>> /\ Len(queue) = 0 /\ queue \in Seq(MsgSet)
    BY DEF Init
  <2> QED BY <2>1 DEF QueueInv
<1>7. EarlyInv
  BY <1>3, <1>4 DEF Init, EarlyInv, Putting, Closing
<1> QED BY <1>1, <1>2, <1>3, <1>5, <1>6, <1>7 DEF TypeInv, MapInv

LEMMA TypeCrash ==
    ASSUME TypeInv, Live, ConcurrentModification PROVE TypeInv'
<1> USE DEF TypeInv
<1>1. UNCHANGED <<android, settings, map, link, conn, last, job, looper>> /\ crashed' = TRUE
      /\ calm' \in BOOLEAN /\ MAIN \in Actors
  BY Constants DEF ConcurrentModification, Live
<1>2. \A c \in Conns : Similar(c)
  BY <1>1 DEF Similar, ConnInv
<1>3. ConnInv' /\ JobInv' /\ MapInv' /\ QueueInv'
  BY <1>1, <1>2, StepKept DEF looper
<1>4. TypeOK'
  BY <1>1 DEF TypeOK, android, settings, looper
<1>5. EarlyInv'
  BY <1>1 DEF EarlyInv, settings, looper
<1> QED BY <1>3, <1>4, <1>5

LEMMA TypeStep ==
    ASSUME TypeInv, [Next]_vars PROVE TypeInv'
<1>1. ASSUME NEW a \in Actors, JobStep(a), Live PROVE TypeInv'
  BY <1>1, TypeBetween, TypeOpen, TypeCreate, TypePut, TypeRemove, TypeTaken DEF JobStep
<1>2. CASE Main
  BY <1>1, <1>2, Constants, TypeCalls, TypeCrash, TypeDeliver DEF Main, MainStep
<1>3. CASE Io
  BY <1>1, <1>3, Constants, TypeInit DEF Io
<1>4. CASE Web
  BY <1>1, <1>4, Constants, TypeCalls DEF Web
<1>5. ASSUME NEW c \in Conns, Reader(c) PROVE TypeInv'
  BY <1>1, <1>5, Constants, TypeReads DEF Reader, ReaderStep
<1>6. CASE World /\ Live
  BY <1>6, TypeWorld, TypeCalls, TypeReads DEF World
<1>7. CASE UNCHANGED vars
  <2>1. UNCHANGED <<attached, perm, asked, registered, naming, map, link, conn, last, job, queue,
                    delayed, crashed, calm>>
    BY <1>7 DEF vars, android, settings, looper
  <2>2. TypeOK'
    BY <2>1 DEF TypeInv, TypeOK
  <2>3. \A c \in Conns : Made(c)' <=> Made(c)
    BY <2>1 DEF Made
  <2>4. \A c \in Conns : Similar(c)
    BY <2>1 DEF TypeInv, ConnInv, Similar
  <2>5. ConnInv' /\ JobInv' /\ MapInv' /\ QueueInv'
    BY <2>1, <2>4, StepKept, Constants
  <2>6. EarlyInv'
    BY <2>1 DEF TypeInv, EarlyInv
  <2> QED BY <2>2, <2>5, <2>6 DEF TypeInv
<1> QED BY <1>2, <1>3, <1>4, <1>5, <1>6, <1>7 DEF Next

\* What the actors, the maps and the messages refer to has been made, and nothing
\* is opened before init().
THEOREM TypeInvariance == Spec => []TypeInv
  BY TypeInitial, TypeStep, PTL DEF Spec

\* Every variable keeps its type, whatever connects, closes, reads and fails at
\* the same time; only devices that are there have permission.
THEOREM TypeCorrect == Spec => []TypeOK
<1>1. TypeInv => TypeOK
  BY DEF TypeInv
<1> QED BY <1>1, TypeInvariance, PTL

------------------------------------------------------------------------------
(* What the other steps do, field by field. *)

\* No connection is opened, made, released or interrupted.
Alike(c) == /\ conn'[c].uid = conn[c].uid /\ conn'[c].dev = conn[c].dev
            /\ conn'[c].native = conn[c].native /\ conn'[c].interrupted = conn[c].interrupted
            /\ conn'[c].reader = "none" <=> conn[c].reader = "none"

\* An actor goes on with its close().
Proceeds(a, to) ==
    /\ job'[a].at = to /\ job'[a].uid = job[a].uid /\ job'[a].then = job[a].then
    /\ job'[a].taken = job[a].taken
\* An actor begins a close().
Begins(a, u, then) ==
    /\ job'[a].at = "rmNative" /\ job'[a].uid = u /\ job'[a].then = then
    /\ \A k \in Kinds : job'[a].taken[k] = None

LEMMA ReleaseShape ==
    ASSUME TypeInv, NEW a \in Actors, Release(a)
    PROVE  /\ UNCHANGED <<android, settings, map, last, looper, crashed>>
           /\ job[a].at = "release" /\ job[a].uid \in Uids
           /\ job[a].taken["native"] \in Conns \cup {None}
           /\ \A b \in Actors \ {a} : job'[b] = job[b]
           /\ Proceeds(a, "shut") /\ link' = WithoutLink(job[a].taken["native"])
           /\ \A c \in Conns :
                /\ conn'[c].uid = conn[c].uid /\ conn'[c].dev = conn[c].dev
                /\ conn'[c].reader = conn[c].reader /\ conn'[c].interrupted = conn[c].interrupted
                /\ conn'[c].native = IF c = job[a].taken["native"] THEN "released"
                                     ELSE conn[c].native
<1> USE DEF TypeInv
<1>1. /\ UNCHANGED <<android, settings, map, last, looper, crashed>>
      /\ job[a].at = "release" /\ Goto(a, "shut") /\ link' = WithoutLink(job[a].taken["native"])
      /\ conn' = Released(job[a].taken["native"])
  BY DEF Release, OnTaken
<1>2. /\ job[a] \in JobSet /\ job \in [Actors -> JobSet] /\ job[a].uid \in Uids
      /\ job[a].taken["native"] \in Conns \cup {None}
  <2>1. job[a] \in JobSet /\ job \in [Actors -> JobSet] /\ "native" \in Kinds
    BY Types DEF Kinds
  <2> QED BY <1>1, <2>1 DEF JobInv, JobOK, Closing, JobSet
<1>3. Proceeds(a, "shut") /\ \A b \in Actors \ {a} : job'[b] = job[b]
  BY <1>1, <1>2, GotoShape DEF Phases, Proceeds
<1>4. ASSUME NEW c \in Conns
      PROVE  /\ conn'[c].uid = conn[c].uid /\ conn'[c].dev = conn[c].dev
             /\ conn'[c].reader = conn[c].reader /\ conn'[c].interrupted = conn[c].interrupted
             /\ conn'[c].native = IF c = job[a].taken["native"] THEN "released" ELSE conn[c].native
  <2>1. conn[c] \in ConnSet /\ conn \in [Conns -> ConnSet]
    BY Types
  <2>2. conn'[c] = IF c = job[a].taken["native"] THEN [conn[c] EXCEPT !.native = "released"] ELSE conn[c]
    BY <1>1, <1>2, <2>1, Constants DEF Released
  <2> QED BY <2>1, <2>2 DEF ConnSet
<1> QED BY <1>1, <1>2, <1>3, <1>4

LEMMA ShutShape ==
    ASSUME TypeInv, NEW a \in Actors, Shut(a)
    PROVE  /\ UNCHANGED <<android, settings, map, link, last, looper, crashed>>
           /\ job[a].at = "shut" /\ \A b \in Actors \ {a} : job'[b] = job[b]
           /\ Proceeds(a, "interrupt")
           /\ \A c \in Conns : Alike(c) /\ conn'[c].reader = conn[c].reader
<1> USE DEF TypeInv
<1>1. /\ UNCHANGED <<android, settings, map, link, last, looper, crashed>>
      /\ job[a].at = "shut" /\ Goto(a, "interrupt") /\ conn' = Closed(job[a].taken["port"])
  BY DEF Shut, OnTaken
<1>2. job[a] \in JobSet /\ job \in [Actors -> JobSet] /\ job[a].taken["port"] \in Conns \cup {None}
  <2>1. job[a] \in JobSet /\ job \in [Actors -> JobSet] /\ "port" \in Kinds
    BY Types DEF Kinds
  <2> QED BY <2>1 DEF JobSet
<1>3. Proceeds(a, "interrupt") /\ \A b \in Actors \ {a} : job'[b] = job[b]
  BY <1>1, <1>2, GotoShape DEF Phases, Proceeds
<1>4. ASSUME NEW c \in Conns PROVE Alike(c) /\ conn'[c].reader = conn[c].reader
  <2>1. conn[c] \in ConnSet /\ conn \in [Conns -> ConnSet]
    BY Types
  <2>2. conn'[c] = IF c = job[a].taken["port"] THEN [conn[c] EXCEPT !.port = "closed"] ELSE conn[c]
    BY <1>1, <1>2, <2>1, Constants DEF Closed
  <2> QED BY <2>1, <2>2 DEF ConnSet, Alike
<1> QED BY <1>1, <1>3, <1>4

LEMMA InterruptShape ==
    ASSUME TypeInv, NEW a \in Actors, Interrupt(a)
    PROVE  /\ UNCHANGED <<android, settings, map, link, last, looper, crashed>>
           /\ job[a].at = "interrupt" /\ \A b \in Actors \ {a} : job'[b] = job[b]
           /\ job'[a].at \in {"next", "idle", "crash", "reset", "naming"}
           /\ job'[a].at = "naming" => job[a].then = "naming"
           /\ \A c \in Conns :
                /\ conn'[c].uid = conn[c].uid /\ conn'[c].dev = conn[c].dev
                /\ conn'[c].reader = conn[c].reader /\ conn'[c].native = conn[c].native
                /\ conn'[c].interrupted =
                      (conn[c].interrupted \/ (c = job[a].taken["thread"] /\ Running(c)))
<1> USE DEF TypeInv
<1>1. /\ UNCHANGED <<android, settings, map, link, last, looper, crashed>>
      /\ job[a].at = "interrupt" /\ Goto(a, job[a].then)
      /\ conn' = Interrupted(job[a].taken["thread"])
  BY DEF Interrupt, OnTaken
<1>2. /\ job[a] \in JobSet /\ job \in [Actors -> JobSet]
      /\ job[a].taken["thread"] \in Conns \cup {None}
      /\ job[a].then \in {"next", "naming", "crash", "reset"} /\ job[a].then \in Phases
  <2>1. job[a] \in JobSet /\ job \in [Actors -> JobSet] /\ "thread" \in Kinds
    BY Types DEF Kinds
  <2>2. job[a].then \in {"next", "naming", "crash", "reset"}
    BY <2>1 DEF JobSet
  <2>3. job[a].then \in Phases
    BY <2>2 DEF Phases, Outside
  <2>4. job[a].taken["thread"] \in Conns \cup {None}
    BY <2>1 DEF JobSet
  <2> QED BY <2>1, <2>2, <2>3, <2>4
<1>3. PICK to \in Phases : to = job[a].then
  BY <1>2
<1>4. /\ \A b \in Actors \ {a} : job'[b] = job[b]
      /\ job'[a].at \in {"next", "idle", "crash", "reset", "naming"}
      /\ job'[a].at = "naming" => job[a].then = "naming"
  BY <1>1, <1>2, <1>3, GotoShape
<1>5. ASSUME NEW c \in Conns
      PROVE  /\ conn'[c].uid = conn[c].uid /\ conn'[c].dev = conn[c].dev
             /\ conn'[c].reader = conn[c].reader /\ conn'[c].native = conn[c].native
             /\ conn'[c].interrupted =
                   (conn[c].interrupted \/ (c = job[a].taken["thread"] /\ Running(c)))
  <2>1. conn[c] \in ConnSet /\ conn \in [Conns -> ConnSet] /\ conn[c].interrupted \in BOOLEAN
    BY Types DEF ConnSet
  <2>2. conn'[c] = IF c = job[a].taken["thread"] /\ Running(c)
                   THEN [conn[c] EXCEPT !.interrupted = TRUE] ELSE conn[c]
    BY <1>1, <1>2, <2>1, Constants DEF Interrupted
  <2>3. CASE c = job[a].taken["thread"] /\ Running(c)
    BY <2>1, <2>2, <2>3 DEF ConnSet
  <2>4. CASE ~(c = job[a].taken["thread"] /\ Running(c))
    BY <2>1, <2>2, <2>4
  <2> QED BY <2>3, <2>4
<1> QED BY <1>1, <1>4, <1>5

\* The calls of the main thread and of the web server's.
LEMMA CallShape ==
    ASSUME TypeInv, PostReset \/ ResetDue \/ (\E u \in Uids : arduinoReset(u))
    PROVE  /\ UNCHANGED <<android, settings, map, link, conn, last, queue>>
           /\ \E a \in {MAIN, WEB} :
                /\ job[a].at \in {"idle", "reset"} /\ \A b \in Actors \ {a} : job'[b] = job[b]
                /\ \/ job'[a].at \in {"next", "idle", "open"}
                   \/ \E u \in Uids : Begins(a, u, "reset")
<1> USE DEF TypeInv
<1>0. /\ job \in [Actors -> JobSet] /\ MAIN \in Actors /\ WEB \in Actors
      /\ job[MAIN] \in JobSet /\ job[WEB] \in JobSet
  BY Types, Constants
<1>1. UNCHANGED <<android, settings, map, link, conn, last, queue>>
  BY DEF PostReset, ResetDue, arduinoReset, looper
<1>2. CASE PostReset
  <2>1. /\ \A b \in Actors \ {WEB} : job'[b] = job[b]
        /\ job'[WEB].at \in {"next", "idle"} /\ job[WEB].at = "reset"
    BY <1>0, <1>2, GotoShape DEF PostReset, Phases, Outside
  <2> QED BY <1>1, <2>1
<1>3. CASE ResetDue
  <2>1. PICK d \in delayed : job' = [job EXCEPT ![MAIN].at = "open", ![MAIN].dev = d]
    BY <1>3 DEF ResetDue
  <2>2. job'[MAIN] = [job[MAIN] EXCEPT !.at = "open", !.dev = d] /\ \A b \in Actors \ {MAIN} : job'[b] = job[b]
    BY <1>0, <2>1
  <2>3. job'[MAIN].at = "open" /\ job[MAIN].at = "idle"
    BY <1>0, <1>3, <2>2 DEF JobSet, ResetDue
  <2> QED BY <1>1, <2>2, <2>3
<1>4. CASE \E u \in Uids : arduinoReset(u)
  <2>1. PICK u \in Uids : arduinoReset(u)
    BY <1>4
  <2>2. /\ job[WEB].at = "idle"
        /\ job' = [job EXCEPT ![WEB] = [Close(u, "reset") EXCEPT !.dev = conn[map["port"][u]].dev]]
    BY <2>1 DEF arduinoReset
  <2>3. PICK s \in JobSet : s = Close(u, "reset") /\ s.at = "rmNative" /\ s.uid = u
                            /\ s.then = "reset" /\ \A k \in Kinds : s.taken[k] = None
    BY CloseShape
  <2> DEFINE j == [s EXCEPT !.dev = conn[map["port"][u]].dev]
  <2>4. j.at = "rmNative" /\ j.uid = u /\ j.then = "reset" /\ \A k \in Kinds : j.taken[k] = None
    BY <2>3 DEF JobSet
  <2>5. job' = [job EXCEPT ![WEB] = j]
    BY <2>2, <2>3
  <2> HIDE DEF j
  <2>6. job'[WEB] = j /\ \A b \in Actors \ {WEB} : job'[b] = job[b]
    BY <1>0, <2>5
  <2>7. Begins(WEB, u, "reset")
    BY <2>4, <2>6 DEF Begins
  <2> QED BY <1>1, <2>2, <2>6, <2>7
<1> QED BY <1>2, <1>3, <1>4

LEMMA NamingShape ==
    ASSUME TypeInv, usbDeviceNaming
    PROVE  /\ UNCHANGED <<android, settings, map, link, conn, last, looper>>
           /\ job[MAIN].at = "idle" /\ \A b \in Actors \ {MAIN} : job'[b] = job[b]
           /\ \/ Keys("port") = {} /\ job'[MAIN].at = "naming"
              \/ \E u \in Keys("port"), then \in {"naming", "crash"} :
                    /\ Begins(MAIN, u, then)
                    /\ then = "naming" => Cardinality(Keys("port")) = 1
<1> USE DEF TypeInv
<1>0. job \in [Actors -> JobSet] /\ MAIN \in Actors
  BY Types, Constants
<1>1. UNCHANGED <<android, settings, map, link, conn, last, looper>> /\ job[MAIN].at = "idle"
  BY DEF usbDeviceNaming
<1>2. CASE Keys("port") = {} /\ Goto(MAIN, "naming")
  <2>1. \A b \in Actors \ {MAIN} : job'[b] = job[b] /\ job'[MAIN].at = "naming"
    BY <1>0, <1>2, GotoShape DEF Phases
  <2>2. job'[MAIN].at = "naming"
    BY <1>0, <1>2, GotoShape DEF Phases
  <2> QED BY <1>1, <1>2, <2>1, <2>2
<1>3. CASE \E u \in Keys("port") : job' = [job EXCEPT ![MAIN] =
               Close(u, IF Cardinality(Keys("port")) = 1 THEN "naming" ELSE "crash")]
  <2>1. PICK u \in Keys("port"), then \in {"naming", "crash"} :
            /\ job' = [job EXCEPT ![MAIN] = Close(u, then)]
            /\ then = "naming" => Cardinality(Keys("port")) = 1
    BY <1>3
  <2>2. u \in Uids /\ then \in {"next", "naming", "crash", "reset"}
    BY DEF Keys
  <2>3. Begins(MAIN, u, then) /\ \A b \in Actors \ {MAIN} : job'[b] = job[b]
    BY <1>0, <2>1, <2>2, CloseShape DEF Begins
  <2> QED BY <1>1, <2>1, <2>3
<1> QED BY <1>2, <1>3 DEF usbDeviceNaming

LEMMA PutNamingShape ==
    ASSUME TypeInv, PutNaming
    PROVE  /\ UNCHANGED <<android, registered, map, link, conn, last, looper>>
           /\ job[MAIN].at = "naming" /\ \A b \in Actors \ {MAIN} : job'[b] = job[b]
           /\ job'[MAIN].at = "drivers"
<1>1. job \in [Actors -> JobSet] /\ MAIN \in Actors
  BY Types, Constants DEF TypeInv
<1> QED BY <1>1, GotoShape DEF PutNaming, Phases, Outside

LEMMA InitShape ==
    ASSUME TypeInv, init
    PROVE  /\ UNCHANGED <<android, naming, map, conn, last, looper>> /\ registered' = TRUE
           /\ ~registered /\ job[IO].at = "idle" /\ \A b \in Actors \ {IO} : job'[b] = job[b]
           /\ job'[IO].at = "drivers" /\ link' = [u \in Uids |-> None]
<1>1. job \in [Actors -> JobSet] /\ IO \in Actors
  BY Types, Constants DEF TypeInv
<1> QED BY <1>1, GotoShape DEF init, Phases, Outside, FilesAfterInit

\* A message is taken from the queue.
LEMMA DeliverShape ==
    ASSUME TypeInv, Deliver
    PROVE  /\ UNCHANGED <<android, settings, map, link, last>> /\ job[MAIN].at = "idle"
           /\ \A b \in Actors \ {MAIN} : job'[b] = job[b]
           /\ queue \in Seq(MsgSet) /\ Len(queue) \in Nat /\ Len(queue) > 0
           /\ queue' \in Seq(MsgSet) /\ Len(queue') = Len(queue) - 1
           /\ \A i \in 1..Len(queue') : queue'[i] = queue[i + 1]
           /\ \/ \E c \in Conns :
                   /\ queue[1] = <<"start", c>> /\ Made(c) /\ job' = job
                   /\ \A d \in Conns : Alike(d)
                   /\ \A d \in Conns : conn'[d].reader = IF d = c THEN "test" ELSE conn[d].reader
              \/ /\ conn' = conn
                 /\ \E d \in Devs : queue[1] = <<"detached", d>> /\ Begins(MAIN, getUID(d), "next")
              \/ /\ conn' = conn
                 /\ queue[1][1] \in {"attached", "connected"} /\ job'[MAIN].at \in {"idle", "open"}
<1> USE DEF TypeInv
<1>1. /\ job \in [Actors -> JobSet] /\ MAIN \in Actors /\ queue # <<>> /\ job[MAIN].at = "idle"
      /\ UNCHANGED <<android, settings, map, link, last>> /\ queue' = Tail(queue)
  BY Types, Constants DEF Deliver
<1>2. queue \in Seq(MsgSet) /\ Len(queue) \in Nat /\ Len(queue) > 0
  BY <1>1, EmptySeq, LenProperties DEF QueueInv
<1>3. /\ queue' \in Seq(MsgSet) /\ Len(queue') = Len(queue) - 1
      /\ \A i \in 1..Len(queue') : queue'[i] = queue[i + 1]
  BY <1>1, <1>2, HeadTailProperties
<1>4. PICK msg \in MsgSet : msg = Head(queue) /\ msg = queue[1]
  BY <1>1, <1>2, HeadTailProperties
<1>5. CASE msg[1] = "start"
  <2>1. msg[2] \in Conns /\ Made(msg[2]) /\ msg = <<"start", msg[2]>>
    <3>1. 1 \in 1..Len(queue)
      BY <1>2
    <3>2. Made(msg[2])
      BY <1>4, <1>5, <3>1 DEF QueueInv
    <3> QED BY <1>4, <1>5, <3>2 DEF MsgSet
  <2>2. PICK c \in Conns : c = msg[2] /\ Made(c)
    BY <2>1
  <2>3. conn' = [conn EXCEPT ![c].reader = "test"] /\ job' = job
    BY <1>4, <1>5, <2>2 DEF Deliver
  <2>4. ASSUME NEW d \in Conns
        PROVE  Alike(d) /\ conn'[d].reader = IF d = c THEN "test" ELSE conn[d].reader
    <3>1. conn[d] \in ConnSet /\ conn \in [Conns -> ConnSet]
      BY Types
    <3>2. conn'[d] = IF d = c THEN [conn[d] EXCEPT !.reader = "test"] ELSE conn[d]
      BY <2>3, <3>1
    <3>3. conn[c].reader # "none"
      BY <2>2 DEF Made
    <3> QED BY <3>1, <3>2, <3>3 DEF ConnSet, Alike
  <2> QED BY <1>1, <1>2, <1>3, <1>4, <2>1, <2>2, <2>3, <2>4
<1>6. CASE msg[1] # "start"
  <2>1. conn' = conn /\ job' = [job EXCEPT ![MAIN] = onReceive(msg)]
    BY <1>4, <1>6 DEF Deliver
  <2>2. msg[2] \in Devs /\ msg[1] \in {"attached", "detached", "connected"} /\ msg = <<msg[1], msg[2]>>
    BY <1>6 DEF MsgSet
  <2>3. job'[MAIN] = onReceive(msg) /\ \A b \in Actors \ {MAIN} : job'[b] = job[b]
    BY <1>1, <2>1
  <2>4. CASE msg[1] = "detached"
    <3>1. job'[MAIN] = Close(getUID(msg[2]), "next") /\ getUID(msg[2]) \in Uids
      BY <2>2, <2>3, <2>4, UidType DEF onReceive
    <3>2. Begins(MAIN, getUID(msg[2]), "next")
      BY <3>1, CloseShape DEF Begins
    <3>3. queue[1] = <<"detached", msg[2]>>
      BY <1>4, <2>2, <2>4
    <3> QED BY <1>1, <1>2, <1>3, <2>1, <2>2, <2>3, <3>2, <3>3
  <2>5. CASE msg[1] # "detached"
    <3>1. job'[MAIN].at \in {"idle", "open"}
      BY <2>3, <2>5 DEF onReceive, NoJob
    <3> QED BY <1>1, <1>2, <1>3, <1>4, <2>1, <2>2, <2>3, <2>5, <3>1
  <2> QED BY <2>4, <2>5
<1> QED BY <1>5, <1>6

LEMMA ReadShape ==
    ASSUME TypeInv, NEW c \in Conns,
           LoopTest(c) \/ ReadData(c) \/ ReadFails(c) \/ WriteNative(c) \/ Return(c)
           \/ HandleIOException(c)
    PROVE  /\ UNCHANGED <<android, settings, map, link, last, looper>>
           /\ \A b \in Actors \ {c} : job'[b] = job[b]
           /\ \A d \in Conns : Alike(d)
           /\ \A d \in Conns \ {c} : conn'[d].reader = conn[d].reader
           /\ conn[c].reader \notin {"none", "posted", "ended"}
           /\ \/ job' = job /\ (job[c].at = "idle" \/ conn[c].reader # "closing")
              \/ /\ conn[c].reader = "failed" /\ conn'[c].reader = "closing"
                 /\ Begins(c, conn[c].uid, "next") /\ conn[c].uid \in Uids
<1> USE DEF TypeInv
<1>1. PICK to \in {"test", "reading", "got", "failed", "closing", "ended"} :
          /\ conn[c].reader \notin {"none", "posted", "ended"}
          /\ conn' = [conn EXCEPT ![c].reader = to]
          /\ UNCHANGED <<android, settings, map, link, last, looper>>
          /\ HandleIOException(c) => to = "closing" /\ conn[c].reader = "failed"
  BY DEF LoopTest, ReadData, ReadFails, WriteNative, Return, HandleIOException, Reads, LoopExit
<1>2. /\ conn \in [Conns -> ConnSet] /\ job \in [Actors -> JobSet] /\ c \in Actors
      /\ \A d \in Conns : conn[d] \in ConnSet
  BY Types, Constants
<1>3. ASSUME NEW d \in Conns
      PROVE  Alike(d) /\ conn'[d].reader = IF d = c THEN to ELSE conn[d].reader
  <2>1. conn'[d] = IF d = c THEN [conn[d] EXCEPT !.reader = to] ELSE conn[d]
    BY <1>1, <1>2
  <2>2. conn[d] \in ConnSet
    BY <1>2
  <2> QED BY <1>1, <2>1, <2>2 DEF ConnSet, Alike
<1>4. CASE HandleIOException(c)
  <2>1. conn[c].uid \in Uids /\ job' = [job EXCEPT ![c] = Close(conn[c].uid, "next")]
    <3>1. Made(c)
      BY <1>1 DEF ConnInv, Blank
    <3> QED BY <1>4, <3>1 DEF HandleIOException, Made
  <2>2. Begins(c, conn[c].uid, "next") /\ \A b \in Actors \ {c} : job'[b] = job[b]
    BY <1>2, <2>1, CloseShape DEF Begins
  <2> QED BY <1>1, <1>3, <1>4, <2>1, <2>2
<1>5. CASE ~HandleIOException(c)
  <2>1. job' = job /\ (job[c].at = "idle" \/ conn[c].reader # "closing")
    BY <1>5 DEF LoopTest, ReadData, ReadFails, WriteNative, Return, Reads
  <2> QED BY <1>1, <1>3, <2>1
<1> QED BY <1>4, <1>5

\* Android: messages are added to the queue, no entry is changed.
LEMMA WorldShape ==
    ASSUME TypeInv, (\E d \in Devs : Attach(d) \/ Detach(d) \/ Answer(d)) \/ processIntent
    PROVE  /\ UNCHANGED <<settings, map, link, last, job>>
           /\ \A c \in Conns : Alike(c) /\ conn'[c].reader = conn[c].reader
           /\ queue \in Seq(MsgSet) /\ Len(queue) \in Nat
           /\ Len(queue') \in Nat /\ Len(queue) <= Len(queue')
           /\ \A i \in 1..Len(queue) : queue'[i] = queue[i]
           /\ \A i \in 1..Len(queue') : Len(queue) < i => queue'[i][1] # "start"
           /\ \A d \in attached \ attached' : registered =>
                \E i \in 1..Len(queue') : queue'[i] = <<"detached", d>>
<1> USE DEF TypeInv
<1>1. UNCHANGED <<settings, map, link, last, job>>
  BY DEF Attach, Detach, Answer, processIntent
<1>2. queue \in Seq(MsgSet) /\ Len(queue) \in Nat /\ SmallType
  BY LenProperties, SmallTypes DEF QueueInv
<1>3. ASSUME NEW n \in Nat, NEW msgs \in [1..n -> {"attached", "detached", "connected"} \X Devs],
             Tell(msgs)
      PROVE  /\ Len(queue') \in Nat /\ Len(queue) <= Len(queue')
             /\ \A i \in 1..Len(queue) : queue'[i] = queue[i]
             /\ \A i \in 1..Len(queue') : Len(queue) < i => queue'[i][1] # "start"
             /\ registered => /\ Len(queue') = Len(queue) + n
                              /\ \A i \in 1..n : queue'[Len(queue) + i] = msgs[i]
  <2>1. CASE registered
    <3>1. msgs \in Seq(MsgSet) /\ Len(msgs) = n /\ \A i \in 1..n : msgs[i][1] # "start"
      BY IsASeq DEF MsgSet
    <3>2. queue' = queue \o msgs
      BY <1>3, <2>1 DEF Tell
    <3>3. /\ Len(queue') = Len(queue) + n
          /\ \A i \in 1..(Len(queue) + n) :
                queue'[i] = IF i <= Len(queue) THEN queue[i] ELSE msgs[i - Len(queue)]
      BY <1>2, <3>1, <3>2, ConcatProperties
    <3>4. \A i \in 1..Len(queue') : Len(queue) < i => queue'[i][1] # "start"
      BY <1>2, <3>1, <3>3
    <3>5. ASSUME NEW i \in 1..n PROVE queue'[Len(queue) + i] = msgs[i]
      <4>1. /\ Len(queue) + i \in 1..(Len(queue) + n) /\ ~(Len(queue) + i <= Len(queue))
            /\ Len(queue) + i - Len(queue) = i
        BY <1>2
      <4> QED BY <3>3, <4>1
    <3> QED BY <1>2, <3>3, <3>4, <3>5
  <2>2. CASE ~registered
    <3>1. queue' = queue
      BY <1>3, <2>2 DEF Tell
    <3> QED BY <1>2, <2>2, <3>1
  <2> QED BY <2>1, <2>2
<1>4. ASSUME NEW what \in {"attached", "detached", "connected"}, NEW d \in Devs,
             Tell(<<<<what, d>>>>)
      PROVE  /\ Len(queue') \in Nat /\ Len(queue) <= Len(queue')
             /\ \A i \in 1..Len(queue) : queue'[i] = queue[i]
             /\ \A i \in 1..Len(queue') : Len(queue) < i => queue'[i][1] # "start"
             /\ registered => \E i \in 1..Len(queue') : queue'[i] = <<what, d>>
  <2>1. PICK msgs \in [1..1 -> {"attached", "detached", "connected"} \X Devs] :
            msgs = <<<<what, d>>>> /\ msgs[1] = <<what, d>>
    BY OneMessage
  <2>2. 1 \in Nat /\ 1 \in 1..1 /\ Tell(msgs)
    BY <1>4, <2>1
  <2>3. /\ Len(queue') \in Nat /\ Len(queue) <= Len(queue')
        /\ \A i \in 1..Len(queue) : queue'[i] = queue[i]
        /\ \A i \in 1..Len(queue') : Len(queue) < i => queue'[i][1] # "start"
        /\ registered => Len(queue') = Len(queue) + 1 /\ queue'[Len(queue) + 1] = msgs[1]
    BY <1>3, <2>2
  <2>4. registered => Len(queue) + 1 \in 1..Len(queue')
    BY <1>2, <2>3
  <2> QED BY <2>1, <2>3, <2>4
<1>5. \A c \in Conns : Alike(c) /\ conn'[c].reader = conn[c].reader
  <2>1. CASE conn' = conn
    BY <2>1 DEF Alike
  <2>2. ASSUME NEW d \in Devs, Detach(d)
        PROVE  \A c \in Conns : Alike(c) /\ conn'[c].reader = conn[c].reader
    BY <2>2, LoseShape DEF Detach, Alike
  <2> QED BY <2>1, <2>2 DEF Attach, Answer, processIntent
<1>6. CASE \E d \in Devs : Attach(d)
  BY <1>1, <1>2, <1>4, <1>5, <1>6 DEF Attach
<1>7. CASE \E d \in Devs : Detach(d)
  BY <1>1, <1>2, <1>4, <1>5, <1>7 DEF Detach
<1>8. CASE \E d \in Devs : Answer(d)
  <2>1. PICK d \in Devs : Answer(d)
    BY <1>8
  <2>2. attached' = attached
    BY <2>1 DEF Answer
  <2>3. CASE Tell(<<<<"connected", d>>>>)
    BY <1>1, <1>2, <1>4, <1>5, <2>2, <2>3
  <2>4. CASE queue' = queue
    BY <1>1, <1>2, <1>5, <2>2, <2>4
  <2> QED BY <2>1, <2>3, <2>4 DEF Answer
<1>9. CASE processIntent
  <2>1. Cardinality(attached \cap perm) \in Nat
    BY <1>2, FS_Subset, FS_CardinalityType, UsbAssumption DEF SmallType
  <2>2. PICK n \in Nat : n = Cardinality(attached \cap perm)
    BY <2>1
  <2>3. PICK order \in [1..n -> attached \cap perm] :
            Tell([i \in DOMAIN order |-> <<"connected", order[i]>>])
    BY <1>9, <2>2 DEF processIntent
  <2>4. [i \in DOMAIN order |-> <<"connected", order[i]>>]
            \in [1..n -> {"attached", "detached", "connected"} \X Devs]
    BY <1>2, <2>3 DEF SmallType
  <2>5. attached' = attached
    BY <1>9 DEF processIntent
  <2>6. /\ Len(queue') \in Nat /\ Len(queue) <= Len(queue')
        /\ \A i \in 1..Len(queue) : queue'[i] = queue[i]
        /\ \A i \in 1..Len(queue') : Len(queue) < i => queue'[i][1] # "start"
    BY <1>3, <2>3, <2>4
  <2> QED BY <1>1, <1>2, <1>5, <2>5, <2>6
<1> QED BY <1>6, <1>7, <1>8, <1>9

------------------------------------------------------------------------------
(* Calls that come one at a time: what holds while nobody has met a state   *)
(* that is not orderly.                                                     *)

\* An actor is between the first and the last change of the maps and the file.
Busy(a) == job[a].at \in Putting \cup {"rmPort", "rmThread", "release"}

\* No actor is changing the entries of uid u; the three maps and the file agree on it.
Untouched(u) == \A a \in Actors : Busy(a) => job[a].uid # u
AgreeAt(u) == /\ map["native"][u] = map["port"][u] /\ map["port"][u] = map["thread"][u]
              /\ registered => link[u] = map["native"][u]
Agreement == \A u \in Uids : Untouched(u) => AgreeAt(u)

\* The entries of uid u are n, p and t, and its file leads to f.
Entries(u, n, p, t, f) ==
    map["native"][u] = n /\ map["port"][u] = p /\ map["thread"][u] = t /\ link[u] = f

\* How far connect() and close() have come is what the maps say.
Halfway(a) ==
    LET u == job[a].uid
        c == job[a].conn
        t == job[a].taken["native"]
    IN
    /\ job[a].at = "putNative" => Entries(u, None, None, None, c)
    /\ job[a].at = "putPort"   => Entries(u, c, None, None, c)
    /\ job[a].at = "putThread" => Entries(u, c, c, None, c)
    /\ job[a].at = "rmPort"    => Entries(u, None, t, t, t)
    /\ job[a].at = "rmThread"  => Entries(u, None, None, t, t)
    /\ job[a].at = "release"   => Entries(u, None, None, None, t)
Halves == \A a \in Actors : Halfway(a)

\* A connection is only ever under its own uid.
NamedRight ==
    /\ \A k \in Kinds, u \in Uids : map[k][u] # None => conn[map[k][u]].uid = u
    /\ \A a \in Actors :
        /\ job[a].at \in Putting => conn[job[a].conn].uid = job[a].uid
        /\ job[a].at \in Closing => \A k \in Kinds :
              job[a].taken[k] # None => conn[job[a].taken[k]].uid = job[a].uid

\* A live terminal is in the map or in the hands of one actor, and only such a one.
Bears(a, c) == \/ job[a].at = "putNative" /\ job[a].conn = c
               \/ job[a].at \in {"rmPort", "rmThread", "release"} /\ job[a].taken["native"] = c
LiveInv == \A c \in Conns : conn[c].native = "live" <=>
    (\E u \in Uids : map["native"][u] = c) \/ (\E a \in Actors : Bears(a, c))

\* A thread that will go on is in the map or in the hands of one actor.
Holds(a, c) ==
    \/ job[a].at \in Putting /\ job[a].conn = c
    \/ job[a].at \in {"release", "shut", "interrupt"} /\ job[a].taken["thread"] = c
ThreadInv == \A c \in Conns : conn[c].reader # "none" /\ ~conn[c].interrupted =>
    (\E u \in Uids : map["thread"][u] = c) \/ (\E a \in Actors : Holds(a, c))

\* A device is there, or the Looper has the message that it is gone.
News(d) == d \in attached \/ \E i \in 1..Len(queue) : queue[i] = <<"detached", d>>
\* An actor is going to take uid u out of the map of ports.
Removes(a, u) == job[a].at \in {"rmNative", "rmPort"} /\ job[a].uid = u
PortInv == \A u \in Uids : map["port"][u] # None =>
    LET d == conn[map["port"][u]].dev
    IN  u = getUID(d) /\ (News(d) \/ \E a \in Actors : Removes(a, u))
BringInv == \A a \in Actors :
    /\ job[a].at \in {"create"} \cup Putting => News(conn[job[a].conn].dev)
    /\ job[a].at \in Putting => job[a].uid = getUID(conn[job[a].conn].dev)
\* The naming changes once the map of ports is empty.
NamingInv == \A a \in Actors :
    /\ job[a].at \in Closing /\ job[a].then = "naming" =>
          \A u \in Uids \ {job[a].uid} : map["port"][u] = None
    /\ \/ job[a].at = "naming"
       \/ job[a].at \in Closing \ {"rmNative", "rmPort"} /\ job[a].then = "naming"
       => \A u \in Uids : map["port"][u] = None

Calmness == /\ Orderly /\ Agreement /\ Halves /\ NamedRight /\ LiveInv /\ ThreadInv
            /\ PortInv /\ BringInv /\ NamingInv
CalmInv == calm => Calmness

\* A read thread has a job only while it handles its exception, and it is
\* started by one message.
LoopInv ==
    /\ \A c \in Conns : job[c].at # "idle" => conn[c].reader = "closing"
    /\ \A i \in 1..Len(queue) : queue[i][1] = "start" => conn[queue[i][2]].reader = "posted"
    /\ \A i, j \in 1..Len(queue) : queue[i][1] = "start" /\ queue[i] = queue[j] => i = j

------------------------------------------------------------------------------
(* The read threads and the messages that start them. *)

LEMMA LoopKept ==
    ASSUME LoopInv, queue' = queue, \A c \in Conns : conn'[c].reader = conn[c].reader,
           QueueInv, NEW a \in Actors, \A b \in Actors \ {a} : job'[b] = job[b],
           a \notin Conns \/ job[a].at # "idle" \/ job' = job
    PROVE  LoopInv'
<1>1. \A c \in Conns : job'[c].at # "idle" => conn'[c].reader = "closing"
  BY Constants DEF LoopInv
<1>2. ASSUME NEW i \in 1..Len(queue'), queue'[i][1] = "start" PROVE conn'[queue'[i][2]].reader = "posted"
  <2>1. queue[i] \in MsgSet
    BY ElementOfSeq DEF QueueInv
  <2>2. queue[i][2] \in Conns
    BY <1>2, <2>1 DEF MsgSet
  <2> QED BY <1>2, <2>2 DEF LoopInv
<1> QED BY <1>1, <1>2 DEF LoopInv

\* The steps of a call, but for the creation of the terminal.
LEMMA LoopJob ==
    ASSUME TypeInv, LoopInv, NEW a \in Actors, JobStep(a), ~Create(a) PROVE LoopInv'
<1> USE DEF TypeInv
<1>1. CASE Drivers(a) \/ NextDriver(a) \/ Ask(a)
  BY <1>1, BetweenShape, LoopKept DEF looper
<1>2. CASE Open(a)
  <2>1. queue' = queue /\ job[a].at # "idle" /\ \A b \in Actors \ {a} : job'[b] = job[b]
    BY <1>2, OpenShape DEF looper
  <2>2. \A c \in Conns : conn'[c].reader = conn[c].reader
    <3>1. CASE conn' = conn
      BY <3>1
    <3>2. CASE \E n \in Conns : Fresh(n, a)
      BY <3>2, LoseShape, NoConnShape DEF Fresh
    <3> QED BY <1>2, <3>1, <3>2, OpenShape
  <2> QED BY <2>1, <2>2, LoopKept
<1>3. CASE PutNative(a) \/ PutPort(a) \/ PutThread(a)
  <2>1. PICK k \in Kinds, from \in Putting, to \in Putting \cup {"next"} : Put(a, k, from, to)
    BY <1>3 DEF PutNative, PutPort, PutThread, Kinds, Putting
  <2>2. /\ UNCHANGED <<conn, looper>> /\ job[a].at = from
        /\ \A b \in Actors \ {a} : job'[b] = job[b]
    BY <2>1, PutShape
  <2> QED BY <2>2, LoopKept DEF looper, Putting
<1>4. CASE RemoveNative(a) \/ RemovePort(a) \/ RemoveThread(a)
  <2>1. PICK k \in Kinds, from \in Closing, to \in Closing : Remove(a, k, from, to)
    BY <1>4 DEF RemoveNative, RemovePort, RemoveThread, Kinds, Closing
  <2>2. /\ UNCHANGED <<conn, looper>> /\ job[a].at = from
        /\ \A b \in Actors \ {a} : job'[b] = job[b]
    BY <2>1, RemoveShape
  <2> QED BY <2>2, LoopKept DEF looper, Closing
<1>5. CASE Release(a)
  BY <1>5, ReleaseShape, LoopKept DEF looper
<1>6. CASE Shut(a)
  BY <1>6, ShutShape, LoopKept DEF looper
<1>7. CASE Interrupt(a)
  BY <1>7, InterruptShape, LoopKept DEF looper
<1> QED BY <1>1, <1>2, <1>3, <1>4, <1>5, <1>6, <1>7 DEF JobStep

LEMMA LoopCreate ==
    ASSUME TypeInv, LoopInv, NEW a \in Actors, Create(a) PROVE LoopInv'
<1> USE DEF TypeInv
<1>1. PICK c \in Conns, u \in Uids : Making(c, u, a)
  BY CreateShape
<1>2. /\ conn[c].reader = "none" /\ ~Made(c) /\ job[a].at = "create" /\ conn'[c].reader = "posted"
      /\ \A b \in Actors \ {a} : job'[b] = job[b]
      /\ \A d \in Conns \ {c} : conn'[d] = conn[d]
  BY <1>1, CreateShape DEF Making, Blank, Made
<1>3. \A d \in Conns : job'[d].at # "idle" => conn'[d].reader = "closing"
  BY <1>2, Constants DEF LoopInv
<1>4. /\ queue \in Seq(MsgSet) /\ Len(queue) \in Nat /\ queue' = Append(queue, <<"start", c>>)
      /\ \A i \in 1..Len(queue) : queue[i] \in MsgSet
  BY <1>1, LenProperties, ElementOfSeq DEF Making, QueueInv
<1>5. /\ Len(queue') = Len(queue) + 1
      /\ \A i \in 1..(Len(queue) + 1) :
            queue'[i] = IF i <= Len(queue) THEN queue[i] ELSE <<"start", c>>
  BY <1>4
<1>6. ASSUME NEW i \in 1..Len(queue), queue[i][1] = "start"
      PROVE  queue[i][2] \in Conns \ {c} /\ conn'[queue[i][2]].reader = "posted"
  <2>1. queue[i][2] \in Conns /\ Made(queue[i][2]) /\ conn[queue[i][2]].reader = "posted"
    BY <1>4, <1>6 DEF MsgSet, QueueInv, LoopInv
  <2> QED BY <1>2, <2>1
<1>7. ASSUME NEW i \in 1..Len(queue'), queue'[i][1] = "start"
      PROVE  conn'[queue'[i][2]].reader = "posted"
  <2>1. CASE i <= Len(queue)
    <3>1. i \in 1..Len(queue) /\ queue'[i] = queue[i]
      BY <1>4, <1>5, <2>1
    <3> QED BY <1>6, <1>7, <3>1
  <2>2. CASE ~(i <= Len(queue))
    <3>1. queue'[i] = <<"start", c>>
      BY <1>4, <1>5, <2>2
    <3> QED BY <1>2, <3>1
  <2> QED BY <2>1, <2>2
<1>8. ASSUME NEW i \in 1..Len(queue'), NEW j \in 1..Len(queue'), queue'[i][1] = "start",
             queue'[i] = queue'[j]
      PROVE  i = j
  <2>0. <<"start", c>>[1] = "start" /\ <<"start", c>>[2] = c
    OBVIOUS
  <2>1. CASE i <= Len(queue) /\ j <= Len(queue)
    <3>1. /\ i \in 1..Len(queue) /\ queue'[i] = queue[i]
          /\ j \in 1..Len(queue) /\ queue'[j] = queue[j]
      BY <1>4, <1>5, <2>1
    <3> QED BY <1>8, <3>1 DEF LoopInv
  <2>2. CASE i <= Len(queue) /\ ~(j <= Len(queue))
    <3>1. i \in 1..Len(queue) /\ j \in 1..(Len(queue) + 1)
      BY <1>4, <1>5, <2>2
    <3>2. queue'[i] = queue[i] /\ queue'[j] = <<"start", c>>
      BY <1>4, <1>5, <2>2, <3>1
    <3> QED BY <1>6, <1>8, <2>0, <3>1, <3>2
  <2>3. CASE ~(i <= Len(queue)) /\ j <= Len(queue)
    <3>1. j \in 1..Len(queue) /\ i \in 1..(Len(queue) + 1)
      BY <1>4, <1>5, <2>3
    <3>2. queue'[j] = queue[j] /\ queue'[i] = <<"start", c>>
      BY <1>4, <1>5, <2>3, <3>1
    <3> QED BY <1>6, <1>8, <2>0, <3>1, <3>2
  <2>4. CASE ~(i <= Len(queue)) /\ ~(j <= Len(queue))
    BY <1>4, <1>5, <2>4
  <2> QED BY <2>1, <2>2, <2>3, <2>4
<1> QED BY <1>3, <1>7, <1>8 DEF LoopInv

LEMMA LoopDeliver ==
    ASSUME TypeInv, LoopInv, Deliver PROVE LoopInv'
<1> USE DEF TypeInv
<1>1. /\ \A b \in Actors \ {MAIN} : job'[b] = job[b]
      /\ queue \in Seq(MsgSet) /\ Len(queue) \in Nat /\ Len(queue) > 0
      /\ Len(queue') = Len(queue) - 1
      /\ \A i \in 1..Len(queue') : queue'[i] = queue[i + 1]
  BY DeliverShape
<1>2. 1 \in 1..Len(queue) /\ \A i \in 1..Len(queue') : i + 1 \in 1..Len(queue) /\ i + 1 # 1
  BY <1>1
<1>3. PICK S \in SUBSET Conns :
          /\ \A c \in S : queue[1] = <<"start", c>> /\ conn[c].reader = "posted"
          /\ \A c \in Conns \ S : conn'[c].reader = conn[c].reader
  <2>1. CASE conn' = conn
    <3>1. {} \in SUBSET Conns
      OBVIOUS
    <3> QED BY <2>1, <3>1
  <2>2. CASE \E c \in Conns :
                   /\ queue[1] = <<"start", c>>
                   /\ \A d \in Conns : conn'[d].reader = IF d = c THEN "test" ELSE conn[d].reader
    <3>1. PICK c \in Conns :
                   /\ queue[1] = <<"start", c>>
                   /\ \A d \in Conns : conn'[d].reader = IF d = c THEN "test" ELSE conn[d].reader
      BY <2>2
    <3>2. conn[c].reader = "posted"
      <4>1. queue[1][1] = "start" /\ queue[1][2] = c
        BY <3>1
      <4> QED BY <1>2, <4>1 DEF LoopInv
    <3>3. {c} \in SUBSET Conns
      OBVIOUS
    <3> QED BY <3>1, <3>2, <3>3
  <2>3. \/ conn' = conn
        \/ \E c \in Conns :
                   /\ queue[1] = <<"start", c>>
                   /\ \A d \in Conns : conn'[d].reader = IF d = c THEN "test" ELSE conn[d].reader
    BY DeliverShape
  <2> QED BY <2>1, <2>2, <2>3
<1>4. \A c \in Conns : job'[c].at # "idle" => conn'[c].reader = "closing"
  <2>1. \A c \in Conns : job'[c] = job[c]
    BY <1>1, Constants
  <2> QED BY <1>3, <2>1 DEF LoopInv
<1>5. ASSUME NEW i \in 1..Len(queue'), queue'[i][1] = "start"
      PROVE  conn'[queue'[i][2]].reader = "posted"
  <2>1. queue'[i] = queue[i + 1] /\ i + 1 \in 1..Len(queue) /\ i + 1 # 1
    BY <1>1, <1>2
  <2>2. queue[i + 1] \in MsgSet /\ conn[queue[i + 1][2]].reader = "posted"
    BY <1>1, <1>5, <2>1, ElementOfSeq DEF LoopInv
  <2>3. PICK c \in Conns : queue[i + 1] = <<"start", c>> /\ queue[i + 1][2] = c
    BY <1>5, <2>1, <2>2 DEF MsgSet
  <2>4. c \notin S
    BY <1>2, <1>3, <1>5, <2>1, <2>3 DEF LoopInv
  <2> QED BY <1>3, <2>1, <2>2, <2>3, <2>4
<1>6. ASSUME NEW i \in 1..Len(queue'), NEW j \in 1..Len(queue'), queue'[i][1] = "start",
             queue'[i] = queue'[j]
      PROVE  i = j
  <2>0. /\ i + 1 \in 1..Len(queue) /\ j + 1 \in 1..Len(queue)
        /\ queue[i + 1][1] = "start" /\ queue[i + 1] = queue[j + 1]
    BY <1>1, <1>2, <1>6
  <2>1. i + 1 = j + 1
    BY <2>0 DEF LoopInv
  <2> QED BY <1>1, <2>1
<1> QED BY <1>4, <1>5, <1>6 DEF LoopInv

LEMMA LoopRead ==
    ASSUME TypeInv, LoopInv, NEW c \in Conns,
           LoopTest(c) \/ ReadData(c) \/ ReadFails(c) \/ WriteNative(c) \/ Return(c)
           \/ HandleIOException(c)
    PROVE  LoopInv'
<1> USE DEF TypeInv
<1>1. /\ queue' = queue /\ \A b \in Actors \ {c} : job'[b] = job[b]
      /\ \A d \in Conns \ {c} : conn'[d].reader = conn[d].reader
      /\ conn[c].reader \notin {"none", "posted", "ended"}
      /\ \/ job' = job /\ (job[c].at = "idle" \/ conn[c].reader # "closing")
         \/ conn[c].reader = "failed" /\ conn'[c].reader = "closing"
  BY ReadShape DEF looper
<1>2. \A d \in Conns : job'[d].at # "idle" => conn'[d].reader = "closing"
  BY <1>1, Constants DEF LoopInv
<1>3. ASSUME NEW i \in 1..Len(queue), queue[i][1] = "start"
      PROVE  conn'[queue[i][2]].reader = "posted"
  <2>1. queue[i] \in MsgSet /\ conn[queue[i][2]].reader = "posted"
    BY <1>3, ElementOfSeq DEF LoopInv, QueueInv
  <2>2. queue[i][2] \in Conns
    BY <1>3, <2>1 DEF MsgSet
  <2> QED BY <1>1, <2>1, <2>2
<1> QED BY <1>1, <1>2, <1>3 DEF LoopInv

LEMMA LoopWorld ==
    ASSUME TypeInv, LoopInv,
           (\E d \in Devs : Attach(d) \/ Detach(d) \/ Answer(d)) \/ processIntent
    PROVE  LoopInv'
<1> USE DEF TypeInv
<1>1. /\ job' = job /\ \A c \in Conns : conn'[c].reader = conn[c].reader
      /\ queue \in Seq(MsgSet) /\ Len(queue) \in Nat
      /\ Len(queue') \in Nat /\ Len(queue) <= Len(queue')
      /\ \A i \in 1..Len(queue) : queue'[i] = queue[i]
      /\ \A i \in 1..Len(queue') : Len(queue) < i => queue'[i][1] # "start"
  BY WorldShape
<1>2. \A d \in Conns : job'[d].at # "idle" => conn'[d].reader = "closing"
  BY <1>1 DEF LoopInv
<1>3. ASSUME NEW i \in 1..Len(queue'), queue'[i][1] = "start"
      PROVE  /\ i \in 1..Len(queue) /\ queue'[i] = queue[i]
             /\ conn'[queue'[i][2]].reader = "posted"
  <2>1. i \in 1..Len(queue) /\ queue'[i] = queue[i]
    BY <1>1, <1>3
  <2>2. queue[i] \in MsgSet /\ conn[queue[i][2]].reader = "posted"
    BY <1>1, <1>3, <2>1, ElementOfSeq DEF LoopInv
  <2>3. queue[i][2] \in Conns
    BY <1>3, <2>1, <2>2 DEF MsgSet
  <2> QED BY <1>1, <2>1, <2>2, <2>3
<1>4. ASSUME NEW i \in 1..Len(queue'), NEW j \in 1..Len(queue'), queue'[i][1] = "start",
             queue'[i] = queue'[j]
      PROVE  i = j
  BY <1>3, <1>4 DEF LoopInv
<1> QED BY <1>2, <1>3, <1>4 DEF LoopInv

LEMMA LoopStep ==
    ASSUME TypeInv, LoopInv, [Next]_vars PROVE LoopInv'
<1> USE DEF TypeInv
<1>0. MAIN \in Actors /\ IO \in Actors /\ WEB \in Actors /\ Conns \subseteq Actors
      /\ MAIN \notin Conns /\ IO \notin Conns /\ WEB \notin Conns
  BY Constants
<1>1. ASSUME NEW a \in Actors, JobStep(a) PROVE LoopInv'
  BY <1>1, LoopJob, LoopCreate
<1>2. CASE PutNaming
  BY <1>0, <1>2, PutNamingShape, LoopKept DEF looper
<1>3. CASE usbDeviceNaming
  BY <1>0, <1>3, NamingShape, LoopKept DEF looper
<1>4. CASE init
  BY <1>0, <1>4, InitShape, LoopKept DEF looper
<1>5. CASE PostReset \/ ResetDue \/ \E u \in Uids : arduinoReset(u)
  <2>1. PICK a \in {MAIN, WEB} : \A b \in Actors \ {a} : job'[b] = job[b]
    BY <1>5, CallShape
  <2> QED BY <1>0, <1>5, <2>1, CallShape, LoopKept
<1>6. CASE ConcurrentModification \/ UNCHANGED vars
  BY <1>0, <1>6, LoopKept DEF ConcurrentModification, vars, looper
<1>7. CASE Main
  BY <1>0, <1>1, <1>2, <1>5, <1>6, <1>7, LoopDeliver DEF Main, MainStep
<1>8. CASE Io \/ Web
  BY <1>0, <1>1, <1>4, <1>5, <1>8 DEF Io, Web
<1>9. ASSUME NEW c \in Conns, Reader(c) PROVE LoopInv'
  BY <1>0, <1>1, <1>9, LoopRead DEF Reader, ReaderStep
<1>10. CASE World
  BY <1>3, <1>5, <1>10, LoopRead, LoopWorld DEF World
<1> QED BY <1>6, <1>7, <1>8, <1>9, <1>10 DEF Next

LEMMA LoopInitial == Init => LoopInv
<1> SUFFICES ASSUME Init PROVE LoopInv
  OBVIOUS
<1>1. \A c \in Conns : job[c].at = "idle"
  BY NoJobShape, Constants DEF Init
<1>2. queue = <<>> /\ Len(queue) = 0
  BY DEF Init
<1> QED BY <1>1, <1>2 DEF LoopInv

------------------------------------------------------------------------------
(* What steps that change little keep. *)

LEMMA InsideIs ==
    ASSUME TypeInv, NEW a \in Actors
    PROVE  Inside(a) <=> job[a].at \in Putting \cup Closing \cup {"create", "naming"}
<1>1. job[a].at \in Phases
  BY Types DEF TypeInv, JobSet
<1> QED BY <1>1 DEF Phases, Inside, Putting, Closing, Outside

\* An actor that is not inside a call has nothing in its hands.
LEMMA Idle ==
    ASSUME NEW a, ~Inside(a)
    PROVE  /\ ~Busy(a) /\ (\A c : ~Bears(a, c) /\ ~Holds(a, c)) /\ (\A u : ~Removes(a, u))
           /\ job[a].at \notin Putting \cup Closing \cup {"create", "naming"}
  BY DEF Inside, Busy, Bears, Holds, Removes, Putting, Closing, Outside

\* While an actor is inside a call, the others are not.
LEMMA Alone ==
    ASSUME Orderly, NEW a \in Actors, Inside(a), \A b \in Actors \ {a} : job'[b] = job[b]
    PROVE  \A b \in Actors \ {a} :
             /\ ~Busy(b) /\ (\A c : ~Bears(b, c) /\ ~Holds(b, c)) /\ (\A u : ~Removes(b, u))
             /\ job[b].at \notin Putting \cup Closing \cup {"create", "naming"}
             /\ ~Busy(b)' /\ (\A c : ~Bears(b, c)' /\ ~Holds(b, c)') /\ (\A u : ~Removes(b, u)')
             /\ job'[b].at \notin Putting \cup Closing \cup {"create", "naming"}
<1> SUFFICES ASSUME NEW b \in Actors \ {a}
             PROVE  /\ ~Busy(b) /\ (\A c : ~Bears(b, c) /\ ~Holds(b, c)) /\ (\A u : ~Removes(b, u))
                    /\ job[b].at \notin Putting \cup Closing \cup {"create", "naming"}
                    /\ ~Busy(b)' /\ (\A c : ~Bears(b, c)' /\ ~Holds(b, c)') /\ (\A u : ~Removes(b, u)')
                    /\ job'[b].at \notin Putting \cup Closing \cup {"create", "naming"}
  OBVIOUS
<1>1. ~Inside(b) /\ job'[b] = job[b]
  BY DEF Orderly
<1>2. job[b].at \in Outside /\ job'[b].at \in Outside
  BY <1>1 DEF Inside
<1> QED BY <1>2 DEF Busy, Bears, Holds, Removes, Putting, Closing, Outside

LEMMA QuietEntries ==
    ASSUME Agreement, Halves, NEW a \in Actors, \A b \in Actors \ {a} : job'[b] = job[b],
           UNCHANGED <<map, link, registered>>, job' = job \/ (~Busy(a) /\ ~Busy(a)')
    PROVE  Agreement' /\ Halves'
<1>1. \A b \in Actors : job'[b] = job[b] \/ (~Busy(b) /\ ~Busy(b)')
  OBVIOUS
<1>2. \A b \in Actors : Busy(b) => Busy(b)' /\ job'[b] = job[b]
  BY <1>1 DEF Busy
<1>3. ASSUME NEW u \in Uids, Untouched(u)' PROVE AgreeAt(u)'
  <2>1. Untouched(u)
    BY <1>2, <1>3 DEF Untouched
  <2> QED BY <2>1 DEF Agreement, AgreeAt
<1>4. ASSUME NEW b \in Actors PROVE Halfway(b)'
  <2>1. CASE job'[b] = job[b]
    BY <2>1 DEF Halves, Halfway, Entries
  <2>2. CASE ~Busy(b)'
    BY <2>2 DEF Busy, Halfway, Putting
  <2> QED BY <1>1, <2>1, <2>2
<1> QED BY <1>3, <1>4 DEF Agreement, Halves

LEMMA QuietNames ==
    ASSUME TypeInv, NamedRight, NEW a \in Actors, \A b \in Actors \ {a} : job'[b] = job[b],
           map' = map, \A c \in Conns : conn'[c].uid = conn[c].uid,
           \/ job' = job
           \/ /\ job'[a].at \notin Putting
              /\ job'[a].at \in Closing =>
                    \/ \A k \in Kinds : job'[a].taken[k] = None
                    \/ /\ job[a].at \in Closing /\ job'[a].uid = job[a].uid
                       /\ job'[a].taken = job[a].taken
    PROVE  NamedRight'
<1> USE DEF TypeInv
<1>1. ASSUME NEW k \in Kinds, NEW u \in Uids, map'[k][u] # None PROVE conn'[map'[k][u]].uid = u
  <2>1. map[k][u] \in Conns
    BY <1>1, Types
  <2> QED BY <1>1, <2>1 DEF NamedRight
<1>2. ASSUME NEW b \in Actors, job'[b].at \in Putting PROVE conn'[job'[b].conn].uid = job'[b].uid
  <2>1. job'[b] = job[b]
    BY <1>2
  <2>2. job[b].conn \in Conns
    BY <1>2, <2>1 DEF JobInv, JobOK
  <2> QED BY <1>2, <2>1, <2>2 DEF NamedRight
<1>3. ASSUME NEW b \in Actors, job'[b].at \in Closing, NEW k \in Kinds, job'[b].taken[k] # None
      PROVE  conn'[job'[b].taken[k]].uid = job'[b].uid
  <2>1. job[b].at \in Closing /\ job'[b].uid = job[b].uid /\ job'[b].taken = job[b].taken
    BY <1>3
  <2>2. job[b].taken[k] \in Conns
    <3>1. job[b] \in JobSet
      BY Types
    <3>2. job[b].taken[k] \in Conns \cup {None}
      BY <3>1 DEF JobSet
    <3> QED BY <1>3, <2>1, <3>2
  <2> QED BY <1>3, <2>1, <2>2 DEF NamedRight
<1> QED BY <1>1, <1>2, <1>3 DEF NamedRight

LEMMA QuietLive ==
    ASSUME LiveInv, NEW a \in Actors, \A b \in Actors \ {a} : job'[b] = job[b],
           map' = map, \A c \in Conns : conn'[c].native = conn[c].native,
           job' = job \/ \A c \in Conns : ~Bears(a, c) /\ ~Bears(a, c)'
    PROVE  LiveInv'
<1> SUFFICES ASSUME NEW c \in Conns
             PROVE  conn'[c].native = "live" <=>
                      (\E u \in Uids : map'["native"][u] = c) \/ (\E b \in Actors : Bears(b, c)')
  BY DEF LiveInv
<1>1. \A b \in Actors : Bears(b, c)' <=> Bears(b, c)
  BY DEF Bears
<1> QED BY <1>1 DEF LiveInv

LEMMA QuietThreads ==
    ASSUME ThreadInv, NEW a \in Actors, \A b \in Actors \ {a} : job'[b] = job[b], map' = map,
           \A c \in Conns : /\ conn'[c].reader = "none" <=> conn[c].reader = "none"
                            /\ conn[c].interrupted => conn'[c].interrupted,
           \/ job' = job
           \/ \A c \in Conns : conn[c].reader # "none" /\ Holds(a, c) =>
                                  Holds(a, c)' \/ conn'[c].interrupted
    PROVE  ThreadInv'
<1> SUFFICES ASSUME NEW c \in Conns, conn'[c].reader # "none", ~conn'[c].interrupted
             PROVE  (\E u \in Uids : map'["thread"][u] = c) \/ (\E b \in Actors : Holds(b, c)')
  BY DEF ThreadInv
<1>1. CASE \E u \in Uids : map["thread"][u] = c
  BY <1>1
<1>2. CASE \E b \in Actors : Holds(b, c)
  <2>1. PICK b \in Actors : Holds(b, c)
    BY <1>2
  <2>2. Holds(b, c)'
    BY <2>1 DEF Holds
  <2> QED BY <2>2
<1> QED BY <1>1, <1>2 DEF ThreadInv

\* A connection that has been made is not a new one.
LEMMA MadeOld ==
    ASSUME TypeInv, NEW c \in Conns, Made(c) PROVE c <= last
<1>1. conn[c] # NoConn
  BY NoConnShape DEF Made
<1>2. c \in Int /\ last \in Int
  BY SmallTypes, Constants DEF TypeInv, SmallType, Conns
<1> QED BY <1>1, <1>2 DEF TypeInv, ConnInv

LEMMA QuietPort ==
    ASSUME TypeInv, PortInv, NEW a \in Actors, \A b \in Actors \ {a} : job'[b] = job[b],
           map' = map, naming' = naming,
           \A c \in Conns : c <= last => conn'[c].dev = conn[c].dev,
           registered => \A d \in Devs : News(d) => News(d)',
           job' = job \/ \A u \in Uids : Removes(a, u) => Removes(a, u)'
    PROVE  PortInv'
<1> USE DEF TypeInv
<1> SUFFICES ASSUME NEW u \in Uids, map'["port"][u] # None
             PROVE  /\ u = getUID(conn[map["port"][u]].dev)'
                    /\ News(conn[map["port"][u]].dev)' \/ \E b \in Actors : Removes(b, u)'
  BY DEF PortInv
<1>0. "port" \in Kinds
  BY DEF Kinds
<1>1. PICK c \in Conns : c = map["port"][u] /\ c = map'["port"][u] /\ Made(c)
  BY <1>0, Types DEF MapInv
<1>2. c <= last
  BY <1>1, MadeOld
<1>3. PICK d \in Devs : d = conn[c].dev /\ d = conn'[c].dev
  BY <1>1, <1>2 DEF Made
<1>4. u = getUID(d) /\ (News(d) \/ \E b \in Actors : Removes(b, u))
  BY <1>1, <1>3 DEF PortInv
<1>5. u = getUID(d)'
  BY <1>4 DEF getUID
<1>6. registered
  BY <1>0, <1>1, Constants DEF EarlyInv
<1>7. CASE News(d)
  <2>1. News(d)'
    BY <1>6, <1>7
  <2> QED BY <1>1, <1>3, <1>5, <2>1 DEF getUID, News
<1>8. CASE \E b \in Actors : Removes(b, u)
  <2>1. PICK b \in Actors : Removes(b, u)
    BY <1>8
  <2>2. Removes(b, u)'
    BY <2>1 DEF Removes
  <2> QED BY <1>1, <1>3, <1>5, <2>2 DEF getUID
<1> QED BY <1>4, <1>7, <1>8

LEMMA QuietBring ==
    ASSUME TypeInv, BringInv, NEW a \in Actors, \A b \in Actors \ {a} : job'[b] = job[b],
           naming' = naming, \A c \in Conns : c <= last => conn'[c].dev = conn[c].dev,
           registered => \A d \in Devs : News(d) => News(d)',
           job' = job \/ job'[a].at \notin {"create"} \cup Putting
    PROVE  BringInv'
<1> USE DEF TypeInv
<1> SUFFICES ASSUME NEW b \in Actors, job'[b].at \in {"create"} \cup Putting
             PROVE  /\ News(conn[job[b].conn].dev)'
                    /\ job'[b].at \in Putting => job'[b].uid = getUID(conn[job[b].conn].dev)'
  BY DEF BringInv
<1>1. job'[b] = job[b]
  OBVIOUS
<1>2. PICK c \in Conns : c = job[b].conn /\ c = job'[b].conn /\ c <= last /\ conn[c].dev \in Devs
  <2>1. job[b].conn \in Conns /\ job[b].conn <= last /\ conn[job[b].conn].dev \in Devs
    <3>1. CASE job[b].at = "create"
      BY <3>1 DEF JobInv, JobOK
    <3>2. CASE job[b].at \in Putting
      <4>1. job[b].conn \in Conns /\ Made(job[b].conn)
        BY <3>2 DEF JobInv, JobOK
      <4> QED BY <4>1, MadeOld DEF Made
    <3> QED BY <1>1, <3>1, <3>2
  <2> QED BY <1>1, <2>1
<1>3. PICK d \in Devs : d = conn[c].dev /\ d = conn'[c].dev
  BY <1>2
<1>4. registered
  BY <1>1 DEF EarlyInv
<1>5. News(d)' /\ (job'[b].at \in Putting => job'[b].uid = getUID(d)')
  <2>1. News(d) /\ (job[b].at \in Putting => job[b].uid = getUID(d))
    BY <1>1, <1>2, <1>3 DEF BringInv
  <2> QED BY <1>1, <1>4, <2>1 DEF getUID
<1> QED BY <1>2, <1>3, <1>5 DEF News, getUID

LEMMA QuietNaming ==
    ASSUME NamingInv, NEW a \in Actors, \A b \in Actors \ {a} : job'[b] = job[b], map' = map,
           \/ job' = job
           \/ job'[a].at # "naming" /\ (job'[a].at \in Closing => job'[a].then # "naming")
    PROVE  NamingInv'
  BY DEF NamingInv

\* All of them: an actor that is not inside a call stays outside or begins a close().
LEMMA QuietStep ==
    ASSUME TypeInv, Calmness, Orderly', NEW a \in Actors, \A b \in Actors \ {a} : job'[b] = job[b],
           UNCHANGED <<map, link, registered, naming>>,
           \A c \in Conns : Alike(c),
           registered => \A d \in Devs : News(d) => News(d)',
           \/ job' = job
           \/ /\ ~Inside(a)
              /\ ~Inside(a)' \/ \E u \in Uids, then \in {"next", "crash", "reset"} : Begins(a, u, then)
    PROVE  Calmness'
<1> USE DEF Calmness
<1>1. \/ job' = job
      \/ /\ ~Busy(a) /\ ~Busy(a)' /\ (\A c : ~Bears(a, c) /\ ~Bears(a, c)' /\ ~Holds(a, c))
         /\ (\A u : ~Removes(a, u)) /\ job'[a].at \notin Putting \cup {"create", "naming"}
         /\ job'[a].at \in Closing => /\ job'[a].then # "naming"
                                      /\ \A k \in Kinds : job'[a].taken[k] = None
  <2>1. CASE job' = job
    BY <2>1
  <2>2. CASE ~Inside(a) /\ ~Inside(a)'
    BY <2>2, Idle DEF Inside, Busy, Bears, Putting, Closing, Outside
  <2>3. CASE ~Inside(a) /\ \E u \in Uids, then \in {"next", "crash", "reset"} : Begins(a, u, then)
    BY <2>3, Idle DEF Begins, Busy, Bears, Putting, Closing
  <2> QED BY <2>1, <2>2, <2>3
<1>2. Agreement' /\ Halves'
  BY <1>1, QuietEntries
<1>3. NamedRight'
  BY <1>1, QuietNames DEF Alike
<1>4. LiveInv'
  BY <1>1, QuietLive DEF Alike
<1>5. ThreadInv'
  BY <1>1, QuietThreads DEF Alike
<1>6. PortInv'
  BY <1>1, QuietPort DEF Alike
<1>7. BringInv'
  BY <1>1, QuietBring DEF Alike
<1>8. NamingInv'
  BY <1>1, QuietNaming
<1> QED BY <1>2, <1>3, <1>4, <1>5, <1>6, <1>7, <1>8

------------------------------------------------------------------------------
(* Steps that begin or end a call. *)

LEMMA CalmBetween ==
    ASSUME TypeInv, Calmness, Orderly', NEW a \in Actors, Drivers(a) \/ NextDriver(a) \/ Ask(a)
    PROVE  Calmness'
<1>1. /\ UNCHANGED <<settings, map, link, conn, looper, attached>>
      /\ job[a].at \in {"drivers", "next", "open"}
      /\ \A b \in Actors \ {a} : job'[b] = job[b]
      /\ job'[a].at \in {"idle", "next", "open"}
  BY BetweenShape
<1>2. ~Inside(a) /\ ~Inside(a)'
  BY <1>1 DEF Inside, Outside
<1>3. \A d \in Devs : News(d) => News(d)'
  BY <1>1 DEF News, looper
<1>4. \A c \in Conns : Alike(c)
  BY <1>1 DEF Alike
<1> QED BY <1>1, <1>2, <1>3, <1>4, QuietStep DEF settings

LEMMA CalmCalls ==
    ASSUME TypeInv, Calmness, Orderly', PostReset \/ ResetDue \/ (\E u \in Uids : arduinoReset(u))
    PROVE  Calmness'
<1>1. /\ UNCHANGED <<android, settings, map, link, conn, queue>>
      /\ \E a \in {MAIN, WEB} :
           /\ job[a].at \in {"idle", "reset"} /\ \A b \in Actors \ {a} : job'[b] = job[b]
           /\ \/ job'[a].at \in {"next", "idle", "open"}
              \/ \E u \in Uids : Begins(a, u, "reset")
  BY CallShape
<1>2. PICK a \in Actors :
           /\ job[a].at \in {"idle", "reset"} /\ \A b \in Actors \ {a} : job'[b] = job[b]
           /\ \/ job'[a].at \in {"next", "idle", "open"}
              \/ \E u \in Uids : Begins(a, u, "reset")
  BY <1>1, Constants
<1>3. ~Inside(a) /\ (~Inside(a)' \/ \E u \in Uids : Begins(a, u, "reset"))
  BY <1>2 DEF Inside, Outside
<1>4. \A d \in Devs : News(d) => News(d)'
  BY <1>1 DEF News, android
<1>5. \A c \in Conns : Alike(c)
  BY <1>1 DEF Alike
<1> QED BY <1>1, <1>2, <1>3, <1>4, <1>5, QuietStep DEF settings

LEMMA CalmRead ==
    ASSUME TypeInv, LoopInv, Calmness, Orderly', NEW c \in Conns,
           LoopTest(c) \/ ReadData(c) \/ ReadFails(c) \/ WriteNative(c) \/ Return(c)
           \/ HandleIOException(c)
    PROVE  Calmness'
<1>1. /\ UNCHANGED <<android, settings, map, link, looper>>
      /\ \A b \in Actors \ {c} : job'[b] = job[b]
      /\ \A d \in Conns : Alike(d)
      /\ \/ job' = job
         \/ conn[c].reader = "failed" /\ Begins(c, conn[c].uid, "next") /\ conn[c].uid \in Uids
  BY ReadShape
<1>2. \/ job' = job
      \/ ~Inside(c) /\ \E u \in Uids : Begins(c, u, "next")
  BY <1>1 DEF LoopInv, Inside, Outside
<1>3. \A d \in Devs : News(d) => News(d)'
  BY <1>1 DEF News, android, looper
<1> QED BY <1>1, <1>2, <1>3, QuietStep, Constants DEF settings

LEMMA CalmWorld ==
    ASSUME TypeInv, Calmness, Orderly',
           (\E d \in Devs : Attach(d) \/ Detach(d) \/ Answer(d)) \/ processIntent
    PROVE  Calmness'
<1>1. /\ UNCHANGED <<settings, map, link, job>>
      /\ \A c \in Conns : Alike(c)
      /\ Len(queue) \in Nat /\ Len(queue') \in Nat /\ Len(queue) <= Len(queue')
      /\ \A i \in 1..Len(queue) : queue'[i] = queue[i]
      /\ \A d \in attached \ attached' : registered =>
           \E i \in 1..Len(queue') : queue'[i] = <<"detached", d>>
  BY WorldShape
<1>2. \A i \in 1..Len(queue) : i \in 1..Len(queue')
  BY <1>1
<1>3. registered => \A d \in Devs : News(d) => News(d)'
  BY <1>1, <1>2 DEF News
<1> QED BY <1>1, <1>3, QuietStep, Constants DEF settings

LEMMA CalmDeliver ==
    ASSUME TypeInv, Calmness, Orderly', Deliver PROVE Calmness'
<1> USE DEF Calmness
<1>1. /\ UNCHANGED <<android, settings, map, link>> /\ job[MAIN].at = "idle"
      /\ \A b \in Actors \ {MAIN} : job'[b] = job[b]
      /\ queue \in Seq(MsgSet) /\ Len(queue) \in Nat /\ Len(queue) > 0
      /\ Len(queue') = Len(queue) - 1
      /\ \A i \in 1..Len(queue') : queue'[i] = queue[i + 1]
  BY DeliverShape
<1>2. MAIN \in Actors /\ ~Inside(MAIN)
  BY <1>1, Constants DEF Inside, Outside
<1>3. ASSUME NEW d \in Devs, News(d), queue[1] # <<"detached", d>> PROVE News(d)'
  <2>1. CASE d \in attached
    BY <1>1, <2>1 DEF News, android
  <2>2. ASSUME NEW i \in 1..Len(queue), queue[i] = <<"detached", d>> PROVE News(d)'
    <3>1. i # 1
      BY <1>3, <2>2
    <3>2. i - 1 \in 1..Len(queue') /\ (i - 1) + 1 = i
      BY <1>1, <3>1
    <3>3. queue'[i - 1] = <<"detached", d>>
      BY <1>1, <2>2, <3>2
    <3> QED BY <3>2, <3>3 DEF News
  <2> QED BY <1>3, <2>1, <2>2 DEF News
<1>4. CASE \E c \in Conns : queue[1] = <<"start", c>> /\ job' = job /\ \A d \in Conns : Alike(d)
  <2>1. \A d \in Devs : queue[1] # <<"detached", d>>
    BY <1>4
  <2>2. \A d \in Devs : News(d) => News(d)'
    BY <1>3, <2>1
  <2> QED BY <1>1, <1>2, <1>4, <2>2, QuietStep DEF settings
<1>5. CASE /\ conn' = conn
           /\ queue[1][1] \in {"attached", "connected"} /\ job'[MAIN].at \in {"idle", "open"}
  <2>1. \A d \in Devs : queue[1] # <<"detached", d>>
    BY <1>5
  <2>2. \A d \in Devs : News(d) => News(d)'
    BY <1>3, <2>1
  <2>3. ~Inside(MAIN)'
    BY <1>5 DEF Inside, Outside
  <2>4. \A c \in Conns : Alike(c)
    BY <1>5 DEF Alike
  <2> QED BY <1>1, <1>2, <2>2, <2>3, <2>4, QuietStep DEF settings
<1>6. ASSUME conn' = conn, NEW d \in Devs, queue[1] = <<"detached", d>>,
             Begins(MAIN, getUID(d), "next")
      PROVE  Calmness'
  <2>1. /\ ~Busy(MAIN) /\ ~Busy(MAIN)' /\ (\A c : ~Bears(MAIN, c) /\ ~Bears(MAIN, c)' /\ ~Holds(MAIN, c))
        /\ job'[MAIN].at \notin Putting \cup {"create", "naming"} /\ job'[MAIN].then # "naming"
        /\ \A k \in Kinds : job'[MAIN].taken[k] = None
    BY <1>2, <1>6, Idle DEF Begins, Busy, Bears, Putting, Closing
  <2>2. Inside(MAIN)'
    BY <1>6 DEF Begins, Inside, Outside
  <2>3. \A b \in Actors \ {MAIN} : ~Inside(b)'
    BY <1>2, <2>2 DEF Orderly
  <2>4. Agreement' /\ Halves' /\ NamedRight' /\ LiveInv' /\ ThreadInv' /\ NamingInv'
    <3>1. Agreement' /\ Halves'
      BY <1>1, <1>2, <2>1, QuietEntries DEF settings
    <3>2. NamedRight'
      BY <1>1, <1>2, <1>6, <2>1, QuietNames
    <3>3. LiveInv'
      BY <1>1, <1>2, <1>6, <2>1, QuietLive
    <3>4. ThreadInv'
      BY <1>1, <1>2, <1>6, <2>1, QuietThreads
    <3>5. NamingInv'
      BY <1>1, <1>2, <2>1, QuietNaming
    <3> QED BY <3>1, <3>2, <3>3, <3>4, <3>5
  <2>5. BringInv'
    <3>1. \A b \in Actors : job'[b].at \notin {"create"} \cup Putting
      BY <2>1, <2>3 DEF Inside, Outside, Putting
    <3> QED BY <3>1 DEF BringInv
  <2>6. PortInv'
    <3> SUFFICES ASSUME NEW u \in Uids, map'["port"][u] # None
                 PROVE  /\ u = getUID(conn[map["port"][u]].dev)'
                        /\ News(conn[map["port"][u]].dev)' \/ \E b \in Actors : Removes(b, u)'
      BY DEF PortInv
    <3>1. PICK c \in Conns : c = map["port"][u] /\ c = map'["port"][u] /\ Made(c)
      <4>1. "port" \in Kinds /\ map' = map
        BY <1>1 DEF Kinds
      <4> QED BY <4>1, Types DEF TypeInv, MapInv
    <3>2. PICK e \in Devs : e = conn[c].dev /\ e = conn'[c].dev
      BY <1>6, <3>1 DEF Made
    <3>3. u = getUID(e) /\ (News(e) \/ \E b \in Actors : Removes(b, u))
      BY <3>1, <3>2 DEF PortInv
    <3>4. u = getUID(e)'
      BY <1>1, <3>3 DEF getUID, settings
    <3>5. CASE e = d
      <4>1. Removes(MAIN, u)'
        BY <1>6, <3>3, <3>5 DEF Removes, Begins
      <4> QED BY <1>2, <3>1, <3>2, <3>4, <4>1 DEF getUID
    <3>6. CASE e # d /\ News(e)
      <4>1. queue[1] # <<"detached", e>>
        BY <1>6, <3>6
      <4>2. News(e)'
        BY <1>3, <3>6, <4>1
      <4> QED BY <3>1, <3>2, <3>4, <4>2 DEF News, getUID
    <3>7. ASSUME NEW b \in Actors, Removes(b, u) PROVE \E x \in Actors : Removes(x, u)'
      <4>1. b # MAIN
        BY <1>2, <3>7, Idle
      <4>2. Removes(b, u)'
        BY <1>1, <3>7, <4>1 DEF Removes
      <4> QED BY <4>2
    <3> QED BY <3>1, <3>2, <3>3, <3>4, <3>5, <3>6, <3>7 DEF getUID
  <2> QED BY <2>4, <2>5, <2>6
<1> QED BY <1>4, <1>5, <1>6, DeliverShape

\* The setter: disconnectAll() takes the only port there is.
LEMMA FewKeys ==
    ASSUME TypeInv, NamedRight PROVE IsFiniteSet(Keys("port"))
<1> USE DEF TypeInv
<1>0. "port" \in Kinds /\ map["port"] \in [Uids -> Conns \cup {None}]
  BY Types DEF Kinds
<1>1. PICK f \in [Keys("port") -> Conns] : f = [u \in Keys("port") |-> map["port"][u]]
  BY <1>0 DEF Keys
<1>2. \A u, v \in Keys("port") : f[u] = f[v] => u = v
  <2>1. \A u \in Keys("port") : u \in Uids /\ map["port"][u] # None /\ f[u] = map["port"][u]
    BY <1>1 DEF Keys
  <2> QED BY <1>0, <2>1 DEF NamedRight
<1>3. f \in Injection(Keys("port"), Conns)
  BY <1>1, <1>2 DEF Injection, IsInjective
<1>4. IsFiniteSet(Conns)
  BY Constants, FS_Interval DEF Conns
<1> QED BY <1>3, <1>4, FS_Injection

LEMMA CalmNaming ==
    ASSUME TypeInv, Calmness, Orderly', usbDeviceNaming PROVE Calmness'
<1> USE DEF Calmness
<1>1. /\ UNCHANGED <<android, settings, map, link, conn, looper>>
      /\ job[MAIN].at = "idle" /\ \A b \in Actors \ {MAIN} : job'[b] = job[b]
      /\ \/ Keys("port") = {} /\ job'[MAIN].at = "naming"
         \/ \E u \in Keys("port"), then \in {"naming", "crash"} :
               /\ Begins(MAIN, u, then)
               /\ then = "naming" => Cardinality(Keys("port")) = 1
  BY NamingShape
<1>2. MAIN \in Actors /\ ~Inside(MAIN)
  BY <1>1, Constants DEF Inside, Outside
<1>3. /\ ~Busy(MAIN) /\ (\A c : ~Bears(MAIN, c) /\ ~Holds(MAIN, c)) /\ (\A u : ~Removes(MAIN, u))
      /\ job'[MAIN].at \in {"naming", "rmNative"}
      /\ job'[MAIN].at = "rmNative" => \A k \in Kinds : job'[MAIN].taken[k] = None
  BY <1>1, <1>2, Idle DEF Begins
<1>4. ~Busy(MAIN)' /\ (\A c : ~Bears(MAIN, c)') /\ job'[MAIN].at \notin Putting \cup {"create"}
      /\ (job'[MAIN].at \in Closing => \A k \in Kinds : job'[MAIN].taken[k] = None)
  BY <1>3 DEF Busy, Bears, Putting, Closing
<1>5. \A d \in Devs : News(d) => News(d)'
  BY <1>1 DEF News, android, looper
<1>6. Agreement' /\ Halves'
  BY <1>1, <1>2, <1>3, <1>4, QuietEntries DEF settings
<1>7. NamedRight' /\ LiveInv' /\ ThreadInv'
  <2>1. NamedRight'
    BY <1>1, <1>2, <1>4, QuietNames
  <2>2. LiveInv'
    BY <1>1, <1>2, <1>3, <1>4, QuietLive
  <2>3. ThreadInv'
    BY <1>1, <1>2, <1>3, QuietThreads
  <2> QED BY <2>1, <2>2, <2>3
<1>8. PortInv' /\ BringInv'
  <2>1. PortInv'
    BY <1>1, <1>2, <1>3, <1>5, QuietPort DEF settings
  <2>2. BringInv'
    BY <1>1, <1>2, <1>4, <1>5, QuietBring DEF settings
  <2> QED BY <2>1, <2>2
<1>9. ASSUME NEW u \in Keys("port"), Begins(MAIN, u, "naming"), Cardinality(Keys("port")) = 1
      PROVE  \A v \in Uids \ {u} : map'["port"][v] = None
  <2>1. IsFiniteSet(Keys("port"))
    BY FewKeys
  <2>2. PICK x : Keys("port") = {x}
    BY <1>9, <2>1, FS_Singleton
  <2>3. \A v \in Uids \ {u} : v \notin Keys("port")
    BY <2>2
  <2> QED BY <1>1, <2>3 DEF Keys
<1>10. NamingInv'
  <2>1. ASSUME NEW b \in Actors \ {MAIN}, NEW u \in Uids
        PROVE  /\ job'[b].at \in Closing /\ job'[b].then = "naming" =>
                     \A v \in Uids \ {job'[b].uid} : map'["port"][v] = None
               /\ \/ job'[b].at = "naming"
                  \/ job'[b].at \in Closing \ {"rmNative", "rmPort"} /\ job'[b].then = "naming"
                  => map'["port"][u] = None
    BY <1>1 DEF NamingInv
  <2>2. CASE Keys("port") = {} /\ job'[MAIN].at = "naming"
    <3>1. \A u \in Uids : map'["port"][u] = None
      BY <1>1, <2>2 DEF Keys
    <3> QED BY <3>1 DEF NamingInv
  <2>3. ASSUME NEW u \in Keys("port"), NEW then \in {"naming", "crash"}, Begins(MAIN, u, then),
               then = "naming" => Cardinality(Keys("port")) = 1
        PROVE  NamingInv'
    <3>1. /\ job'[MAIN].at = "rmNative" /\ job'[MAIN].uid = u /\ job'[MAIN].then = then
          /\ job'[MAIN].at # "naming" /\ job'[MAIN].at \notin Closing \ {"rmNative", "rmPort"}
      BY <2>3 DEF Begins
    <3>2. then = "naming" => \A v \in Uids \ {u} : map'["port"][v] = None
      BY <1>9, <2>3
    <3> QED BY <2>1, <3>1, <3>2 DEF NamingInv
  <2> QED BY <1>1, <2>2, <2>3
<1> QED BY <1>6, <1>7, <1>8, <1>10

LEMMA CalmPutNaming ==
    ASSUME TypeInv, Calmness, Orderly', PutNaming PROVE Calmness'
<1> USE DEF Calmness
<1>1. /\ UNCHANGED <<android, registered, map, link, conn, looper>>
      /\ job[MAIN].at = "naming" /\ \A b \in Actors \ {MAIN} : job'[b] = job[b]
      /\ job'[MAIN].at = "drivers" /\ MAIN \in Actors
  BY PutNamingShape, Constants
<1>2. Inside(MAIN) /\ ~Inside(MAIN)'
  BY <1>1 DEF Inside, Outside
<1>3. \A b \in Actors : job'[b].at \notin Putting \cup Closing \cup {"create", "naming"}
  <2>1. \A b \in Actors \ {MAIN} : job'[b].at \notin Putting \cup Closing \cup {"create", "naming"}
    BY <1>1, <1>2, Alone
  <2> QED BY <1>1, <2>1 DEF Putting, Closing
<1>4. /\ ~Busy(MAIN) /\ ~Busy(MAIN)' /\ \A c : ~Bears(MAIN, c) /\ ~Bears(MAIN, c)' /\ ~Holds(MAIN, c)
  BY <1>1 DEF Busy, Bears, Holds, Putting
<1>5. Agreement' /\ Halves'
  BY <1>1, <1>4, QuietEntries
<1>6. NamedRight' /\ LiveInv' /\ ThreadInv'
  <2>1. NamedRight'
    BY <1>1, <1>3, QuietNames
  <2>2. LiveInv'
    BY <1>1, <1>4, QuietLive
  <2>3. ThreadInv'
    BY <1>1, <1>4, QuietThreads
  <2> QED BY <2>1, <2>2, <2>3
<1>7. PortInv' /\ BringInv' /\ NamingInv'
  <2>1. \A u \in Uids : map'["port"][u] = None
    BY <1>1 DEF NamingInv
  <2> QED BY <1>3, <2>1 DEF PortInv, BringInv, NamingInv
<1> QED BY <1>5, <1>6, <1>7

\* init() removes the files that a former run has left.
LEMMA CalmInit ==
    ASSUME TypeInv, Calmness, Orderly', init PROVE Calmness'
<1> USE DEF Calmness
<1>1. /\ UNCHANGED <<android, naming, map, conn, looper>> /\ registered' = TRUE
      /\ ~registered /\ job[IO].at = "idle" /\ \A b \in Actors \ {IO} : job'[b] = job[b]
      /\ job'[IO].at = "drivers" /\ link' = [u \in Uids |-> None] /\ IO \in Actors
  BY InitShape, Constants
<1>2. /\ \A k \in Kinds, u \in Uids : map'[k][u] = None
      /\ \A b \in Actors : job'[b].at \notin Closing \cup Putting \cup {"create"}
  BY <1>1 DEF TypeInv, EarlyInv, Closing, Putting
<1>3. "native" \in Kinds /\ "port" \in Kinds /\ "thread" \in Kinds
  BY DEF Kinds
<1>4. Agreement' /\ Halves'
  <2>1. \A u \in Uids : AgreeAt(u)'
    BY <1>1, <1>2, <1>3 DEF AgreeAt
  <2>2. \A b \in Actors : Halfway(b)'
    BY <1>2 DEF Halfway, Closing, Putting
  <2> QED BY <2>1, <2>2 DEF Agreement, Halves
<1>5. NamedRight' /\ LiveInv' /\ ThreadInv'
  <2>1. ~Inside(IO) /\ ~Inside(IO)'
    BY <1>1 DEF Inside, Outside
  <2>2. \A c : ~Bears(IO, c) /\ ~Bears(IO, c)' /\ ~Holds(IO, c)
    BY <1>1 DEF Bears, Holds, Putting
  <2>3. NamedRight'
    BY <1>1, <1>2, QuietNames
  <2>4. LiveInv'
    BY <1>1, <2>2, QuietLive
  <2>5. ThreadInv'
    BY <1>1, <2>2, QuietThreads
  <2> QED BY <2>3, <2>4, <2>5
<1>6. PortInv' /\ BringInv' /\ NamingInv'
  <2>1. \A u \in Uids : map'["port"][u] = None
    BY <1>2, <1>3
  <2> QED BY <1>2, <2>1 DEF PortInv, BringInv, NamingInv
<1> QED BY <1>4, <1>5, <1>6

------------------------------------------------------------------------------
(* connect(), step by step. *)

LEMMA CalmOpen ==
    ASSUME TypeInv, Calmness, Orderly', NEW a \in Actors, Open(a) PROVE Calmness'
<1> USE DEF Calmness
<1>1. /\ UNCHANGED <<android, settings, map, link, looper>>
      /\ registered /\ job[a].at = "open" /\ job[a].dev \in perm /\ job[a].dev \in Devs
      /\ \A b \in Actors \ {a} : job'[b] = job[b]
  BY OpenShape
<1>2. ~Inside(a)
  BY <1>1 DEF Inside, Outside
<1>3. \A d \in Devs : News(d) => News(d)'
  BY <1>1 DEF News, android, looper
<1>4. CASE conn' = conn /\ job'[a].at \in {"next", "idle"}
  <2>1. ~Inside(a)' /\ \A c \in Conns : Alike(c)
    BY <1>4 DEF Inside, Outside, Alike
  <2> QED BY <1>1, <1>2, <1>3, <2>1, QuietStep DEF settings
<1>5. ASSUME NEW n \in Conns, Fresh(n, a) PROVE Calmness'
  <2>1. \A c \in Conns : /\ conn'[c].uid = conn[c].uid /\ conn'[c].native = conn[c].native
                         /\ conn'[c].reader = conn[c].reader
                         /\ conn'[c].interrupted = conn[c].interrupted
    <3>1. TypeOK /\ NoConn.interrupted = FALSE /\ conn' \in [Conns -> ConnSet]
      BY <1>5 DEF TypeInv, NoConn, Fresh
    <3>2. conn'[n].interrupted = FALSE
      <4>1. conn'[n] \in ConnSet
        BY <3>1
      <4>2. conn'[n].interrupted \in BOOLEAN
        BY <4>1 DEF ConnSet
      <4> QED BY <1>5, <4>2 DEF Fresh
    <3>3. conn[n] = NoConn
      BY <1>5 DEF Fresh
    <3>4. \A c \in Conns \ {n} : conn'[c] = Lose(job[a].dev)[c]
      BY <1>5 DEF Fresh
    <3>5. conn'[n].uid = NoDev /\ conn'[n].native = "none" /\ conn'[n].reader = "none"
      BY <1>5 DEF Fresh
    <3>6. \A c \in Conns \ {n} : /\ conn'[c].uid = conn[c].uid /\ conn'[c].native = conn[c].native
                                 /\ conn'[c].reader = conn[c].reader
                                 /\ conn'[c].interrupted = conn[c].interrupted
      BY <3>1, <3>4, LoseShape
    <3> QED BY <3>1, <3>2, <3>3, <3>5, <3>6, NoConnShape
  <2>2. \A c \in Conns : c <= last => conn'[c].dev = conn[c].dev
    <3>1. \A c \in Conns : c <= last => c # n
      BY <1>5, SmallTypes, Constants DEF TypeInv, SmallType, Fresh, Conns
    <3> QED BY <1>5, <3>1, LoseShape DEF TypeInv, Fresh
  <2>3. job'[a].at \in {"next", "idle", "create"}
    BY <1>5 DEF Fresh
  <2>4. /\ ~Busy(a) /\ ~Busy(a)' /\ (\A c : ~Bears(a, c) /\ ~Bears(a, c)' /\ ~Holds(a, c))
        /\ (\A u : ~Removes(a, u)) /\ job'[a].at \notin Putting \cup Closing \cup {"naming"}
    BY <1>2, <2>3, Idle DEF Busy, Bears, Putting, Closing
  <2>5. Agreement' /\ Halves'
    BY <1>1, <2>4, QuietEntries DEF settings
  <2>6. NamedRight'
    BY <1>1, <2>1, <2>4, QuietNames
  <2>7. LiveInv'
    BY <1>1, <2>1, <2>4, QuietLive
  <2>8. ThreadInv'
    BY <1>1, <2>1, <2>4, QuietThreads
  <2>9. PortInv'
    BY <1>1, <1>3, <2>2, <2>4, QuietPort DEF settings
  <2>10. NamingInv'
    BY <1>1, <2>4, QuietNaming
  <2>11. BringInv'
    <3>1. CASE job'[a].at # "create"
      BY <1>1, <1>3, <2>2, <2>4, <3>1, QuietBring DEF settings
    <3>2. CASE job'[a].at = "create"
      <4>1. job'[a].conn = n /\ conn'[n].dev = job[a].dev
        BY <1>5, <3>2 DEF Fresh
      <4>2. job[a].dev \in attached'
        BY <1>1, SmallTypes DEF TypeInv, SmallType, android
      <4>3. News(conn[job[a].conn].dev)'
        BY <4>1, <4>2 DEF News
      <4>4. Inside(a)'
        BY <3>2 DEF Inside, Outside
      <4>5. \A b \in Actors \ {a} : job'[b].at \notin {"create"} \cup Putting
        BY <4>4 DEF Orderly, Inside, Outside, Putting
      <4> QED BY <2>4, <4>3, <4>5 DEF BringInv
    <3> QED BY <3>1, <3>2
  <2> QED BY <2>5, <2>6, <2>7, <2>8, <2>9, <2>10, <2>11
<1> QED BY <1>4, <1>5, OpenShape

LEMMA CalmCreate ==
    ASSUME TypeInv, Calmness, Orderly', NEW a \in Actors, Create(a) PROVE Calmness'
<1> USE DEF Calmness
<1>0. PICK c \in Conns, u \in Uids : Making(c, u, a)
  BY CreateShape
<1>1. /\ UNCHANGED <<android, settings, map>> /\ job[a].at = "create"
      /\ \A b \in Actors \ {a} : job'[b] = job[b]
  BY CreateShape
<1>2. /\ c = job[a].conn /\ u = getUID(job[a].dev) /\ ~Made(c)
      /\ \A d \in Conns \ {c} : conn'[d] = conn[d]
      /\ conn[c].dev = job[a].dev /\ conn'[c].dev = job[a].dev /\ conn'[c].uid = u
      /\ conn'[c].native = "live" /\ link' = [link EXCEPT ![u] = c]
      /\ job'[a].at = "putNative" /\ job'[a].uid = u /\ job'[a].conn = c
  BY <1>0 DEF Making, Blank, Made
<1>3. Inside(a) /\ Busy(a)' /\ ~Busy(a) /\ (\A d : ~Bears(a, d) /\ ~Holds(a, d)) /\ \A v : ~Removes(a, v)
  BY <1>1, <1>2 DEF Inside, Outside, Busy, Putting, Bears, Holds, Removes
<1>4. \A b \in Actors \ {a} :
             /\ ~Busy(b) /\ (\A d : ~Bears(b, d) /\ ~Holds(b, d)) /\ (\A v : ~Removes(b, v))
             /\ ~Busy(b)' /\ (\A d : ~Bears(b, d)' /\ ~Holds(b, d)')
             /\ job'[b].at \notin Putting \cup Closing \cup {"create", "naming"}
  BY <1>1, <1>3, Alone
<1>5. \A v \in Uids : AgreeAt(v)
  BY <1>3, <1>4 DEF Agreement, Untouched
<1>6. map["native"][u] = None /\ map["port"][u] = None /\ map["thread"][u] = None
  <2>1. map'["native"][u] = None
    BY <1>2 DEF Orderly
  <2> QED BY <1>1, <1>5, <2>1 DEF AgreeAt
<1>7. link \in [Uids -> Conns \cup {None, Old}]
  BY Types DEF TypeInv
<1>8. Agreement'
  <2> SUFFICES ASSUME NEW v \in Uids, Untouched(v)' PROVE AgreeAt(v)'
    BY DEF Agreement
  <2>1. v # u
    BY <1>2, <1>3 DEF Untouched
  <2>2. link'[v] = link[v]
    BY <1>2, <1>7, <2>1
  <2> QED BY <1>1, <1>5, <2>2 DEF AgreeAt, settings
<1>9. Halves'
  <2>1. Entries(u, None, None, None, c)'
    BY <1>1, <1>2, <1>6, <1>7 DEF Entries
  <2>2. Halfway(a)'
    BY <1>2, <2>1 DEF Halfway, Entries
  <2>3. \A b \in Actors \ {a} : Halfway(b)'
    BY <1>4 DEF Halfway, Busy, Putting
  <2> QED BY <2>2, <2>3 DEF Halves
<1>10. NamedRight'
  <2>1. ASSUME NEW k \in Kinds, NEW v \in Uids, map'[k][v] # None PROVE conn'[map'[k][v]].uid = v
    <3>1. map[k][v] \in Conns /\ Made(map[k][v])
      BY <1>1, <2>1, Types DEF TypeInv, MapInv
    <3> QED BY <1>1, <1>2, <2>1, <3>1 DEF NamedRight
  <2>2. \A b \in Actors : job'[b].at \in Putting => conn'[job'[b].conn].uid = job'[b].uid
    BY <1>2, <1>4
  <2>3. \A b \in Actors : job'[b].at \notin Closing
    BY <1>2, <1>4 DEF Closing
  <2> QED BY <2>1, <2>2, <2>3 DEF NamedRight
<1>11. LiveInv'
  <2> SUFFICES ASSUME NEW d \in Conns
               PROVE  conn'[d].native = "live" <=>
                        (\E v \in Uids : map'["native"][v] = d) \/ (\E b \in Actors : Bears(b, d)')
    BY DEF LiveInv
  <2>1. CASE d = c
    <3>1. Bears(a, c)'
      BY <1>2 DEF Bears
    <3> QED BY <1>2, <2>1, <3>1
  <2>2. CASE d # c
    <3>1. ~Bears(a, d)'
      BY <1>2, <2>2 DEF Bears
    <3> QED BY <1>1, <1>2, <1>3, <1>4, <2>2, <3>1 DEF LiveInv
  <2> QED BY <2>1, <2>2
<1>12. ThreadInv'
  <2> SUFFICES ASSUME NEW d \in Conns, conn'[d].reader # "none", ~conn'[d].interrupted
               PROVE  (\E v \in Uids : map'["thread"][v] = d) \/ (\E b \in Actors : Holds(b, d)')
    BY DEF ThreadInv
  <2>1. CASE d = c
    <3>1. Holds(a, c)'
      BY <1>2 DEF Holds, Putting
    <3> QED BY <2>1, <3>1
  <2>2. CASE d # c
    BY <1>1, <1>2, <1>3, <1>4, <2>2 DEF ThreadInv
  <2> QED BY <2>1, <2>2
<1>13. \A d \in Devs : News(d) => News(d)'
  <2>1. /\ Len(queue) \in Nat /\ Len(queue') = Len(queue) + 1
        /\ \A i \in 1..Len(queue) : i \in 1..Len(queue') /\ queue'[i] = queue[i]
    <3>1. queue \in Seq(MsgSet) /\ queue' = Append(queue, <<"start", c>>)
      BY <1>0 DEF TypeInv, QueueInv, Making
    <3> QED BY <3>1
  <2> QED BY <1>1, <2>1 DEF News, android
<1>14. PortInv'
  <2>1. \A d \in Conns : conn'[d].dev = conn[d].dev
    BY <1>2
  <2> QED BY <1>1, <1>3, <1>13, <2>1, QuietPort DEF settings
<1>15. BringInv'
  <2>1. PICK d \in Devs : d = job[a].dev
    BY CreateShape
  <2>2. News(d)
    BY <1>1, <1>2, <2>1 DEF BringInv
  <2>3. News(d)' /\ u = getUID(d)'
    BY <1>1, <1>2, <1>13, <2>1, <2>2 DEF getUID, settings
  <2>4. News(conn[job[a].conn].dev)' /\ job'[a].uid = getUID(conn[job[a].conn].dev)'
    BY <1>2, <2>1, <2>3 DEF News, getUID
  <2> QED BY <1>4, <2>4 DEF BringInv
<1>16. NamingInv'
  BY <1>2, <1>4 DEF NamingInv, Closing
<1> QED BY <1>8, <1>9, <1>10, <1>11, <1>12, <1>14, <1>15, <1>16

LEMMA CalmPut ==
    ASSUME TypeInv, Calmness, Orderly', NEW a \in Actors, PutNative(a) \/ PutPort(a) \/ PutThread(a)
    PROVE  Calmness'
<1> USE DEF Calmness
<1>1. PICK k \in Kinds, from \in Putting, to \in Putting \cup {"next"} :
          /\ Put(a, k, from, to)
          /\ \/ k = "native" /\ from = "putNative" /\ to = "putPort"
             \/ k = "port" /\ from = "putPort" /\ to = "putThread"
             \/ k = "thread" /\ from = "putThread" /\ to = "next"
  BY DEF PutNative, PutPort, PutThread, Kinds, Putting
<1>2. /\ UNCHANGED <<android, settings, link, conn, looper>>
      /\ job[a].at = from /\ job[a].uid \in Uids /\ job[a].conn \in Conns /\ Made(job[a].conn)
      /\ \A l \in Kinds, u \in Uids :
            map'[l][u] = IF l = k /\ u = job[a].uid THEN job[a].conn ELSE map[l][u]
      /\ \A b \in Actors \ {a} : job'[b] = job[b]
      /\ IF to = "next" THEN job'[a].at \in {"next", "idle"}
         ELSE job'[a].at = to /\ job'[a].uid = job[a].uid /\ job'[a].conn = job[a].conn
  BY <1>1, PutShape
<1>3. PICK u \in Uids, c \in Conns : u = job[a].uid /\ c = job[a].conn
  BY <1>2
<1>4. Inside(a) /\ Busy(a) /\ \A v : ~Removes(a, v) /\ ~Removes(a, v)'
  BY <1>1, <1>2 DEF Inside, Outside, Busy, Putting, Removes
<1>5. \A b \in Actors \ {a} :
             /\ ~Busy(b) /\ (\A d : ~Bears(b, d) /\ ~Holds(b, d)) /\ (\A v : ~Removes(b, v))
             /\ ~Busy(b)' /\ (\A d : ~Bears(b, d)' /\ ~Holds(b, d)') /\ (\A v : ~Removes(b, v)')
             /\ job'[b].at \notin Putting \cup Closing \cup {"create", "naming"}
  BY <1>2, <1>4, Alone
<1>6. registered /\ registered' = registered /\ link' = link
  BY <1>2 DEF TypeInv, EarlyInv, settings
<1>7. "native" \in Kinds /\ "port" \in Kinds /\ "thread" \in Kinds
  BY DEF Kinds
<1>8. Halfway(a)
  BY DEF Halves
<1>9. ASSUME NEW v \in Uids \ {u} PROVE AgreeAt(v)'
  <2>1. Untouched(v)
    BY <1>3, <1>5 DEF Untouched
  <2>2. AgreeAt(v)
    BY <2>1 DEF Agreement
  <2> QED BY <1>2, <1>3, <1>6, <1>7, <2>2 DEF AgreeAt
<1>10. Agreement' /\ Halves'
  <2>1. CASE from = "putNative"
    <3>1. Entries(u, None, None, None, c)
      BY <1>2, <1>3, <1>8, <2>1 DEF Halfway
    <3>2. Entries(u, c, None, None, c)'
      BY <1>1, <1>2, <1>3, <1>6, <1>7, <2>1, <3>1 DEF Entries
    <3>3. job'[a].at = "putPort" /\ job'[a].uid = u /\ job'[a].conn = c
      BY <1>1, <1>2, <1>3, <2>1
    <3>4. Halfway(a)' /\ ~Untouched(u)'
      BY <3>2, <3>3 DEF Halfway, Entries, Untouched, Busy, Putting
    <3> QED BY <1>5, <1>9, <3>4 DEF Agreement, Halves, Halfway, Busy, Putting
  <2>2. CASE from = "putPort"
    <3>1. Entries(u, c, None, None, c)
      BY <1>2, <1>3, <1>8, <2>2 DEF Halfway
    <3>2. Entries(u, c, c, None, c)'
      BY <1>1, <1>2, <1>3, <1>6, <1>7, <2>2, <3>1 DEF Entries
    <3>3. job'[a].at = "putThread" /\ job'[a].uid = u /\ job'[a].conn = c
      BY <1>1, <1>2, <1>3, <2>2
    <3>4. Halfway(a)' /\ ~Untouched(u)'
      BY <3>2, <3>3 DEF Halfway, Entries, Untouched, Busy, Putting
    <3> QED BY <1>5, <1>9, <3>4 DEF Agreement, Halves, Halfway, Busy, Putting
  <2>3. CASE from = "putThread"
    <3>1. Entries(u, c, c, None, c)
      BY <1>2, <1>3, <1>8, <2>3 DEF Halfway
    <3>2. Entries(u, c, c, c, c)'
      BY <1>1, <1>2, <1>3, <1>6, <1>7, <2>3, <3>1 DEF Entries
    <3>3. job'[a].at \in {"next", "idle"}
      BY <1>1, <1>2, <2>3
    <3>4. Halfway(a)' /\ AgreeAt(u)'
      BY <1>6, <3>2, <3>3 DEF Halfway, Entries, AgreeAt
    <3> QED BY <1>5, <1>9, <3>4 DEF Agreement, Halves, Halfway, Busy, Putting
  <2> QED BY <1>1, <2>1, <2>2, <2>3
<1>11. conn' = conn /\ conn[c].uid = u
  BY <1>2, <1>3 DEF NamedRight
<1>12. NamedRight'
  <2>1. ASSUME NEW l \in Kinds, NEW v \in Uids, map'[l][v] # None PROVE conn'[map'[l][v]].uid = v
    BY <1>2, <1>3, <1>11, <2>1 DEF NamedRight
  <2>2. \A b \in Actors : job'[b].at \in Putting => conn'[job'[b].conn].uid = job'[b].uid
    BY <1>2, <1>3, <1>5, <1>11 DEF Putting
  <2>3. \A b \in Actors : job'[b].at \notin Closing
    BY <1>1, <1>2, <1>5 DEF Closing
  <2> QED BY <2>1, <2>2, <2>3 DEF NamedRight
<1>13. LiveInv'
  <2> SUFFICES ASSUME NEW d \in Conns
               PROVE  conn'[d].native = "live" <=>
                        (\E v \in Uids : map'["native"][v] = d) \/ (\E b \in Actors : Bears(b, d)')
    BY DEF LiveInv
  <2>1. conn[d].native = "live" <=> (\E v \in Uids : map["native"][v] = d) \/ Bears(a, d)
    BY <1>5 DEF LiveInv
  <2>2. CASE from = "putNative"
    <3>1. map["native"][u] = None
      BY <1>2, <1>3, <1>8, <2>2 DEF Halfway, Entries
    <3>2. Bears(a, d) <=> d = c
      BY <1>2, <1>3, <2>2 DEF Bears
    <3>3. ~Bears(a, d)'
      BY <1>1, <1>2, <2>2 DEF Bears
    <3>4. \A v \in Uids : map'["native"][v] = IF v = u THEN c ELSE map["native"][v]
      BY <1>1, <1>2, <1>3, <1>7, <2>2
    <3>5. (\E v \in Uids : map'["native"][v] = d) <=> d = c \/ (\E v \in Uids : map["native"][v] = d)
      <4>1. ASSUME NEW v \in Uids, map["native"][v] = d PROVE map'["native"][v] = d
        BY <3>1, <3>4, <4>1, Constants
      <4>2. map'["native"][u] = c
        BY <3>4
      <4> QED BY <3>4, <4>1, <4>2
    <3> QED BY <1>5, <1>11, <2>1, <3>2, <3>3, <3>5
  <2>3. CASE from # "putNative"
    <3>1. ~Bears(a, d) /\ ~Bears(a, d)'
      BY <1>1, <1>2, <2>3 DEF Bears
    <3>2. \A v \in Uids : map'["native"][v] = map["native"][v]
      BY <1>1, <1>2, <1>7, <2>3
    <3> QED BY <1>5, <1>11, <2>1, <3>1, <3>2
  <2> QED BY <2>2, <2>3
<1>14. ThreadInv'
  <2> SUFFICES ASSUME NEW d \in Conns, conn'[d].reader # "none", ~conn'[d].interrupted
               PROVE  (\E v \in Uids : map'["thread"][v] = d) \/ (\E b \in Actors : Holds(b, d)')
    BY DEF ThreadInv
  <2>1. (\E v \in Uids : map["thread"][v] = d) \/ Holds(a, d)
    BY <1>5, <1>11 DEF ThreadInv
  <2>2. map["thread"][u] = None
    BY <1>1, <1>2, <1>3, <1>8 DEF Halfway, Entries
  <2>3. ASSUME NEW v \in Uids, map["thread"][v] = d PROVE map'["thread"][v] = d
    BY <1>2, <1>3, <1>7, <2>2, <2>3, Constants
  <2>4. CASE Holds(a, d)
    <3>1. d = c
      BY <1>1, <1>2, <1>3, <2>4 DEF Holds
    <3>2. CASE from = "putThread"
      <4>1. map'["thread"][u] = c
        BY <1>1, <1>2, <1>3, <1>7, <3>2
      <4> QED BY <3>1, <4>1
    <3>3. CASE from # "putThread"
      <4>1. Holds(a, d)'
        BY <1>1, <1>2, <1>3, <3>1, <3>3 DEF Holds, Putting
      <4> QED BY <4>1
    <3> QED BY <3>2, <3>3
  <2> QED BY <2>1, <2>3, <2>4
<1>15. \A d : News(d) <=> News(d)'
  BY <1>2 DEF News, android, looper
<1>16. PICK e \in Devs : e = conn[c].dev /\ u = getUID(e) /\ News(e) /\ u = getUID(e)' /\ News(e)'
  BY <1>2, <1>3, <1>15 DEF Made, BringInv, getUID, settings
<1>17. PortInv'
  <2> SUFFICES ASSUME NEW v \in Uids, map'["port"][v] # None
               PROVE  /\ v = getUID(conn[map["port"][v]].dev)'
                      /\ News(conn[map["port"][v]].dev)'
    BY DEF PortInv
  <2>1. CASE map'["port"][v] = map["port"][v]
    <3>1. v = getUID(conn[map["port"][v]].dev) /\ News(conn[map["port"][v]].dev)
      BY <1>4, <1>5, <2>1 DEF PortInv
    <3>2. PICK d : d = conn[map["port"][v]].dev /\ d = conn'[map'["port"][v]].dev
      BY <1>11, <2>1
    <3>3. v = getUID(d)' /\ News(d)'
      BY <1>2, <1>15, <3>1, <3>2 DEF getUID, settings
    <3> QED BY <3>2, <3>3 DEF getUID, News
  <2>2. CASE v = u /\ map'["port"][v] = c
    BY <1>11, <1>16, <2>2 DEF getUID, News
  <2> QED BY <1>2, <1>3, <1>7, <2>1, <2>2
<1>18. BringInv'
  <2>1. job'[a].at # "create" /\ (job'[a].at \in Putting => job'[a].conn = c /\ job'[a].uid = u)
    BY <1>1, <1>2, <1>3 DEF Putting
  <2>2. job'[a].at \in Putting =>
            News(conn[job[a].conn].dev)' /\ job'[a].uid = getUID(conn[job[a].conn].dev)'
    BY <1>11, <1>16, <2>1 DEF News, getUID
  <2> QED BY <1>5, <2>1, <2>2 DEF BringInv
<1>19. NamingInv'
  <2>1. job'[a].at \notin Closing \cup {"naming"}
    BY <1>1, <1>2 DEF Closing
  <2> QED BY <1>5, <2>1 DEF NamingInv
<1> QED BY <1>10, <1>12, <1>13, <1>14, <1>17, <1>18, <1>19

------------------------------------------------------------------------------
(* close(), step by step. *)

LEMMA CalmRemove ==
    ASSUME TypeInv, Calmness, Orderly', NEW a \in Actors,
           RemoveNative(a) \/ RemovePort(a) \/ RemoveThread(a)
    PROVE  Calmness'
<1> USE DEF Calmness
<1>1. PICK k \in Kinds, from \in Closing, to \in Closing :
          /\ Remove(a, k, from, to)
          /\ \/ k = "native" /\ from = "rmNative" /\ to = "rmPort"
             \/ k = "port" /\ from = "rmPort" /\ to = "rmThread"
             \/ k = "thread" /\ from = "rmThread" /\ to = "release"
  BY DEF RemoveNative, RemovePort, RemoveThread, Kinds, Closing
<1>2. /\ UNCHANGED <<android, settings, link, conn, looper>>
      /\ job[a].at = from /\ job[a].uid \in Uids
      /\ \A l \in Kinds, u \in Uids :
           map'[l][u] = IF l = k /\ u = job[a].uid THEN None ELSE map[l][u]
      /\ \A b \in Actors \ {a} : job'[b] = job[b]
      /\ job'[a].at = to /\ job'[a].uid = job[a].uid /\ job'[a].then = job[a].then
      /\ \A l \in Kinds :
           job'[a].taken[l] = IF l = k THEN map[k][job[a].uid] ELSE job[a].taken[l]
  BY <1>1, RemoveShape
<1>3. PICK u \in Uids : u = job[a].uid /\ u = job'[a].uid
  BY <1>2
<1>4. Inside(a) /\ Busy(a)'
  BY <1>1, <1>2 DEF Inside, Outside, Busy
<1>5. \A b \in Actors \ {a} :
             /\ ~Busy(b) /\ (\A d : ~Bears(b, d) /\ ~Holds(b, d)) /\ (\A v : ~Removes(b, v))
             /\ ~Busy(b)' /\ (\A d : ~Bears(b, d)' /\ ~Holds(b, d)') /\ (\A v : ~Removes(b, v)')
             /\ job'[b].at \notin Putting \cup Closing \cup {"create", "naming"}
  BY <1>2, <1>4, Alone
<1>6. registered /\ registered' = registered /\ link' = link /\ conn' = conn
  BY <1>2 DEF TypeInv, EarlyInv, settings
<1>7. "native" \in Kinds /\ "port" \in Kinds /\ "thread" \in Kinds
  BY DEF Kinds
<1>8. Halfway(a)
  BY DEF Halves
<1>9. Agreement'
  <2> SUFFICES ASSUME NEW v \in Uids, Untouched(v)' PROVE AgreeAt(v)'
    BY DEF Agreement
  <2>1. v # u
    BY <1>3, <1>4 DEF Untouched
  <2>2. Untouched(v)
    BY <1>3, <1>5, <2>1 DEF Untouched
  <2>3. AgreeAt(v)
    BY <2>2 DEF Agreement
  <2> QED BY <1>2, <1>3, <1>6, <1>7, <2>1, <2>3 DEF AgreeAt
<1>10. PICK t : /\ t = job'[a].taken["native"]
                /\ from = "rmNative" => Entries(u, t, t, t, t)
                /\ from = "rmPort" => Entries(u, None, t, t, t)
                /\ from = "rmThread" => Entries(u, None, None, t, t)
  <2>1. CASE from = "rmNative"
    <3>1. Untouched(u)
      BY <1>1, <1>2, <1>5, <2>1 DEF Untouched, Busy, Putting
    <3>2. AgreeAt(u)
      BY <3>1 DEF Agreement
    <3>3. job'[a].taken["native"] = map["native"][u]
      BY <1>1, <1>2, <1>3, <1>7, <2>1
    <3> QED BY <1>6, <2>1, <3>2, <3>3 DEF AgreeAt, Entries
  <2>2. CASE from # "rmNative"
    <3>1. job'[a].taken["native"] = job[a].taken["native"]
      BY <1>1, <1>2, <1>7, <2>2
    <3> QED BY <1>2, <1>3, <1>8, <2>2, <3>1 DEF Halfway
  <2> QED BY <2>1, <2>2
<1>11. Halves'
  <2>1. Halfway(a)'
    <3>1. CASE from = "rmNative"
      <4>1. Entries(u, None, t, t, t)'
        BY <1>1, <1>2, <1>3, <1>6, <1>7, <1>10, <3>1 DEF Entries
      <4> QED BY <1>1, <1>2, <1>3, <1>10, <3>1, <4>1 DEF Halfway, Entries
    <3>2. CASE from = "rmPort"
      <4>1. Entries(u, None, None, t, t)'
        BY <1>1, <1>2, <1>3, <1>6, <1>7, <1>10, <3>2 DEF Entries
      <4> QED BY <1>1, <1>2, <1>3, <1>10, <3>2, <4>1 DEF Halfway, Entries
    <3>3. CASE from = "rmThread"
      <4>1. Entries(u, None, None, None, t)'
        BY <1>1, <1>2, <1>3, <1>6, <1>7, <1>10, <3>3 DEF Entries
      <4> QED BY <1>1, <1>2, <1>3, <1>10, <3>3, <4>1 DEF Halfway, Entries
    <3> QED BY <1>1, <3>1, <3>2, <3>3
  <2>2. \A b \in Actors \ {a} : Halfway(b)'
    BY <1>5 DEF Halfway, Busy, Putting
  <2> QED BY <2>1, <2>2 DEF Halves
<1>12. NamedRight'
  <2>1. ASSUME NEW l \in Kinds, NEW v \in Uids, map'[l][v] # None PROVE conn'[map'[l][v]].uid = v
    BY <1>2, <1>6, <2>1 DEF NamedRight
  <2>2. ASSUME NEW l \in Kinds, job'[a].taken[l] # None PROVE conn'[job'[a].taken[l]].uid = job'[a].uid
    BY <1>2, <1>3, <1>6, <2>2 DEF NamedRight
  <2>3. job'[a].at \notin Putting
    BY <1>1, <1>2 DEF Putting
  <2> QED BY <1>5, <2>1, <2>2, <2>3 DEF NamedRight
<1>13. LiveInv'
  <2> SUFFICES ASSUME NEW d \in Conns
               PROVE  conn'[d].native = "live" <=>
                        (\E v \in Uids : map'["native"][v] = d) \/ (\E b \in Actors : Bears(b, d)')
    BY DEF LiveInv
  <2>1. conn[d].native = "live" <=> (\E v \in Uids : map["native"][v] = d) \/ Bears(a, d)
    BY <1>5 DEF LiveInv
  <2>2. Bears(a, d)' <=> d = t
    BY <1>1, <1>2, <1>10 DEF Bears
  <2>3. CASE from = "rmNative"
    <3>1. ~Bears(a, d) /\ map["native"][u] = t
      BY <1>2, <1>10, <2>3 DEF Bears, Entries
    <3>2. \A v \in Uids : map'["native"][v] = IF v = u THEN None ELSE map["native"][v]
      BY <1>1, <1>2, <1>3, <1>7, <2>3
    <3>3. (\E v \in Uids : map["native"][v] = d) <=> d = t \/ (\E v \in Uids : map'["native"][v] = d)
      BY <3>1, <3>2, Constants
    <3> QED BY <1>5, <1>6, <2>1, <2>2, <3>1, <3>3
  <2>4. CASE from # "rmNative"
    <3>1. Bears(a, d) <=> d = t
      <4>1. job[a].taken["native"] = t
        BY <1>1, <1>2, <1>7, <1>10, <2>4
      <4> QED BY <1>1, <1>2, <2>4, <4>1 DEF Bears
    <3>2. \A v \in Uids : map'["native"][v] = map["native"][v]
      BY <1>1, <1>2, <1>7, <2>4
    <3> QED BY <1>5, <1>6, <2>1, <2>2, <3>1, <3>2
  <2> QED BY <2>3, <2>4
<1>14. ThreadInv'
  <2> SUFFICES ASSUME NEW d \in Conns, conn'[d].reader # "none", ~conn'[d].interrupted
               PROVE  (\E v \in Uids : map'["thread"][v] = d) \/ (\E b \in Actors : Holds(b, d)')
    BY DEF ThreadInv
  <2>1. ~Holds(a, d)
    BY <1>1, <1>2 DEF Holds, Putting
  <2>2. PICK v \in Uids : map["thread"][v] = d
    BY <1>5, <1>6, <2>1 DEF ThreadInv
  <2>3. CASE map'["thread"][v] = d
    BY <2>3
  <2>4. CASE map'["thread"][v] # d
    <3>1. k = "thread" /\ v = u
      BY <1>2, <1>3, <1>7, <2>2, <2>4
    <3>2. job'[a].taken["thread"] = d /\ job'[a].at = "release"
      BY <1>1, <1>2, <1>3, <1>7, <2>2, <3>1
    <3>3. Holds(a, d)'
      BY <3>2 DEF Holds
    <3> QED BY <3>3
  <2> QED BY <2>3, <2>4
<1>15. \A d : News(d) <=> News(d)'
  BY <1>2 DEF News, android, looper
<1>16. PortInv'
  <2> SUFFICES ASSUME NEW v \in Uids, map'["port"][v] # None
               PROVE  /\ v = getUID(conn[map["port"][v]].dev)'
                      /\ News(conn[map["port"][v]].dev)' \/ \E b \in Actors : Removes(b, v)'
    BY DEF PortInv
  <2>1. map'["port"][v] = map["port"][v] /\ (k = "port" => v # u)
    BY <1>2, <1>3, <1>7
  <2>2. PICK d : d = conn[map["port"][v]].dev /\ d = conn'[map'["port"][v]].dev
    BY <1>6, <2>1
  <2>3. v = getUID(d) /\ (News(d) \/ Removes(a, v))
    BY <1>5, <2>1, <2>2 DEF PortInv
  <2>4. v = getUID(d)'
    BY <1>2, <2>3 DEF getUID, settings
  <2>5. Removes(a, v) => Removes(a, v)'
    BY <1>1, <1>2, <1>3, <2>1 DEF Removes
  <2>6. News(d)' \/ Removes(a, v)'
    BY <1>15, <2>3, <2>5
  <2> QED BY <2>2, <2>4, <2>6 DEF getUID, News
<1>17. BringInv'
  <2>1. job'[a].at \notin {"create"} \cup Putting
    BY <1>1, <1>2 DEF Putting
  <2> QED BY <1>5, <2>1 DEF BringInv
<1>18. NamingInv'
  <2>1. ASSUME job[a].then = "naming"
        PROVE  /\ \A v \in Uids \ {u} : map'["port"][v] = None
               /\ job'[a].at \in Closing \ {"rmNative", "rmPort"} => \A v \in Uids : map'["port"][v] = None
    <3>1. \A v \in Uids \ {u} : map["port"][v] = None
      BY <1>1, <1>2, <1>3, <2>1 DEF NamingInv
    <3>2. \A v \in Uids \ {u} : map'["port"][v] = None
      BY <1>2, <1>3, <1>7, <3>1
    <3>3. k = "port" => map'["port"][u] = None
      BY <1>2, <1>3, <1>7
    <3>4. k = "thread" => map'["port"][u] = None
      <4>1. k = "thread" => map["port"][u] = None
        BY <1>1, <1>10 DEF Entries
      <4> QED BY <1>2, <1>7, <4>1
    <3>5. k = "native" => job'[a].at = "rmPort"
      BY <1>1, <1>2
    <3> QED BY <1>1, <3>2, <3>3, <3>4, <3>5
  <2>2. job'[a].at # "naming" /\ job'[a].then = job[a].then /\ job'[a].uid = u
    BY <1>1, <1>2, <1>3
  <2> QED BY <1>5, <2>1, <2>2 DEF NamingInv
<1> QED BY <1>9, <1>11, <1>12, <1>13, <1>14, <1>16, <1>17, <1>18

\* What the last three steps of close() do not disturb.
LEMMA CalmTail ==
    ASSUME TypeInv, Calmness, NEW a \in Actors, job[a].at \in {"release", "shut", "interrupt"},
           \A b \in Actors \ {a} : job'[b] = job[b], UNCHANGED <<android, settings, map, looper>>,
           \A c \in Conns : conn'[c].dev = conn[c].dev /\ conn'[c].uid = conn[c].uid,
           \/ \E to \in {"shut", "interrupt"} : Proceeds(a, to)
           \/ /\ job'[a].at \in {"next", "idle", "crash", "reset", "naming"}
              /\ job'[a].at = "naming" => job[a].then = "naming"
    PROVE  NamedRight' /\ PortInv' /\ BringInv' /\ NamingInv'
<1> USE DEF Calmness
<1>1. \A d \in Devs : News(d) => News(d)'
  BY DEF News, android, looper
<1>2. /\ job'[a].at \notin Putting \cup {"create"}
      /\ job'[a].at \in Closing => Proceeds(a, job'[a].at)
      /\ job[a].at \in Closing \ {"rmNative", "rmPort"} /\ \A u : ~Removes(a, u)
  BY DEF Proceeds, Putting, Closing, Removes
<1>3. NamedRight'
  BY <1>2, QuietNames DEF Proceeds
<1>4. PortInv'
  BY <1>1, <1>2, QuietPort DEF settings
<1>5. BringInv'
  BY <1>1, <1>2, QuietBring DEF settings
<1>6. NamingInv'
  <2>1. job[a].then = "naming" => \A u \in Uids : map'["port"][u] = None
    BY <1>2 DEF NamingInv
  <2>2. \A b \in Actors \ {a} : job'[b] = job[b] /\ map' = map
    OBVIOUS
  <2>3. job'[a].at = "naming" \/ (job'[a].at \in Closing /\ job'[a].then = "naming")
            => job[a].then = "naming"
    BY <1>2 DEF Proceeds, Closing
  <2> QED BY <2>1, <2>2, <2>3 DEF NamingInv
<1> QED BY <1>3, <1>4, <1>5, <1>6

LEMMA CalmRelease ==
    ASSUME TypeInv, Calmness, Orderly', NEW a \in Actors, Release(a) PROVE Calmness'
<1> USE DEF Calmness
<1>1. /\ UNCHANGED <<android, settings, map, looper>>
      /\ job[a].at = "release" /\ job[a].uid \in Uids
      /\ job[a].taken["native"] \in Conns \cup {None}
      /\ \A b \in Actors \ {a} : job'[b] = job[b]
      /\ Proceeds(a, "shut") /\ link' = WithoutLink(job[a].taken["native"])
      /\ \A c \in Conns :
           /\ conn'[c].uid = conn[c].uid /\ conn'[c].dev = conn[c].dev
           /\ conn'[c].reader = conn[c].reader /\ conn'[c].interrupted = conn[c].interrupted
           /\ conn'[c].native = IF c = job[a].taken["native"] THEN "released" ELSE conn[c].native
  BY ReleaseShape
<1>2. PICK u \in Uids, t \in Conns \cup {None} : u = job[a].uid /\ t = job[a].taken["native"]
  BY <1>1
<1>3. Inside(a) /\ ~Busy(a)' /\ (\A c : ~Bears(a, c)') /\ job'[a].at = "shut"
  BY <1>1 DEF Inside, Outside, Busy, Putting, Proceeds, Bears
<1>4. \A b \in Actors \ {a} :
             /\ ~Busy(b) /\ (\A d : ~Bears(b, d)) /\ ~Busy(b)' /\ (\A d : ~Bears(b, d)')
  BY <1>1, <1>3, Alone
<1>5. Entries(u, None, None, None, t)
  BY <1>1, <1>2 DEF Halves, Halfway
<1>6. t # None => conn[t].uid = u
  <2>1. "native" \in Kinds /\ job[a].at \in Closing
    BY <1>1 DEF Kinds, Closing
  <2> QED BY <1>2, <2>1 DEF NamedRight
<1>7. link \in [Uids -> Conns \cup {None, Old}]
  BY Types DEF TypeInv
<1>8. \A v \in Uids : link'[v] = IF v = u THEN None ELSE link[v]
  <2>1. CASE t = None
    BY <1>1, <1>2, <1>5, <2>1 DEF WithoutLink, Entries
  <2>2. CASE t # None
    BY <1>1, <1>2, <1>6, <1>7, <2>2 DEF WithoutLink
  <2> QED BY <2>1, <2>2
<1>9. Agreement'
  <2> SUFFICES ASSUME NEW v \in Uids PROVE AgreeAt(v)'
    BY DEF Agreement
  <2>1. CASE v = u
    BY <1>1, <1>5, <1>8, <2>1 DEF AgreeAt, Entries
  <2>2. CASE v # u
    <3>1. Untouched(v)
      BY <1>2, <1>4, <2>2 DEF Untouched
    <3> QED BY <1>1, <1>8, <2>2, <3>1 DEF Agreement, AgreeAt, settings
  <2> QED BY <2>1, <2>2
<1>10. Halves'
  <2>1. \A b \in Actors : ~Busy(b)'
    BY <1>3, <1>4
  <2> QED BY <2>1 DEF Halves, Halfway, Busy, Putting
<1>11. LiveInv'
  <2> SUFFICES ASSUME NEW c \in Conns
               PROVE  conn'[c].native = "live" <=> \E v \in Uids : map'["native"][v] = c
    BY <1>3, <1>4 DEF LiveInv
  <2>1. conn[c].native = "live" <=> (\E v \in Uids : map["native"][v] = c) \/ Bears(a, c)
    BY <1>4 DEF LiveInv
  <2>2. Bears(a, c) <=> c = t
    BY <1>1, <1>2 DEF Bears
  <2>3. CASE c = t
    <3>1. ASSUME NEW v \in Uids, map["native"][v] = c PROVE FALSE
      <4>1. conn[c].uid = v
        <5>1. "native" \in Kinds /\ c # None
          BY Constants DEF Kinds
        <5> QED BY <3>1, <5>1 DEF NamedRight
      <4>2. v = u
        BY <1>6, <2>3, <4>1, Constants
      <4> QED BY <1>5, <3>1, <4>2, Constants DEF Entries
    <3>2. conn'[c].native = "released"
      BY <1>1, <1>2, <2>3
    <3> QED BY <1>1, <3>1, <3>2
  <2>4. CASE c # t
    BY <1>1, <1>2, <2>1, <2>2, <2>4
  <2> QED BY <2>3, <2>4
<1>12. ThreadInv'
  <2>1. \A c : Holds(a, c) => Holds(a, c)'
    BY <1>1 DEF Holds, Proceeds, Putting
  <2> QED BY <1>1, <2>1, QuietThreads
<1>13. NamedRight' /\ PortInv' /\ BringInv' /\ NamingInv'
  BY <1>1, CalmTail
<1> QED BY <1>9, <1>10, <1>11, <1>12, <1>13

LEMMA CalmShut ==
    ASSUME TypeInv, Calmness, Orderly', NEW a \in Actors, Shut(a) PROVE Calmness'
<1> USE DEF Calmness
<1>1. /\ UNCHANGED <<android, settings, map, link, looper>>
      /\ job[a].at = "shut" /\ \A b \in Actors \ {a} : job'[b] = job[b]
      /\ Proceeds(a, "interrupt") /\ \A c \in Conns : Alike(c)
  BY ShutShape
<1>2. /\ ~Busy(a) /\ ~Busy(a)' /\ \A c : ~Bears(a, c) /\ ~Bears(a, c)' /\ (Holds(a, c) => Holds(a, c)')
  BY <1>1 DEF Busy, Bears, Holds, Proceeds, Putting
<1>3. Agreement' /\ Halves'
  BY <1>1, <1>2, QuietEntries DEF settings
<1>4. LiveInv'
  BY <1>1, <1>2, QuietLive DEF Alike
<1>5. ThreadInv'
  BY <1>1, <1>2, QuietThreads DEF Alike
<1>6. NamedRight' /\ PortInv' /\ BringInv' /\ NamingInv'
  BY <1>1, CalmTail DEF Alike
<1> QED BY <1>3, <1>4, <1>5, <1>6

LEMMA CalmInterrupt ==
    ASSUME TypeInv, Calmness, Orderly', NEW a \in Actors, Interrupt(a) PROVE Calmness'
<1> USE DEF Calmness
<1>1. /\ UNCHANGED <<android, settings, map, link, looper>>
      /\ job[a].at = "interrupt" /\ \A b \in Actors \ {a} : job'[b] = job[b]
      /\ job'[a].at \in {"next", "idle", "crash", "reset", "naming"}
      /\ job'[a].at = "naming" => job[a].then = "naming"
      /\ \A c \in Conns :
           /\ conn'[c].uid = conn[c].uid /\ conn'[c].dev = conn[c].dev
           /\ conn'[c].reader = conn[c].reader /\ conn'[c].native = conn[c].native
           /\ conn'[c].interrupted =
                 (conn[c].interrupted \/ (c = job[a].taken["thread"] /\ Running(c)))
  BY InterruptShape
<1>2. /\ ~Busy(a) /\ ~Busy(a)' /\ \A c : ~Bears(a, c) /\ ~Bears(a, c)'
  BY <1>1 DEF Busy, Bears, Putting
<1>3. Agreement' /\ Halves'
  BY <1>1, <1>2, QuietEntries DEF settings
<1>4. LiveInv'
  BY <1>1, <1>2, QuietLive
<1>5. ASSUME NEW c \in Conns, conn[c].reader # "none", Holds(a, c) PROVE conn'[c].interrupted
  <2>1. c = job[a].taken["thread"] /\ c # None
    BY <1>1, <1>5, Constants DEF Holds, Putting
  <2>2. conn[c].reader # "posted"
    BY <1>1, <2>1 DEF Orderly
  <2>3. CASE conn[c].reader = "ended"
    BY <1>1, <2>3 DEF TypeInv, ConnInv
  <2>4. CASE conn[c].reader # "ended"
    BY <1>1, <1>5, <2>1, <2>2, <2>4 DEF Running
  <2> QED BY <2>3, <2>4
<1>6. ThreadInv'
  BY <1>1, <1>5, QuietThreads
<1>7. NamedRight' /\ PortInv' /\ BringInv' /\ NamingInv'
  BY <1>1, CalmTail
<1> QED BY <1>3, <1>4, <1>6, <1>7

------------------------------------------------------------------------------
(* The theorems. *)

LEMMA CalmInitial == Init => CalmInv
<1> SUFFICES ASSUME Init PROVE Calmness
  BY DEF CalmInv
<1>1. \A a \in Actors : job[a].at = "idle" /\ ~Inside(a)
  BY NoJobShape DEF Init, Inside, Outside
<1>2. /\ \A k \in Kinds, u \in Uids : map[k][u] = None
      /\ "native" \in Kinds /\ "port" \in Kinds /\ "thread" \in Kinds
  BY DEF Init, Kinds
<1>3. \A c \in Conns : conn[c].native = "none" /\ conn[c].reader = "none"
  BY NoConnShape DEF Init
<1>4. ~registered
  BY DEF Init
<1>5. Orderly
  BY <1>1, Constants DEF Orderly
<1>6. Agreement /\ Halves /\ NamedRight
  BY <1>1, <1>2, <1>4 DEF Agreement, AgreeAt, Halves, Halfway, NamedRight, Putting, Closing
<1>7. LiveInv /\ ThreadInv
  BY <1>1, <1>2, <1>3, Constants DEF LiveInv, ThreadInv, Bears
<1>8. PortInv /\ BringInv /\ NamingInv
  BY <1>1, <1>2 DEF PortInv, BringInv, NamingInv, Putting, Closing
<1> QED BY <1>5, <1>6, <1>7, <1>8 DEF Calmness

LEMMA CalmStep ==
    ASSUME TypeInv, LoopInv, CalmInv, [Next]_vars PROVE CalmInv'
<1> SUFFICES ASSUME calm' PROVE Calmness'
  BY DEF CalmInv
<1>0. MAIN \in Actors /\ IO \in Actors /\ WEB \in Actors /\ Conns \subseteq Actors
  BY Constants
<1>1. ASSUME Calmness, Orderly', NEW a \in Actors, JobStep(a) PROVE Calmness'
  BY <1>1, CalmBetween, CalmOpen, CalmCreate, CalmPut, CalmRemove, CalmRelease, CalmShut,
     CalmInterrupt DEF JobStep
<1>2. ASSUME Calmness, Orderly', UNCHANGED <<android, settings, map, link, conn, job, looper>>
      PROVE  Calmness'
  <2>1. \A d \in Devs : News(d) => News(d)'
    BY <1>2 DEF News, android, looper
  <2>2. \A c \in Conns : Alike(c)
    BY <1>2 DEF Alike
  <2> QED BY <1>0, <1>2, <2>1, <2>2, QuietStep DEF settings
<1>3. CASE UNCHANGED vars
  <2>1. UNCHANGED <<android, settings, map, link, conn, job, looper>> /\ calm' = calm
    BY <1>3 DEF vars
  <2>2. Calmness
    BY <2>1 DEF CalmInv
  <2>3. Orderly'
    BY <2>1, <2>2 DEF Calmness, Orderly, Inside
  <2> QED BY <1>2, <2>1, <2>2, <2>3
<1>4. CASE Next
  <2>1. Live
    BY <1>4 DEF Next, Main, Io, Web, Reader
  <2>2. Calmness /\ Orderly'
    BY <2>1 DEF Live, CalmInv
  <2>3. CASE MainStep
    <3>1. CASE ConcurrentModification
      BY <1>2, <2>2, <3>1 DEF ConcurrentModification
    <3> QED BY <1>0, <1>1, <2>2, <2>3, <3>1, CalmPutNaming, CalmDeliver, CalmCalls DEF MainStep
  <2>4. CASE JobStep(IO) \/ init \/ JobStep(WEB) \/ PostReset
    BY <1>0, <1>1, <2>2, <2>4, CalmInit, CalmCalls
  <2>5. ASSUME NEW c \in Conns, ReaderStep(c) PROVE Calmness'
    BY <1>0, <1>1, <2>2, <2>5, CalmRead DEF ReaderStep
  <2>6. CASE World
    BY <2>2, <2>6, CalmWorld, CalmNaming, CalmCalls, CalmRead DEF World
  <2> QED BY <1>4, <2>3, <2>4, <2>5, <2>6 DEF Next, Main, Io, Web, Reader
<1> QED BY <1>3, <1>4

\* While the calls come one at a time, what the maps and the files say follows
\* from how far the one call has come.
THEOREM CalmInvariance == Spec => [](TypeInv /\ LoopInv /\ CalmInv)
<1>1. Init => TypeInv /\ LoopInv /\ CalmInv
  BY TypeInitial, LoopInitial, CalmInitial
<1>2. TypeInv /\ LoopInv /\ CalmInv /\ [Next]_vars => (TypeInv /\ LoopInv /\ CalmInv)'
  BY TypeStep, LoopStep, CalmStep
<1> QED BY <1>1, <1>2, PTL DEF Spec

\* Between two calls nobody is changing an entry.
LEMMA Rested ==
    ASSUME calm, AtRest, CalmInv
    PROVE  /\ Calmness /\ registered /\ \A u \in Uids : AgreeAt(u)
           /\ \A a \in Actors : /\ (\A c : ~Bears(a, c) /\ ~Holds(a, c)) /\ \A u : ~Removes(a, u)
<1>1. Calmness /\ registered /\ \A a \in Actors : ~Inside(a)
  BY DEF CalmInv, AtRest
<1>2. \A a \in Actors : /\ ~Busy(a) /\ (\A c : ~Bears(a, c) /\ ~Holds(a, c)) /\ \A u : ~Removes(a, u)
  BY <1>1, Idle
<1>3. \A u \in Uids : AgreeAt(u)
  BY <1>1, <1>2 DEF Calmness, Agreement, Untouched
<1> QED BY <1>1, <1>2, <1>3

\* Between two calls of connect() and close() the three maps name the same
\* connections, each under its uid.
THEOREM TheMapsAgree == Spec => []MapsAgree
<1>1. CalmInv => MapsAgree
  <2> SUFFICES ASSUME CalmInv, calm, AtRest, NEW u \in Uids
               PROVE  /\ map["native"][u] = map["port"][u] /\ map["port"][u] = map["thread"][u]
                      /\ map["port"][u] # None => conn[map["port"][u]].uid = u
    BY DEF MapsAgree
  <2>1. AgreeAt(u) /\ NamedRight /\ "port" \in Kinds
    BY Rested DEF Calmness, Kinds
  <2> QED BY <2>1 DEF AgreeAt, NamedRight
<1> QED BY <1>1, CalmInvariance, PTL

\* Between two calls a live terminal and a thread that will go on are in the
\* maps, where close() finds them.
THEOREM NothingIsLeaked == Spec => []NothingLeaked
<1>1. CalmInv => NothingLeaked
  <2> SUFFICES ASSUME CalmInv, calm, AtRest, NEW c \in Conns
               PROVE  /\ conn[c].native = "live" <=> \E u \in Uids : map["native"][u] = c
                      /\ conn[c].reader \notin {"none", "ended"} /\ ~conn[c].interrupted
                            => \E u \in Uids : map["thread"][u] = c
    BY DEF NothingLeaked
  <2>1. LiveInv /\ ThreadInv /\ \A a \in Actors : ~Bears(a, c) /\ ~Holds(a, c)
    BY Rested DEF Calmness
  <2> QED BY <2>1 DEF LiveInv, ThreadInv
<1> QED BY <1>1, CalmInvariance, PTL

\* Between two calls the files under serial/ are the terminals of the connections.
THEOREM TheFilesAreTerminals == Spec => []FilesAreTerminals
<1>1. TypeInv /\ CalmInv => FilesAreTerminals
  <2> SUFFICES ASSUME TypeInv, CalmInv, calm, AtRest PROVE link = map["native"]
    BY DEF FilesAreTerminals
  <2>1. \A u \in Uids : link[u] = map["native"][u]
    BY Rested DEF AgreeAt
  <2>2. link \in [Uids -> Conns \cup {None, Old}] /\ map["native"] \in [Uids -> Conns \cup {None}]
    BY Types DEF TypeInv, Kinds
  <2> QED BY <2>1, <2>2
<1> QED BY <1>1, CalmInvariance, PTL

\* Once every message is delivered, no connection to a device that is gone is left.
THEOREM TheDetachedAreForgotten == Spec => []DetachedIsForgotten
<1>1. CalmInv => DetachedIsForgotten
  <2> SUFFICES ASSUME CalmInv, calm, AtRest, queue = <<>>, NEW u \in Uids, map["port"][u] # None
               PROVE  conn[map["port"][u]].dev \in attached
    BY DEF DetachedIsForgotten
  <2>1. PortInv /\ \A a \in Actors : ~Removes(a, u)
    BY Rested DEF Calmness
  <2>2. News(conn[map["port"][u]].dev)
    BY <2>1 DEF PortInv
  <2>3. Len(queue) = 0
    OBVIOUS
  <2> QED BY <2>2, <2>3 DEF News
<1> QED BY <1>1, CalmInvariance, PTL
===============================================================================
