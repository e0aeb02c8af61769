---------------------------- MODULE MoonrakerPort ----------------------------
(***************************************************************************)
(* How the Moonraker services of several profiles, each in a process of its *)
(* own, choose their ports: BaseMoonrakerService.onStartPython under        *)
(* KlipperApp.withMoonrakerPortLock.  The lock is a file: created           *)
(* atomically, deleted by its owner, by a waiter that finds it old, or by a *)
(* waiter whose deadline has passed.  A port is taken when a profile's      *)
(* moonraker.conf names it.                                                 *)
(***************************************************************************)
EXTENDS Integers, FiniteSets

CONSTANTS
    Profiles,   \* each has a service process and a moonraker.conf
    NoLock,     \* the lock file does not exist
    Stale,      \* age after which a waiter deletes the lock (10 s in the code)
    Wait,       \* time after which a waiter takes it by force (15 s in the code)
    MaxKills    \* bound: service processes killed

ASSUME ProfilesAssumption == IsFiniteSet(Profiles) /\ NoLock \notin Profiles
ASSUME TimesAssumption == Stale \in Nat /\ Wait \in Nat /\ Stale < Wait /\ MaxKills \in Nat

FirstPort == 7125
Ports     == FirstPort .. (FirstPort + Cardinality(Profiles))
NoConf    == -1         \* moonraker.conf does not exist
EmptyConf == 0          \* it exists and names no port: opened, not yet written
Phases    == {"off", "start", "lock", "age", "stale", "force", "retry", "scan", "write",
              "unlock", "run", "failed"}

VARIABLES
    rows,       \* profiles of the table
    known,      \* the list each process read when it was bound, never refreshed
    conf,       \* each profile's moonraker.conf
    pc, todo, used, port, acquired,     \* locals of each process
    waited,     \* how long a process has been in the loop
    lock, lockAge,                      \* the lock file: its creator and its age
    kills,
    calm        \* history: see Note

locals == <<todo, used, port, acquired, waited>>
file   == <<lock, lockAge>>
vars   == <<rows, known, conf, pc, locals, file, kills, calm>>

InSection(p) == pc[p] \in {"scan", "write", "unlock"}
\* Every port that is taken is in a file the process is going to read.
ListIsComplete(p) == {q \in Profiles : conf[q] \in Ports} \subseteq known[p]

(***************************************************************************)
(* calm stays TRUE until a waiter deletes the lock of a process that is     *)
(* still choosing, a process chooses without having the lock, or one        *)
(* chooses from a list that lacks a profile with a port.                    *)
(***************************************************************************)
Note(ok) == calm' = (calm /\ ok)
DeadOwner == lock = NoLock \/ ~acquired[lock]

Goto(p, phase) == pc' = [pc EXCEPT ![p] = phase]
ForgetLocals(p) ==
    /\ todo' = [todo EXCEPT ![p] = {}]
    /\ used' = [used EXCEPT ![p] = {}]
    /\ port' = [port EXCEPT ![p] = FirstPort]
    /\ acquired' = [acquired EXCEPT ![p] = FALSE]
    /\ waited' = [waited EXCEPT ![p] = 0]

\* The editor inserts a profile.
Create(p) ==
    /\ p \notin rows
    /\ rows' = rows \cup {p}
    /\ UNCHANGED <<known, conf, pc, locals, file, kills, calm>>

\* BasePythonService.onBind: getInstance() reads the table and keeps the list.
onBind(p) ==
    /\ pc[p] = "off" /\ p \in rows
    /\ known' = [known EXCEPT ![p] = rows]
    /\ Goto(p, "start")
    /\ UNCHANGED <<rows, conf, locals, file, kills, calm>>

\* A profile that has a moonraker.conf keeps it.
onStartPython(p) ==
    /\ pc[p] = "start"
    /\ Goto(p, IF conf[p] # NoConf THEN "run" ELSE "lock")
    /\ UNCHANGED <<rows, known, conf, locals, file, kills, calm>>

\* createNewFile() succeeded: the action begins with the list of profiles.
Enter(p, got) ==
    /\ acquired' = [acquired EXCEPT ![p] = got]
    /\ todo' = [todo EXCEPT ![p] = known[p]]
    /\ waited' = [waited EXCEPT ![p] = 0]
    /\ Goto(p, "scan")
    /\ Note(got /\ ListIsComplete(p))

\* Mutant: the result of createNewFile() is ignored.
CreateLockBlindly(p) ==
    /\ pc[p] = "lock" /\ waited[p] < Wait
    /\ lock' = p /\ lockAge' = 0
    /\ Enter(p, TRUE)
    /\ UNCHANGED <<rows, known, conf, used, port, kills>>

\* One turn of the loop begins with createNewFile(), which is atomic.
CreateLock(p) ==
    /\ pc[p] = "lock" /\ waited[p] < Wait
    /\ \/ /\ lock = NoLock
          /\ lock' = p /\ lockAge' = 0
          /\ Enter(p, TRUE)
       \/ /\ lock # NoLock
          /\ Goto(p, "age")
          /\ UNCHANGED <<todo, waited, acquired, file, calm>>
    /\ UNCHANGED <<rows, known, conf, used, port, kills>>

\* lastModified() of a file that is gone is 0, which is as old as can be.
IsOld == lock = NoLock \/ lockAge > Stale

LookAtAge(p) ==
    /\ pc[p] = "age"
    /\ Goto(p, IF IsOld THEN "stale" ELSE "lock")
    /\ UNCHANGED <<rows, known, conf, locals, file, kills, calm>>

\* File.delete(), whoever has created the file by now.
DeleteLock(p, from, to) ==
    /\ pc[p] = from
    /\ lock' = NoLock /\ lockAge' = 0
    /\ Note(DeadOwner)
    /\ Goto(p, to)
    /\ UNCHANGED <<rows, known, conf, locals, kills>>

DeleteStale(p) == DeleteLock(p, "stale", "lock")

\* The deadline has passed.
Expire(p) ==
    /\ pc[p] = "lock" /\ waited[p] >= Wait
    /\ Goto(p, "force")
    /\ UNCHANGED <<rows, known, conf, locals, file, kills, calm>>

ForceDelete(p) == DeleteLock(p, "force", "retry")

\* Mutant: after the deadline the process waits until the file is gone.
ForceCreateWaits(p) ==
    /\ pc[p] = "retry" /\ lock = NoLock
    /\ lock' = p /\ lockAge' = 0
    /\ Enter(p, TRUE)
    /\ UNCHANGED <<rows, known, conf, used, port, kills>>

\* The last try; the action runs whether it succeeds or not.
ForceCreate(p) ==
    /\ pc[p] = "retry"
    /\ \/ /\ lock = NoLock
          /\ lock' = p /\ lockAge' = 0
          /\ Enter(p, TRUE)
       \/ /\ lock # NoLock
          /\ UNCHANGED file
          /\ Enter(p, FALSE)
    /\ UNCHANGED <<rows, known, conf, used, port, kills>>

\* Mutant: what stands where the port should be is noted whatever it is.
PortsOfAny(q) == {conf[q]}
\* Mutant: the port of a file is not noted.
PortsOfNone(q) == {}
PortsOf(q) == {conf[q]} \cap Ports

\* The loop over the profiles' files.
ReadConf(p) ==
    /\ pc[p] = "scan"
    /\ \E q \in todo[p] :
        /\ todo' = [todo EXCEPT ![p] = @ \ {q}]
        /\ used' = [used EXCEPT ![p] = @ \cup PortsOf(q)]
    /\ UNCHANGED <<rows, known, conf, pc, port, acquired, waited, file, kills, calm>>

\* The number at which freePort++ stops.
IsFreePort(n, S) == n \notin S /\ FirstPort .. (n - 1) \subseteq S

\* The file is opened, and so emptied, before its text is made.
OpenConf(p) ==
    /\ pc[p] = "scan" /\ todo[p] = {}
    /\ \E n \in Ports : IsFreePort(n, used[p]) /\ port' = [port EXCEPT ![p] = n]
    /\ conf' = [conf EXCEPT ![p] = EmptyConf]
    /\ Goto(p, "write")
    /\ UNCHANGED <<rows, known, todo, used, acquired, waited, file, kills, calm>>

\* The file cannot be opened: the exception leaves the action.
OpenFails(p) ==
    /\ pc[p] = "scan" /\ todo[p] = {}
    /\ Goto(p, "unlock")
    /\ UNCHANGED <<rows, known, conf, locals, file, kills, calm>>

\* The text is written, or an IOException leaves the file empty.
WriteConf(p) ==
    /\ pc[p] = "write"
    /\ \/ conf' = [conf EXCEPT ![p] = port[p]]
       \/ UNCHANGED conf
    /\ Goto(p, "unlock")
    /\ UNCHANGED <<rows, known, locals, file, kills, calm>>

\* Mutant: the lock is only given back after a success.
ReleasesOnSuccess(p) == acquired[p] /\ conf[p] \in Ports
Releases(p) == acquired[p]

\* The finally block; an exception goes on to the handler that logs it.
Unlock(p) ==
    /\ pc[p] = "unlock"
    /\ IF Releases(p) THEN lock' = NoLock /\ lockAge' = 0 ELSE UNCHANGED file
    /\ ForgetLocals(p)
    /\ Goto(p, IF conf[p] \in Ports THEN "run" ELSE "failed")
    /\ UNCHANGED <<rows, known, conf, kills, calm>>

\* The profile is stopped (onDestroy kills the process) or its process dies.
Kill(p) ==
    /\ pc[p] # "off" /\ kills < MaxKills
    /\ kills' = kills + 1
    /\ Goto(p, "off")
    /\ known' = [known EXCEPT ![p] = {}]
    /\ ForgetLocals(p)
    /\ UNCHANGED <<rows, conf, file, calm>>

\* Time passes: the lock file ages, and so do the waiters.
Waiting(p) == pc[p] \in {"lock", "age", "stale"}
Tick ==
    /\ lockAge' = IF lock # NoLock /\ lockAge <= Stale THEN lockAge + 1 ELSE lockAge
    /\ waited' = [p \in Profiles |->
          IF Waiting(p) /\ waited[p] < Wait THEN waited[p] + 1 ELSE waited[p]]
    /\ UNCHANGED <<rows, known, conf, pc, todo, used, port, acquired, lock, kills, calm>>

Init ==
    /\ rows \in SUBSET Profiles
    /\ known = [p \in Profiles |-> {}]
    /\ conf = [p \in Profiles |-> NoConf]
    /\ pc = [p \in Profiles |-> "off"]
    /\ todo = [p \in Profiles |-> {}] /\ used = [p \in Profiles |-> {}]
    /\ port = [p \in Profiles |-> FirstPort]
    /\ acquired = [p \in Profiles |-> FALSE]
    /\ waited = [p \in Profiles |-> 0]
    /\ lock = NoLock /\ lockAge = 0
    /\ kills = 0 /\ calm = TRUE

Step(p) ==
    \/ onStartPython(p) \/ CreateLock(p) \/ LookAtAge(p) \/ DeleteStale(p)
    \/ Expire(p) \/ ForceDelete(p) \/ ForceCreate(p)
    \/ ReadConf(p) \/ OpenConf(p) \/ OpenFails(p) \/ WriteConf(p) \/ Unlock(p)

Next == \/ \E p \in Profiles : Create(p) \/ onBind(p) \/ Step(p) \/ Kill(p)
        \/ Tick

\* A process that runs goes on, and time passes.
Spec == Init /\ [][Next]_vars /\ WF_vars(Tick) /\ \A p \in Profiles : WF_vars(Step(p))

-----------------------------------------------------------------------------
\* Every variable keeps its type; a port that is noted or chosen is a real one.
TypeOK ==
    /\ rows \in SUBSET Profiles
    /\ known \in [Profiles -> SUBSET Profiles]
    /\ conf \in [Profiles -> Ports \cup {NoConf, EmptyConf}]
    /\ pc \in [Profiles -> Phases]
    /\ todo \in [Profiles -> SUBSET Profiles]
    /\ used \in [Profiles -> SUBSET Ports]
    /\ port \in [Profiles -> Ports]
    /\ acquired \in [Profiles -> BOOLEAN]
    /\ waited \in [Profiles -> Nat]
    /\ lock \in Profiles \cup {NoLock}
    /\ lockAge \in Nat /\ kills \in Nat /\ calm \in BOOLEAN

\* The action of withMoonrakerPortLock runs in one process at a time, its owner's.
LockExclusive ==
    calm => \A p \in Profiles : InSection(p) => acquired[p] /\ lock = p

\* Two profiles never have one port in their files, whatever processes were
\* killed, failed to write or gave up waiting in between.
PortsDistinct ==
    calm => \A p, q \in Profiles :
        conf[p] \in Ports /\ conf[p] = conf[q] => p = q

\* When every process has gone on and none was killed, the lock file is gone.
LockReleased ==
    kills = 0 /\ (\A p \in Profiles : pc[p] \in {"off", "run", "failed"}) => lock = NoLock

\* A service that starts gets its port, or logs that it could not, even if the
\* process that had the lock is dead.
StartEnds == \A p \in Profiles :
    pc[p] = "start" ~> pc[p] \in {"run", "failed", "off"}

\* Each profile has a Moonraker port of its own ("run up to 10 printer profiles
\* simultaneously").
EachItsOwnPort ==
    \A p, q \in Profiles : conf[p] \in Ports /\ conf[p] = conf[q] => p = q
=============================================================================
