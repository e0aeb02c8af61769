--------------------------- MODULE KlipperInstance ---------------------------
(***************************************************************************)
(* The life of printer profiles in the application's main process:          *)
(* KlipperInstance.kt with the code that drives it (MainViewModel, the      *)
(* profile editor, BeamDB, AppState's list and KlipperApp.onCreate).        *)
(*                                                                         *)
(* A profile (an id) has one database row and MANY KlipperInstance objects: *)
(* every read of the table makes new ones, so an object is <<id, gen>>.     *)
(* Two threads run this code: "main" (the Looper: user input, posted tasks, *)
(* service callbacks) and "io" (the coroutine that boots the application    *)
(* and then runs the editor's database writes).  The steps of start() and   *)
(* of onInstancesLoadedFromDB() interleave, since nothing locks `slots`.    *)
(***************************************************************************)
EXTENDS Integers, Sequences, FiniteSets

CONSTANTS
    Ids,            \* profile ids (UUIDs)
    SLOTS_COUNT,    \* number of KlippyService_n / MoonrakerService_n pairs
    NoId,           \* "this service process does not exist"
    NoConn,         \* a null ServiceConnection
    MaxEdits,       \* bound: database writes asked for by the user
    MaxBinds,       \* bound: times the user makes one object bind its services
    MaxDeaths,      \* bound: service processes that die
    MaxFlips,       \* bound: times the camera is switched on or off
    MaxQueue        \* bound: queue length at which the user stops tapping

ASSUME SlotsAssumption == SLOTS_COUNT \in Nat \ {0} /\ Ids # {}
ASSUME FiniteAssumption == IsFiniteSet(Ids)
ASSUME NullAssumption ==
    /\ NoId \notin Ids
    /\ NoConn \notin ((Ids \X Nat) \X Nat)
ASSUME BoundsAssumption ==
    /\ MaxEdits \in Nat /\ MaxBinds \in Nat
    /\ MaxDeaths \in Nat /\ MaxFlips \in Nat /\ MaxQueue \in Nat

Gens    == 1 .. (MaxEdits + 2)      \* the UI's first read, the boot, the edits
Obj     == Ids \X Gens
Slots   == 0 .. (SLOTS_COUNT - 1)
NoSlot  == -1
NoObj   == <<NoId, 0>>
Kinds   == {"klippy", "moonraker"}
Threads == {"main", "io"}
States  == {"IDLE", "STARTING", "RUNNING", "STOPPING"}
Conn    == Obj \X Nat               \* the connections an object's n-th bind task makes
Phases  == {"idle", "boot", "read", "copy", "drop", "auto", "slot", "put", "crashed"}

IdOf(o)     == o[1]
IdsOf(S)    == {IdOf(o) : o \in S}
Other(t)    == IF t = "main" THEN "io" ELSE "main"
OtherKind(k) == IF k = "klippy" THEN "moonraker" ELSE "klippy"

BindTask(o)     == [op |-> "bind", obj |-> o]
UnbindTask(o)   == [op |-> "unbind", obj |-> o]
ServersTask     == [op |-> "servers"]
StopServersTask == [op |-> "stopServers"]
RefreshTask     == [op |-> "refresh"]
CameraTask(on)  == [op |-> "camera", on |-> on]
Task == [op : {"bind", "unbind"}, obj : Obj]
          \cup [op : {"servers", "stopServers", "refresh"}]
          \cup [op : {"camera"}, on : BOOLEAN]
Binding == [kind : Kinds, conn : Conn, slot : Slots,
            phase : {"wait", "up", "dead"}]
DbWrite == [op : {"insert", "update", "delete"}, id : Ids, auto : BOOLEAN]

VARIABLES
    \* the fields of every KlipperInstance object
    state, slot, conn, connected, autostart, binds,
    \* KlipperInstance's companion object
    slots, instances, webConn, camConn,
    \* the main Looper's queue, and the profiles a runStopAll() still has to treat
    queue, batch,
    \* where each thread is: the object start() works on, the loop's rest, the list read
    pc, cur, todo, loaded,
    \* the instances table, writes launched on Dispatchers.IO, preferences, the UI's list
    rows, auto, fresh, pending, camPref, view, uiStarted,
    \* Android's ActivityManager: bindings and what each service process runs
    bindings, serving,
    \* counters for the bounds, and the history variable of the properties
    gen, edits, deaths, flips, calm

objVars  == <<state, slot, conn, connected, autostart, binds>>
regVars  == <<slots, instances, webConn, camConn>>
thrVars  == <<pc, cur, todo, loaded>>
dbVars   == <<rows, auto, fresh, pending, camPref>>
uiVars   == <<view, uiStarted>>
sysVars  == <<bindings, serving>>
cntVars  == <<gen, edits, deaths, flips>>
vars == <<objVars, regVars, queue, batch, thrVars, dbVars, uiVars, sysVars,
          cntVars, calm>>

-----------------------------------------------------------------------------
(* State functions *)

NullConn == [k \in Kinds |-> NoConn]
NoneUp   == [k \in Kinds |-> FALSE]
NoBatch  == [op |-> "none", objs |-> {}]

Held       == {o \in Obj : slots[o] # NoSlot}          \* slots.keys
\* Mutant: a slot counts as taken only once its profile runs.
UsedSlotsOfRunning == {slots[o] : o \in {p \in Held : state[p] = "RUNNING"}}
UsedSlots  == {slots[o] : o \in Held}                  \* slots.values
\* Mutant: numbers from 1.
FreeSlotsFromOne == (1 .. SLOTS_COUNT) \ UsedSlots
FreeSlots  == Slots \ UsedSlots

\* Mutant: off by one.
hasFreeSlotsBut1 == Cardinality(Held) < SLOTS_COUNT - 1
hasFreeSlots == Cardinality(Held) < SLOTS_COUNT
\* Mutant: a profile that is still starting is overlooked.
hasAnyRunningOrStopping == \E o \in Held : state[o] \in {"RUNNING", "STOPPING"}
hasAnyRunningInstance == \E o \in Held : state[o] \in {"RUNNING", "STARTING", "STOPPING"}

\* The object the registry knows the profile by; {} stands for the throw-away
\* object, IDLE and without connections, that the database fallback makes.
getInstance(i) == {o \in instances : IdOf(o) = i}

\* slots after notifyStateChanged(IDLE): every object of the profile loses its slot.
Released(o) == [p \in Obj |-> IF IdOf(p) = IdOf(o) THEN NoSlot ELSE slots[p]]

\* An exception nobody catches ends the process, whichever thread throws it.
Alive    == \A t \in Threads : pc[t] # "crashed"
MainFree == pc["main"] = "idle" /\ batch.objs = {}

(***************************************************************************)
(* calm stays TRUE while none of the following has happened: a thread took  *)
(* a step inside the other's critical section, the boot cleared `slots`     *)
(* under a started profile, a reload copied an object in transition, the UI *)
(* or an autostart operated an object the registry no longer holds, one was *)
(* started while a task of its last session waited in the queue.            *)
(***************************************************************************)
Busy(t) == pc[t] \in {"copy", "drop", "slot", "put"}
Awaited(o) ==
    \E i \in 1 .. Len(queue) : queue[i].op \in {"bind", "unbind"} /\ queue[i].obj = o
Settled(o) ==
    \/ state[o] = "IDLE"
    \/ /\ state[o] = "RUNNING" /\ slots[o] = slot[o]
       /\ \A k \in Kinds : connected[o][k] /\ conn[o][k] # NoConn
       /\ ~Awaited(o)
Note(t, ok) == calm' = (calm /\ ~Busy(Other(t)) /\ ok)

-----------------------------------------------------------------------------
(* start() and stop() *)

Stoppable(o) == state[o] \in {"RUNNING", "STARTING"}

\* Mutant: the services are left to themselves.
stoppingWithoutUnbind(o) ==
    /\ state' = [state EXCEPT ![o] = "STOPPING"]
    /\ UNCHANGED queue

stopping(o) ==
    /\ state' = [state EXCEPT ![o] = "STOPPING"]
    /\ queue' = Append(queue, UnbindTask(o))

stop(o) == IF Stoppable(o) THEN stopping(o) ELSE UNCHANGED <<state, queue>>

\* start() up to the choice of a slot; a directory that cannot be made ends in stop().
startBegin(t, o) ==
    /\ state[o] = "IDLE"
    /\ \/ /\ state' = [state EXCEPT ![o] = "STARTING"]
          /\ pc' = [pc EXCEPT ![t] = "slot"]
          /\ cur' = [cur EXCEPT ![t] = o]
          /\ UNCHANGED queue
       \/ /\ stopping(o)
          /\ UNCHANGED <<pc, cur>>

\* start() reads `slots` and takes the least free number, or throws.
PickSlot(t) ==
    /\ pc[t] = "slot"
    /\ \/ /\ hasFreeSlots
          /\ \E s \in FreeSlots :
                /\ \A r \in FreeSlots : s <= r
                /\ slot' = [slot EXCEPT ![cur[t]] = s]
          /\ pc' = [pc EXCEPT ![t] = "put"]
       \/ /\ ~hasFreeSlots
          /\ pc' = [pc EXCEPT ![t] = "crashed"]
          /\ UNCHANGED slot
    /\ Note(t, TRUE)
    /\ UNCHANGED <<state, conn, connected, autostart, binds, regVars, queue, batch,
                   cur, todo, loaded, dbVars, uiVars, sysVars, cntVars>>

\* start() records the slot and posts the binding of both services.
PutSlot(t) ==
    /\ pc[t] = "put"
    /\ slots' = [slots EXCEPT ![cur[t]] = slot[cur[t]]]
    /\ queue' = Append(queue, BindTask(cur[t]))
    /\ pc' = [pc EXCEPT ![t] = IF loaded[t] = {} THEN "idle" ELSE "auto"]
    /\ cur' = [cur EXCEPT ![t] = NoObj]
    /\ Note(t, TRUE)
    /\ UNCHANGED <<objVars, instances, webConn, camConn, batch, todo, loaded,
                   dbVars, uiVars, sysVars, cntVars>>

-----------------------------------------------------------------------------
(* Tasks of the main Looper *)

Dequeue(op) == MainFree /\ queue # <<>> /\ Head(queue).op = op

\* BasePythonService.onBind: a service takes its profile from the intent that
\* creates it; Android hands the same binder to every later client.
onBind(o) ==
    [k \in Kinds |-> [serving[k] EXCEPT ![slot[o]] = IF @ = NoId THEN IdOf(o) ELSE @]]

\* The task of start(): both services are bound under the slot the object has now.
RunBind ==
    /\ Dequeue("bind")
    /\ LET o == Head(queue).obj
           c == <<o, binds[o]>>
       IN  /\ binds' = [binds EXCEPT ![o] = @ + 1]
           /\ conn' = [conn EXCEPT ![o] = [k \in Kinds |-> c]]
           /\ bindings' = bindings \cup
                {[kind |-> k, conn |-> c, slot |-> slot[o], phase |-> "wait"] : k \in Kinds}
           /\ serving' = onBind(o)
    /\ queue' = Tail(queue)
    /\ Note("main", TRUE)
    /\ UNCHANGED <<state, slot, connected, autostart, regVars, batch, thrVars, dbVars,
                   uiVars, cntVars>>

\* Mutant: only klippy is unbound.
KeptAfterKlippy(o) ==
    {b \in bindings : b.kind = "moonraker" \/ b.conn # conn[o][b.kind]}

\* unbindService: the ActivityManager forgets the object's two connections,
Kept(o) == {b \in bindings : b.conn # conn[o][b.kind]}

\* ... and destroys a service nothing is bound to any more (onDestroy kills
\* its process).
Unbind(o) ==
    LET left == Kept(o)
    IN  /\ bindings' = left
        /\ serving' = [k \in Kinds |-> [s \in Slots |->
              IF \E b \in left : b.kind = k /\ b.slot = s THEN serving[k][s] ELSE NoId]]

\* The notifyStateChanged(IDLE) calls of stop()'s task: by onKlippyUnbound(),
\* by onMoonrakerUnbound(), and at the end if neither made one.
IdleByKlippy(o) == conn[o]["klippy"] # NoConn /\ ~connected[o]["moonraker"]
IdleByMoonraker(o) ==
    /\ conn[o]["moonraker"] # NoConn
    /\ conn[o]["klippy"] # NoConn \/ ~connected[o]["klippy"]
\* Mutant: the last call is missing.
NeverIdleAtLast(o) == FALSE
IdleAtLast(o) ==
    state[o] = "STOPPING" /\ ~IdleByKlippy(o) /\ ~IdleByMoonraker(o)

\* The task of stop().
RunUnbind ==
    /\ Dequeue("unbind")
    /\ LET o  == Head(queue).obj
           both == IdleByKlippy(o) /\ IdleByMoonraker(o)
           idle == IdleByKlippy(o) \/ IdleByMoonraker(o) \/ IdleAtLast(o)
       IN  /\ Unbind(o)
           /\ conn' = [conn EXCEPT ![o] = NullConn]
           /\ connected' = [connected EXCEPT ![o] = NoneUp]
           /\ state' = [state EXCEPT ![o] = IF idle THEN "IDLE" ELSE @]
           /\ slots' = IF idle THEN Released(o) ELSE slots
           /\ queue' = Tail(queue) \o
                (IF both THEN <<StopServersTask, StopServersTask>>
                 ELSE IF idle THEN <<StopServersTask>> ELSE <<>>)
    /\ Note("main", TRUE)
    /\ UNCHANGED <<slot, autostart, binds, instances, webConn, camConn, batch, thrVars,
                   dbVars, uiVars, cntVars>>

\* The task of notifyStateChanged(RUNNING).
RunServers ==
    /\ Dequeue("servers")
    /\ webConn' = TRUE
    /\ camConn' = (camConn \/ camPref)
    /\ queue' = Tail(queue)
    /\ Note("main", TRUE)
    /\ UNCHANGED <<objVars, slots, instances, batch, thrVars, dbVars, uiVars, sysVars,
                   cntVars>>

stopServerServicesIfNoSlots ==
    /\ Dequeue("stopServers")
    /\ \/ /\ hasAnyRunningInstance
          /\ UNCHANGED <<slots, webConn, camConn>>
       \/ /\ ~hasAnyRunningInstance
          /\ slots' = [o \in Obj |-> NoSlot]
          /\ webConn' = FALSE
          /\ camConn' = FALSE
    /\ queue' = Tail(queue)
    /\ Note("main", TRUE)
    /\ UNCHANGED <<objVars, instances, batch, thrVars, dbVars, uiVars, sysVars, cntVars>>

\* The task of onCameraConfigChanged(enable).
RunCamera ==
    /\ Dequeue("camera")
    /\ camConn' = IF Head(queue).on THEN camConn \/ Held # {} ELSE FALSE
    /\ queue' = Tail(queue)
    /\ Note("main", TRUE)
    /\ UNCHANGED <<objVars, slots, instances, webConn, batch, thrVars, dbVars, uiVars,
                   sysVars, cntVars>>

\* AppState.onInstancesRefreshed: a list of the same ids is filtered out, and
\* the UI keeps the objects it has.
RunRefresh ==
    /\ Dequeue("refresh")
    /\ view' = IF uiStarted /\ IdsOf(view) # IdsOf(instances) THEN instances ELSE view
    /\ queue' = Tail(queue)
    /\ Note("main", TRUE)
    /\ UNCHANGED <<objVars, regVars, batch, thrVars, dbVars, uiStarted, sysVars, cntVars>>

-----------------------------------------------------------------------------
(* Callbacks of the two services; they reach the object that made the       *)
(* connection, whatever the registry holds by then                           *)

\* Mutant: only klippy's callback looks at the other service.
CompletesByKlippy(o, k) == k = "klippy" /\ connected[o]["moonraker"]
Completes(o, k) == connected[o][OtherKind(k)]

onServiceConnected(b) ==
    /\ MainFree
    /\ b.phase = "wait"
    /\ LET o == b.conn[1]
       IN  /\ connected' = [connected EXCEPT ![o][b.kind] = TRUE]
           /\ IF Completes(o, b.kind)
              THEN /\ state' = [state EXCEPT ![o] = "RUNNING"]
                   /\ queue' = Append(queue, ServersTask)
              ELSE UNCHANGED <<state, queue>>
    /\ bindings' = (bindings \ {b}) \cup {[b EXCEPT !.phase = "up"]}
    /\ Note("main", TRUE)
    /\ UNCHANGED <<slot, conn, autostart, binds, regVars, batch, thrVars, dbVars, uiVars,
                   serving, cntVars>>

\* The binding itself survives, and Android will create the service again.
onServiceDisconnected(b) ==
    /\ MainFree
    /\ b.phase = "dead"
    /\ LET o == b.conn[1]
       IN  /\ conn' = [conn EXCEPT ![o][b.kind] = NoConn]
           /\ connected' = [connected EXCEPT ![o][b.kind] = FALSE]
           /\ IF connected[o][OtherKind(b.kind)]
              THEN UNCHANGED <<state, slots, queue>>
              ELSE /\ state' = [state EXCEPT ![o] = "IDLE"]
                   /\ slots' = Released(o)
                   /\ queue' = Append(queue, StopServersTask)
    /\ bindings' = (bindings \ {b}) \cup {[b EXCEPT !.phase = "wait"]}
    /\ Note("main", TRUE)
    /\ UNCHANGED <<slot, autostart, binds, instances, webConn, camConn, batch, thrVars,
                   dbVars, uiVars, serving, cntVars>>

\* Environment: the process of a service dies (Python cannot start, the
\* low-memory killer, a crash).
Die(k, s) ==
    /\ deaths < MaxDeaths
    /\ \E b \in bindings : b.kind = k /\ b.slot = s /\ b.phase = "up"
    /\ bindings' = {IF b.kind = k /\ b.slot = s /\ b.phase = "up"
                    THEN [b EXCEPT !.phase = "dead"] ELSE b : b \in bindings}
    /\ deaths' = deaths + 1
    /\ UNCHANGED <<objVars, regVars, queue, batch, thrVars, dbVars, uiVars, serving, gen,
                   edits, flips, calm>>

-----------------------------------------------------------------------------
(* The database and onInstancesLoadedFromDB *)

\* BeamDB.getInstances(): a new object for every row.
ReadRows(t) ==
    /\ pc[t] = "read"
    /\ gen < MaxEdits + 2
    /\ LET new == {<<i, gen + 1>> : i \in rows}
       IN  /\ loaded' = [loaded EXCEPT ![t] = new]
           /\ todo' = [todo EXCEPT ![t] = new]
           /\ autostart' = [o \in Obj |-> IF o \in new THEN IdOf(o) \in auto ELSE autostart[o]]
    /\ gen' = gen + 1
    /\ pc' = [pc EXCEPT ![t] = "copy"]
    /\ Note(t, TRUE)
    /\ UNCHANGED <<state, slot, conn, connected, binds, regVars, queue, batch, cur, dbVars,
                   uiVars, sysVars, edits, deaths, flips>>

\* Mutant: slots.remove(was) is forgotten.
TakeOverKeeping(o, was) ==
    [slots EXCEPT ![o] = IF state[was] # "IDLE" THEN slot[was] ELSE @]
TakeOver(o, was) ==
    [slots EXCEPT ![was] = NoSlot,
                  ![o] = IF state[was] # "IDLE" THEN slot[was] ELSE @]
\* Mutant: the connections are not taken over.
TakenConnNone(o, was) == conn
TakenConn(o, was) == [conn EXCEPT ![o] = conn[was]]

\* First loop: a new object takes over the fields and the slot of the known one.
CopyOne(t) ==
    /\ pc[t] = "copy"
    /\ \E o \in todo[t] :
        /\ todo' = [todo EXCEPT ![t] = @ \ {o}]
        /\ \/ /\ getInstance(IdOf(o)) = {}
              /\ Note(t, TRUE)
              /\ UNCHANGED <<state, slot, conn, connected, slots>>
           \/ \E was \in getInstance(IdOf(o)) :
              /\ state' = [state EXCEPT ![o] = state[was]]
              /\ slot' = [slot EXCEPT ![o] = slot[was]]
              /\ conn' = TakenConn(o, was)
              /\ connected' = [connected EXCEPT ![o] = connected[was]]
              /\ slots' = TakeOver(o, was)
              /\ Note(t, Settled(was))
    /\ UNCHANGED <<autostart, binds, instances, webConn, camConn, queue, batch, pc, cur,
                   loaded, dbVars, uiVars, sysVars, cntVars>>

\* ... then the objects in slots whose profile is gone are listed,
ListGone(t) ==
    /\ pc[t] = "copy" /\ todo[t] = {}
    /\ todo' = [todo EXCEPT ![t] = {o \in Held : IdOf(o) \notin IdsOf(loaded[t])}]
    /\ pc' = [pc EXCEPT ![t] = "drop"]
    /\ Note(t, TRUE)
    /\ UNCHANGED <<objVars, regVars, queue, batch, cur, loaded, dbVars, uiVars, sysVars,
                   cntVars>>

\* ... lose their slot and are stopped,
DropOne(t) ==
    /\ pc[t] = "drop"
    /\ \E o \in todo[t] :
        /\ todo' = [todo EXCEPT ![t] = @ \ {o}]
        /\ slots' = [slots EXCEPT ![o] = NoSlot]
        /\ stop(o)
    /\ Note(t, TRUE)
    /\ UNCHANGED <<slot, conn, connected, autostart, binds, instances, webConn, camConn,
                   batch, pc, cur, loaded, dbVars, uiVars, sysVars, cntVars>>

\* ... and the new list is published.
Publish(t) ==
    /\ pc[t] = "drop" /\ todo[t] = {}
    /\ instances' = loaded[t]
    /\ queue' = queue \o <<StopServersTask, RefreshTask>>
    /\ todo' = [todo EXCEPT ![t] = loaded[t]]
    /\ pc' = [pc EXCEPT ![t] = "auto"]
    /\ Note(t, TRUE)
    /\ UNCHANGED <<objVars, slots, webConn, camConn, batch, cur, loaded, dbVars, uiVars,
                   sysVars, cntVars>>

\* Last loop: idle profiles marked autostart are started.
AutostartOne(t) ==
    /\ pc[t] = "auto"
    /\ \E o \in todo[t] :
        /\ todo' = [todo EXCEPT ![t] = @ \ {o}]
        /\ \/ /\ autostart[o] /\ state[o] = "IDLE"
              /\ startBegin(t, o)
              /\ Note(t, o \in instances /\ ~Awaited(o))
           \/ /\ ~(autostart[o] /\ state[o] = "IDLE")
              /\ Note(t, TRUE)
              /\ UNCHANGED <<state, queue, pc, cur>>
    /\ UNCHANGED <<slot, conn, connected, autostart, binds, regVars, batch, loaded, dbVars, uiVars,
                   sysVars, cntVars>>

ReloadDone(t) ==
    /\ pc[t] = "auto" /\ todo[t] = {}
    /\ pc' = [pc EXCEPT ![t] = "idle"]
    /\ loaded' = [loaded EXCEPT ![t] = {}]
    /\ Note(t, TRUE)
    /\ UNCHANGED <<objVars, regVars, queue, batch, cur, todo, dbVars, uiVars, sysVars,
                   cntVars>>

\* KlipperApp.onCreate's coroutine, once the bundle is installed.
resetSlotsForFreshStart ==
    /\ pc["io"] = "boot"
    /\ slots' = [o \in Obj |-> NoSlot]
    /\ webConn' = FALSE
    /\ camConn' = FALSE
    /\ pc' = [pc EXCEPT !["io"] = "read"]
    /\ Note("io", \A o \in Obj : state[o] = "IDLE")
    /\ UNCHANGED <<objVars, instances, queue, batch, cur, todo, loaded, dbVars, uiVars,
                   sysVars, cntVars>>

WriteRow(w) ==
    /\ rows' = CASE w.op = "insert" -> rows \cup {w.id}
                 [] w.op = "delete" -> rows \ {w.id}
                 [] OTHER -> rows
    /\ auto' = IF w.id \in rows' /\ w.auto THEN auto \cup {w.id} ELSE auto \ {w.id}

\* BeamDB.insert / update / delete on Dispatchers.IO.
DbWriteOnIo(w) ==
    /\ pc["io"] = "idle"
    /\ WriteRow(w)
    /\ pending' = pending \ {w}
    /\ pc' = [pc EXCEPT !["io"] = "read"]
    /\ Note("io", TRUE)
    /\ UNCHANGED <<objVars, regVars, queue, batch, cur, todo, loaded, fresh, camPref,
                   uiVars, sysVars, cntVars>>

-----------------------------------------------------------------------------
(* The user *)

Tap == MainFree /\ uiStarted /\ Len(queue) < MaxQueue

\* MainActivity.onCreate -> AppState.start: the list is read through
\* KlipperInstance.getInstances(), which reads the table itself when boot is late.
StartUi ==
    /\ MainFree /\ ~uiStarted
    /\ uiStarted' = TRUE
    /\ IF instances = {} /\ rows # {}
       THEN /\ gen < MaxEdits + 2
            /\ LET new == {<<i, gen + 1>> : i \in rows}
               IN  /\ instances' = new
                   /\ view' = new
                   /\ autostart' = [o \in Obj |->
                        IF o \in new THEN IdOf(o) \in auto ELSE autostart[o]]
            /\ gen' = gen + 1
       ELSE /\ view' = instances
            /\ UNCHANGED <<instances, autostart, gen>>
    /\ Note("main", TRUE)
    /\ UNCHANGED <<state, slot, conn, connected, binds, slots, webConn, camConn, queue,
                   batch, thrVars, dbVars, sysVars, edits, deaths, flips>>

\* The screen was away for more than five seconds: the flow binds afresh.
Resubscribe ==
    /\ Tap /\ view # instances
    /\ \A i \in 1 .. Len(queue) : queue[i].op # "refresh"
    /\ view' = instances
    /\ Note("main", TRUE)
    /\ UNCHANGED <<objVars, regVars, queue, batch, thrVars, dbVars, uiStarted, sysVars,
                   cntVars>>

\* What a batch will write to the table: stopping an autostart profile clears its flag.
Writes(op, S) == IF op = "stop" THEN Cardinality({o \in S : autostart[o]}) ELSE 0

BeginBatch(op, S) ==
    /\ op = "start" => \A o \in S : binds[o] < MaxBinds
    /\ edits + Writes(op, S) <= MaxEdits
    /\ edits' = edits + Writes(op, S)
    /\ batch' = [op |-> op, objs |-> S]
    /\ Note("main", TRUE)
    /\ UNCHANGED <<objVars, regVars, queue, thrVars, dbVars, uiVars, sysVars, gen, deaths, flips>>

toggle(o) ==
    /\ Tap
    /\ \/ state[o] = "IDLE" /\ BeginBatch("start", {o})
       \/ state[o] = "RUNNING" /\ BeginBatch("stop", {o})

runStopAll ==
    /\ Tap /\ view # {}
    /\ IF \E o \in view : Stoppable(o)
       THEN BeginBatch("stop", view)
       ELSE BeginBatch("start", view)

\* One turn of the loop of runStopAll (toggle is a loop over one profile).
BatchOne ==
    /\ pc["main"] = "idle"
    /\ \E o \in batch.objs :
        /\ Note("main", /\ o \in instances
                        /\ batch.op = "start" /\ state[o] = "IDLE" => ~Awaited(o))
        /\ LET rest == IF batch.objs = {o} THEN NoBatch ELSE [batch EXCEPT !.objs = @ \ {o}]
           IN  \/ /\ batch.op = "stop" /\ Stoppable(o)
                  /\ stop(o)
                  /\ batch' = rest
                  /\ IF autostart[o]
                     THEN /\ autostart' = [autostart EXCEPT ![o] = FALSE]
                          /\ WriteRow([op |-> "update", id |-> IdOf(o), auto |-> FALSE])
                          /\ pc' = [pc EXCEPT !["main"] = "read"]
                     ELSE UNCHANGED <<autostart, rows, auto, pc>>
                  /\ UNCHANGED cur
               \/ /\ batch.op = "start" /\ state[o] = "IDLE" /\ hasFreeSlots
                  /\ startBegin("main", o)
                  /\ batch' = rest
                  /\ UNCHANGED <<autostart, rows, auto>>
               \/ /\ batch.op = "start" /\ state[o] = "IDLE" /\ ~hasFreeSlots
                  /\ batch' = NoBatch
                  /\ UNCHANGED <<state, queue, autostart, rows, auto, pc, cur>>
               \/ /\ IF batch.op = "stop" THEN ~Stoppable(o) ELSE state[o] # "IDLE"
                  /\ batch' = rest
                  /\ UNCHANGED <<state, queue, autostart, rows, auto, pc, cur>>
    /\ UNCHANGED <<slot, conn, connected, binds, regVars, todo, loaded, pending, fresh, camPref,
                   uiVars, sysVars, cntVars>>

Launch(w) ==
    /\ edits < MaxEdits
    /\ edits' = edits + 1
    /\ pending' = pending \cup {w}

\* MainViewModel.delete: stop() now, the row later.
delete(o) ==
    /\ Tap
    /\ Launch([op |-> "delete", id |-> IdOf(o), auto |-> FALSE])
    /\ stop(o)
    /\ Note("main", o \in instances)
    /\ UNCHANGED <<slot, conn, connected, autostart, binds, regVars, batch, thrVars, rows,
                   auto, fresh, camPref, uiVars, sysVars, gen, deaths, flips>>

\* InstanceEditorViewModel.save of a profile of the list.
saveEdited(o, a) ==
    /\ Tap
    /\ Launch([op |-> "update", id |-> IdOf(o), auto |-> a])
    /\ autostart' = [autostart EXCEPT ![o] = a]
    /\ Note("main", TRUE)
    /\ UNCHANGED <<state, slot, conn, connected, binds, regVars, queue, batch, thrVars,
                   rows, auto, fresh, camPref, uiVars, sysVars, gen, deaths, flips>>

\* InstanceEditorViewModel.save of a new profile: a new UUID, if the table has
\* room; the button is disabled while an insert waits.
saveNew(i, a) ==
    /\ Tap
    /\ Cardinality(rows) < SLOTS_COUNT
    /\ \A w \in pending : w.op # "insert"
    /\ fresh' = fresh \ {i}
    /\ Launch([op |-> "insert", id |-> i, auto |-> a])
    /\ Note("main", TRUE)
    /\ UNCHANGED <<objVars, regVars, queue, batch, thrVars, rows, auto, camPref, uiVars,
                   sysVars, gen, deaths, flips>>

\* SettingsViewModel.setCameraEnabled.
setCameraEnabled(on) ==
    /\ Tap /\ on # camPref /\ flips < MaxFlips
    /\ flips' = flips + 1
    /\ camPref' = on
    /\ queue' = Append(queue, CameraTask(on))
    /\ Note("main", TRUE)
    /\ UNCHANGED <<objVars, regVars, batch, thrVars, rows, auto, fresh, pending, uiVars,
                   sysVars, gen, edits, deaths>>

-----------------------------------------------------------------------------
Init ==
    /\ state = [o \in Obj |-> "IDLE"]
    /\ slot = [o \in Obj |-> 0]
    /\ conn = [o \in Obj |-> NullConn]
    /\ connected = [o \in Obj |-> NoneUp]
    /\ autostart = [o \in Obj |-> FALSE]
    /\ binds = [o \in Obj |-> 0]
    /\ slots = [o \in Obj |-> NoSlot]
    /\ instances = {} /\ view = {} /\ uiStarted = FALSE
    /\ webConn = FALSE /\ camConn = FALSE
    /\ queue = <<>> /\ batch = NoBatch
    /\ pc = [t \in Threads |-> IF t = "io" THEN "boot" ELSE "idle"]
    /\ cur = [t \in Threads |-> NoObj]
    /\ todo = [t \in Threads |-> {}]
    /\ loaded = [t \in Threads |-> {}]
    /\ rows \in {S \in SUBSET Ids : Cardinality(S) <= SLOTS_COUNT}
    /\ auto \in SUBSET rows
    /\ fresh = Ids \ rows
    /\ camPref \in BOOLEAN
    /\ pending = {} /\ bindings = {}
    /\ serving = [k \in Kinds |-> [s \in Slots |-> NoId]]
    /\ gen = 0 /\ edits = 0 /\ deaths = 0 /\ flips = 0
    /\ calm = TRUE

LoaderStep(t) ==
    \/ PickSlot(t) \/ PutSlot(t)
    \/ ReadRows(t) \/ CopyOne(t) \/ ListGone(t) \/ DropOne(t) \/ Publish(t)
    \/ AutostartOne(t) \/ ReloadDone(t)

IoStep == LoaderStep("io") \/ resetSlotsForFreshStart
            \/ \E w \in pending : DbWriteOnIo(w)

MainTask == RunBind \/ RunUnbind \/ RunServers \/ stopServerServicesIfNoSlots
              \/ RunCamera \/ RunRefresh

\* A handler the main thread has begun.
MainWork == LoaderStep("main") \/ BatchOne

MainStep == MainWork \/ MainTask

Callback == \E b \in bindings : onServiceConnected(b) \/ onServiceDisconnected(b)

User ==
    \/ StartUi \/ Resubscribe \/ runStopAll
    \/ \E o \in view : toggle(o) \/ delete(o) \/ \E a \in BOOLEAN : saveEdited(o, a)
    \/ \E i \in fresh, a \in BOOLEAN : saveNew(i, a)
    \/ \E on \in BOOLEAN : setCameraEnabled(on)

Death == \E k \in Kinds, s \in Slots : Die(k, s)

Next == Alive /\ (IoStep \/ MainStep \/ Callback \/ User \/ Death)

\* Each thread goes on with what it has begun.  Posted tasks and service callbacks
\* wait in the main Looper's first-in first-out queue with the user's input: no
\* number of taps can put them off for ever (strong fairness).
Fairness ==
    /\ WF_vars(Alive /\ IoStep)
    /\ WF_vars(Alive /\ MainWork)
    /\ SF_vars(Alive /\ MainTask)
    /\ SF_vars(Alive /\ Callback)

Spec == Init /\ [][Next]_vars /\ Fairness

-----------------------------------------------------------------------------
(* Properties *)

ObjType ==
    /\ state \in [Obj -> States]
    /\ slot \in [Obj -> Slots]
    /\ conn \in [Obj -> [Kinds -> Conn \cup {NoConn}]]
    /\ connected \in [Obj -> [Kinds -> BOOLEAN]]
    /\ autostart \in [Obj -> BOOLEAN]
    /\ binds \in [Obj -> Nat]
RegistryType ==
    /\ slots \in [Obj -> Slots \cup {NoSlot}]
    /\ instances \in SUBSET Obj /\ view \in SUBSET Obj
    /\ webConn \in BOOLEAN /\ camConn \in BOOLEAN /\ uiStarted \in BOOLEAN
LooperType ==
    /\ queue \in Seq(Task)
    /\ batch \in [op : {"none", "start", "stop"}, objs : SUBSET Obj]
ThreadType ==
    /\ pc \in [Threads -> Phases]
    /\ cur \in [Threads -> Obj \cup {NoObj}]
    /\ todo \in [Threads -> SUBSET Obj] /\ loaded \in [Threads -> SUBSET Obj]
TableType ==
    /\ rows \in SUBSET Ids /\ auto \in SUBSET Ids /\ fresh \in SUBSET Ids
    /\ pending \in SUBSET DbWrite /\ camPref \in BOOLEAN
SystemType ==
    /\ bindings \in SUBSET Binding
    /\ serving \in [Kinds -> [Slots -> Ids \cup {NoId}]]
CountType ==
    /\ gen \in 0 .. (MaxEdits + 2) /\ edits \in Nat /\ deaths \in Nat /\ flips \in Nat
    /\ calm \in BOOLEAN
\* Every variable keeps its type; a slot number always names a declared service pair.
TypeOK == /\ ObjType /\ RegistryType /\ LooperType /\ ThreadType
          /\ TableType /\ SystemType /\ CountType

\* Inside start() a thread has an object to start.
StartsAnObject == \A t \in Threads : pc[t] \in {"slot", "put"} => cur[t] \in Obj

\* Between start()'s choice of a slot and slots[this] = slot no object gets that number.
ChosenSlotIsFree ==
    calm => \A t \in Threads :
        pc[t] = "put" => \A o \in Held : slots[o] # slot[cur[t]]

\* No two objects hold one slot number: start() picks a number outside
\* slots.values, and a reload moves an entry without doubling it.
SlotsInjective ==
    calm => \A o, p \in Held : slots[o] = slots[p] => o = p

\* Service process n runs the profile that bound it: a slot is only given to
\* another profile once stop()'s task has unbound BOTH services of the old one.
OwnProcess ==
    calm /\ deaths = 0 =>
        \A b \in bindings : serving[b.kind][b.slot] = IdOf(b.conn[1])

Posted(task) == \E i \in 1 .. Len(queue) : queue[i] = task

\* No binding is leaked: whatever stop, deletion or reload came in between, each
\* one is in the field of an object that a later stop() of its profile reaches
\* (it is published, or about to be, and has the slot), or an unbind is posted.
NoStrayBinding ==
    calm /\ deaths = 0 =>
        \A b \in bindings : \E o \in Obj :
            /\ conn[o][b.kind] = b.conn
            /\ \/ o \in instances /\ slots[o] = b.slot
               \/ o \in UNION {loaded[t] : t \in Threads} /\ slots[o] = b.slot
               \/ Posted(UnbindTask(o))

Quiet == queue = <<>> /\ MainFree /\ pc["io"] = "idle"

\* When nothing is left to do, the web server is bound exactly while profiles
\* hold slots, and the camera server too if the preference is on: the stop and
\* start tasks of two sessions posted in any order end in the right state.
ServersFollowInstances ==
    calm /\ deaths = 0 /\ Quiet =>
        /\ (\E o \in instances : state[o] = "RUNNING") => webConn /\ (camPref => camConn)
        /\ webConn => Held # {}
        /\ camConn => Held # {} /\ camPref

\* start() never throws "Not enough slots left!": the callers' checks, and the
\* table's limit for autostart, are enough.
NeverOutOfSlots == calm => Alive

\* A start ends: both services connect, or one is lost and the profile is idle
\* again, or the user stops it.
StartSettles == \A o \in Obj :
    (calm /\ state[o] = "STARTING") ~> (~calm \/ state[o] # "STARTING")

\* A stop ends, whichever of the services were connected when it was asked for.
StopSettles == \A o \in Obj :
    (calm /\ state[o] = "STOPPING") ~> (~calm \/ state[o] # "STOPPING")

\* Each profile shown as running is served by its own Klipper and Moonraker
\* ("run up to 10 printer profiles simultaneously").
ProfilesRunTheirOwnKlippy ==
    \A b \in bindings :
        state[b.conn[1]] = "RUNNING" /\ b.phase = "up"
            => serving[b.kind][b.slot] = IdOf(b.conn[1])
=============================================================================
