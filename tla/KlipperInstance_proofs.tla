------------------------ MODULE KlipperInstance_proofs ------------------------
(* Proofs about KlipperInstance: its type invariant, and the cases of a step. *)
EXTENDS KlipperInstance, FiniteSetTheorems, TLAPS

\* A posted task keeps the shape its handler relies on.
LEMMA TaskShape ==
    /\ \A o \in Obj : BindTask(o) \in Task /\ UnbindTask(o) \in Task
    /\ ServersTask \in Task /\ StopServersTask \in Task /\ RefreshTask \in Task
    /\ \A on \in BOOLEAN : CameraTask(on) \in Task
    /\ \A t \in Task : t.op \in {"bind", "unbind"} => t.obj \in Obj
    /\ \A t \in Task : t.op = "camera" => t.on \in BOOLEAN
BY DEF BindTask, UnbindTask, ServersTask, StopServersTask, RefreshTask, CameraTask, Task

\* The head and the tail of the queue.
LEMMA QueueShape ==
    ASSUME queue \in Seq(Task), queue # <<>>
    PROVE  Head(queue) \in Task /\ Tail(queue) \in Seq(Task)
OBVIOUS

\* The application starts in a state of the declared types.
LEMMA InitType == Init => TypeOK
<1> SUFFICES ASSUME Init PROVE TypeOK
  OBVIOUS
<1> 0 \in Slots
  BY SlotsAssumption DEF Slots
<1>1. ObjType
  BY DEF Init, ObjType, NullConn, NoneUp, States, Kinds
<1>2. RegistryType
  BY DEF Init, RegistryType
<1>3. LooperType
  BY DEF Init, LooperType, NoBatch
<1>4. ThreadType
  BY DEF Init, ThreadType, Phases
<1>5. TableType
  BY DEF Init, TableType
<1>6. SystemType
  BY DEF Init, SystemType
<1>7. CountType
  BY BoundsAssumption DEF Init, CountType
<1> QED
  BY <1>1, <1>2, <1>3, <1>4, <1>5, <1>6, <1>7 DEF TypeOK

\* There are finitely many objects, so a batch makes a finite number of writes.
LEMMA WritesType ==
    ASSUME NEW op, NEW S \in SUBSET Obj
    PROVE  Writes(op, S) \in Nat
<1>1. IsFiniteSet(Gens)
  BY BoundsAssumption, FS_Interval DEF Gens
<1>2. IsFiniteSet(Obj)
  BY <1>1, FiniteAssumption, FS_Product DEF Obj
<1>3. IsFiniteSet({o \in S : autostart[o]})
  BY <1>2, FS_Subset
<1> QED
  BY <1>3, FS_CardinalityType DEF Writes

\* start()'s choice of a slot keeps the types.
LEMMA PickSlotType ==
    ASSUME NEW t \in Threads, TypeOK, PickSlot(t)
    PROVE  TypeOK'
<1> USE DEF TypeOK
<1>1. ObjType'
  BY DEF PickSlot, ObjType, FreeSlots
<1>2. ThreadType'
  BY DEF PickSlot, ThreadType, Phases, Threads, ObjType
<1>3. CountType'
  BY DEF PickSlot, CountType, Note, cntVars
<1>4. RegistryType' /\ LooperType' /\ TableType' /\ SystemType'
  BY DEF PickSlot, RegistryType, LooperType, TableType, SystemType, objVars, regVars, thrVars, dbVars, uiVars, sysVars, cntVars
<1> QED
  BY <1>1, <1>2, <1>3, <1>4

\* start()'s slots[this] = slot keeps the types.
LEMMA PutSlotType ==
    ASSUME NEW t \in Threads, TypeOK, StartsAnObject, PutSlot(t)
    PROVE  TypeOK'
<1> USE DEF TypeOK
<1>1. RegistryType'
  BY DEF PutSlot, RegistryType, regVars, uiVars, ObjType, ThreadType, StartsAnObject
<1>2. LooperType'
  BY TaskShape, QueueShape DEF PutSlot, LooperType, ObjType, ThreadType, StartsAnObject
<1>3. ThreadType'
  BY DEF PutSlot, ThreadType, Phases, Threads, ObjType
<1>4. CountType'
  BY DEF PutSlot, CountType, Note, cntVars
<1>5. ObjType' /\ TableType' /\ SystemType'
  BY DEF PutSlot, ObjType, TableType, SystemType, objVars, regVars, thrVars, dbVars, uiVars, sysVars, cntVars
<1> QED
  BY <1>1, <1>2, <1>3, <1>4, <1>5

\* start()'s posted binding keeps the types.
LEMMA RunBindType ==
    ASSUME TypeOK, RunBind
    PROVE  TypeOK'
<1> USE DEF TypeOK
<1>1. ObjType'
  BY TaskShape, QueueShape DEF RunBind, ObjType, Kinds, Conn, Dequeue, LooperType, SystemType
<1>2. LooperType'
  BY TaskShape, QueueShape DEF RunBind, LooperType, Dequeue, ObjType, SystemType
<1>3. SystemType'
  <2> DEFINE o == Head(queue).obj
             c == <<o, binds[o]>>
  <2>1. o \in Obj
    BY TaskShape, QueueShape DEF RunBind, Dequeue, LooperType
  <2>2. c \in Conn /\ slot[o] \in Slots
    BY <2>1 DEF Conn, ObjType
  <2>3. \A k \in Kinds :
           [kind |-> k, conn |-> c, slot |-> slot[o], phase |-> "wait"] \in Binding
    BY <2>2 DEF Binding
  <2>4. bindings' \in SUBSET Binding
    BY <2>3 DEF RunBind, SystemType
  <2>5. IdOf(o) \in Ids
    BY <2>1 DEF IdOf, Obj
  <2>6. serving' \in [Kinds -> [Slots -> Ids \cup {NoId}]]
    BY <2>2, <2>5 DEF RunBind, onBind, SystemType
  <2> QED
    BY <2>4, <2>6 DEF SystemType
<1>4. CountType'
  BY DEF RunBind, CountType, Note, cntVars
<1>5. RegistryType' /\ ThreadType' /\ TableType'
  BY DEF RunBind, RegistryType, ThreadType, TableType, objVars, regVars, thrVars, dbVars, uiVars, sysVars, cntVars
<1> QED
  BY <1>1, <1>2, <1>3, <1>4, <1>5

\* stop()'s posted unbinding keeps the types.
LEMMA RunUnbindType ==
    ASSUME TypeOK, RunUnbind
    PROVE  TypeOK'
<1> USE DEF TypeOK
<1>1. ObjType'
  BY TaskShape, QueueShape DEF RunUnbind, ObjType, NullConn, NoneUp, States, Kinds, Dequeue, LooperType, SystemType, RegistryType
<1>2. RegistryType'
  BY TaskShape, QueueShape DEF RunUnbind, RegistryType, Released, regVars, uiVars, Dequeue, LooperType, ObjType, SystemType
<1>3. LooperType'
  BY TaskShape, QueueShape DEF RunUnbind, LooperType, Dequeue, ObjType, SystemType, RegistryType
<1>4. SystemType'
  BY TaskShape, QueueShape DEF RunUnbind, SystemType, Unbind, Kept, Kinds, Binding, Dequeue, LooperType, ObjType, RegistryType
<1>5. CountType'
  BY DEF RunUnbind, CountType, Note, cntVars
<1>6. ThreadType' /\ TableType'
  BY DEF RunUnbind, ThreadType, TableType, objVars, regVars, thrVars, dbVars, uiVars, sysVars, cntVars
<1> QED
  BY <1>1, <1>2, <1>3, <1>4, <1>5, <1>6

\* The binding of the web and camera servers keeps the types.
LEMMA RunServersType ==
    ASSUME TypeOK, RunServers
    PROVE  TypeOK'
<1> USE DEF TypeOK
<1>1. RegistryType'
  BY DEF RunServers, RegistryType, regVars, uiVars
<1>2. LooperType'
  BY TaskShape, QueueShape DEF RunServers, LooperType, Dequeue
<1>3. CountType'
  BY DEF RunServers, CountType, Note, cntVars
<1>4. ObjType' /\ ThreadType' /\ TableType' /\ SystemType'
  BY DEF RunServers, ObjType, ThreadType, TableType, SystemType, objVars, regVars, thrVars, dbVars, uiVars, sysVars, cntVars
<1> QED
  BY <1>1, <1>2, <1>3, <1>4

\* stopServerServicesIfNoSlots() keeps the types.
LEMMA StopServerServicesIfNoSlotsType ==
    ASSUME TypeOK, stopServerServicesIfNoSlots
    PROVE  TypeOK'
<1> USE DEF TypeOK
<1>1. RegistryType'
  BY DEF stopServerServicesIfNoSlots, RegistryType, regVars, uiVars
<1>2. LooperType'
  BY TaskShape, QueueShape DEF stopServerServicesIfNoSlots, LooperType, Dequeue
<1>3. CountType'
  BY DEF stopServerServicesIfNoSlots, CountType, Note, cntVars
<1>4. ObjType' /\ ThreadType' /\ TableType' /\ SystemType'
  BY DEF stopServerServicesIfNoSlots, ObjType, ThreadType, TableType, SystemType, objVars, regVars, thrVars, dbVars, uiVars, sysVars, cntVars
<1> QED
  BY <1>1, <1>2, <1>3, <1>4

\* The task of onCameraConfigChanged() keeps the types.
LEMMA RunCameraType ==
    ASSUME TypeOK, RunCamera
    PROVE  TypeOK'
<1> USE DEF TypeOK
<1>1. RegistryType'
  BY DEF RunCamera, RegistryType, regVars, uiVars, Dequeue, LooperType
<1>2. LooperType'
  BY TaskShape, QueueShape DEF RunCamera, LooperType, Dequeue
<1>3. CountType'
  BY DEF RunCamera, CountType, Note, cntVars
<1>4. ObjType' /\ ThreadType' /\ TableType' /\ SystemType'
  BY DEF RunCamera, ObjType, ThreadType, TableType, SystemType, objVars, regVars, thrVars, dbVars, uiVars, sysVars, cntVars
<1> QED
  BY <1>1, <1>2, <1>3, <1>4

\* AppState.onInstancesRefreshed() keeps the types.
LEMMA RunRefreshType ==
    ASSUME TypeOK, RunRefresh
    PROVE  TypeOK'
<1> USE DEF TypeOK
<1>1. RegistryType'
  BY DEF RunRefresh, RegistryType, regVars, uiVars
<1>2. LooperType'
  BY TaskShape, QueueShape DEF RunRefresh, LooperType, Dequeue
<1>3. CountType'
  BY DEF RunRefresh, CountType, Note, cntVars
<1>4. ObjType' /\ ThreadType' /\ TableType' /\ SystemType'
  BY DEF RunRefresh, ObjType, ThreadType, TableType, SystemType, objVars, regVars, thrVars, dbVars, uiVars, sysVars, cntVars
<1> QED
  BY <1>1, <1>2, <1>3, <1>4

\* onServiceConnected() keeps the types.
LEMMA OnServiceConnectedType ==
    ASSUME NEW b \in bindings, TypeOK, onServiceConnected(b)
    PROVE  TypeOK'
<1> USE DEF TypeOK
<1>1. ObjType'
  BY DEF onServiceConnected, ObjType, States, Kinds, Binding, Conn, SystemType
<1>2. LooperType'
  <2>1. queue' = queue \/ queue' = Append(queue, ServersTask)
    BY DEF onServiceConnected
  <2>2. batch' = batch
    BY DEF onServiceConnected
  <2> QED
    BY <2>1, <2>2, TaskShape DEF LooperType
<1>3. SystemType'
  BY DEF onServiceConnected, SystemType, Binding, ObjType
<1>4. CountType'
  BY DEF onServiceConnected, CountType, Note, cntVars
<1>5. RegistryType' /\ ThreadType' /\ TableType'
  BY DEF onServiceConnected, RegistryType, ThreadType, TableType, objVars, regVars, thrVars, dbVars, uiVars, sysVars, cntVars
<1> QED
  BY <1>1, <1>2, <1>3, <1>4, <1>5

\* onServiceDisconnected() keeps the types.
LEMMA OnServiceDisconnectedType ==
    ASSUME NEW b \in bindings, TypeOK, onServiceDisconnected(b)
    PROVE  TypeOK'
<1> USE DEF TypeOK
<1>1. ObjType'
  BY DEF onServiceDisconnected, ObjType, States, Kinds, Binding, Conn, SystemType
<1>2. RegistryType'
  BY DEF onServiceDisconnected, RegistryType, Released, regVars, uiVars, SystemType, ObjType
<1>3. LooperType'
  <2>1. queue' = queue \/ queue' = Append(queue, StopServersTask)
    BY DEF onServiceDisconnected
  <2>2. batch' = batch
    BY DEF onServiceDisconnected
  <2> QED
    BY <2>1, <2>2, TaskShape DEF LooperType
<1>4. SystemType'
  BY DEF onServiceDisconnected, SystemType, Binding, ObjType
<1>5. CountType'
  BY DEF onServiceDisconnected, CountType, Note, cntVars
<1>6. ThreadType' /\ TableType'
  BY DEF onServiceDisconnected, ThreadType, TableType, objVars, regVars, thrVars, dbVars, uiVars, sysVars, cntVars
<1> QED
  BY <1>1, <1>2, <1>3, <1>4, <1>5, <1>6

\* The death of a service process keeps the types.
LEMMA DieType ==
    ASSUME NEW k \in Kinds, NEW s \in Slots, TypeOK, Die(k, s)
    PROVE  TypeOK'
<1> USE DEF TypeOK
<1>1. SystemType'
  BY DEF Die, SystemType, Binding
<1>2. CountType'
  BY DEF Die, CountType
<1>3. ObjType' /\ RegistryType' /\ LooperType' /\ ThreadType' /\ TableType'
  BY DEF Die, ObjType, RegistryType, LooperType, ThreadType, TableType, objVars, regVars, thrVars, dbVars, uiVars, sysVars, cntVars
<1> QED
  BY <1>1, <1>2, <1>3

\* BeamDB.getInstances() keeps the types.
LEMMA ReadRowsType ==
    ASSUME NEW t \in Threads, TypeOK, ReadRows(t)
    PROVE  TypeOK'
<1> USE DEF TypeOK
<1>1. ObjType'
  <2> DEFINE new == {<<i, gen + 1>> : i \in rows}
             On(o) == IF o \in new THEN IdOf(o) \in auto ELSE autostart[o]
  <2>1. autostart' \in [Obj -> BOOLEAN]
    <3>1. \A o \in Obj : autostart[o] \in BOOLEAN
      BY DEF ObjType
    <3>2. \A o \in Obj : On(o) \in BOOLEAN
      <4> SUFFICES ASSUME NEW o \in Obj PROVE On(o) \in BOOLEAN
        OBVIOUS
      <4>1. CASE o \in new
        <5>1. CASE IdOf(o) \in auto
          BY <4>1, <5>1
        <5>2. CASE IdOf(o) \notin auto
          BY <4>1, <5>2
        <5> QED
          BY <5>1, <5>2
      <4>2. CASE o \notin new
        BY <3>1, <4>2
      <4> QED
        BY <4>1, <4>2
    <3>3. autostart' = [o \in Obj |-> On(o)]
      BY DEF ReadRows
    <3> HIDE DEF On
    <3> QED
      BY <3>2, <3>3
  <2> QED
    BY <2>1 DEF ReadRows, ObjType
<1>2. ThreadType'
  BY BoundsAssumption DEF ReadRows, ThreadType, Phases, Obj, Gens, CountType, TableType
<1>3. CountType'
  BY BoundsAssumption DEF ReadRows, CountType, Note, TableType
<1>4. RegistryType' /\ LooperType' /\ TableType' /\ SystemType'
  BY DEF ReadRows, RegistryType, LooperType, TableType, SystemType, objVars, regVars, thrVars, dbVars, uiVars, sysVars, cntVars
<1> QED
  BY <1>1, <1>2, <1>3, <1>4

\* The reload's first loop keeps the types.
LEMMA CopyOneType ==
    ASSUME NEW t \in Threads, TypeOK, CopyOne(t)
    PROVE  TypeOK'
<1> USE DEF TypeOK
<1>1. ObjType' /\ RegistryType'
  <2>1. PICK o \in todo[t] :
          \/ UNCHANGED <<state, slot, conn, connected, slots>>
          \/ \E was \in getInstance(IdOf(o)) :
               /\ state' = [state EXCEPT ![o] = state[was]]
               /\ slot' = [slot EXCEPT ![o] = slot[was]]
               /\ conn' = TakenConn(o, was)
               /\ connected' = [connected EXCEPT ![o] = connected[was]]
               /\ slots' = TakeOver(o, was)
    BY DEF CopyOne
  <2>2. o \in Obj /\ UNCHANGED <<autostart, binds, instances, webConn, camConn, uiVars>>
    BY DEF CopyOne, ThreadType
  <2>3. CASE UNCHANGED <<state, slot, conn, connected, slots>>
    BY <2>2, <2>3 DEF ObjType, RegistryType, uiVars
  <2>4. CASE ~ UNCHANGED <<state, slot, conn, connected, slots>>
    <3>1. PICK was \in instances :
               /\ state' = [state EXCEPT ![o] = state[was]]
               /\ slot' = [slot EXCEPT ![o] = slot[was]]
               /\ conn' = TakenConn(o, was)
               /\ connected' = [connected EXCEPT ![o] = connected[was]]
               /\ slots' = TakeOver(o, was)
      BY <2>1, <2>4 DEF getInstance
    <3>2. was \in Obj
      BY <3>1 DEF RegistryType
    <3>3. ObjType'
      BY <2>2, <3>1, <3>2 DEF ObjType, TakenConn
    <3>4. RegistryType'
      BY <2>2, <3>1, <3>2 DEF ObjType, RegistryType, TakeOver, uiVars
    <3> QED
      BY <3>3, <3>4
  <2> QED
    BY <2>3, <2>4
<1>3. ThreadType'
  BY DEF CopyOne, ThreadType, ObjType, RegistryType
<1>4. CountType'
  BY DEF CopyOne, CountType, Note, cntVars
<1>5. LooperType' /\ TableType' /\ SystemType'
  BY DEF CopyOne, LooperType, TableType, SystemType, objVars, regVars, thrVars, dbVars, uiVars, sysVars, cntVars
<1> QED
  BY <1>1, <1>3, <1>4, <1>5

\* The reload's list of deleted profiles keeps the types.
LEMMA ListGoneType ==
    ASSUME NEW t \in Threads, TypeOK, ListGone(t)
    PROVE  TypeOK'
<1> USE DEF TypeOK
<1>1. ThreadType'
  BY DEF ListGone, ThreadType, Held, Phases
<1>2. CountType'
  BY DEF ListGone, CountType, Note, cntVars
<1>3. ObjType' /\ RegistryType' /\ LooperType' /\ TableType' /\ SystemType'
  BY DEF ListGone, ObjType, RegistryType, LooperType, TableType, SystemType, objVars, regVars, thrVars, dbVars, uiVars, sysVars, cntVars
<1> QED
  BY <1>1, <1>2, <1>3

\* The reload's stopping of deleted profiles keeps the types.
LEMMA DropOneType ==
    ASSUME NEW t \in Threads, TypeOK, DropOne(t)
    PROVE  TypeOK'
<1> USE DEF TypeOK
<1>1. ObjType'
  BY DEF DropOne, ObjType, stop, stopping, States, ThreadType
<1>2. RegistryType'
  BY DEF DropOne, RegistryType, regVars, uiVars, ThreadType
<1>3. LooperType'
  BY TaskShape, QueueShape DEF DropOne, LooperType, stop, stopping, ThreadType
<1>4. ThreadType'
  BY DEF DropOne, ThreadType
<1>5. CountType'
  BY DEF DropOne, CountType, Note, cntVars
<1>6. TableType' /\ SystemType'
  BY DEF DropOne, TableType, SystemType, objVars, regVars, thrVars, dbVars, uiVars, sysVars, cntVars
<1> QED
  BY <1>1, <1>2, <1>3, <1>4, <1>5, <1>6

\* The reload's publication of the new list keeps the types.
LEMMA PublishType ==
    ASSUME NEW t \in Threads, TypeOK, Publish(t)
    PROVE  TypeOK'
<1> USE DEF TypeOK
<1>1. RegistryType'
  BY DEF Publish, RegistryType, regVars, uiVars, ThreadType
<1>2. LooperType'
  BY TaskShape, QueueShape DEF Publish, LooperType, ThreadType
<1>3. ThreadType'
  BY DEF Publish, ThreadType, Phases
<1>4. CountType'
  BY DEF Publish, CountType, Note, cntVars
<1>5. ObjType' /\ TableType' /\ SystemType'
  BY DEF Publish, ObjType, TableType, SystemType, objVars, regVars, thrVars, dbVars, uiVars, sysVars, cntVars
<1> QED
  BY <1>1, <1>2, <1>3, <1>4, <1>5

\* The reload's autostart loop keeps the types.
LEMMA AutostartOneType ==
    ASSUME NEW t \in Threads, TypeOK, AutostartOne(t)
    PROVE  TypeOK'
<1> USE DEF TypeOK
<1>1. ObjType'
  BY DEF AutostartOne, ObjType, startBegin, stopping, States, ThreadType
<1>2. LooperType'
  <2>1. PICK o \in todo[t] : queue' = queue \/ queue' = Append(queue, UnbindTask(o))
    BY DEF AutostartOne, startBegin, stopping
  <2>2. o \in Obj /\ batch' = batch
    BY DEF AutostartOne, ThreadType
  <2> QED
    BY <2>1, <2>2, TaskShape DEF LooperType
<1>3. ThreadType'
  <2>1. PICK o \in todo[t] :
          /\ todo' = [todo EXCEPT ![t] = @ \ {o}] /\ loaded' = loaded
          /\ \/ UNCHANGED <<pc, cur>>
             \/ pc' = [pc EXCEPT ![t] = "slot"] /\ cur' = [cur EXCEPT ![t] = o]
    BY DEF AutostartOne, startBegin
  <2> QED
    BY <2>1 DEF ThreadType, Phases
<1>4. CountType'
  BY DEF AutostartOne, CountType, Note, cntVars
<1>5. RegistryType' /\ TableType' /\ SystemType'
  BY DEF AutostartOne, RegistryType, TableType, SystemType, objVars, regVars, thrVars, dbVars, uiVars, sysVars, cntVars
<1> QED
  BY <1>1, <1>2, <1>3, <1>4, <1>5

\* The end of a reload keeps the types.
LEMMA ReloadDoneType ==
    ASSUME NEW t \in Threads, TypeOK, ReloadDone(t)
    PROVE  TypeOK'
<1> USE DEF TypeOK
<1>1. ThreadType'
  BY DEF ReloadDone, ThreadType, Phases
<1>2. CountType'
  BY DEF ReloadDone, CountType, Note, cntVars
<1>3. ObjType' /\ RegistryType' /\ LooperType' /\ TableType' /\ SystemType'
  BY DEF ReloadDone, ObjType, RegistryType, LooperType, TableType, SystemType, objVars, regVars, thrVars, dbVars, uiVars, sysVars, cntVars
<1> QED
  BY <1>1, <1>2, <1>3

\* resetSlotsForFreshStart() keeps the types.
LEMMA ResetSlotsForFreshStartType ==
    ASSUME TypeOK, resetSlotsForFreshStart
    PROVE  TypeOK'
<1> USE DEF TypeOK
<1>1. RegistryType'
  BY DEF resetSlotsForFreshStart, RegistryType, regVars, uiVars
<1>2. ThreadType'
  BY DEF resetSlotsForFreshStart, ThreadType, Phases
<1>3. CountType'
  BY DEF resetSlotsForFreshStart, CountType, Note, cntVars
<1>4. ObjType' /\ LooperType' /\ TableType' /\ SystemType'
  BY DEF resetSlotsForFreshStart, ObjType, LooperType, TableType, SystemType, objVars, regVars, thrVars, dbVars, uiVars, sysVars, cntVars
<1> QED
  BY <1>1, <1>2, <1>3, <1>4

\* A database write on Dispatchers.IO keeps the types.
LEMMA DbWriteOnIoType ==
    ASSUME NEW w \in pending, TypeOK, DbWriteOnIo(w)
    PROVE  TypeOK'
<1> USE DEF TypeOK
<1>1. ThreadType'
  BY DEF DbWriteOnIo, ThreadType, Phases, TableType
<1>2. TableType'
  BY DEF DbWriteOnIo, TableType, WriteRow, DbWrite
<1>3. CountType'
  BY DEF DbWriteOnIo, CountType, Note, cntVars
<1>4. ObjType' /\ RegistryType' /\ LooperType' /\ SystemType'
  BY DEF DbWriteOnIo, ObjType, RegistryType, LooperType, SystemType, objVars, regVars, thrVars, dbVars, uiVars, sysVars, cntVars
<1> QED
  BY <1>1, <1>2, <1>3, <1>4

\* AppState.start() keeps the types.
LEMMA StartUiType ==
    ASSUME TypeOK, StartUi
    PROVE  TypeOK'
<1> USE DEF TypeOK
<1>1. ObjType'
  <2> DEFINE new == {<<i, gen + 1>> : i \in rows}
             On(o) == IF o \in new THEN IdOf(o) \in auto ELSE autostart[o]
  <2>1. autostart' \in [Obj -> BOOLEAN]
    <3>1. \A o \in Obj : autostart[o] \in BOOLEAN
      BY DEF ObjType
    <3>2. \A o \in Obj : On(o) \in BOOLEAN
      <4> SUFFICES ASSUME NEW o \in Obj PROVE On(o) \in BOOLEAN
        OBVIOUS
      <4>1. CASE o \in new
        <5>1. CASE IdOf(o) \in auto
          BY <4>1, <5>1
        <5>2. CASE IdOf(o) \notin auto
          BY <4>1, <5>2
        <5> QED
          BY <5>1, <5>2
      <4>2. CASE o \notin new
        BY <3>1, <4>2
      <4> QED
        BY <4>1, <4>2
    <3>3. autostart' = autostart \/ autostart' = [o \in Obj |-> On(o)]
      BY DEF StartUi
    <3> HIDE DEF On
    <3> QED
      BY <3>2, <3>3 DEF ObjType
  <2> QED
    BY <2>1 DEF StartUi, ObjType
<1>2. RegistryType'
  BY BoundsAssumption DEF StartUi, RegistryType, Obj, Gens, regVars, uiVars, CountType, TableType
<1>3. CountType'
  BY BoundsAssumption DEF StartUi, CountType, Note, TableType, RegistryType
<1>4. LooperType' /\ ThreadType' /\ TableType' /\ SystemType'
  BY DEF StartUi, LooperType, ThreadType, TableType, SystemType, objVars, regVars, thrVars, dbVars, uiVars, sysVars, cntVars
<1> QED
  BY <1>1, <1>2, <1>3, <1>4

\* A new subscription to the list of profiles keeps the types.
LEMMA ResubscribeType ==
    ASSUME TypeOK, Resubscribe
    PROVE  TypeOK'
<1> USE DEF TypeOK
<1>1. RegistryType'
  BY DEF Resubscribe, RegistryType, regVars, uiVars
<1>2. CountType'
  BY DEF Resubscribe, CountType, Note, cntVars
<1>3. ObjType' /\ LooperType' /\ ThreadType' /\ TableType' /\ SystemType'
  BY DEF Resubscribe, ObjType, LooperType, ThreadType, TableType, SystemType, objVars, regVars, thrVars, dbVars, uiVars, sysVars, cntVars
<1> QED
  BY <1>1, <1>2, <1>3

\* The beginning of toggle() and runStopAll() keeps the types.
LEMMA BeginBatchType ==
    ASSUME NEW op \in {"start", "stop"}, NEW S \in SUBSET Obj, TypeOK, BeginBatch(op, S)
    PROVE  TypeOK'
<1> USE DEF TypeOK
<1>1. LooperType'
  BY TaskShape, QueueShape DEF BeginBatch, LooperType
<1>2. CountType'
  BY WritesType DEF BeginBatch, CountType, Note
<1>3. ObjType' /\ RegistryType' /\ ThreadType' /\ TableType' /\ SystemType'
  BY DEF BeginBatch, ObjType, RegistryType, ThreadType, TableType, SystemType, objVars, regVars, thrVars, dbVars, uiVars, sysVars, cntVars
<1> QED
  BY <1>1, <1>2, <1>3

\* One turn of the loop of runStopAll() keeps the types.
LEMMA BatchOneType ==
    ASSUME TypeOK, BatchOne
    PROVE  TypeOK'
<1> USE DEF TypeOK
<1>1. ObjType'
  BY DEF BatchOne, ObjType, stop, stopping, startBegin, States, LooperType
<1>2. LooperType'
  <2>1. PICK o \in batch.objs :
          /\ queue' = queue \/ queue' = Append(queue, UnbindTask(o))
          /\ batch' = NoBatch \/ batch' = [batch EXCEPT !.objs = @ \ {o}]
    BY DEF BatchOne, stop, stopping, startBegin
  <2>2. o \in Obj
    BY DEF LooperType
  <2>3. queue' \in Seq(Task)
    BY <2>1, <2>2, TaskShape DEF LooperType
  <2>4. batch' \in [op : {"none", "start", "stop"}, objs : SUBSET Obj]
    BY <2>1 DEF LooperType, NoBatch
  <2> QED
    BY <2>3, <2>4 DEF LooperType
<1>3. ThreadType'
  <2>1. PICK o \in batch.objs :
          /\ \/ pc' = pc
             \/ pc' = [pc EXCEPT !["main"] = "read"]
             \/ pc' = [pc EXCEPT !["main"] = "slot"]
          /\ cur' = cur \/ cur' = [cur EXCEPT !["main"] = o]
          /\ UNCHANGED <<todo, loaded>>
    BY DEF BatchOne, startBegin
  <2>2. o \in Obj
    BY DEF LooperType
  <2> QED
    BY <2>1, <2>2 DEF ThreadType, Phases
<1>4. TableType'
  BY DEF BatchOne, TableType, WriteRow, LooperType, ObjType
<1>5. CountType'
  BY DEF BatchOne, CountType, Note, cntVars
<1>6. RegistryType' /\ SystemType'
  BY DEF BatchOne, RegistryType, SystemType, objVars, regVars, thrVars, dbVars, uiVars, sysVars, cntVars
<1> QED
  BY <1>1, <1>2, <1>3, <1>4, <1>5, <1>6

\* MainViewModel.delete() keeps the types.
LEMMA DeleteType ==
    ASSUME NEW o \in view, TypeOK, delete(o)
    PROVE  TypeOK'
<1> USE DEF TypeOK
<1>1. ObjType'
  BY DEF delete, ObjType, stop, stopping, States, RegistryType, Obj, IdOf
<1>2. LooperType'
  <2>1. queue' = queue \/ queue' = Append(queue, UnbindTask(o))
    BY DEF delete, stop, stopping
  <2>2. o \in Obj /\ batch' = batch
    BY DEF delete, RegistryType
  <2> QED
    BY <2>1, <2>2, TaskShape DEF LooperType
<1>3. TableType'
  <2>1. [op |-> "delete", id |-> IdOf(o), auto |-> FALSE] \in DbWrite
    BY DEF DbWrite, RegistryType, Obj, IdOf
  <2> QED
    BY <2>1 DEF delete, Launch, TableType
<1>4. CountType'
  BY DEF delete, CountType, Launch, Note, RegistryType, Obj, IdOf
<1>5. RegistryType' /\ ThreadType' /\ SystemType'
  BY DEF delete, RegistryType, ThreadType, SystemType, objVars, regVars, thrVars, dbVars, uiVars, sysVars, cntVars
<1> QED
  BY <1>1, <1>2, <1>3, <1>4, <1>5

\* Saving an edited profile keeps the types.
LEMMA SaveEditedType ==
    ASSUME NEW o \in view, NEW a \in BOOLEAN, TypeOK, saveEdited(o, a)
    PROVE  TypeOK'
<1> USE DEF TypeOK
<1>1. ObjType'
  BY DEF saveEdited, ObjType, RegistryType, Obj, IdOf
<1>2. TableType'
  BY DEF saveEdited, TableType, Launch, DbWrite, RegistryType, Obj, IdOf
<1>3. CountType'
  BY DEF saveEdited, CountType, Launch, Note, RegistryType, Obj, IdOf
<1>4. RegistryType' /\ LooperType' /\ ThreadType' /\ SystemType'
  BY DEF saveEdited, RegistryType, LooperType, ThreadType, SystemType, objVars, regVars, thrVars, dbVars, uiVars, sysVars, cntVars
<1> QED
  BY <1>1, <1>2, <1>3, <1>4

\* Saving a new profile keeps the types.
LEMMA SaveNewType ==
    ASSUME NEW i \in fresh, NEW a \in BOOLEAN, TypeOK, saveNew(i, a)
    PROVE  TypeOK'
<1> USE DEF TypeOK
<1>1. TableType'
  BY DEF saveNew, TableType, Launch, DbWrite
<1>2. CountType'
  BY DEF saveNew, CountType, Launch, Note, TableType
<1>3. ObjType' /\ RegistryType' /\ LooperType' /\ ThreadType' /\ SystemType'
  BY DEF saveNew, ObjType, RegistryType, LooperType, ThreadType, SystemType, objVars, regVars, thrVars, dbVars, uiVars, sysVars, cntVars
<1> QED
  BY <1>1, <1>2, <1>3

\* setCameraEnabled() keeps the types.
LEMMA SetCameraEnabledType ==
    ASSUME NEW on \in BOOLEAN, TypeOK, setCameraEnabled(on)
    PROVE  TypeOK'
<1> USE DEF TypeOK
<1>1. LooperType'
  BY TaskShape, QueueShape DEF setCameraEnabled, LooperType
<1>2. TableType'
  BY DEF setCameraEnabled, TableType
<1>3. CountType'
  BY DEF setCameraEnabled, CountType, Note
<1>4. ObjType' /\ RegistryType' /\ ThreadType' /\ SystemType'
  BY DEF setCameraEnabled, ObjType, RegistryType, ThreadType, SystemType, objVars, regVars, thrVars, dbVars, uiVars, sysVars, cntVars
<1> QED
  BY <1>1, <1>2, <1>3, <1>4

-----------------------------------------------------------------------------
\* Next taken apart: the cases of every proof about a step of the specification.
LEMMA StepCases ==
    ASSUME Next
    PROVE  \/ \E t \in Threads : PickSlot(t) \/ PutSlot(t) \/ ReadRows(t) \/ CopyOne(t)
                \/ ListGone(t) \/ DropOne(t) \/ Publish(t) \/ AutostartOne(t) \/ ReloadDone(t)
           \/ resetSlotsForFreshStart
           \/ \E w \in pending : DbWriteOnIo(w)
           \/ RunBind \/ RunUnbind \/ RunServers \/ stopServerServicesIfNoSlots
           \/ RunCamera \/ RunRefresh \/ BatchOne
           \/ \E b \in bindings : onServiceConnected(b) \/ onServiceDisconnected(b)
           \/ StartUi \/ Resubscribe
           \/ \E op \in {"start", "stop"}, S \in SUBSET view : Tap /\ BeginBatch(op, S)
           \/ \E o \in view : delete(o) \/ \E a \in BOOLEAN : saveEdited(o, a)
           \/ \E i \in fresh, a \in BOOLEAN : saveNew(i, a)
           \/ \E on \in BOOLEAN : setCameraEnabled(on)
           \/ \E k \in Kinds, s \in Slots : Die(k, s)
<1>1. CASE IoStep
  BY <1>1, Zenon DEF IoStep, LoaderStep, Threads
<1>2. CASE MainStep
  BY <1>2, Zenon DEF MainStep, MainWork, LoaderStep, MainTask, Threads
<1>3. CASE Callback
  BY <1>3, Zenon DEF Callback
<1>4. CASE User
  <2>1. CASE runStopAll
    BY <2>1 DEF runStopAll
  <2>2. CASE \E o \in view : toggle(o)
    <3>1. PICK o \in view : toggle(o)
      BY <2>2
    <3>2. {o} \in SUBSET view
      BY <3>1
    <3> QED
      BY <3>1, <3>2 DEF toggle
  <2> QED
    BY <1>4, <2>1, <2>2, Zenon DEF User
<1>5. CASE Death
  BY <1>5, Zenon DEF Death
<1> QED
  BY <1>1, <1>2, <1>3, <1>4, <1>5 DEF Next

\* start() names its object before it enters the phases that read it.
LEMMA InitStartsAnObject == Init => StartsAnObject
BY DEF Init, StartsAnObject, Threads

\* Every step of the application keeps the types.
LEMMA NextType ==
    ASSUME TypeOK, StartsAnObject, Next
    PROVE  TypeOK'
<1>1. CASE \E t \in Threads : PickSlot(t) \/ PutSlot(t) \/ ReadRows(t) \/ CopyOne(t)
                \/ ListGone(t) \/ DropOne(t) \/ Publish(t) \/ AutostartOne(t) \/ ReloadDone(t)
  BY <1>1, PickSlotType, PutSlotType, ReadRowsType, CopyOneType, ListGoneType,
     DropOneType, PublishType, AutostartOneType, ReloadDoneType, Zenon
<1>2. CASE resetSlotsForFreshStart \/ \E w \in pending : DbWriteOnIo(w)
  BY <1>2, ResetSlotsForFreshStartType, DbWriteOnIoType, Zenon
<1>3. CASE RunBind \/ RunUnbind \/ RunServers \/ stopServerServicesIfNoSlots
             \/ RunCamera \/ RunRefresh \/ BatchOne
  BY <1>3, RunBindType, RunUnbindType, RunServersType, StopServerServicesIfNoSlotsType,
     RunCameraType, RunRefreshType, BatchOneType, Zenon
<1>4. CASE \E b \in bindings : onServiceConnected(b) \/ onServiceDisconnected(b)
  BY <1>4, OnServiceConnectedType, OnServiceDisconnectedType, Zenon
<1>5. CASE \E op \in {"start", "stop"}, S \in SUBSET view : Tap /\ BeginBatch(op, S)
  <2>1. PICK op \in {"start", "stop"}, S \in SUBSET view : BeginBatch(op, S)
    BY <1>5, Zenon
  <2>2. S \in SUBSET Obj
    BY <2>1 DEF TypeOK, RegistryType
  <2> QED
    BY <2>1, <2>2, BeginBatchType, Zenon
<1>6. CASE \/ StartUi \/ Resubscribe
           \/ \E o \in view : delete(o) \/ \E a \in BOOLEAN : saveEdited(o, a)
           \/ \E i \in fresh, a \in BOOLEAN : saveNew(i, a)
           \/ \E on \in BOOLEAN : setCameraEnabled(on)
  BY <1>6, StartUiType, ResubscribeType, DeleteType, SaveEditedType, SaveNewType,
     SetCameraEnabledType, Zenon
<1>7. CASE \E k \in Kinds, s \in Slots : Die(k, s)
  BY <1>7, DieType, Zenon
<1> QED
  BY StepCases, <1>1, <1>2, <1>3, <1>4, <1>5, <1>6, <1>7, Zenon

\* A thread that enters start() has named its object, and keeps it until the
\* slot is recorded.
LEMMA NextStartsAnObject ==
    ASSUME TypeOK, StartsAnObject, Next
    PROVE  StartsAnObject'
<1> USE DEF StartsAnObject
<1>1. ASSUME NEW t \in Threads, PickSlot(t) \/ PutSlot(t) \/ ReadRows(t) \/ ListGone(t)
                                  \/ Publish(t) \/ ReloadDone(t)
      PROVE  StartsAnObject'
  BY <1>1 DEF PickSlot, PutSlot, ReadRows, ListGone, Publish, ReloadDone, TypeOK, ThreadType
<1>2. ASSUME NEW t \in Threads, AutostartOne(t)
      PROVE  StartsAnObject'
  <2>1. PICK o \in todo[t] :
          \/ UNCHANGED <<pc, cur>>
          \/ pc' = [pc EXCEPT ![t] = "slot"] /\ cur' = [cur EXCEPT ![t] = o]
    BY <1>2 DEF AutostartOne, startBegin
  <2>2. o \in Obj
    BY DEF TypeOK, ThreadType
  <2> QED
    BY <2>1, <2>2 DEF TypeOK, ThreadType
<1>3. CASE BatchOne
  BY <1>3 DEF BatchOne, startBegin, TypeOK, ThreadType, LooperType
<1>4. CASE resetSlotsForFreshStart \/ \E w \in pending : DbWriteOnIo(w)
  BY <1>4 DEF resetSlotsForFreshStart, DbWriteOnIo, TypeOK, ThreadType
<1>5. CASE UNCHANGED <<pc, cur>>
  BY <1>5
<1>6. ASSUME NEW t \in Threads, CopyOne(t) \/ DropOne(t)
      PROVE  UNCHANGED <<pc, cur>>
  BY <1>6 DEF CopyOne, DropOne
<1>7. CASE RunBind \/ RunUnbind \/ RunServers \/ stopServerServicesIfNoSlots
             \/ RunCamera \/ RunRefresh \/ StartUi \/ Resubscribe
  <2>1. UNCHANGED <<pc, cur>>
    BY <1>7 DEF RunBind, RunUnbind, RunServers, stopServerServicesIfNoSlots, RunCamera,
                RunRefresh, StartUi, Resubscribe, thrVars
  <2> QED
    BY <2>1, <1>5
<1>8. CASE \E b \in bindings : onServiceConnected(b) \/ onServiceDisconnected(b)
  BY <1>8, <1>5 DEF onServiceConnected, onServiceDisconnected, thrVars
<1>9. CASE \/ \E op \in {"start", "stop"}, S \in SUBSET view : Tap /\ BeginBatch(op, S)
           \/ \E o \in view : delete(o) \/ \E a \in BOOLEAN : saveEdited(o, a)
           \/ \E i \in fresh, a \in BOOLEAN : saveNew(i, a)
           \/ \E on \in BOOLEAN : setCameraEnabled(on)
           \/ \E k \in Kinds, s \in Slots : Die(k, s)
  <2>1. thrVars' = thrVars
    BY <1>9, Zenon DEF BeginBatch, delete, saveEdited, saveNew, setCameraEnabled, Die
  <2> QED
    BY <2>1, <1>5 DEF thrVars
<1> QED
  BY StepCases, <1>1, <1>2, <1>3, <1>4, <1>5, <1>6, <1>7, <1>8, <1>9, Zenon

\* The invariant the types need: start() only ever reads an object it has named.
LEMMA TypeInductive ==
    ASSUME TypeOK, StartsAnObject, [Next]_vars
    PROVE  TypeOK' /\ StartsAnObject'
<1>1. CASE Next
  BY <1>1, NextType, NextStartsAnObject
<1>2. CASE UNCHANGED vars
  <2>1. TypeOK'
    BY <1>2 DEF vars, objVars, regVars, thrVars, dbVars, uiVars, sysVars, cntVars,
        TypeOK, ObjType, RegistryType, LooperType, ThreadType, TableType, SystemType, CountType
  <2>2. StartsAnObject'
    BY <1>2 DEF vars, thrVars, StartsAnObject
  <2> QED
    BY <2>1, <2>2
<1> QED
  BY <1>1, <1>2

\* Whatever the number of profiles and slots and however the two threads, the
\* service callbacks and the user interleave, every variable keeps its type: in
\* particular start() never hands a number outside 0 .. SLOTS_COUNT-1 to the
\* lookup of a service class.
THEOREM TypeCorrect == Spec => []TypeOK
<1>1. Init => TypeOK /\ StartsAnObject
  BY InitType, InitStartsAnObject
<1>2. TypeOK /\ StartsAnObject /\ [Next]_vars => (TypeOK /\ StartsAnObject)'
  BY TypeInductive
<1> QED
  BY <1>1, <1>2, PTL DEF Spec

=============================================================================
