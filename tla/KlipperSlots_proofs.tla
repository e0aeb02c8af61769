------------------------- MODULE KlipperSlots_proofs -------------------------
(***************************************************************************)
(* Proofs of what holds while the application stays calm: the slot numbers *)
(* of two objects differ, start() always finds one, a service process runs *)
(* the profile it is bound for, no binding is leaked, the servers follow.  *)
(*                                                                         *)
(*   SlotsInv     what a thread chose in start() stays free until it is    *)
(*                written (start() reads `slots` and writes it later)      *)
(*   TableInv     the lists have one object for each row, and no more rows *)
(*                than slots                                               *)
(*   CalmInv      ... and who may hold a slot in each phase of a reload    *)
(*   SessionsInv  ... and, while no service died, how states, connections, *)
(*                bindings and the queue's bind and unbind tasks fit       *)
(*   FollowInv    ... and what the servers' tasks in the queue will undo   *)
(*   OnwardInv    CalmInv, and what every start and stop waits for, also   *)
(*                when services die                                        *)
(***************************************************************************)
EXTENDS KlipperInstance_proofs, SequenceTheorems

SlotsInv == TypeOK /\ StartsAnObject /\ ChosenSlotIsFree /\ SlotsInjective

\* A step of thread t that leaves t without a chosen slot; calm survives it only
\* if the other thread is outside its critical sections.
TurnOf(t) ==
    /\ calm' => calm /\ ~Busy(Other(t))
    /\ pc'[t] # "put"
    /\ pc'[Other(t)] = pc[Other(t)]

\* A step after which no object has a slot it did not have before.
Releases ==
    /\ calm' => calm
    /\ \A o \in Obj : slots'[o] = slots[o] \/ slots'[o] = NoSlot

\* Every step but the choice of a slot and the death of a process is the turn
\* of one thread.
LEMMA StepsTakeTurns ==
    ASSUME TypeOK, Next
    PROVE  \/ \E t \in Threads : PickSlot(t) \/ TurnOf(t)
           \/ \E k \in Kinds, s \in Slots : Die(k, s)
<1> USE DEF TypeOK, ThreadType, TurnOf, Threads, Other, Note
<1>1. ASSUME NEW t \in Threads, PutSlot(t) \/ ReadRows(t) \/ ListGone(t) \/ Publish(t)
                                  \/ ReloadDone(t)
      PROVE  TurnOf(t)
  BY <1>1 DEF PutSlot, ReadRows, ListGone, Publish, ReloadDone
<1>2. ASSUME NEW t \in Threads, CopyOne(t) \/ DropOne(t)
      PROVE  TurnOf(t)
  BY <1>2 DEF CopyOne, DropOne
<1>3. ASSUME NEW t \in Threads, AutostartOne(t)
      PROVE  TurnOf(t)
  BY <1>3 DEF AutostartOne, startBegin
<1>4. CASE resetSlotsForFreshStart \/ \E w \in pending : DbWriteOnIo(w)
  <2>1. TurnOf("io")
    BY <1>4 DEF resetSlotsForFreshStart, DbWriteOnIo
  <2> QED
    BY <2>1
<1>5. CASE RunBind \/ RunUnbind \/ RunServers \/ stopServerServicesIfNoSlots
             \/ RunCamera \/ RunRefresh \/ StartUi \/ Resubscribe
  <2>1. TurnOf("main")
    BY <1>5 DEF RunBind, RunUnbind, RunServers, stopServerServicesIfNoSlots, RunCamera,
                RunRefresh, StartUi, Resubscribe, thrVars, Dequeue, MainFree, Tap
  <2> QED
    BY <2>1
<1>6. CASE BatchOne
  <2>1. TurnOf("main")
    BY <1>6 DEF BatchOne, startBegin
  <2> QED
    BY <2>1
<1>7. CASE \E b \in bindings : onServiceConnected(b) \/ onServiceDisconnected(b)
  <2>1. TurnOf("main")
    BY <1>7 DEF onServiceConnected, onServiceDisconnected, thrVars, MainFree
  <2> QED
    BY <2>1
<1>8. CASE \/ \E op \in {"start", "stop"}, S \in SUBSET view : Tap /\ BeginBatch(op, S)
           \/ \E o \in view : delete(o) \/ \E a \in BOOLEAN : saveEdited(o, a)
           \/ \E i \in fresh, a \in BOOLEAN : saveNew(i, a)
           \/ \E on \in BOOLEAN : setCameraEnabled(on)
  <2>1. MainFree /\ thrVars' = thrVars /\ (calm' => calm /\ ~Busy("io"))
    BY <1>8 DEF BeginBatch, delete, saveEdited, saveNew, setCameraEnabled, Tap
  <2>2. TurnOf("main")
    BY <2>1 DEF MainFree, thrVars
  <2> QED
    BY <2>2
<1> QED
  BY StepCases, <1>1, <1>2, <1>3, <1>4, <1>5, <1>6, <1>7, <1>8, Zenon

\* Every step but the recording of a slot by start() and the taking over of one
\* by a reload only gives slots back.
LEMMA StepsRelease ==
    ASSUME TypeOK, Next
    PROVE  Releases \/ \E t \in Threads : PutSlot(t) \/ CopyOne(t)
<1> USE DEF Releases, TypeOK, RegistryType, Note
<1>1. ASSUME NEW t \in Threads, PickSlot(t) \/ ReadRows(t) \/ ListGone(t) \/ Publish(t)
                                  \/ AutostartOne(t) \/ ReloadDone(t)
      PROVE  Releases
  BY <1>1 DEF PickSlot, ReadRows, ListGone, Publish, AutostartOne, ReloadDone, regVars
<1>2. ASSUME NEW t \in Threads, DropOne(t)
      PROVE  Releases
  BY <1>2 DEF DropOne
<1>3. CASE resetSlotsForFreshStart \/ \E w \in pending : DbWriteOnIo(w)
  BY <1>3 DEF resetSlotsForFreshStart, DbWriteOnIo, regVars
<1>4. CASE RunUnbind
  BY <1>4 DEF RunUnbind, Released
<1>5. CASE stopServerServicesIfNoSlots
  BY <1>5 DEF stopServerServicesIfNoSlots
<1>6. CASE RunBind \/ RunServers \/ RunCamera \/ RunRefresh \/ BatchOne \/ StartUi \/ Resubscribe
  BY <1>6 DEF RunBind, RunServers, RunCamera, RunRefresh, BatchOne, StartUi, Resubscribe, regVars
<1>7. CASE \E b \in bindings : onServiceConnected(b) \/ onServiceDisconnected(b)
  BY <1>7 DEF onServiceConnected, onServiceDisconnected, regVars, Released
<1>8. CASE \/ \E op \in {"start", "stop"}, S \in SUBSET view : Tap /\ BeginBatch(op, S)
           \/ \E o \in view : delete(o) \/ \E a \in BOOLEAN : saveEdited(o, a)
           \/ \E i \in fresh, a \in BOOLEAN : saveNew(i, a)
           \/ \E on \in BOOLEAN : setCameraEnabled(on)
           \/ \E k \in Kinds, s \in Slots : Die(k, s)
  BY <1>8 DEF BeginBatch, delete, saveEdited, saveNew, setCameraEnabled, Die, regVars
<1> QED
  BY StepCases, <1>1, <1>2, <1>3, <1>4, <1>5, <1>6, <1>7, <1>8, Zenon

\* The number a thread has chosen in start() stays free until it records it.
LEMMA NextChosenSlotIsFree ==
    ASSUME SlotsInv, Next
    PROVE  ChosenSlotIsFree'
<1> USE DEF SlotsInv, ChosenSlotIsFree
<1>1. ASSUME NEW t \in Threads, TurnOf(t)
      PROVE  ChosenSlotIsFree'
  BY <1>1 DEF TurnOf, Threads, Other, Busy
<1>2. ASSUME NEW t \in Threads, PickSlot(t)
      PROVE  ChosenSlotIsFree'
  <2> SUFFICES ASSUME calm' PROVE ChosenSlotIsFree'
    OBVIOUS
  <2>1. ~Busy(Other(t)) /\ pc'[Other(t)] = pc[Other(t)] /\ UNCHANGED <<cur, slots>>
    BY <1>2 DEF PickSlot, Note, Threads, Other, TypeOK, ThreadType, regVars
  <2>2. CASE hasFreeSlots
    <3>1. PICK s \in FreeSlots : slot' = [slot EXCEPT ![cur[t]] = s]
      BY <1>2, <2>2 DEF PickSlot
    <3>2. cur[t] \in Obj
      BY <1>2 DEF PickSlot, StartsAnObject
    <3>3. \A o \in Held : slots[o] # s
      BY <3>1 DEF FreeSlots, UsedSlots
    <3>4. slot'[cur[t]] = s
      BY <3>1, <3>2 DEF TypeOK, ObjType
    <3> QED
      BY <2>1, <3>3, <3>4 DEF Held, Threads, Other, Busy
  <2>3. CASE ~hasFreeSlots
    BY <1>2, <2>1, <2>3 DEF PickSlot, Threads, Other, Busy, TypeOK, ThreadType
  <2> QED
    BY <2>2, <2>3
<1>3. ASSUME NEW k \in Kinds, NEW s \in Slots, Die(k, s)
      PROVE  ChosenSlotIsFree'
  BY <1>3 DEF Die, objVars, regVars, thrVars, Held
<1> QED
  BY StepsTakeTurns, <1>1, <1>2, <1>3

\* start() records a number nobody holds; a reload moves a settled profile's
\* number to its new object; everything else gives numbers back.
LEMMA NextSlotsInjective ==
    ASSUME SlotsInv, Next
    PROVE  SlotsInjective'
<1> USE DEF SlotsInv
<1>1. CASE Releases
  BY <1>1 DEF Releases, SlotsInjective, Held
<1>2. ASSUME NEW t \in Threads, PutSlot(t)
      PROVE  SlotsInjective'
  <2> DEFINE c == cur[t]
  <2>1. c \in Obj /\ slot[c] \in Slots
    BY <1>2 DEF PutSlot, StartsAnObject, TypeOK, ObjType
  <2>2. slots' = [slots EXCEPT ![c] = slot[c]]
    BY <1>2 DEF PutSlot
  <2>3. calm' => calm /\ \A o \in Held : slots[o] # slot[c]
    BY <1>2 DEF PutSlot, Note, ChosenSlotIsFree
  <2> QED
    BY <2>1, <2>2, <2>3 DEF SlotsInjective, Held, TypeOK, RegistryType
<1>3. ASSUME NEW t \in Threads, CopyOne(t)
      PROVE  SlotsInjective'
  <2>1. PICK o \in todo[t] :
          \/ Note(t, TRUE) /\ UNCHANGED slots
          \/ \E was \in getInstance(IdOf(o)) :
                slots' = TakeOver(o, was) /\ Note(t, Settled(was))
    BY <1>3 DEF CopyOne
  <2>2. CASE Note(t, TRUE) /\ UNCHANGED slots
    BY <2>2 DEF Note, SlotsInjective, Held
  <2>3. ASSUME NEW was \in getInstance(IdOf(o)),
               slots' = TakeOver(o, was), Note(t, Settled(was))
        PROVE  SlotsInjective'
    <3>1. o \in Obj /\ was \in Obj
      BY DEF getInstance, TypeOK, RegistryType, ThreadType
    <3>2. calm' => calm /\ Settled(was)
      BY <2>3 DEF Note
    <3>3. CASE state[was] = "IDLE"
      BY <2>3, <3>1, <3>2, <3>3 DEF TakeOver, SlotsInjective, Held, TypeOK, RegistryType
    <3>4. CASE state[was] # "IDLE"
      <4>1. calm' => slots[was] = slot[was]
        BY <3>2, <3>4 DEF Settled
      <4>2. slot[was] \in Slots /\ slot[was] # NoSlot
        BY <3>1, SlotsAssumption DEF TypeOK, ObjType, Slots, NoSlot
      <4>3. slots' = [[slots EXCEPT ![was] = NoSlot] EXCEPT ![o] = slot[was]]
        BY <2>3, <3>4 DEF TakeOver
      <4> QED
        BY <3>1, <3>2, <4>1, <4>2, <4>3 DEF SlotsInjective, Held, TypeOK, RegistryType
    <3> QED
      BY <3>3, <3>4
  <2> QED
    BY <2>1, <2>2, <2>3
<1> QED
  BY StepsRelease, <1>1, <1>2, <1>3

\* For any number of profiles, slots, edits and deaths of service processes: as
\* long as the application stays calm, no two objects hold one slot number, so
\* no two profiles are bound to one service class.
THEOREM SlotsAreInjective == Spec => []SlotsInjective
<1>1. Init => SlotsInv
  <2>1. Init => ChosenSlotIsFree /\ SlotsInjective
    BY DEF Init, ChosenSlotIsFree, SlotsInjective, Held, Threads
  <2> QED
    BY <2>1, InitType, InitStartsAnObject DEF SlotsInv
<1>2. SlotsInv /\ [Next]_vars => SlotsInv'
  <2> SUFFICES ASSUME SlotsInv, [Next]_vars PROVE SlotsInv'
    OBVIOUS
  <2>1. TypeOK' /\ StartsAnObject'
    BY TypeInductive DEF SlotsInv
  <2>2. CASE Next
    BY <2>1, <2>2, NextChosenSlotIsFree, NextSlotsInjective DEF SlotsInv
  <2>3. CASE UNCHANGED vars
    <3>1. ChosenSlotIsFree' /\ SlotsInjective'
      BY <2>3 DEF SlotsInv, ChosenSlotIsFree, SlotsInjective, Held, vars, objVars, regVars, thrVars
    <3> QED
      BY <2>1, <3>1 DEF SlotsInv
  <2> QED
    BY <2>2, <2>3
<1>3. SlotsInv => SlotsInjective
  BY DEF SlotsInv
<1> QED
  BY <1>1, <1>2, <1>3, PTL DEF Spec

-----------------------------------------------------------------------------
(* The table and the lists read from it.                                   *)

Inserts == {w \in pending : w.op = "insert"}
\* Ids that no row or object has had so far.
NewIds == fresh \cup {w.id : w \in Inserts}

\* The table has room for the insert that is on its way.
RowsInv == /\ Cardinality(rows) <= SLOTS_COUNT
           /\ \A w \in Inserts : Cardinality(rows) < SLOTS_COUNT /\ w.id \notin fresh
           /\ \A v, w \in Inserts : v = w

\* A list of objects: one for each profile, and no more than there are slots.
Fits(S) == /\ \A o, p \in S : IdOf(o) = IdOf(p) => o = p
           /\ Cardinality(IdsOf(S)) <= SLOTS_COUNT
           /\ IdsOf(S) \cap NewIds = {}
TableInv == /\ RowsInv /\ rows \cap NewIds = {} /\ Fits(instances)
            /\ \A t \in Threads : Fits(loaded[t])

tableVars == <<rows, pending, fresh, instances, loaded>>

\* What the objects of new rows have in common.
OfRows(R, g) == {<<i, g>> : i \in R}

\* A list made of rows has one object for each row.
LEMMA NewObjects ==
    ASSUME NEW R, NEW g
    PROVE  /\ IdsOf(OfRows(R, g)) = R
           /\ \A o, p \in OfRows(R, g) : IdOf(o) = IdOf(p) => o = p
<1> DEFINE new == OfRows(R, g)
<1> USE DEF OfRows
<1>1. \A o \in new : \E i \in R : o = <<i, g>> /\ IdOf(o) = i
  BY DEF IdOf
<1>2. \A i \in R : <<i, g>> \in new /\ IdOf(<<i, g>>) = i
  BY DEF IdOf
<1> HIDE DEF new
<1>3. IdsOf(new) = R
  BY <1>1, <1>2, Zenon DEF IdsOf
<1>4. ASSUME NEW o \in new, NEW p \in new, IdOf(o) = IdOf(p)
      PROVE  o = p
  BY <1>1, <1>4
<1> QED
  BY <1>3, <1>4 DEF new

\* The steps that touch the table, the writes that wait and the lists.
LEMMA TableSteps ==
    ASSUME TypeOK, Next
    PROVE  \/ UNCHANGED tableVars
           \/ \E t \in Threads : ReadRows(t) \/ Publish(t) \/ ReloadDone(t)
           \/ \E w \in pending : DbWriteOnIo(w)
           \/ StartUi
           \/ \E o \in view : delete(o) \/ \E a \in BOOLEAN : saveEdited(o, a)
           \/ \E i \in fresh, a \in BOOLEAN : saveNew(i, a)
<1> USE DEF tableVars
<1>1. ASSUME NEW t \in Threads, PickSlot(t) \/ PutSlot(t) \/ CopyOne(t) \/ ListGone(t)
                                  \/ DropOne(t) \/ AutostartOne(t)
      PROVE  UNCHANGED tableVars
  BY <1>1 DEF PickSlot, PutSlot, CopyOne, ListGone, DropOne, AutostartOne, regVars, dbVars
<1>2. CASE resetSlotsForFreshStart \/ RunBind \/ RunUnbind \/ RunServers
             \/ stopServerServicesIfNoSlots
  BY <1>2 DEF resetSlotsForFreshStart, RunBind, RunUnbind, RunServers,
              stopServerServicesIfNoSlots, regVars, dbVars, thrVars
<1>3. CASE RunCamera \/ RunRefresh \/ Resubscribe
  BY <1>3 DEF RunCamera, RunRefresh, Resubscribe, regVars, dbVars, thrVars
<1>4. CASE BatchOne
  <2>1. rows' = rows
    BY <1>4 DEF BatchOne, WriteRow
  <2> QED
    BY <1>4, <2>1 DEF BatchOne, regVars
<1>5. CASE \E b \in bindings : onServiceConnected(b) \/ onServiceDisconnected(b)
  BY <1>5 DEF onServiceConnected, onServiceDisconnected, regVars, dbVars, thrVars
<1>6. CASE \/ \E op \in {"start", "stop"}, S \in SUBSET view : Tap /\ BeginBatch(op, S)
           \/ \E on \in BOOLEAN : setCameraEnabled(on)
           \/ \E k \in Kinds, s \in Slots : Die(k, s)
  BY <1>6 DEF BeginBatch, setCameraEnabled, Die, regVars, dbVars, thrVars
<1> QED
  BY StepCases, <1>1, <1>2, <1>3, <1>4, <1>5, <1>6, Zenon

\* The table begins with no more rows than there are slots.
LEMMA InitTable == Init => TableInv
<1> SUFFICES ASSUME Init PROVE TableInv
  OBVIOUS
<1>1. Inserts = {} /\ NewIds = Ids \ rows
  BY DEF Init, Inserts, NewIds
<1>2. Fits({})
  BY <1>1, FS_EmptySet, SlotsAssumption DEF Fits, IdsOf
<1> QED
  BY <1>1, <1>2 DEF Init, TableInv, RowsInv

\* saveNew()'s test of the table's size holds until its row is written.
LEMMA NextTable ==
    ASSUME TypeOK, TableInv, Next
    PROVE  TableInv'
<1> USE DEF TableInv, RowsInv
<1>1. CASE UNCHANGED tableVars
  BY <1>1 DEF tableVars, Fits, NewIds, Inserts
<1>2. ASSUME NEW t \in Threads, ReadRows(t)
      PROVE  TableInv'
  <2>1. UNCHANGED <<rows, pending, fresh, instances>>
    BY <1>2 DEF ReadRows, dbVars, regVars
  <2>2. loaded' = [loaded EXCEPT ![t] = {<<i, gen + 1>> : i \in rows}]
    BY <1>2 DEF ReadRows
  <2>3. Fits({<<i, gen + 1>> : i \in rows})
    <3>1. Fits(OfRows(rows, gen + 1))
      BY NewObjects DEF Fits
    <3> QED
      BY <3>1 DEF OfRows
  <2> QED
    BY <2>1, <2>2, <2>3 DEF Fits, NewIds, Inserts, TypeOK, ThreadType
<1>3. ASSUME NEW t \in Threads, Publish(t)
      PROVE  TableInv'
  BY <1>3 DEF Publish, dbVars, Fits, NewIds, Inserts
<1>4. ASSUME NEW t \in Threads, ReloadDone(t)
      PROVE  TableInv'
  <2>1. Fits({})
    BY FS_EmptySet, SlotsAssumption DEF Fits, IdsOf
  <2>2. UNCHANGED <<rows, pending, fresh, instances>> /\ loaded' = [loaded EXCEPT ![t] = {}]
    BY <1>4 DEF ReloadDone, dbVars, regVars
  <2> QED
    BY <2>1, <2>2 DEF Fits, NewIds, Inserts, TypeOK, ThreadType
<1>5. ASSUME NEW w \in pending, DbWriteOnIo(w)
      PROVE  TableInv'
  <2>1. /\ pending' = pending \ {w} /\ UNCHANGED <<fresh, instances, loaded>>
        /\ rows' = CASE w.op = "insert" -> rows \cup {w.id}
                     [] w.op = "delete" -> rows \ {w.id}
                     [] OTHER -> rows
    BY <1>5 DEF DbWriteOnIo, regVars, WriteRow
  <2>2. IsFiniteSet(rows) /\ Cardinality(rows) \in Nat
    BY FiniteAssumption, FS_Subset, FS_CardinalityType DEF TypeOK, TableType
  <2>3. CASE w.op = "insert"
    <3>1. Inserts' = {} /\ NewIds' = fresh /\ w \in Inserts /\ w.id \in NewIds
      BY <2>1, <2>3 DEF Inserts, NewIds
    <3>2. rows' = rows \cup {w.id}
      BY <2>1, <2>3
    <3>3. Cardinality(rows') <= SLOTS_COUNT
      <4>1. Cardinality(rows \cup {w.id}) \in {Cardinality(rows), Cardinality(rows) + 1}
        BY <2>2, FS_AddElement
      <4>2. Cardinality(rows) < SLOTS_COUNT
        BY <3>1
      <4> QED
        BY <2>2, <3>2, <4>1, <4>2, SlotsAssumption
    <3>4. w.id \notin fresh
      BY <3>1
    <3>5. RowsInv' /\ rows' \cap NewIds' = {}
      BY <3>1, <3>2, <3>3, <3>4 DEF NewIds
    <3> QED
      BY <2>1, <3>1, <3>5 DEF Fits, NewIds
  <2>4. CASE w.op # "insert"
    <3>1. Inserts' = Inserts /\ NewIds' = NewIds
      BY <2>1, <2>4 DEF Inserts, NewIds
    <3>2. rows' = rows \/ rows' = rows \ {w.id}
      BY <2>1, <2>4
    <3>3. Cardinality(rows') <= Cardinality(rows) /\ Cardinality(rows') \in Nat
      <4>1. rows' \in SUBSET rows
        BY <3>2
      <4> QED
        BY <2>2, <4>1, FS_Subset, FS_CardinalityType
    <3>4. RowsInv'
      <4>1. Cardinality(rows') <= SLOTS_COUNT
        BY <2>2, <3>3, SlotsAssumption
      <4>2. \A v \in Inserts : Cardinality(rows') < SLOTS_COUNT /\ v.id \notin fresh
        BY <2>2, <3>3, SlotsAssumption
      <4> QED
        BY <2>1, <3>1, <4>1, <4>2
    <3> QED
      BY <2>1, <3>1, <3>2, <3>4 DEF Fits
  <2> QED
    BY <2>3, <2>4
<1>6. CASE StartUi
  <2>1. UNCHANGED <<rows, pending, fresh, loaded>>
    BY <1>6 DEF StartUi, dbVars, thrVars
  <2>2. instances' = instances \/ instances' = {<<i, gen + 1>> : i \in rows}
    BY <1>6 DEF StartUi
  <2>3. Fits({<<i, gen + 1>> : i \in rows})
    <3>1. Fits(OfRows(rows, gen + 1))
      BY NewObjects DEF Fits
    <3> QED
      BY <3>1 DEF OfRows
  <2> QED
    BY <2>1, <2>2, <2>3 DEF Fits, NewIds, Inserts
<1>7. CASE \E o \in view : delete(o) \/ \E a \in BOOLEAN : saveEdited(o, a)
  <2>1. /\ UNCHANGED <<rows, fresh, instances, loaded>>
        /\ \E w : w.op # "insert" /\ pending' = pending \cup {w}
    BY <1>7 DEF delete, saveEdited, regVars, thrVars, Launch
  <2>2. Inserts' = Inserts
    BY <2>1 DEF Inserts
  <2> QED
    BY <2>1, <2>2 DEF Fits, NewIds
<1>8. ASSUME NEW i \in fresh, NEW a \in BOOLEAN, saveNew(i, a)
      PROVE  TableInv'
  <2> DEFINE w == [op |-> "insert", id |-> i, auto |-> a]
  <2>1. /\ UNCHANGED <<rows, instances, loaded>> /\ Cardinality(rows) < SLOTS_COUNT
        /\ Inserts = {} /\ fresh' = fresh \ {i} /\ pending' = pending \cup {w}
    BY <1>8 DEF saveNew, regVars, thrVars, Launch, Inserts
  <2>2. Inserts' = {w}
    BY <2>1 DEF Inserts
  <2>3. w.id = i
    OBVIOUS
  <2>4. NewIds' = NewIds
    BY <2>1, <2>2, <2>3 DEF NewIds
  <2>5. RowsInv'
    BY <2>1, <2>2, <2>3
  <2> QED
    BY <2>1, <2>4, <2>5 DEF Fits
<1> QED
  BY TableSteps, <1>1, <1>2, <1>3, <1>4, <1>5, <1>6, <1>7, <1>8, Zenon

-----------------------------------------------------------------------------
(* What a step does to the sessions of the profiles.                       *)

ServerTask == {x \in Task : x.op \notin {"bind", "unbind"}}

\* The queue loses its first d tasks and gets new ones from News.
Shifts(d, News) ==
    /\ d \in {0, 1} /\ Len(queue) \in Nat /\ Len(queue') \in Nat
    /\ d <= Len(queue) /\ Len(queue) - d <= Len(queue')
    /\ \A i \in 1 .. (Len(queue) - d) : queue'[i] = queue[i + d]
    /\ \A i \in (Len(queue) - d + 1) .. Len(queue') : queue'[i] \in News

\* The queue stays.
LEMMA ShiftsNone ==
    ASSUME queue \in Seq(Task), queue' = queue, NEW News
    PROVE  Shifts(0, News)
<1>1. Len(queue) \in Nat
  BY LenProperties
<1> QED
  BY <1>1 DEF Shifts

\* A task is posted.
LEMMA ShiftsAppend ==
    ASSUME queue \in Seq(Task), NEW x \in Task, queue' = Append(queue, x)
    PROVE  /\ Shifts(0, {x}) /\ Len(queue') = Len(queue) + 1
           /\ queue'[Len(queue')] = x /\ Len(queue) \in Nat
<1>1. /\ Len(queue) \in Nat /\ Len(queue') = Len(queue) + 1
      /\ \A i \in 1 .. Len(queue) : queue'[i] = queue[i]
      /\ queue'[Len(queue) + 1] = x
  BY LenProperties, AppendProperties
<1> QED
  BY <1>1 DEF Shifts

\* The task in front is taken.
LEMMA ShiftsTail ==
    ASSUME queue \in Seq(Task), queue # <<>>, queue' = Tail(queue), NEW News
    PROVE  Shifts(1, News) /\ queue[1] = Head(queue)
<1>1. /\ Len(queue) \in Nat \ {0} /\ Len(queue') = Len(queue) - 1
      /\ \A i \in 1 .. (Len(queue) - 1) : queue'[i] = queue[i + 1]
      /\ queue[1] = Head(queue)
  BY LenProperties, EmptySeq, HeadTailProperties
<1> QED
  BY <1>1 DEF Shifts

\* The task in front is taken and posts others.
LEMMA ShiftsEnds ==
    ASSUME queue \in Seq(Task), queue # <<>>, NEW xs \in Seq(Task),
           queue' = Tail(queue) \o xs, NEW News,
           \A i \in 1 .. Len(xs) : xs[i] \in News
    PROVE  /\ Shifts(1, News) /\ queue[1] = Head(queue)
           /\ xs # <<>> => /\ Len(queue') \in (Len(queue)) .. Len(queue')
                           /\ queue'[Len(queue')] = xs[Len(xs)]
<1> DEFINE tl == Tail(queue)
<1>1. /\ Len(queue) \in Nat \ {0} /\ tl \in Seq(Task) /\ Len(tl) = Len(queue) - 1
      /\ \A i \in 1 .. (Len(queue) - 1) : tl[i] = queue[i + 1]
      /\ queue[1] = Head(queue)
  BY LenProperties, EmptySeq, HeadTailProperties
<1>2. Len(xs) \in Nat /\ (xs # <<>> => Len(xs) # 0)
  BY LenProperties, EmptySeq
<1>3. queue' = tl \o xs
  OBVIOUS
<1> HIDE DEF tl
<1>4. /\ Len(queue') = Len(tl) + Len(xs)
      /\ \A i \in 1 .. (Len(tl) + Len(xs)) :
            queue'[i] = IF i <= Len(tl) THEN tl[i] ELSE xs[i - Len(tl)]
  BY <1>1, <1>3, ConcatProperties
<1> QED
  BY <1>1, <1>2, <1>4 DEF Shifts

\* Two tasks are posted.
LEMMA ShiftsTwo ==
    ASSUME queue \in Seq(Task), NEW x \in Task, NEW y \in Task,
           queue' = queue \o <<x, y>>
    PROVE  /\ Shifts(0, {x, y}) /\ Len(queue') = Len(queue) + 2 /\ Len(queue) \in Nat
           /\ queue'[Len(queue) + 1] = x /\ queue'[Len(queue) + 2] = y
<1> DEFINE xs == <<x, y>>
<1>1. xs \in Seq(Task) /\ Len(xs) = 2 /\ xs[1] = x /\ xs[2] = y
  OBVIOUS
<1>2. queue' = queue \o xs /\ Len(queue) \in Nat
  BY LenProperties
<1> HIDE DEF xs
<1>3. /\ Len(queue') = Len(queue) + Len(xs)
      /\ \A i \in 1 .. (Len(queue) + Len(xs)) :
            queue'[i] = IF i <= Len(queue) THEN queue[i] ELSE xs[i - Len(queue)]
  BY <1>1, <1>2, ConcatProperties
<1> QED
  BY <1>1, <1>2, <1>3 DEF Shifts

\* The tasks of different kinds, and of different objects, differ.
LEMMA TaskKinds ==
    /\ ServersTask \in ServerTask /\ StopServersTask \in ServerTask
    /\ RefreshTask \in ServerTask /\ \A on \in BOOLEAN : CameraTask(on) \in ServerTask
    /\ \A o \in Obj : BindTask(o) \notin ServerTask /\ UnbindTask(o) \notin ServerTask
    /\ \A o, p \in Obj : /\ BindTask(o) # UnbindTask(p)
                         /\ BindTask(o) = BindTask(p) => o = p
                         /\ UnbindTask(o) = UnbindTask(p) => o = p
    /\ \A x \in Task : /\ x \notin ServerTask => x.obj \in Obj
                       /\ x.op = "bind" => x = BindTask(x.obj)
                       /\ x.op = "unbind" => x = UnbindTask(x.obj)
<1> USE DEF BindTask, UnbindTask, ServersTask, StopServersTask, RefreshTask, CameraTask,
            ServerTask, Task
<1>1. /\ ServersTask \in ServerTask /\ StopServersTask \in ServerTask
      /\ RefreshTask \in ServerTask /\ \A on \in BOOLEAN : CameraTask(on) \in ServerTask
  OBVIOUS
<1>2. \A o \in Obj : BindTask(o) \notin ServerTask /\ UnbindTask(o) \notin ServerTask
  OBVIOUS
<1>3. \A o, p \in Obj : /\ BindTask(o).op = "bind" /\ UnbindTask(p).op = "unbind"
                        /\ BindTask(o).obj = o /\ UnbindTask(o).obj = o
                        /\ BindTask(p).obj = p /\ UnbindTask(p).obj = p
  OBVIOUS
<1>4. \A x \in Task : x \notin ServerTask => x.obj \in Obj
  OBVIOUS
<1>5. \A x \in Task : x.op = "bind" => x = BindTask(x.obj)
  OBVIOUS
<1>6. \A x \in Task : x.op = "unbind" => x = UnbindTask(x.obj)
  OBVIOUS
<1> HIDE DEF BindTask, UnbindTask, ServersTask, StopServersTask, RefreshTask, CameraTask,
            ServerTask, Task
<1>7. \A o, p \in Obj : /\ BindTask(o) # UnbindTask(p)
                        /\ BindTask(o) = BindTask(p) => o = p
                        /\ UnbindTask(o) = UnbindTask(p) => o = p
  <2>1. ASSUME NEW o \in Obj, NEW p \in Obj
        PROVE  /\ BindTask(o) # UnbindTask(p)
               /\ BindTask(o) = BindTask(p) => o = p
               /\ UnbindTask(o) = UnbindTask(p) => o = p
    BY <1>3
  <2> QED
    BY <2>1
<1> QED
  BY <1>1, <1>2, <1>4, <1>5, <1>6, <1>7

-----------------------------------------------------------------------------
(* What a step does to the sessions of the profiles.                       *)

sessionVars == <<state, slot, conn, bindings, serving, deaths>>

\* A step that no thread takes, or leaves, inside a critical section.
Loose ==
    calm' => /\ calm /\ UNCHANGED <<instances, gen>>
             /\ \A t \in Threads : ~Busy(t) /\ pc'[t] \notin {"copy", "drop", "slot", "put"}

\* Only tasks of the servers come and go.
Bystands ==
    /\ UNCHANGED sessionVars /\ UNCHANGED slots
    /\ \E d \in {0, 1} : Shifts(d, ServerTask) /\ (d = 1 => queue[1] \in ServerTask)

\* No object keeps a slot; in a calm application none held one.
Clears ==
    /\ UNCHANGED sessionVars /\ slots' = [o \in Obj |-> NoSlot]
    /\ calm' => \A o \in Held : state[o] = "IDLE"
    /\ \E d \in {0, 1} : Shifts(d, ServerTask) /\ (d = 1 => queue[1] \in ServerTask)

\* stop(), or a start() that cannot make its directory.
Stops(o) ==
    /\ state[o] # "STOPPING" /\ state' = [state EXCEPT ![o] = "STOPPING"]
    /\ queue' = Append(queue, UnbindTask(o))
    /\ UNCHANGED <<slot, conn, bindings, serving, deaths, slots>>
    /\ calm' => o \in instances /\ (state[o] = "IDLE" => ~Awaited(o))

\* start() marks the object.
Begins(t, o) ==
    /\ state[o] = "IDLE" /\ state' = [state EXCEPT ![o] = "STARTING"]
    /\ pc' = [pc EXCEPT ![t] = "slot"] /\ cur' = [cur EXCEPT ![t] = o]
    /\ UNCHANGED <<slot, conn, bindings, serving, deaths, slots, queue>>
    /\ calm' => /\ calm /\ UNCHANGED <<instances, gen>>
                /\ o \in instances /\ ~Awaited(o) /\ \A u \in Threads : ~Busy(u)

\* A step outside the critical sections of start() and of a reload.
Roams ==
    /\ Loose
    /\ \/ Bystands \/ Clears \/ \E o \in Obj : Stops(o)
       \/ RunBind \/ RunUnbind
       \/ \E b \in bindings : onServiceConnected(b) \/ onServiceDisconnected(b)

\* A step that leaves the sessions, `slots` and the queue.
LEMMA StaysPut ==
    ASSUME TypeOK, UNCHANGED sessionVars, UNCHANGED <<slots, queue>>
    PROVE  Bystands
<1>1. Shifts(0, ServerTask)
  BY ShiftsNone DEF TypeOK, LooperType
<1> QED
  BY <1>1 DEF Bystands

\* The end of a reload.
LEMMA LooseReload ==
    ASSUME TypeOK, NEW t \in Threads, ReloadDone(t)
    PROVE  Roams
<1>1. Bystands
  BY StaysPut DEF ReloadDone, sessionVars, objVars, regVars, sysVars, cntVars
<1>2. Loose
  BY DEF Loose, ReloadDone, regVars, cntVars, Note, Threads, Other, Busy, TypeOK, ThreadType
<1> QED
  BY <1>1, <1>2 DEF Roams

\* One turn of the autostart loop.
LEMMA LooseAutostart ==
    ASSUME TypeOK, NEW t \in Threads, AutostartOne(t)
    PROVE  Roams \/ \E o \in Obj : Begins(t, o)
<1>1. PICK o \in todo[t] :
        \/ /\ autostart[o] /\ state[o] = "IDLE" /\ startBegin(t, o)
           /\ Note(t, o \in instances /\ ~Awaited(o))
        \/ /\ Note(t, TRUE) /\ UNCHANGED <<state, queue, pc, cur>>
  BY DEF AutostartOne
<1>2. o \in Obj /\ pc[t] = "auto"
  BY DEF AutostartOne, TypeOK, ThreadType
<1>3. UNCHANGED <<slot, conn, bindings, serving, deaths, slots, instances, gen>>
  BY DEF AutostartOne, regVars, sysVars, cntVars
<1>4. calm' => calm /\ \A u \in Threads : ~Busy(u)
  BY <1>1, <1>2 DEF Note, Threads, Other, Busy
<1>5. CASE UNCHANGED <<state, queue, pc, cur>>
  <2>1. Bystands
    BY <1>3, <1>5, StaysPut DEF sessionVars
  <2>2. Loose
    BY <1>3, <1>4, <1>5 DEF Loose, Busy
  <2> QED
    BY <2>1, <2>2 DEF Roams
<1>6. CASE /\ state[o] = "IDLE" /\ Note(t, o \in instances /\ ~Awaited(o))
           /\ stopping(o) /\ UNCHANGED <<pc, cur>>
  <2>1. Stops(o)
    BY <1>3, <1>6 DEF Stops, stopping, Note
  <2>2. Loose
    BY <1>3, <1>4, <1>6 DEF Loose, Busy
  <2> QED
    BY <1>2, <2>1, <2>2 DEF Roams
<1>7. CASE /\ state[o] = "IDLE" /\ Note(t, o \in instances /\ ~Awaited(o))
           /\ state' = [state EXCEPT ![o] = "STARTING"]
           /\ pc' = [pc EXCEPT ![t] = "slot"]
           /\ cur' = [cur EXCEPT ![t] = o]
           /\ UNCHANGED queue
  <2>1. Begins(t, o)
    BY <1>3, <1>4, <1>7 DEF Begins, Note
  <2> QED
    BY <1>2, <2>1
<1> QED
  BY <1>1, <1>5, <1>6, <1>7 DEF startBegin

\* One turn of the loop of runStopAll().
LEMMA LooseBatch ==
    ASSUME TypeOK, BatchOne
    PROVE  Roams \/ \E o \in Obj : Begins("main", o)
<1>1. PICK o \in batch.objs :
        /\ calm' => calm /\ ~Busy("io") /\ o \in instances
                    /\ (batch.op = "start" /\ state[o] = "IDLE" => ~Awaited(o))
        /\ \/ /\ Stoppable(o) /\ stop(o)
              /\ pc' = [pc EXCEPT !["main"] = "read"] \/ pc' = pc
           \/ /\ batch.op = "start" /\ startBegin("main", o)
           \/ UNCHANGED <<state, queue, pc, cur>>
  <2>1. PICK o \in batch.objs :
          /\ Note("main", /\ o \in instances
                          /\ batch.op = "start" /\ state[o] = "IDLE" => ~Awaited(o))
          /\ \/ /\ Stoppable(o) /\ stop(o)
                /\ pc' = [pc EXCEPT !["main"] = "read"] \/ pc' = pc
             \/ /\ batch.op = "start" /\ startBegin("main", o)
             \/ UNCHANGED <<state, queue, pc, cur>>
    BY DEF BatchOne
  <2>2. Other("main") = "io"
    BY DEF Other
  <2> QED
    BY <2>1, <2>2 DEF Note
<1>2. o \in Obj /\ pc["main"] = "idle" /\ "main" \in Threads
  BY DEF BatchOne, TypeOK, LooperType, Threads
<1>3. UNCHANGED <<slot, conn, bindings, serving, deaths, slots, instances, gen>>
  BY DEF BatchOne, regVars, sysVars, cntVars
<1>4. calm' => calm /\ \A u \in Threads : ~Busy(u)
  BY <1>1, <1>2 DEF Threads, Busy
<1>5. CASE UNCHANGED <<state, queue, pc, cur>>
  <2>1. Bystands
    BY <1>3, <1>5, StaysPut DEF sessionVars
  <2>2. Loose
    BY <1>3, <1>4, <1>5 DEF Loose, Busy
  <2> QED
    BY <2>1, <2>2 DEF Roams
<1>6. CASE /\ Stoppable(o) /\ stop(o)
           /\ pc' = [pc EXCEPT !["main"] = "read"] \/ pc' = pc
  <2>1. Stops(o)
    BY <1>1, <1>3, <1>6 DEF Stops, stop, stopping, Stoppable
  <2>2. Loose
    BY <1>2, <1>3, <1>4, <1>6 DEF Loose, Busy, TypeOK, ThreadType
  <2> QED
    BY <1>2, <2>1, <2>2 DEF Roams
<1>7. CASE batch.op = "start" /\ startBegin("main", o)
  <2>1. state[o] = "IDLE"
    BY <1>7 DEF startBegin
  <2>2. CASE stopping(o) /\ UNCHANGED <<pc, cur>>
    <3>1. Stops(o)
      BY <1>1, <1>3, <1>7, <2>1, <2>2 DEF Stops, stopping
    <3>2. Loose
      BY <1>3, <1>4, <2>2 DEF Loose, Busy
    <3> QED
      BY <1>2, <3>1, <3>2 DEF Roams
  <2>3. CASE /\ state' = [state EXCEPT ![o] = "STARTING"]
             /\ pc' = [pc EXCEPT !["main"] = "slot"]
             /\ cur' = [cur EXCEPT !["main"] = o]
             /\ UNCHANGED queue
    <3>1. Begins("main", o)
      BY <1>1, <1>3, <1>4, <1>7, <2>1, <2>3 DEF Begins
    <3> QED
      BY <1>2, <3>1
  <2> QED
    BY <1>7, <2>2, <2>3 DEF startBegin
<1> QED
  BY <1>1, <1>5, <1>6, <1>7

\* A handler of the main thread, which is free when it begins and when it ends.
LEMMA LooseMain ==
    ASSUME TypeOK, pc["main"] = "idle", calm' => calm /\ ~Busy("io"), UNCHANGED <<instances, gen>>,
           UNCHANGED pc
    PROVE  Loose
BY DEF Loose, Threads, Busy

\* The tasks of the main Looper.
LEMMA LooseTasks ==
    ASSUME TypeOK, RunBind \/ RunUnbind \/ RunServers \/ stopServerServicesIfNoSlots
                     \/ RunCamera \/ RunRefresh
    PROVE  Roams
<1>1. Loose
  <2>1. pc["main"] = "idle" /\ UNCHANGED <<pc, instances, gen>>
    BY DEF RunBind, RunUnbind, RunServers, stopServerServicesIfNoSlots, RunCamera, RunRefresh,
           Dequeue, MainFree, thrVars, regVars, cntVars
  <2>2. calm' => calm /\ ~Busy("io")
    BY DEF RunBind, RunUnbind, RunServers, stopServerServicesIfNoSlots, RunCamera, RunRefresh,
           Note, Other
  <2> QED
    BY <2>1, <2>2, LooseMain
<1>2. CASE RunBind \/ RunUnbind
  BY <1>1, <1>2 DEF Roams
<1>3. ASSUME NEW op, op \notin {"bind", "unbind"}, Dequeue(op), queue' = Tail(queue)
      PROVE  Shifts(1, ServerTask) /\ queue[1] \in ServerTask
  <2>1. queue \in Seq(Task) /\ queue # <<>> /\ Head(queue).op = op
    BY <1>3 DEF Dequeue, TypeOK, LooperType
  <2>2. Head(queue) \in ServerTask
    BY <1>3, <2>1, QueueShape DEF ServerTask
  <2> QED
    BY <1>3, <2>1, <2>2, ShiftsTail
<1>4. CASE RunServers \/ RunCamera \/ RunRefresh
  <2>1. /\ UNCHANGED <<state, slot, conn, bindings, serving, deaths, slots>>
        /\ queue' = Tail(queue)
        /\ Dequeue("servers") \/ Dequeue("camera") \/ Dequeue("refresh")
    BY <1>4 DEF RunServers, RunCamera, RunRefresh, objVars, regVars, sysVars, cntVars
  <2>2. Shifts(1, ServerTask) /\ queue[1] \in ServerTask
    BY <2>1, <1>3
  <2>3. Bystands
    BY <2>1, <2>2 DEF Bystands, sessionVars
  <2> QED
    BY <1>1, <2>3 DEF Roams
<1>5. CASE stopServerServicesIfNoSlots
  <2>1. /\ UNCHANGED <<state, slot, conn, bindings, serving, deaths>>
        /\ queue' = Tail(queue) /\ Dequeue("stopServers")
        /\ \/ UNCHANGED slots
           \/ ~hasAnyRunningInstance /\ slots' = [o \in Obj |-> NoSlot]
    BY <1>5 DEF stopServerServicesIfNoSlots, objVars, sysVars, cntVars
  <2>2. Shifts(1, ServerTask) /\ queue[1] \in ServerTask
    BY <2>1, <1>3
  <2>3. CASE UNCHANGED slots
    BY <1>1, <2>1, <2>2, <2>3 DEF Roams, Bystands, sessionVars
  <2>4. CASE ~hasAnyRunningInstance /\ slots' = [o \in Obj |-> NoSlot]
    <3>1. \A o \in Held : state[o] = "IDLE"
      BY <2>4 DEF hasAnyRunningInstance, TypeOK, ObjType, States, Held
    <3> QED
      BY <1>1, <2>1, <2>2, <2>4, <3>1 DEF Roams, Clears, sessionVars
  <2> QED
    BY <2>1, <2>3, <2>4
<1> QED
  BY <1>2, <1>4, <1>5

\* The boot and the database writes.
LEMMA LooseIo ==
    ASSUME TypeOK, resetSlotsForFreshStart \/ \E w \in pending : DbWriteOnIo(w)
    PROVE  Roams
<1>1. Loose
  <2>1. /\ pc["io"] \in {"boot", "idle"} /\ UNCHANGED <<instances, gen>>
        /\ pc' = [pc EXCEPT !["io"] = "read"]
    BY DEF resetSlotsForFreshStart, DbWriteOnIo, regVars, cntVars
  <2>2. calm' => calm /\ ~Busy("main")
    BY DEF resetSlotsForFreshStart, DbWriteOnIo, Note, Other
  <2> QED
    BY <2>1, <2>2 DEF Loose, Threads, Busy, TypeOK, ThreadType
<1>2. CASE resetSlotsForFreshStart
  <2>1. UNCHANGED <<state, slot, conn, bindings, serving, deaths, queue>>
    BY <1>2 DEF resetSlotsForFreshStart, objVars, sysVars, cntVars
  <2>2. /\ slots' = [o \in Obj |-> NoSlot]
        /\ calm' => \A o \in Held : state[o] = "IDLE"
    BY <1>2 DEF resetSlotsForFreshStart, Note, Held
  <2>3. Shifts(0, ServerTask)
    BY <2>1, ShiftsNone DEF TypeOK, LooperType
  <2>4. Clears
    BY <2>1, <2>2, <2>3 DEF Clears, sessionVars
  <2> QED
    BY <1>1, <2>4 DEF Roams
<1>3. CASE \E w \in pending : DbWriteOnIo(w)
  <2>1. Bystands
    BY <1>3, StaysPut DEF DbWriteOnIo, sessionVars, objVars, regVars, sysVars, cntVars
  <2> QED
    BY <1>1, <2>1 DEF Roams
<1> QED
  BY <1>2, <1>3

\* The user's operations.
LEMMA LooseUser ==
    ASSUME TypeOK,
           \/ Resubscribe
           \/ \E op \in {"start", "stop"}, S \in SUBSET view : Tap /\ BeginBatch(op, S)
           \/ \E o \in view : delete(o) \/ \E a \in BOOLEAN : saveEdited(o, a)
           \/ \E i \in fresh, a \in BOOLEAN : saveNew(i, a)
           \/ \E on \in BOOLEAN : setCameraEnabled(on)
    PROVE  Roams
<1> USE DEF Note, Other
<1> DEFINE Taps == /\ pc["main"] = "idle" /\ UNCHANGED <<pc, instances, gen>>
                   /\ calm' => calm /\ ~Busy("io")
           Quietly == UNCHANGED <<state, slot, conn, bindings, serving, deaths, slots, queue>>
<1>1. Taps => Loose
  BY LooseMain
<1>2. Quietly => Bystands
  BY StaysPut DEF sessionVars
<1>3. CASE Resubscribe
  <2>1. Taps /\ Quietly
    BY <1>3 DEF Resubscribe, Tap, MainFree, objVars, regVars, thrVars, sysVars, cntVars
  <2> QED
    BY <1>1, <1>2, <2>1 DEF Roams
<1>4. CASE \E op \in {"start", "stop"}, S \in SUBSET view : Tap /\ BeginBatch(op, S)
  <2>1. PICK op \in {"start", "stop"}, S \in SUBSET view : Tap /\ BeginBatch(op, S)
    BY <1>4
  <2>2. Taps /\ Quietly
    BY <2>1 DEF BeginBatch, Tap, MainFree, objVars, regVars, thrVars, sysVars
  <2> QED
    BY <1>1, <1>2, <2>2 DEF Roams
<1>5. ASSUME NEW o \in view, NEW a \in BOOLEAN, saveEdited(o, a)
      PROVE  Roams
  <2>1. Taps /\ Quietly
    BY <1>5 DEF saveEdited, Tap, MainFree, regVars, thrVars, sysVars
  <2> QED
    BY <1>1, <1>2, <2>1 DEF Roams
<1>6. ASSUME NEW i \in fresh, NEW a \in BOOLEAN, saveNew(i, a)
      PROVE  Roams
  <2>1. Taps /\ Quietly
    BY <1>6 DEF saveNew, Tap, MainFree, objVars, regVars, thrVars, sysVars
  <2> QED
    BY <1>1, <1>2, <2>1 DEF Roams
<1>7. ASSUME NEW o \in view, delete(o)
      PROVE  Roams
  <2>1. Taps /\ o \in Obj
    BY <1>7 DEF delete, Tap, MainFree, regVars, thrVars, TypeOK, RegistryType
  <2>2. /\ UNCHANGED <<slot, conn, bindings, serving, deaths, slots>> /\ stop(o)
        /\ calm' => o \in instances
    BY <1>7 DEF delete, regVars, sysVars
  <2>3. CASE Stoppable(o)
    <3>1. Stops(o)
      BY <2>2, <2>3 DEF Stops, stop, stopping, Stoppable
    <3> QED
      BY <1>1, <2>1, <3>1 DEF Roams
  <2>4. CASE ~Stoppable(o)
    <3>1. Quietly
      BY <2>2, <2>4 DEF stop
    <3> QED
      BY <1>1, <1>2, <2>1, <3>1 DEF Roams
  <2> QED
    BY <2>3, <2>4
<1>8. ASSUME NEW on \in BOOLEAN, setCameraEnabled(on)
      PROVE  Roams
  <2>1. Taps
    BY <1>8 DEF setCameraEnabled, Tap, MainFree, regVars, thrVars
  <2>2. /\ UNCHANGED <<state, slot, conn, bindings, serving, deaths, slots>>
        /\ queue' = Append(queue, CameraTask(on))
    BY <1>8 DEF setCameraEnabled, objVars, regVars, sysVars
  <2>3. CameraTask(on) \in ServerTask /\ CameraTask(on) \in Task
    BY TaskKinds, TaskShape
  <2>4. Shifts(0, {CameraTask(on)})
    BY <2>2, <2>3, ShiftsAppend DEF TypeOK, LooperType
  <2>5. Shifts(0, ServerTask)
    BY <2>3, <2>4 DEF Shifts
  <2>6. Bystands
    BY <2>2, <2>5 DEF Bystands, sessionVars
  <2> QED
    BY <1>1, <2>1, <2>6 DEF Roams
<1> QED
  BY <1>3, <1>4, <1>5, <1>6, <1>7, <1>8

\* The shapes of a step: what the proofs about sessions go through.
LEMMA StepShapes ==
    ASSUME TypeOK, Next
    PROVE  \/ Roams
           \/ \E t \in Threads : \/ PickSlot(t) \/ PutSlot(t) \/ ReadRows(t) \/ CopyOne(t)
                                 \/ ListGone(t) \/ DropOne(t) \/ Publish(t)
                                 \/ \E o \in Obj : Begins(t, o)
           \/ StartUi
           \/ \E k \in Kinds, s \in Slots : Die(k, s)
<1>1. CASE \E b \in bindings : onServiceConnected(b) \/ onServiceDisconnected(b)
  <2>1. Loose
    <3>1. pc["main"] = "idle" /\ UNCHANGED <<pc, instances, gen>>
      BY <1>1 DEF onServiceConnected, onServiceDisconnected, MainFree, thrVars, regVars, cntVars
    <3>2. calm' => calm /\ ~Busy("io")
      BY <1>1 DEF onServiceConnected, onServiceDisconnected, Note, Other
    <3> QED
      BY <3>1, <3>2, LooseMain
  <2> QED
    BY <1>1, <2>1 DEF Roams
<1>2. CASE \E t \in Threads : AutostartOne(t) \/ ReloadDone(t)
  BY <1>2, LooseAutostart, LooseReload
<1>3. CASE BatchOne
  <2>1. "main" \in Threads
    BY DEF Threads
  <2> QED
    BY <1>3, <2>1, LooseBatch
<1> QED
  BY StepCases, LooseTasks, LooseIo, LooseUser, <1>1, <1>2, <1>3, Zenon

-----------------------------------------------------------------------------
(* The tasks and callbacks that open and close a session.                  *)

\* What the queue holds after a step, and what it loses.
LEMMA Shifted ==
    ASSUME NEW d, NEW News, Shifts(d, News), NEW x
    PROVE  /\ Posted(x)' => Posted(x) \/ x \in News
           /\ Posted(x) => Posted(x)' \/ (d = 1 /\ queue[1] = x)
<1> USE DEF Shifts, Posted
<1>1. ASSUME NEW i \in 1 .. Len(queue'), queue'[i] = x, x \notin News
      PROVE  \E j \in 1 .. Len(queue) : queue[j] = x
  <2>1. i \in 1 .. (Len(queue) - d)
    BY <1>1
  <2>2. i + d \in 1 .. Len(queue) /\ queue[i + d] = x
    BY <1>1, <2>1
  <2> QED
    BY <2>2
<1>2. ASSUME NEW i \in 1 .. Len(queue), queue[i] = x, ~(d = 1 /\ queue[1] = x)
      PROVE  \E j \in 1 .. Len(queue') : queue'[j] = x
  <2>1. i - d \in 1 .. (Len(queue) - d)
    BY <1>2
  <2>2. i - d \in 1 .. Len(queue') /\ queue'[i - d] = x
    BY <1>2, <2>1
  <2> QED
    BY <2>2
<1> QED
  BY <1>1, <1>2

Waits(o) == Posted(BindTask(o)) \/ Posted(UnbindTask(o))

\* The definition of calm speaks of the same tasks.
LEMMA AwaitedWaits ==
    ASSUME TypeOK, NEW o \in Obj
    PROVE  Awaited(o) <=> Waits(o)
<1>1. ASSUME NEW i \in 1 .. Len(queue)
      PROVE  queue[i].op \in {"bind", "unbind"} /\ queue[i].obj = o
               <=> queue[i] = BindTask(o) \/ queue[i] = UnbindTask(o)
  <2>1. queue[i] \in Task
    BY <1>1, ElementOfSeq DEF TypeOK, LooperType
  <2>2. BindTask(o).op = "bind" /\ BindTask(o).obj = o
    BY DEF BindTask
  <2>3. UnbindTask(o).op = "unbind" /\ UnbindTask(o).obj = o
    BY DEF UnbindTask
  <2> QED
    BY <2>1, <2>2, <2>3, TaskKinds
<1> QED
  BY <1>1 DEF Awaited, Waits, Posted

NewBindings(o, c) ==
    {[kind |-> k, conn |-> c, slot |-> slot[o], phase |-> "wait"] : k \in Kinds}

Binds(o, c) ==
    /\ queue # <<>> /\ queue[1] = BindTask(o) /\ Shifts(1, {})
    /\ c \in Conn /\ c[1] = o
    /\ conn' = [conn EXCEPT ![o] = [k \in Kinds |-> c]]
    /\ bindings' = bindings \cup NewBindings(o, c)
    /\ serving' = onBind(o)
    /\ UNCHANGED <<state, slot, slots, deaths>>

Idles(o) == IdleByKlippy(o) \/ IdleByMoonraker(o) \/ IdleAtLast(o)

Unbinds(o) ==
    /\ queue # <<>> /\ queue[1] = UnbindTask(o) /\ Shifts(1, {StopServersTask})
    /\ Unbind(o)
    /\ conn' = [conn EXCEPT ![o] = NullConn]
    /\ state' = [state EXCEPT ![o] = IF Idles(o) THEN "IDLE" ELSE @]
    /\ slots' = IF Idles(o) THEN Released(o) ELSE slots
    /\ Idles(o) => /\ Len(queue') \in (Len(queue)) .. Len(queue')
                   /\ queue'[Len(queue')] = StopServersTask
    /\ UNCHANGED <<slot, deaths>>

Connects(b) ==
    /\ b.phase = "wait"
    /\ state' = state \/ state' = [state EXCEPT ![b.conn[1]] = "RUNNING"]
    /\ bindings' = (bindings \ {b}) \cup {[b EXCEPT !.phase = "up"]}
    /\ Shifts(0, {ServersTask})
    /\ state' # state => Posted(ServersTask)'
    /\ UNCHANGED <<slot, conn, serving, slots, deaths>>

\* What start()'s task does.
LEMMA BindShape ==
    ASSUME TypeOK, RunBind
    PROVE  \E o \in Obj, c \in Conn : Binds(o, c)
<1> DEFINE o == Head(queue).obj
           c == <<o, binds[o]>>
<1>1. /\ Head(queue).op = "bind" /\ queue # <<>> /\ queue' = Tail(queue) /\ queue \in Seq(Task)
      /\ conn' = [conn EXCEPT ![o] = [k \in Kinds |-> c]]
      /\ bindings' = bindings \cup NewBindings(o, c)
      /\ serving' = onBind(o)
      /\ UNCHANGED <<state, slot, slots, deaths>>
  BY DEF RunBind, Dequeue, NewBindings, regVars, cntVars, TypeOK, LooperType
<1>2. Head(queue) \in Task
  BY <1>1, QueueShape
<1>3. o \in Obj /\ Head(queue) = BindTask(o)
  BY <1>1, <1>2, TaskKinds, TaskShape
<1>4. Shifts(1, {}) /\ queue[1] = Head(queue)
  BY <1>1, ShiftsTail
<1>5. binds[o] \in Nat
  BY <1>3 DEF TypeOK, ObjType
<1>6. c \in Conn /\ c[1] = o
  BY <1>3, <1>5 DEF Conn
<1> HIDE DEF o, c
<1>7. Binds(o, c)
  BY <1>1, <1>3, <1>4, <1>6 DEF Binds
<1> QED
  BY <1>3, <1>6, <1>7

\* What stop()'s task does.
LEMMA UnbindShape ==
    ASSUME TypeOK, RunUnbind
    PROVE  \E o \in Obj : Unbinds(o)
<1> DEFINE o == Head(queue).obj
<1>1. PICK xs : /\ queue' = Tail(queue) \o xs
                /\ \/ xs = <<StopServersTask, StopServersTask>>
                   \/ xs = <<StopServersTask>>
                   \/ xs = <<>> /\ ~Idles(o)
  <2> DEFINE both == IdleByKlippy(o) /\ IdleByMoonraker(o)
             ys == IF both THEN <<StopServersTask, StopServersTask>>
                   ELSE IF Idles(o) THEN <<StopServersTask>> ELSE <<>>
  <2>1. queue' = Tail(queue) \o ys
    BY DEF RunUnbind, Idles
  <2>2. \/ ys = <<StopServersTask, StopServersTask>>
        \/ ys = <<StopServersTask>>
        \/ ys = <<>> /\ ~Idles(o)
    OBVIOUS
  <2> QED
    BY <2>1, <2>2
<1>2. /\ Head(queue).op = "unbind" /\ queue # <<>> /\ queue \in Seq(Task)
      /\ Unbind(o)
      /\ conn' = [conn EXCEPT ![o] = NullConn]
      /\ state' = [state EXCEPT ![o] = IF Idles(o) THEN "IDLE" ELSE @]
      /\ slots' = IF Idles(o) THEN Released(o) ELSE slots
      /\ UNCHANGED <<slot, deaths>>
  BY DEF RunUnbind, Dequeue, Idles, cntVars, TypeOK, LooperType
<1>3. Head(queue) \in Task
  BY <1>2, QueueShape
<1>4. o \in Obj /\ Head(queue) = UnbindTask(o)
  BY <1>2, <1>3, TaskKinds, TaskShape
<1>5. /\ xs \in Seq(Task) /\ \A i \in 1 .. Len(xs) : xs[i] \in {StopServersTask}
      /\ xs # <<>> => xs[Len(xs)] = StopServersTask
  <2> DEFINE s == StopServersTask
  <2>1. s \in Task
    BY TaskShape
  <2> HIDE DEF s
  <2>2. /\ <<s, s>> \in Seq(Task) /\ Len(<<s, s>>) = 2
        /\ <<s, s>>[1] = s /\ <<s, s>>[2] = s
    BY <2>1
  <2>3. <<s>> \in Seq(Task) /\ Len(<<s>>) = 1 /\ <<s>>[1] = s
    BY <2>1
  <2>4. xs = <<s, s>> \/ xs = <<s>> \/ xs = <<>>
    BY <1>1 DEF s
  <2>5. CASE xs = <<s, s>>
    BY <2>2, <2>5 DEF s
  <2>6. CASE xs = <<s>>
    BY <2>3, <2>6 DEF s
  <2>7. CASE xs = <<>>
    BY <2>7, EmptySeq
  <2> QED
    BY <2>4, <2>5, <2>6, <2>7
<1> HIDE DEF o
<1>6. /\ Shifts(1, {StopServersTask}) /\ queue[1] = Head(queue)
      /\ xs # <<>> => /\ Len(queue') \in (Len(queue)) .. Len(queue')
                      /\ queue'[Len(queue')] = StopServersTask
  BY <1>1, <1>2, <1>5, ShiftsEnds
<1>7. Idles(o) => xs # <<>>
  BY <1>1
<1>8. Unbinds(o)
  BY <1>2, <1>4, <1>6, <1>7 DEF Unbinds
<1> QED
  BY <1>4, <1>8

\* A binding that changes its phase stays the same in all else.
LEMMA Phased ==
    ASSUME TypeOK, NEW b \in bindings, NEW ph
    PROVE  /\ [b EXCEPT !.phase = ph].conn = b.conn /\ [b EXCEPT !.phase = ph].kind = b.kind
           /\ [b EXCEPT !.phase = ph].slot = b.slot /\ [b EXCEPT !.phase = ph].phase = ph
           /\ b.conn \in Conn /\ b.conn[1] \in Obj /\ b.kind \in Kinds /\ b.slot \in Slots
<1>1. b \in Binding
  BY DEF TypeOK, SystemType
<1> QED
  BY <1>1 DEF Binding, Conn

\* What onServiceConnected() does.
LEMMA ConnectShape ==
    ASSUME TypeOK, NEW b \in bindings, onServiceConnected(b)
    PROVE  Connects(b)
<1>1. /\ b.phase = "wait"
      /\ \/ UNCHANGED <<state, queue>>
         \/ /\ state' = [state EXCEPT ![b.conn[1]] = "RUNNING"]
            /\ queue' = Append(queue, ServersTask)
      /\ bindings' = (bindings \ {b}) \cup {[b EXCEPT !.phase = "up"]}
      /\ UNCHANGED <<slot, conn, serving, slots, deaths>>
  BY DEF onServiceConnected, regVars, cntVars
<1>2. queue \in Seq(Task) /\ ServersTask \in Task
  BY TaskShape DEF TypeOK, LooperType
<1>3. CASE UNCHANGED <<state, queue>>
  <2>1. Shifts(0, {ServersTask})
    BY <1>2, <1>3, ShiftsNone
  <2> QED
    BY <1>1, <1>3, <2>1 DEF Connects
<1>4. CASE /\ state' = [state EXCEPT ![b.conn[1]] = "RUNNING"]
           /\ queue' = Append(queue, ServersTask)
  <2>1. Shifts(0, {ServersTask}) /\ Len(queue) \in Nat /\ Len(queue') = Len(queue) + 1
        /\ queue'[Len(queue')] = ServersTask
    BY <1>2, <1>4, ShiftsAppend
  <2>2. Posted(ServersTask)'
    BY <2>1 DEF Posted
  <2> QED
    BY <1>1, <1>4, <2>1, <2>2 DEF Connects
<1> QED
  BY <1>1, <1>3, <1>4

Disconnects(b) ==
    /\ b.phase = "dead"
    /\ conn' = [conn EXCEPT ![b.conn[1]][b.kind] = NoConn]
    /\ \/ UNCHANGED <<state, slots>>
       \/ /\ state' = [state EXCEPT ![b.conn[1]] = "IDLE"]
          /\ slots' = Released(b.conn[1])
    /\ bindings' = (bindings \ {b}) \cup {[b EXCEPT !.phase = "wait"]}
    /\ Shifts(0, {StopServersTask})
    /\ UNCHANGED <<slot, serving, deaths>>

\* What onServiceDisconnected() does.
LEMMA DisconnectShape ==
    ASSUME TypeOK, NEW b \in bindings, onServiceDisconnected(b)
    PROVE  Disconnects(b)
<1>1. /\ b.phase = "dead"
      /\ conn' = [conn EXCEPT ![b.conn[1]][b.kind] = NoConn]
      /\ \/ UNCHANGED <<state, slots, queue>>
         \/ /\ state' = [state EXCEPT ![b.conn[1]] = "IDLE"]
            /\ slots' = Released(b.conn[1])
            /\ queue' = Append(queue, StopServersTask)
      /\ bindings' = (bindings \ {b}) \cup {[b EXCEPT !.phase = "wait"]}
      /\ UNCHANGED <<slot, serving, deaths>>
  BY DEF onServiceDisconnected, cntVars
<1>2. queue \in Seq(Task) /\ StopServersTask \in Task
  BY TaskShape DEF TypeOK, LooperType
<1>3. Shifts(0, {StopServersTask})
  BY <1>1, <1>2, ShiftsNone, ShiftsAppend
<1> QED
  BY <1>1, <1>3 DEF Disconnects

-----------------------------------------------------------------------------
(* The invariant of a calm application.                                    *)

Null(o) == \A k \in Kinds : conn[o][k] = NoConn
Restless(t) == pc[t] \in {"copy", "drop"}
Resting == \A t \in Threads : ~Restless(t)

\* Nothing has happened to the object yet.
Blank(o) == /\ state[o] = "IDLE" /\ Null(o) /\ slots[o] = NoSlot /\ ~Waits(o)
            /\ \A b \in bindings : b.conn[1] # o

\* The objects made so far, and those that are not made or not copied to.
Made  == {o \in Obj : o[2] <= gen}
Fresh == {o \in Obj : o \notin Made \/ \E t \in Threads : pc[t] = "copy" /\ o \in todo[t]}

TurnInv  == ~(Busy("main") /\ Busy("io"))
MadeInv  == instances \subseteq Made /\ \A t \in Threads : Restless(t) => loaded[t] \subseteq Made
FreshInv == \A o \in Fresh : Blank(o) /\ o \notin instances
CopyInv  == \A t \in Threads : /\ Restless(t) => IdsOf(loaded[t]) = rows
                               /\ pc[t] = "copy" => todo[t] \subseteq loaded[t]

\* Who holds a slot: published profiles; during the first loop of a reload, the
\* objects copied to and the published ones not yet copied; during the second,
\* the read ones and the deleted ones still to stop.
PlaceInv ==
    /\ Resting => Held \subseteq instances
    /\ \A t \in Threads :
        /\ pc[t] = "copy" => \A o \in Held :
              \/ o \in loaded[t] \ todo[t]
              \/ o \in instances /\ IdOf(o) \notin IdsOf(loaded[t] \ todo[t])
        /\ pc[t] = "drop" =>
              /\ Held \subseteq loaded[t] \cup todo[t]
              /\ todo[t] \subseteq Held \cap instances
              /\ \A o \in todo[t] : IdOf(o) \notin rows
HeldInv  == \A o \in Held : state[o] # "IDLE"
StartInv == \A t \in Threads : pc[t] \in {"slot", "put"} =>
    /\ cur[t] \in instances /\ slots[cur[t]] = NoSlot
    /\ state[cur[t]] = "STARTING" /\ ~Waits(cur[t])

CoreInv == TurnInv /\ MadeInv /\ FreshInv /\ CopyInv /\ PlaceInv /\ HeldInv /\ StartInv

\* What the steps outside the critical sections do to a slot and to a state.
LEMMA RoamsRelease ==
    ASSUME TypeOK, Roams, NEW o \in Obj
    PROVE  /\ slots'[o] = slots[o] \/ slots'[o] = NoSlot
           /\ state'[o] = "IDLE" => state[o] = "IDLE" \/ slots'[o] = NoSlot
<1> USE DEF TypeOK, ObjType, RegistryType
<1>1. CASE Bystands
  BY <1>1 DEF Bystands, sessionVars
<1>2. CASE Clears
  BY <1>2 DEF Clears
<1>3. CASE \E p \in Obj : Stops(p)
  BY <1>3 DEF Stops
<1>4. CASE RunBind
  BY <1>4, BindShape DEF Binds
<1>5. CASE RunUnbind
  <2>1. PICK p \in Obj : Unbinds(p)
    BY <1>5, UnbindShape
  <2> QED
    BY <2>1 DEF Unbinds, Released
<1>6. ASSUME NEW b \in bindings, onServiceConnected(b)
      PROVE  /\ slots'[o] = slots[o] \/ slots'[o] = NoSlot
             /\ state'[o] = "IDLE" => state[o] = "IDLE" \/ slots'[o] = NoSlot
  BY <1>6, ConnectShape DEF Connects
<1>7. ASSUME NEW b \in bindings, onServiceDisconnected(b)
      PROVE  /\ slots'[o] = slots[o] \/ slots'[o] = NoSlot
             /\ state'[o] = "IDLE" => state[o] = "IDLE" \/ slots'[o] = NoSlot
  <2>1. Disconnects(b) /\ b.conn[1] \in Obj
    BY <1>7, DisconnectShape, Phased
  <2> QED
    BY <2>1 DEF Disconnects, Released
<1> QED
  BY <1>1, <1>2, <1>3, <1>4, <1>5, <1>6, <1>7 DEF Roams

\* No task of the object is posted, so none waits that did not before.
LEMMA WaitsShift ==
    ASSUME TypeOK, NEW d, NEW News, Shifts(d, News), NEW o \in Obj,
           \A x \in News : x \in ServerTask \/ \E p \in Obj \ {o} : x = BindTask(p) \/ x = UnbindTask(p)
    PROVE  Waits(o)' => Waits(o)
<1>1. BindTask(o) \notin News /\ UnbindTask(o) \notin News
  BY TaskKinds
<1> QED
  BY <1>1, Shifted DEF Waits

\* An object nothing has happened to stays so outside the critical sections.
LEMMA RoamsKeepBlank ==
    ASSUME TypeOK, Roams, calm', NEW o \in Obj, o \notin instances, Blank(o)
    PROVE  Blank(o)'
<1> USE DEF Blank
<1>1. ASSUME UNCHANGED sessionVars, NEW d \in {0, 1}, Shifts(d, ServerTask),
             slots'[o] = NoSlot
      PROVE  Blank(o)'
  <2>1. ~Waits(o)'
    BY <1>1, WaitsShift
  <2> QED
    BY <1>1, <2>1 DEF sessionVars, Null
<1>2. CASE Bystands
  BY <1>1, <1>2 DEF Bystands
<1>3. CASE Clears
  BY <1>1, <1>3 DEF Clears
<1>4. ASSUME NEW p \in Obj, Stops(p)
      PROVE  Blank(o)'
  <2>1. p # o
    BY <1>4 DEF Stops
  <2>2. queue \in Seq(Task) /\ UnbindTask(p) \in Task /\ queue' = Append(queue, UnbindTask(p))
    BY <1>4, TaskShape DEF Stops, TypeOK, LooperType
  <2>3. Shifts(0, {UnbindTask(p)})
    BY <2>2, ShiftsAppend
  <2>4. ~Waits(o)'
    BY <2>1, <2>3, WaitsShift
  <2> QED
    BY <1>4, <2>1, <2>4 DEF Stops, Null, TypeOK, ObjType
<1>5. ASSUME NEW p \in Obj, NEW c \in Conn, Binds(p, c)
      PROVE  Blank(o)'
  <2>1. p # o
    <3>1. 1 \in 1 .. Len(queue)
      BY <1>5, EmptySeq DEF Binds, TypeOK, LooperType
    <3> QED
      BY <1>5, <3>1 DEF Binds, Waits, Posted
  <2>2. ~Waits(o)'
    BY <1>5, WaitsShift DEF Binds
  <2>3. \A b \in NewBindings(p, c) : b.conn[1] = p
    BY <1>5 DEF Binds, NewBindings
  <2> QED
    BY <1>5, <2>1, <2>2, <2>3 DEF Binds, Null, TypeOK, ObjType
<1>6. ASSUME NEW p \in Obj, Unbinds(p)
      PROVE  Blank(o)'
  <2>1. p # o
    <3>1. 1 \in 1 .. Len(queue)
      BY <1>6, EmptySeq DEF Unbinds, TypeOK, LooperType
    <3> QED
      BY <1>6, <3>1 DEF Unbinds, Waits, Posted
  <2>2. ~Waits(o)'
    BY <1>6, WaitsShift, TaskKinds DEF Unbinds
  <2>3. bindings' \subseteq bindings
    BY <1>6 DEF Unbinds, Unbind, Kept
  <2> QED
    BY <1>6, <2>1, <2>2, <2>3 DEF Unbinds, Released, Null, TypeOK, ObjType, RegistryType
<1>7. ASSUME NEW b \in bindings, Connects(b)
      PROVE  Blank(o)'
  <2>1. ~Waits(o)'
    BY <1>7, WaitsShift, TaskKinds DEF Connects
  <2>2. \A x \in bindings' : x.conn[1] # o
    <3>1. [b EXCEPT !.phase = "up"].conn[1] # o
      BY Phased
    <3> QED
      BY <1>7, <3>1 DEF Connects
  <2> QED
    BY <1>7, <2>1, <2>2 DEF Connects, Null, TypeOK, ObjType
<1>8. ASSUME NEW b \in bindings, Disconnects(b)
      PROVE  Blank(o)'
  <2>1. ~Waits(o)'
    BY <1>8, WaitsShift, TaskKinds DEF Disconnects
  <2>2. \A x \in bindings' : x.conn[1] # o
    <3>1. [b EXCEPT !.phase = "wait"].conn[1] # o
      BY Phased
    <3> QED
      BY <1>8, <3>1 DEF Disconnects
  <2>3. b.conn[1] # o
    OBVIOUS
  <2> QED
    BY <1>8, <2>1, <2>2, <2>3 DEF Disconnects, Released, Null, TypeOK, ObjType, RegistryType
<1> QED
  BY <1>2, <1>3, <1>4, <1>5, <1>6, <1>7, <1>8, BindShape, UnbindShape, ConnectShape,
     DisconnectShape DEF Roams

\* The steps outside the critical sections keep the invariant.
LEMMA CoreRoams ==
    ASSUME TypeOK, CoreInv, Roams, calm'
    PROVE  CoreInv'
<1> USE DEF CoreInv
<1>1. /\ calm /\ UNCHANGED <<instances, gen>>
      /\ \A t \in Threads : ~Busy(t) /\ pc'[t] \notin {"copy", "drop", "slot", "put"}
  BY DEF Roams, Loose
<1>2. Resting
  BY <1>1 DEF Resting, Restless, Busy
<1>3. /\ Held' \subseteq Held
      /\ \A o \in Held' : state'[o] # "IDLE"
  BY RoamsRelease DEF Held, HeldInv
<1>4. TurnInv' /\ MadeInv' /\ CopyInv' /\ StartInv'
  BY <1>1 DEF TurnInv, MadeInv, CopyInv, StartInv, Restless, Busy, Threads, Made
<1>5. PlaceInv' /\ HeldInv'
  BY <1>1, <1>2, <1>3 DEF PlaceInv, HeldInv
<1>6. FreshInv'
  <2>1. Fresh' \subseteq Fresh
    BY <1>1 DEF Fresh, Made
  <2> QED
    BY <1>1, <2>1, RoamsKeepBlank DEF FreshInv, Fresh
<1> QED
  BY <1>4, <1>5, <1>6

\* The step of one thread in a calm application.
LEMMA Alone ==
    ASSUME TypeOK, NEW t \in Threads, calm', \E ok : Note(t, ok)
    PROVE  calm /\ \A u \in Threads : u # t => ~Busy(u) /\ u = Other(t)
BY DEF Note, Threads, Other

\* A step that leaves an object keeps it blank.
LEMMA BlankSame ==
    ASSUME NEW o, UNCHANGED <<state, conn, bindings>>, slots'[o] = slots[o],
           Waits(o)' => Waits(o), Blank(o)
    PROVE  Blank(o)'
BY DEF Blank, Null

\* start() up to the choice of a slot keeps it,
LEMMA CoreBegins ==
    ASSUME TypeOK, CoreInv, NEW t \in Threads, NEW o \in Obj, Begins(t, o), calm'
    PROVE  CoreInv'
<1> USE DEF CoreInv
<1>1. /\ UNCHANGED <<instances, gen, slots, conn, bindings, queue>> /\ \A u \in Threads : ~Busy(u)
      /\ state[o] = "IDLE" /\ o \in instances /\ ~Awaited(o)
      /\ state' = [state EXCEPT ![o] = "STARTING"]
      /\ pc' = [pc EXCEPT ![t] = "slot"] /\ cur' = [cur EXCEPT ![t] = o]
  BY DEF Begins
<1>2. \A u \in Threads : /\ pc'[u] = IF u = t THEN "slot" ELSE pc[u]
                         /\ pc[u] \notin {"copy", "drop", "slot", "put"}
                         /\ cur'[u] = IF u = t THEN o ELSE cur[u]
  BY <1>1 DEF TypeOK, ThreadType, Busy
<1>3. Resting /\ Resting' /\ Held' = Held
  BY <1>1, <1>2 DEF Resting, Restless, Held
<1>4. TurnInv' /\ MadeInv' /\ CopyInv'
  BY <1>1, <1>2 DEF TurnInv, MadeInv, CopyInv, Restless, Busy, Threads, Made
<1>5. PlaceInv' /\ HeldInv'
  BY <1>1, <1>2, <1>3 DEF PlaceInv, HeldInv, TypeOK, ObjType, Held
<1>6. StartInv'
  <2>1. slots[o] = NoSlot
    BY <1>1 DEF HeldInv, Held
  <2>2. ~Waits(o) /\ (Waits(o)' => Waits(o))
    BY <1>1, AwaitedWaits DEF Waits, Posted
  <2> QED
    BY <1>1, <1>2, <2>1, <2>2 DEF StartInv, TypeOK, ObjType
<1>7. FreshInv'
  <2>1. Fresh' \subseteq Fresh
    BY <1>1, <1>2 DEF Fresh, Made
  <2>2. ASSUME NEW p \in Fresh PROVE Blank(p)'
    <3>1. p # o /\ p \in Obj /\ Blank(p)
      BY <1>1 DEF FreshInv, Fresh
    <3>2. Waits(p)' => Waits(p)
      BY <1>1 DEF Waits, Posted
    <3> QED
      BY <1>1, <3>1, <3>2 DEF Blank, Null, TypeOK, ObjType
  <2> QED
    BY <1>1, <2>1, <2>2 DEF FreshInv
<1> QED
  BY <1>4, <1>5, <1>6, <1>7

\* ... the choice of a slot,
LEMMA CorePickSlot ==
    ASSUME TypeOK, CoreInv, NEW t \in Threads, PickSlot(t), calm'
    PROVE  CoreInv'
<1> USE DEF CoreInv
<1>1. UNCHANGED <<state, conn, slots, bindings, queue, instances, gen, cur, todo, loaded, rows>>
  BY DEF PickSlot, regVars, dbVars, sysVars, cntVars
<1>2. /\ pc[t] = "slot" /\ pc'[t] \in {"put", "crashed"}
      /\ \A u \in Threads \ {t} : pc'[u] = pc[u]
  BY DEF PickSlot, TypeOK, ThreadType
<1>3. \A u \in Threads : u # t => ~Busy(u)
  BY Alone DEF PickSlot
<1>4. TurnInv' /\ MadeInv' /\ CopyInv' /\ StartInv' /\ Held' = Held /\ Resting
  <2>1. \A o \in Obj : Waits(o)' => Waits(o)
    BY <1>1 DEF Waits, Posted
  <2> QED
    BY <1>1, <1>2, <1>3, <2>1 DEF TurnInv, MadeInv, CopyInv, Restless, Busy, Threads, Made,
       Resting, StartInv, Held, StartsAnObject
<1>5. PlaceInv' /\ HeldInv'
  BY <1>1, <1>2, <1>3, <1>4 DEF PlaceInv, HeldInv, Busy
<1>6. FreshInv'
  <2>1. Fresh' \subseteq Fresh
    BY <1>1, <1>2 DEF Fresh, Made
  <2>2. ASSUME NEW p \in Fresh PROVE Blank(p)'
    <3>1. Waits(p)' => Waits(p)
      BY <1>1 DEF Waits, Posted
    <3> QED
      BY <1>1, <3>1, BlankSame DEF FreshInv
  <2> QED
    BY <1>1, <2>1, <2>2 DEF FreshInv
<1> QED
  BY <1>4, <1>5, <1>6

\* ... the entry in `slots`,
LEMMA CorePutSlot ==
    ASSUME TypeOK, CoreInv, NEW t \in Threads, PutSlot(t), calm'
    PROVE  CoreInv'
<1> USE DEF CoreInv
<1> DEFINE c == cur[t]
<1>1. /\ UNCHANGED <<state, conn, bindings, instances, gen, todo, loaded, rows>>
      /\ slots' = [slots EXCEPT ![c] = slot[c]] /\ queue' = Append(queue, BindTask(c))
  BY DEF PutSlot, objVars, dbVars, sysVars, cntVars
<1>2. /\ pc[t] = "put" /\ pc'[t] \in {"idle", "auto"}
      /\ \A u \in Threads \ {t} : pc'[u] = pc[u] /\ cur'[u] = cur[u]
  BY DEF PutSlot, TypeOK, ThreadType
<1>3. \A u \in Threads : u # t => ~Busy(u)
  BY Alone DEF PutSlot
<1>4. c \in instances /\ c \in Obj /\ state[c] = "STARTING"
  BY <1>2 DEF StartInv, TypeOK, RegistryType
<1>5. /\ TurnInv' /\ MadeInv' /\ CopyInv' /\ StartInv' /\ Resting
  BY <1>1, <1>2, <1>3 DEF TurnInv, MadeInv, CopyInv, Restless, Busy, Threads, Made,
       Resting, StartInv
<1>6. PlaceInv' /\ HeldInv'
  <2>1. Held' \subseteq Held \cup {c}
    BY <1>1, <1>4 DEF Held, TypeOK, RegistryType
  <2> QED
    BY <1>1, <1>2, <1>3, <1>4, <1>5, <2>1 DEF PlaceInv, HeldInv, Busy
<1>7. FreshInv'
  <2>1. Fresh' \subseteq Fresh
    BY <1>1, <1>2 DEF Fresh, Made
  <2>2. ASSUME NEW p \in Fresh PROVE Blank(p)'
    <3>1. p # c /\ p \in Obj /\ Blank(p)
      BY <1>4 DEF FreshInv, Fresh
    <3>2. Shifts(0, {BindTask(c)})
      BY <1>1, <1>4, TaskShape, ShiftsAppend DEF TypeOK, LooperType
    <3>3. Waits(p)' => Waits(p)
      BY <1>4, <3>1, <3>2, WaitsShift
    <3>4. slots'[p] = slots[p]
      BY <1>1, <3>1 DEF TypeOK, RegistryType
    <3> QED
      BY <1>1, <3>1, <3>3, <3>4, BlankSame
  <2> QED
    BY <1>1, <2>1, <2>2 DEF FreshInv
<1> QED
  BY <1>5, <1>6, <1>7

\* A list read from the table: new objects, one for each row.
LEMMA NewList ==
    ASSUME TypeOK, OfRows(rows, gen + 1) \in SUBSET Obj, gen' = gen + 1
    PROVE  /\ IdsOf(OfRows(rows, gen + 1)) = rows
           /\ \A o \in OfRows(rows, gen + 1) : o \in Made' /\ o \notin Made
           /\ Made \subseteq Made'
<1>1. gen \in Nat /\ \A o \in Obj : o[2] \in Nat
  BY BoundsAssumption DEF TypeOK, CountType, Obj, Gens
<1>2. \A o \in OfRows(rows, gen + 1) : o[2] = gen + 1
  BY DEF OfRows
<1> QED
  BY <1>1, <1>2, NewObjects DEF Made

\* ... and the reading of the table.
LEMMA CoreReadRows ==
    ASSUME TypeOK, TypeOK', CoreInv, NEW t \in Threads, ReadRows(t), calm'
    PROVE  CoreInv'
<1> USE DEF CoreInv
<1> DEFINE new == OfRows(rows, gen + 1)
<1>1. /\ UNCHANGED <<state, conn, slots, bindings, queue, instances, cur, rows>> /\ gen' = gen + 1
  BY DEF ReadRows, regVars, dbVars, sysVars
<1>2. /\ pc[t] = "read" /\ pc'[t] = "copy" /\ loaded'[t] = new /\ todo'[t] = new
      /\ \A u \in Threads \ {t} : pc'[u] = pc[u] /\ loaded'[u] = loaded[u] /\ todo'[u] = todo[u]
  BY DEF ReadRows, TypeOK, ThreadType, OfRows
<1>3. \A u \in Threads : u # t => ~Busy(u)
  BY Alone DEF ReadRows
<1>4. /\ IdsOf(new) = rows /\ \A o \in new : o \in Made' /\ o \notin Made
      /\ Made \subseteq Made'
  <2>1. new \in SUBSET Obj
    BY <1>2 DEF TypeOK, ThreadType
  <2> QED
    BY <1>1, <2>1, NewList
<1> HIDE DEF new
<1>5. TurnInv' /\ MadeInv' /\ CopyInv' /\ StartInv' /\ Resting /\ Held' = Held
  <2>1. TurnInv' /\ StartInv' /\ Resting
    BY <1>1, <1>2, <1>3 DEF TurnInv, Restless, Busy, Threads, Resting, StartInv
  <2>2. MadeInv' /\ CopyInv'
    BY <1>1, <1>2, <1>3, <1>4 DEF MadeInv, CopyInv, Restless, Busy
  <2> QED
    BY <1>1, <2>1, <2>2 DEF Held
<1>6. PlaceInv' /\ HeldInv'
  <2>1. loaded'[t] \ todo'[t] = {} /\ IdsOf({}) = {}
    BY <1>2 DEF IdsOf
  <2>2. Held \subseteq instances
    BY <1>5 DEF PlaceInv
  <2>3. Restless(t)'
    BY <1>2 DEF Restless
  <2> QED
    BY <1>1, <1>2, <1>3, <1>5, <2>1, <2>2, <2>3 DEF PlaceInv, HeldInv, Busy, Resting
<1>7. FreshInv'
  <2>1. Fresh' \subseteq Fresh
    BY <1>1, <1>2, <1>4 DEF Fresh
  <2>2. ASSUME NEW p \in Fresh PROVE Blank(p)'
    <3>1. Waits(p)' => Waits(p)
      BY <1>1 DEF Waits, Posted
    <3> QED
      BY <1>1, <3>1, BlankSame DEF FreshInv
  <2> QED
    BY <1>1, <2>1, <2>2 DEF FreshInv
<1> QED
  BY <1>5, <1>6, <1>7

\* The first loop of a reload: the new object is as it was, or takes over the
\* fields and the slot of the published one.
Copies(t, o, was) ==
    /\ o \in todo[t] /\ was \in getInstance(IdOf(o)) /\ Note(t, Settled(was))
    /\ state' = [state EXCEPT ![o] = state[was]]
    /\ slot' = [slot EXCEPT ![o] = slot[was]]
    /\ conn' = [conn EXCEPT ![o] = conn[was]]
    /\ slots' = TakeOver(o, was)

\* What one turn of the first loop does.
LEMMA CopyShape ==
    ASSUME TypeOK, NEW t \in Threads, CopyOne(t)
    PROVE  /\ pc[t] = "copy"
           /\ UNCHANGED <<instances, queue, bindings, serving, pc, cur, loaded, rows, gen, deaths>>
           /\ \E o \in todo[t] : /\ o \in Obj /\ todo' = [todo EXCEPT ![t] = @ \ {o}]
                                 /\ \/ /\ getInstance(IdOf(o)) = {}
                                       /\ UNCHANGED <<state, slot, conn, slots>>
                                    \/ \E was \in instances : Copies(t, o, was)
<1>1. PICK o \in todo[t] : /\ todo' = [todo EXCEPT ![t] = @ \ {o}]
                           /\ \/ /\ getInstance(IdOf(o)) = {}
                                 /\ UNCHANGED <<state, slot, conn, slots>>
                              \/ \E was \in getInstance(IdOf(o)) : Copies(t, o, was)
  BY DEF CopyOne, Copies, TakenConn
<1>2. getInstance(IdOf(o)) \subseteq instances /\ o \in Obj
  BY DEF getInstance, TypeOK, ThreadType
<1>3. pc[t] = "copy"
      /\ UNCHANGED <<instances, queue, bindings, serving, pc, cur, loaded, rows, gen, deaths>>
  BY DEF CopyOne, sysVars, dbVars, cntVars
<1> QED
  BY <1>1, <1>2, <1>3

\* The first loop of a reload keeps the invariant,
LEMMA CoreCopyOne ==
    ASSUME TypeOK, TableInv, CoreInv, NEW t \in Threads, CopyOne(t), calm'
    PROVE  CoreInv'
<1> USE DEF CoreInv
<1>1. /\ pc[t] = "copy"
      /\ UNCHANGED <<instances, queue, bindings, pc, cur, loaded, rows, gen>>
  BY CopyShape
<1>2. PICK o \in todo[t] : /\ o \in Obj /\ todo' = [todo EXCEPT ![t] = @ \ {o}]
                           /\ \/ /\ getInstance(IdOf(o)) = {}
                                 /\ UNCHANGED <<state, slot, conn, slots>>
                              \/ \E was \in instances : Copies(t, o, was)
  BY CopyShape
<1>3. \A u \in Threads : u # t => ~Busy(u)
  BY Alone DEF CopyOne
<1>4. /\ todo'[t] = todo[t] \ {o} /\ \A u \in Threads \ {t} : todo'[u] = todo[u]
  BY <1>2 DEF TypeOK, ThreadType
<1>5. o \in Fresh /\ Blank(o) /\ o \notin instances /\ o \in loaded[t]
  BY <1>1 DEF FreshInv, Fresh, CopyInv, TypeOK, ThreadType
<1>6. TurnInv' /\ MadeInv' /\ CopyInv' /\ StartInv' /\ ~Resting'
  BY <1>1, <1>3, <1>4 DEF TurnInv, MadeInv, CopyInv, Restless, Busy, Threads, Made,
     Resting, StartInv
<1>7. Fresh' \subseteq Fresh \ {o}
  <2>1. o \in Made
    BY <1>1, <1>5 DEF MadeInv, Restless
  <2> QED
    BY <1>1, <1>3, <1>4, <2>1 DEF Fresh, Made, Busy
<1>8. \A p \in Obj : Waits(p)' => Waits(p)
  BY <1>1 DEF Waits, Posted
<1>9. \A h \in Held : h \in loaded[t] \ todo[t]
          \/ (h \in instances /\ IdOf(h) \notin IdsOf(loaded[t] \ todo[t]))
  BY <1>1 DEF PlaceInv
<1>10. IdsOf(loaded[t] \ todo'[t]) = IdsOf(loaded[t] \ todo[t]) \cup {IdOf(o)}
  BY <1>4, <1>5 DEF IdsOf
<1> DEFINE
  Goal == /\ \A h \in Held' :
               /\ state'[h] # "IDLE"
               /\ h = o \/ (h \in Held /\ (h \in instances => IdOf(h) # IdOf(o)))
          /\ \A p \in Fresh \ {o} : Blank(p)'
<1>11. ASSUME Goal PROVE CoreInv'
  <2>1. HeldInv'
    BY <1>11 DEF HeldInv
  <2>2. FreshInv'
    BY <1>1, <1>7, <1>11 DEF FreshInv
  <2>3. \A h \in Held' : h \in loaded[t] \ todo'[t]
          \/ (h \in instances /\ IdOf(h) \notin IdsOf(loaded[t] \ todo'[t]))
    BY <1>4, <1>5, <1>9, <1>10, <1>11
  <2>4. PlaceInv'
    BY <1>1, <1>3, <1>6, <2>3 DEF PlaceInv, Busy
  <2> QED
    BY <1>6, <2>1, <2>2, <2>4
<1>12. CASE getInstance(IdOf(o)) = {} /\ UNCHANGED <<state, slot, conn, slots>>
  <2> SUFFICES Goal
    BY <1>11
  <2>1. Held' = Held /\ \A h \in instances : IdOf(h) # IdOf(o)
    BY <1>12 DEF Held, getInstance
  <2>2. \A p \in Fresh : Blank(p)'
    BY <1>1, <1>8, <1>12, BlankSame DEF FreshInv, Fresh
  <2> QED
    BY <1>12, <2>1, <2>2 DEF HeldInv
<1>13. ASSUME NEW was \in instances, Copies(t, o, was)
       PROVE  Goal
  <2>1. was \in Obj /\ was # o /\ IdOf(was) = IdOf(o)
    BY <1>5, <1>13 DEF Copies, getInstance, TypeOK, RegistryType
  <2>2. \A p \in Obj \ {o} : /\ state'[p] = state[p] /\ conn'[p] = conn[p]
                             /\ slots'[p] = IF p = was THEN NoSlot ELSE slots[p]
    BY <1>13, <2>1 DEF Copies, TakeOver, TypeOK, ObjType, RegistryType
  <2>3. state'[o] = state[was] /\ (state[was] = "IDLE" => slots'[o] = NoSlot)
    BY <1>2, <1>5, <1>13, <2>1 DEF Copies, TakeOver, TypeOK, ObjType, RegistryType, Blank
  <2>4. \A h \in instances : IdOf(h) = IdOf(o) => h = was
    BY <2>1 DEF TableInv, Fits
  <2>5. ASSUME NEW h \in Held'
        PROVE  /\ state'[h] # "IDLE"
               /\ h = o \/ (h \in Held /\ (h \in instances => IdOf(h) # IdOf(o)))
    BY <2>2, <2>3, <2>4 DEF Held, HeldInv
  <2>6. ASSUME NEW p \in Fresh \ {o}
        PROVE  Blank(p)'
    <3>1. Blank(p) /\ p \in Obj
      BY DEF FreshInv, Fresh
    <3>2. slots'[p] = slots[p]
      BY <2>2, <3>1 DEF Blank
    <3> QED
      BY <1>1, <1>8, <2>2, <3>1, <3>2 DEF Blank, Null
  <2> QED
    BY <2>5, <2>6
<1> QED
  BY <1>2, <1>11, <1>12, <1>13

\* ... the listing of the deleted profiles,
LEMMA CoreListGone ==
    ASSUME TypeOK, CoreInv, NEW t \in Threads, ListGone(t), calm'
    PROVE  CoreInv'
<1> USE DEF CoreInv
<1>1. UNCHANGED <<state, conn, slots, bindings, queue, instances, gen, cur, loaded, rows>>
  BY DEF ListGone, objVars, regVars, dbVars, sysVars, cntVars
<1>2. /\ pc[t] = "copy" /\ todo[t] = {} /\ pc'[t] = "drop"
      /\ todo'[t] = {o \in Held : IdOf(o) \notin IdsOf(loaded[t])}
      /\ \A u \in Threads \ {t} : pc'[u] = pc[u] /\ todo'[u] = todo[u]
  BY DEF ListGone, TypeOK, ThreadType
<1>3. \A u \in Threads : u # t => ~Busy(u)
  BY Alone DEF ListGone
<1>4. TurnInv' /\ MadeInv' /\ CopyInv' /\ StartInv' /\ Held' = Held /\ HeldInv' /\ ~Resting'
  BY <1>1, <1>2, <1>3 DEF TurnInv, MadeInv, CopyInv, Restless, Busy, Threads, Made,
       Resting, StartInv, Held, HeldInv
<1>5. PlaceInv'
  <2>1. \A h \in Held : h \in loaded[t] \/ (h \in instances /\ IdOf(h) \notin IdsOf(loaded[t]))
    <3>1. loaded[t] \ todo[t] = loaded[t]
      BY <1>2
    <3> QED
      BY <1>2, <3>1 DEF PlaceInv
  <2>2. IdsOf(loaded[t]) = rows /\ \A h \in loaded[t] : IdOf(h) \in IdsOf(loaded[t])
    BY <1>2 DEF CopyInv, Restless, IdsOf
  <2> QED
    BY <1>1, <1>2, <1>3, <1>4, <2>1, <2>2 DEF PlaceInv, Busy
<1>6. FreshInv'
  <2>1. Fresh' \subseteq Fresh
    BY <1>1, <1>2 DEF Fresh, Made
  <2>2. ASSUME NEW p \in Fresh PROVE Blank(p)'
    <3>1. Waits(p)' => Waits(p)
      BY <1>1 DEF Waits, Posted
    <3> QED
      BY <1>1, <3>1, BlankSame DEF FreshInv
  <2> QED
    BY <1>1, <2>1, <2>2 DEF FreshInv
<1> QED
  BY <1>4, <1>5, <1>6

\* The second loop: a deleted profile loses its slot and is stopped.
Drops(o) ==
    /\ slots' = [slots EXCEPT ![o] = NoSlot]
    /\ UNCHANGED <<slot, conn, bindings, serving, deaths, instances, gen>>
    /\ \/ /\ Stoppable(o) /\ state' = [state EXCEPT ![o] = "STOPPING"]
          /\ queue' = Append(queue, UnbindTask(o))
       \/ ~Stoppable(o) /\ UNCHANGED <<state, queue>>

\* What one turn of the second loop does.
LEMMA DropShape ==
    ASSUME TypeOK, NEW t \in Threads, DropOne(t)
    PROVE  /\ pc[t] = "drop" /\ UNCHANGED <<pc, cur, loaded, rows>>
           /\ \E o \in todo[t] : /\ o \in Obj /\ todo' = [todo EXCEPT ![t] = @ \ {o}]
                                 /\ Drops(o)
<1>1. PICK o \in todo[t] : /\ todo' = [todo EXCEPT ![t] = @ \ {o}]
                           /\ slots' = [slots EXCEPT ![o] = NoSlot] /\ stop(o)
  BY DEF DropOne
<1>2. o \in Obj
  BY DEF TypeOK, ThreadType
<1>3. /\ pc[t] = "drop" /\ UNCHANGED <<pc, cur, loaded, rows>>
      /\ UNCHANGED <<slot, conn, bindings, serving, deaths, instances, gen>>
  BY DEF DropOne, dbVars, sysVars, cntVars
<1>4. Drops(o)
  BY <1>1, <1>3 DEF Drops, stop, stopping
<1> QED
  BY <1>1, <1>2, <1>3, <1>4

\* ... the second loop,
LEMMA CoreDropOne ==
    ASSUME TypeOK, CoreInv, NEW t \in Threads, DropOne(t), calm'
    PROVE  CoreInv'
<1> USE DEF CoreInv
<1>1. pc[t] = "drop" /\ UNCHANGED <<pc, cur, loaded, rows>>
  BY DropShape
<1>2. PICK o \in todo[t] : o \in Obj /\ todo' = [todo EXCEPT ![t] = @ \ {o}] /\ Drops(o)
  BY DropShape
<1>3. \A u \in Threads : u # t => ~Busy(u)
  BY Alone DEF DropOne
<1>4. /\ todo'[t] = todo[t] \ {o} /\ \A u \in Threads \ {t} : todo'[u] = todo[u]
      /\ UNCHANGED <<conn, bindings, instances, gen>>
  BY <1>2 DEF TypeOK, ThreadType, Drops
<1>5. \A p \in Obj : /\ slots'[p] = IF p = o THEN NoSlot ELSE slots[p]
                     /\ state'[p] = "IDLE" <=> state[p] = "IDLE"
  <2>1. \A p \in Obj : slots'[p] = IF p = o THEN NoSlot ELSE slots[p]
    BY <1>2 DEF Drops, TypeOK, RegistryType
  <2>2. \A p \in Obj : state'[p] = "IDLE" <=> state[p] = "IDLE"
    BY <1>2 DEF Drops, TypeOK, ObjType, Stoppable
  <2> QED
    BY <2>1, <2>2
<1>6. Held' = Held \ {o}
  BY <1>5 DEF Held
<1>7. TurnInv' /\ MadeInv' /\ CopyInv' /\ StartInv' /\ HeldInv' /\ ~Resting'
  BY <1>1, <1>3, <1>4, <1>5, <1>6 DEF TurnInv, MadeInv, CopyInv, Restless, Busy, Threads, Made,
       Resting, StartInv, Held, HeldInv
<1>8. PlaceInv'
  BY <1>1, <1>3, <1>4, <1>6, <1>7 DEF PlaceInv, Busy
<1>9. FreshInv'
  <2>1. Fresh' \subseteq Fresh
    BY <1>1, <1>3, <1>4 DEF Fresh, Made, Busy
  <2>2. o \in Held
    BY <1>1 DEF PlaceInv
  <2>3. ASSUME NEW p \in Fresh PROVE Blank(p)'
    <3>1. p # o /\ p \in Obj /\ Blank(p)
      BY <2>2 DEF FreshInv, Fresh, Blank, Held
    <3>2. Waits(p)' => Waits(p)
      <4>1. CASE UNCHANGED queue
        BY <4>1 DEF Waits, Posted
      <4>2. CASE queue' = Append(queue, UnbindTask(o))
        <5>1. Shifts(0, {UnbindTask(o)})
          BY <1>2, <4>2, TaskShape, ShiftsAppend DEF TypeOK, LooperType
        <5> QED
          BY <1>2, <3>1, <5>1, WaitsShift
      <4> QED
        BY <1>2, <4>1, <4>2 DEF Drops
    <3> QED
      BY <1>4, <1>5, <3>1, <3>2 DEF Blank, Null
  <2> QED
    BY <1>4, <2>1, <2>3 DEF FreshInv
<1> QED
  BY <1>7, <1>8, <1>9

LEMMA CorePublish ==
    ASSUME TypeOK, CoreInv, NEW t \in Threads, Publish(t), calm'
    PROVE  CoreInv'
<1> USE DEF CoreInv
<1>1. /\ UNCHANGED <<state, conn, slots, bindings, gen, cur, loaded, rows>>
      /\ instances' = loaded[t] /\ queue' = queue \o <<StopServersTask, RefreshTask>>
  BY DEF Publish, objVars, dbVars, sysVars, cntVars
<1>2. /\ pc[t] = "drop" /\ todo[t] = {} /\ pc'[t] = "auto"
      /\ \A u \in Threads \ {t} : pc'[u] = pc[u] /\ todo'[u] = todo[u]
  BY DEF Publish, TypeOK, ThreadType
<1>3. \A u \in Threads : u # t => ~Busy(u)
  BY Alone DEF Publish
<1>4. loaded[t] \subseteq Made
  BY <1>2 DEF MadeInv, Restless
<1>5. TurnInv' /\ MadeInv' /\ CopyInv' /\ StartInv'
  BY <1>1, <1>2, <1>3, <1>4 DEF TurnInv, MadeInv, CopyInv, Restless, Busy, Threads, Made, StartInv
<1>6. PlaceInv' /\ HeldInv'
  <2>1. Held' = Held /\ Held \subseteq loaded[t]
    BY <1>1, <1>2 DEF Held, PlaceInv
  <2> QED
    BY <1>1, <1>2, <1>3, <2>1 DEF PlaceInv, HeldInv, Busy, Resting, Restless
<1>7. FreshInv'
  <2>1. Fresh' \subseteq Fresh /\ \A p \in Fresh' : p \notin Made
    BY <1>1, <1>2, <1>3 DEF Fresh, Made, Busy
  <2>2. ASSUME NEW p \in Fresh PROVE Blank(p)'
    <3>1. Shifts(0, {StopServersTask, RefreshTask})
      BY <1>1, TaskShape, ShiftsTwo DEF TypeOK, LooperType
    <3>2. Waits(p)' => Waits(p)
      BY <3>1, WaitsShift, TaskKinds DEF Fresh
    <3> QED
      BY <1>1, <3>2, BlankSame DEF FreshInv
  <2> QED
    BY <1>1, <1>4, <2>1, <2>2 DEF FreshInv
<1> QED
  BY <1>5, <1>6, <1>7

\* ... the screen's first reading of the table,
LEMMA CoreStartUi ==
    ASSUME TypeOK, TypeOK', CoreInv, StartUi, calm'
    PROVE  CoreInv'
<1> USE DEF CoreInv
<1> DEFINE new == OfRows(rows, gen + 1)
<1>1. /\ UNCHANGED <<state, conn, slots, bindings, queue, pc, cur, todo, loaded, rows>>
      /\ \/ UNCHANGED <<instances, gen>>
         \/ instances = {} /\ instances' = new /\ gen' = gen + 1
  BY DEF StartUi, thrVars, dbVars, sysVars, OfRows
<1>2. pc["main"] = "idle" /\ ~Busy("io")
  BY DEF StartUi, MainFree, Note, Other
<1>3. \A u \in Threads : ~Busy(u) /\ pc'[u] = pc[u]
  BY <1>1, <1>2 DEF Busy, Threads
<1>4. Made \subseteq Made' /\ instances' \subseteq Made'
      /\ (\A p \in Obj \ Made' : p \notin Made) /\ (instances # instances' => instances' \cap Made = {})
  <2>1. CASE UNCHANGED <<instances, gen>>
    BY <2>1 DEF Made, MadeInv
  <2>2. CASE instances' = new /\ gen' = gen + 1
    <3>1. new \in SUBSET Obj
      BY <2>2 DEF TypeOK, RegistryType
    <3>2. /\ \A o \in new : o \in Made' /\ o \notin Made
          /\ Made \subseteq Made'
      BY <2>2, <3>1, NewList
    <3> QED
      BY <2>2, <3>2
  <2> QED
    BY <1>1, <2>1, <2>2
<1> HIDE DEF new
<1>5. /\ TurnInv' /\ MadeInv' /\ CopyInv' /\ StartInv' /\ HeldInv' /\ Held' = Held
      /\ Held \subseteq instances
  BY <1>1, <1>2, <1>3, <1>4 DEF TurnInv, MadeInv, CopyInv, Restless, Busy, Threads,
       StartInv, HeldInv, Held, PlaceInv, Resting
<1>6. PlaceInv'
  BY <1>1, <1>3, <1>5 DEF PlaceInv, Busy
<1>7. FreshInv'
  <2>1. Fresh' \subseteq Fresh /\ \A p \in Fresh' : p \notin Made'
    BY <1>1, <1>3, <1>4 DEF Fresh, Busy
  <2>2. ASSUME NEW p \in Fresh PROVE Blank(p)'
    <3>1. Waits(p)' => Waits(p)
      BY <1>1 DEF Waits, Posted
    <3> QED
      BY <1>1, <3>1, BlankSame DEF FreshInv
  <2> QED
    BY <1>4, <2>1, <2>2 DEF FreshInv
<1> QED
  BY <1>5, <1>6, <1>7

\* ... and the death of a service process.
LEMMA CoreDie ==
    ASSUME TypeOK, CoreInv, NEW k \in Kinds, NEW s \in Slots, Die(k, s)
    PROVE  CoreInv'
<1> USE DEF CoreInv
<1>1. /\ UNCHANGED <<state, conn, slots, queue, instances, gen, pc, cur, todo, loaded, rows>>
      /\ bindings' = {IF b.kind = k /\ b.slot = s /\ b.phase = "up"
                      THEN [b EXCEPT !.phase = "dead"] ELSE b : b \in bindings}
  BY DEF Die, objVars, regVars, thrVars, dbVars, cntVars
<1>2. TurnInv' /\ MadeInv' /\ CopyInv' /\ StartInv' /\ HeldInv' /\ PlaceInv'
  <2>1. \A o \in Obj : Waits(o)' => Waits(o)
    BY <1>1 DEF Waits, Posted
  <2>2. Held' = Held
    BY <1>1 DEF Held
  <2>3. \A t \in Threads : pc[t] \in {"slot", "put"} => cur[t] \in Obj
    BY DEF StartInv, TypeOK, RegistryType
  <2>4. TurnInv' /\ MadeInv' /\ CopyInv'
    BY <1>1 DEF TurnInv, MadeInv, CopyInv, Restless, Busy, Made
  <2>5. StartInv'
    BY <1>1, <2>1, <2>3 DEF StartInv
  <2>6. HeldInv' /\ PlaceInv'
    BY <1>1, <2>2 DEF HeldInv, PlaceInv, Restless, Resting
  <2> QED
    BY <2>4, <2>5, <2>6
<1>3. FreshInv'
  <2>1. Fresh' = Fresh
    BY <1>1 DEF Fresh, Made
  <2>2. ASSUME NEW p \in Fresh PROVE Blank(p)'
    <3>1. Waits(p)' => Waits(p)
      BY <1>1 DEF Waits, Posted
    <3>2. ASSUME NEW x \in bindings' PROVE x.conn[1] # p
      <4>1. PICK b \in bindings : x = b \/ x = [b EXCEPT !.phase = "dead"]
        BY <1>1
      <4>2. [b EXCEPT !.phase = "dead"].conn = b.conn
        BY Phased
      <4> QED
        <5>1. x.conn = b.conn
          BY <4>1, <4>2
        <5>2. b.conn[1] # p
          BY DEF FreshInv, Blank
        <5> QED
          BY <5>1, <5>2
    <3> QED
      BY <1>1, <3>1, <3>2 DEF FreshInv, Blank, Null
  <2> QED
    BY <1>1, <2>1, <2>2 DEF FreshInv
<1> QED
  BY <1>2, <1>3

\* The invariant of calm behaviour, and the invariants it builds on.
CalmInv == SlotsInv /\ TableInv /\ (calm => CoreInv)

\* The application begins calm.
LEMMA InitCalm == Init => CalmInv
<1> SUFFICES ASSUME Init PROVE CalmInv
  OBVIOUS
<1>1. SlotsInv
  BY InitType, InitStartsAnObject DEF SlotsInv, Init, ChosenSlotIsFree, SlotsInjective, Held, Threads
<1>2. Held = {} /\ Resting /\ instances = {} /\ \A t \in Threads : pc[t] \in {"idle", "boot"}
  BY DEF Init, Held, Resting, Restless, Threads
<1>3. TurnInv /\ MadeInv /\ CopyInv /\ PlaceInv /\ HeldInv /\ StartInv
  BY <1>2 DEF TurnInv, MadeInv, CopyInv, PlaceInv, HeldInv, StartInv, Busy, Restless, Threads
<1>4. FreshInv
  BY <1>2 DEF FreshInv, Fresh, Blank, Null, Waits, Posted, Init, NullConn
<1> QED
  BY <1>1, <1>3, <1>4, InitTable DEF CalmInv, CoreInv

\* What is no longer calm never becomes so again.
LEMMA CalmBefore ==
    ASSUME TypeOK, Next, calm'
    PROVE  calm
<1>1. ASSUME NEW t \in Threads, PickSlot(t) PROVE calm
  BY <1>1, Alone DEF PickSlot
<1>2. ASSUME NEW k \in Kinds, NEW s \in Slots, Die(k, s) PROVE calm
  BY <1>2 DEF Die
<1> QED
  BY <1>1, <1>2, StepsTakeTurns DEF TurnOf

\* Every step keeps the invariant of calm behaviour.
LEMMA NextCalm ==
    ASSUME CalmInv, Next
    PROVE  CalmInv'
<1> USE DEF CalmInv, SlotsInv
<1>1. TypeOK' /\ StartsAnObject' /\ ChosenSlotIsFree' /\ SlotsInjective' /\ TableInv'
  BY NextType, NextStartsAnObject, NextChosenSlotIsFree, NextSlotsInjective, NextTable
<1>2. ASSUME calm' PROVE CoreInv'
  <2>1. calm /\ CoreInv
    BY <1>2, CalmBefore
  <2>2. CASE Roams
    BY <1>2, <2>1, <2>2, CoreRoams
  <2>3. ASSUME NEW t \in Threads, NEW o \in Obj, Begins(t, o) PROVE CoreInv'
    BY <1>2, <2>1, <2>3, CoreBegins
  <2>4. ASSUME NEW t \in Threads, PickSlot(t) \/ PutSlot(t) PROVE CoreInv'
    BY <1>2, <2>1, <2>4, CorePickSlot, CorePutSlot
  <2>5. ASSUME NEW t \in Threads, ReadRows(t) \/ CopyOne(t) PROVE CoreInv'
    BY <1>1, <1>2, <2>1, <2>5, CoreReadRows, CoreCopyOne
  <2>6. ASSUME NEW t \in Threads, ListGone(t) \/ DropOne(t) \/ Publish(t) PROVE CoreInv'
    BY <1>2, <2>1, <2>6, CoreListGone, CoreDropOne, CorePublish
  <2>7. CASE StartUi
    BY <1>1, <1>2, <2>1, <2>7, CoreStartUi
  <2>8. ASSUME NEW k \in Kinds, NEW s \in Slots, Die(k, s) PROVE CoreInv'
    BY <2>1, <2>8, CoreDie
  <2> QED
    BY StepShapes, <2>2, <2>3, <2>4, <2>5, <2>6, <2>7, <2>8
<1> QED
  BY <1>1, <1>2

\* So does a step in which nothing changes.
LEMMA CalmStutters ==
    ASSUME CalmInv, UNCHANGED vars
    PROVE  CalmInv'
<1> USE DEF CalmInv, SlotsInv, vars, objVars, regVars, thrVars, dbVars, uiVars, sysVars, cntVars
<1>1. TypeOK' /\ StartsAnObject'
  BY TypeInductive
<1>2. ChosenSlotIsFree' /\ SlotsInjective'
  BY DEF ChosenSlotIsFree, SlotsInjective, Held
<1>3. TableInv'
  BY DEF TableInv, RowsInv, Fits, NewIds, Inserts
<1>4. UNCHANGED <<calm, gen, pc, todo, loaded, cur, instances, rows, state, conn, slots, bindings, queue>>
  OBVIOUS
<1>5. CoreInv => CoreInv'
  <2>1. UNCHANGED Fresh /\ UNCHANGED Made /\ UNCHANGED Held /\ UNCHANGED Resting
    BY <1>4 DEF Fresh, Made, Held, Resting, Restless
  <2>2. \A o : Blank(o) => Blank(o)'
    BY <1>4 DEF Blank, Null, Waits, Posted
  <2>3. \A o : ~Waits(o) => ~Waits(o)'
    BY <1>4 DEF Waits, Posted
  <2>4. FreshInv => FreshInv'
    BY <1>4, <2>1, <2>2 DEF FreshInv
  <2>5. StartInv => StartInv'
    BY <1>4, <2>3 DEF StartInv
  <2>6. (TurnInv => TurnInv') /\ (MadeInv => MadeInv') /\ (CopyInv => CopyInv')
    BY <1>4, <2>1 DEF TurnInv, MadeInv, CopyInv, Restless, Busy
  <2>7. (PlaceInv => PlaceInv') /\ (HeldInv => HeldInv')
    BY <1>4, <2>1 DEF PlaceInv, HeldInv
  <2> QED
    BY <2>4, <2>5, <2>6, <2>7 DEF CoreInv
<1> QED
  BY <1>1, <1>2, <1>3, <1>4, <1>5

\* The invariant of calm behaviour is inductive.
LEMMA CalmInductive == CalmInv /\ [Next]_vars => CalmInv'
BY NextCalm, CalmStutters

-----------------------------------------------------------------------------
\* The profiles that hold a slot leave one for the profile start() works on.
LEMMA RoomForOne ==
    ASSUME CalmInv, calm', NEW t \in Threads, PickSlot(t)
    PROVE  hasFreeSlots
<1> USE DEF CalmInv, SlotsInv
<1>1. calm /\ CoreInv /\ pc[t] = "slot" /\ Resting
  <2>1. calm /\ CoreInv /\ pc[t] = "slot" /\ \A u \in Threads : u # t => ~Busy(u)
    BY Alone DEF PickSlot
  <2> QED
    BY <2>1 DEF Resting, Restless, Busy
<1> DEFINE c == cur[t]
           D == IdsOf(instances)
<1>2. c \in instances /\ c \notin Held /\ Held \subseteq instances
  BY <1>1 DEF CoreInv, StartInv, PlaceInv, Held
<1>3. IsFiniteSet(D) /\ Cardinality(D) <= SLOTS_COUNT /\ IdOf(c) \in D
  <2>1. D \subseteq Ids
    BY DEF IdsOf, IdOf, TypeOK, RegistryType, Obj
  <2> QED
    BY <1>2, <2>1, FiniteAssumption, FS_Subset DEF TableInv, Fits, IdsOf
<1>4. /\ IsFiniteSet(D \ {IdOf(c)}) /\ Cardinality(D \ {IdOf(c)}) = Cardinality(D) - 1
      /\ Cardinality(D) \in Nat
  BY <1>3, FS_RemoveElement, FS_CardinalityType
<1>5. IsFiniteSet(Held) /\ Cardinality(Held) <= Cardinality(D \ {IdOf(c)})
  <2> DEFINE f == [o \in Held |-> IdOf(o)]
             E == D \ {IdOf(c)}
  <2>1. ASSUME NEW o \in Held PROVE IdOf(o) \in E
    BY <1>2 DEF TableInv, Fits, IdsOf
  <2>2. \A o, p \in Held : IdOf(o) = IdOf(p) => o = p
    BY <1>2 DEF TableInv, Fits
  <2>3. f \in Injection(Held, E)
    <3>1. f \in [Held -> E]
      BY <2>1
    <3> HIDE DEF E
    <3> QED
      BY <2>2, <3>1 DEF Injection, IsInjective
  <2> HIDE DEF E, f
  <2>5. IsFiniteSet(E)
    BY <1>4 DEF E
  <2>6. IsFiniteSet(Held) /\ Cardinality(Held) <= Cardinality(E)
    BY <2>3, <2>5, FS_Injection
  <2> QED
    BY <2>6 DEF E
<1>6. Cardinality(Held) \in Nat
  BY <1>5, FS_CardinalityType
<1> QED
  BY <1>3, <1>4, <1>5, <1>6, SlotsAssumption DEF hasFreeSlots

\* Only start()'s choice of a slot can throw.
LEMMA OnlyPickSlotThrows ==
    ASSUME TypeOK, Next
    PROVE  \/ \E t \in Threads : PickSlot(t)
           \/ \A t \in Threads : pc'[t] = "crashed" => pc[t] = "crashed"
<1> DEFINE Goal == \A t \in Threads : pc'[t] = "crashed" => pc[t] = "crashed"
<1> USE DEF TypeOK, ThreadType
<1>1. ASSUME NEW t \in Threads, PutSlot(t) \/ ReadRows(t) \/ ListGone(t) \/ Publish(t)
                                  \/ ReloadDone(t)
      PROVE  Goal
  BY <1>1 DEF PutSlot, ReadRows, ListGone, Publish, ReloadDone
<1>2. ASSUME NEW t \in Threads, CopyOne(t) \/ DropOne(t)
      PROVE  Goal
  BY <1>2 DEF CopyOne, DropOne
<1>3. ASSUME NEW t \in Threads, AutostartOne(t)
      PROVE  Goal
  BY <1>3 DEF AutostartOne, startBegin
<1>4. CASE resetSlotsForFreshStart \/ \E w \in pending : DbWriteOnIo(w)
  BY <1>4 DEF resetSlotsForFreshStart, DbWriteOnIo
<1>5. CASE BatchOne
  BY <1>5 DEF BatchOne, startBegin
<1>6. CASE UNCHANGED pc
  BY <1>6
<1>7. CASE RunBind \/ RunUnbind \/ RunServers \/ stopServerServicesIfNoSlots
             \/ RunCamera \/ RunRefresh \/ StartUi \/ Resubscribe
  <2>1. UNCHANGED pc
    BY <1>7 DEF RunBind, RunUnbind, RunServers, stopServerServicesIfNoSlots, RunCamera,
                RunRefresh, StartUi, Resubscribe, thrVars
  <2> QED
    BY <2>1, <1>6
<1>8. CASE \/ \E b \in bindings : onServiceConnected(b) \/ onServiceDisconnected(b)
           \/ \E op \in {"start", "stop"}, S \in SUBSET view : Tap /\ BeginBatch(op, S)
           \/ \E o \in view : delete(o) \/ \E a \in BOOLEAN : saveEdited(o, a)
           \/ \E i \in fresh, a \in BOOLEAN : saveNew(i, a)
           \/ \E on \in BOOLEAN : setCameraEnabled(on)
           \/ \E k \in Kinds, s \in Slots : Die(k, s)
  <2>1. thrVars' = thrVars
    BY <1>8, Zenon DEF onServiceConnected, onServiceDisconnected, BeginBatch, delete,
       saveEdited, saveNew, setCameraEnabled, Die
  <2> QED
    BY <2>1, <1>6 DEF thrVars
<1> QED
  BY StepCases, <1>1, <1>2, <1>3, <1>4, <1>5, <1>7, <1>8, Zenon

\* So no step of a calm application throws.
LEMMA NextAlive ==
    ASSUME CalmInv, Next, calm'
    PROVE  Alive'
<1> USE DEF CalmInv, SlotsInv
<1>1. Alive
  BY DEF Next
<1>2. ASSUME NEW t \in Threads, PickSlot(t) PROVE Alive'
  <2>1. hasFreeSlots
    BY <1>2, RoomForOne
  <2>2. pc' = [pc EXCEPT ![t] = "put"]
    BY <1>2, <2>1 DEF PickSlot
  <2> QED
    BY <1>1, <2>2 DEF TypeOK, ThreadType, Alive
<1> QED
  BY <1>1, <1>2, OnlyPickSlotThrows DEF Alive

\* For any number of profiles, slots, edits and deaths of service processes, as long
\* as the application stays calm start() never throws "Not enough slots left!": the
\* objects in `slots` are published ones, one for each profile, the table has no
\* more rows than there are slots, and the object being started is not among them.
THEOREM SlotsSuffice == Spec => []NeverOutOfSlots
<1>1. Init => CalmInv /\ NeverOutOfSlots
  BY InitCalm DEF Init, NeverOutOfSlots, Alive, Threads
<1>2. CalmInv /\ NeverOutOfSlots /\ [Next]_vars => (CalmInv /\ NeverOutOfSlots)'
  <2> SUFFICES ASSUME CalmInv, NeverOutOfSlots, [Next]_vars
               PROVE  CalmInv' /\ NeverOutOfSlots'
    OBVIOUS
  <2>1. CASE Next
    BY <2>1, CalmInductive, NextAlive DEF NeverOutOfSlots
  <2>2. CASE UNCHANGED vars
    BY <2>2, CalmInductive DEF NeverOutOfSlots, Alive, vars, thrVars
  <2> QED
    BY <2>1, <2>2
<1> QED
  BY <1>1, <1>2, PTL DEF Spec

-----------------------------------------------------------------------------
(* The sessions of a calm application none of whose services died.         *)

Linked(o) == \A k \in Kinds : conn[o][k] # NoConn
Between(h, x, i) == \E j \in h .. (i - 1) : queue[j] = x

StateInv == \A o \in Obj :
    /\ state[o] = "STOPPING" => Posted(UnbindTask(o))
    /\ state[o] = "STARTING" => ~Posted(UnbindTask(o))
    /\ Posted(BindTask(o)) => state[o] \in {"STARTING", "STOPPING"}
ConnInv == \A o \in Obj :
    /\ Null(o) \/ Linked(o)
    /\ state[o] = "IDLE" => Null(o)
    /\ state[o] = "RUNNING" => Linked(o)
    /\ Posted(BindTask(o)) => Null(o)
BindingInv == \A b \in bindings :
    /\ b.phase # "dead"
    /\ b.phase = "wait" => conn[b.conn[1]][b.kind] = b.conn

\* Object p, of the profile the binding was made for, knows the connection ...
Bears(p, b) == conn[p][b.kind] = b.conn /\ slot[p] = b.slot /\ IdOf(p) = IdOf(b.conn[1])
\* ... and will be asked, or has been asked, to unbind it.
BearInv == \A b \in bindings : \E p \in Obj :
    Bears(p, b) /\ (slots[p] = b.slot \/ Posted(UnbindTask(p)))

\* When a bind task comes up, every other session in its slot has been unbound.
OrderOf(o, i) ==
    /\ \A j \in 1 .. Len(queue) : queue[j] = BindTask(o) => j = i
    /\ ~Between(1, UnbindTask(o), i)
    /\ slots[o] = slot[o] \/ Posted(UnbindTask(o))
    /\ \A b \in bindings : b.slot = slot[o] =>
          \E p \in Obj : Bears(p, b) /\ Between(1, UnbindTask(p), i)
    /\ \A h \in 1 .. (i - 1), p \in Obj :
          queue[h] = BindTask(p) /\ slot[p] = slot[o] => Between(h, UnbindTask(p), i)
OrderInv == \A o \in Obj, i \in 1 .. Len(queue) : queue[i] = BindTask(o) => OrderOf(o, i)

\* A process runs only while it is bound, and runs the profile it is bound for.
ServingInv ==
    /\ \A k \in Kinds, s \in Slots : serving[k][s] # NoId =>
          \E b \in bindings : b.kind = k /\ b.slot = s
    /\ \A b \in bindings : serving[b.kind][b.slot] = IdOf(b.conn[1])

SessionInv == StateInv /\ ConnInv /\ BindingInv /\ BearInv /\ OrderInv /\ ServingInv

\* Where a task that was not posted now stood before.
LEMMA Positions ==
    ASSUME NEW d, NEW News, Shifts(d, News), NEW i \in 1 .. Len(queue'), queue'[i] \notin News
    PROVE  i + d \in 1 .. Len(queue) /\ queue[i + d] = queue'[i] /\ i \in 1 .. (Len(queue) - d)
<1>1. i \in 1 .. (Len(queue) - d)
  BY DEF Shifts
<1> QED
  BY <1>1 DEF Shifts

\* A stretch of the queue, before and after a step.
LEMMA BetweenShift ==
    ASSUME NEW d, NEW News, Shifts(d, News), NEW x, NEW h \in 1 .. Len(queue'),
           NEW i \in 1 .. Len(queue'), i + d <= Len(queue)
    PROVE  Between(h, x, i)' <=> Between(h + d, x, i + d)
<1>1. \A j \in h .. (i - 1) : queue'[j] = queue[j + d]
  BY DEF Shifts
<1>2. Len(queue) \in Nat /\ Len(queue') \in Nat /\ d \in Nat
  BY DEF Shifts
<1>3. ASSUME NEW j \in h .. (i - 1), queue'[j] = x PROVE Between(h + d, x, i + d)
  <2>1. j + d \in (h + d) .. ((i + d) - 1) /\ queue[j + d] = x
    BY <1>1, <1>2, <1>3
  <2> QED
    BY <2>1, Zenon DEF Between
<1>4. ASSUME NEW j \in (h + d) .. ((i + d) - 1), queue[j] = x PROVE Between(h, x, i)'
  <2>1. j - d \in h .. (i - 1) /\ queue'[j - d] = x
    BY <1>1, <1>2, <1>4
  <2> QED
    BY <2>1 DEF Between
<1>5. Between(h, x, i)' <=> \E j \in h .. (i - 1) : queue'[j] = x
  BY DEF Between
<1>6. Between(h + d, x, i + d) <=> \E j \in (h + d) .. ((i + d) - 1) : queue[j] = x
  BY Zenon DEF Between
<1> QED
  BY <1>3, <1>4, <1>5, <1>6, Zenon

\* The front of the queue, before and after a step.
LEMMA BetweenFirst ==
    ASSUME NEW d, NEW News, Shifts(d, News), NEW x,
           NEW i \in 1 .. Len(queue'), i + d <= Len(queue)
    PROVE  /\ Between(1, x, i)' => Between(1, x, i + d)
           /\ Between(1, x, i + d) /\ ~(d = 1 /\ queue[1] = x) => Between(1, x, i)'
<1>1. 1 \in 1 .. Len(queue') /\ Len(queue) \in Nat /\ d \in {0, 1} /\ Len(queue') \in Nat
  BY DEF Shifts
<1>2. Between(1, x, i)' <=> Between(1 + d, x, i + d)
  BY <1>1, BetweenShift
<1>3. Between(1 + d, x, i + d) => Between(1, x, i + d)
  BY <1>1 DEF Between
<1>4. Between(1, x, i + d) /\ ~(d = 1 /\ queue[1] = x) => Between(1 + d, x, i + d)
  BY <1>1 DEF Between
<1> QED
  BY <1>2, <1>3, <1>4

\* A binding of the next state that a bind task may meet: known before to all that
\* unbind it, or just made by the task in front.
Known(d, b) ==
    \/ \E a \in bindings :
          /\ a.slot = b.slot
          /\ \A p \in Obj : Bears(p, a) /\ Posted(UnbindTask(p)) =>
                Bears(p, b)' /\ ~(d = 1 /\ queue[1] = UnbindTask(p))
    \/ \E p \in Obj : Bears(p, b)' /\ d = 1 /\ queue[1] = BindTask(p) /\ slot[p] = b.slot

\* A bind task that waits keeps its place behind what it has to wait for.
LEMMA OrderKept ==
    ASSUME TypeOK, OrderInv, NEW d, NEW News, Shifts(d, News),
           \A o \in Obj : Posted(BindTask(o)) => slot'[o] = slot[o],
           NEW o \in Obj, BindTask(o) \notin News,
           Posted(BindTask(o))' => slots'[o] = slot'[o] \/ Posted(UnbindTask(o))',
           \A b \in bindings' : Posted(BindTask(o)) /\ b.slot = slot[o] => Known(d, b),
           NEW i \in 1 .. Len(queue'), queue'[i] = BindTask(o)
    PROVE  OrderOf(o, i)'
<1>1. /\ i + d \in 1 .. Len(queue) /\ queue[i + d] = BindTask(o) /\ d \in {0, 1}
      /\ Len(queue) \in Nat /\ Len(queue') \in Nat
  BY Positions DEF Shifts
<1>2. OrderOf(o, i + d) /\ Posted(BindTask(o)) /\ slot'[o] = slot[o]
  BY <1>1 DEF OrderInv, Posted
<1>3. \A j \in 1 .. Len(queue') : queue'[j] = BindTask(o) => j = i
  <2>1. ASSUME NEW j \in 1 .. Len(queue'), queue'[j] = BindTask(o) PROVE j = i
    <3>1. j + d \in 1 .. Len(queue) /\ queue[j + d] = BindTask(o)
      BY <2>1, Positions
    <3>2. j + d = i + d
      BY <1>2, <3>1 DEF OrderOf
    <3> QED
      BY <1>1, <3>2
  <2> QED
    BY <2>1
<1>4. ~Between(1, UnbindTask(o), i)'
  BY <1>1, <1>2, BetweenFirst DEF OrderOf
<1>5. (slots[o] = slot[o] \/ Posted(UnbindTask(o)))'
  <2>1. Posted(BindTask(o))'
    BY DEF Posted
  <2> QED
    BY <2>1
<1>6. ASSUME NEW b \in bindings', b.slot = slot'[o]
      PROVE  \E p \in Obj : Bears(p, b)' /\ Between(1, UnbindTask(p), i)'
  <2>1. Known(d, b)
    BY <1>2, <1>6
  <2>2. ASSUME NEW a \in bindings, a.slot = b.slot,
               \A p \in Obj : Bears(p, a) /\ Posted(UnbindTask(p)) =>
                  Bears(p, b)' /\ ~(d = 1 /\ queue[1] = UnbindTask(p))
        PROVE  \E p \in Obj : Bears(p, b)' /\ Between(1, UnbindTask(p), i)'
    <3>1. PICK p \in Obj : Bears(p, a) /\ Between(1, UnbindTask(p), i + d)
      BY <1>2, <1>6, <2>2 DEF OrderOf
    <3>2. Posted(UnbindTask(p))
      BY <1>1, <3>1 DEF Between, Posted
    <3>3. Bears(p, b)' /\ ~(d = 1 /\ queue[1] = UnbindTask(p))
      BY <2>2, <3>1, <3>2
    <3>4. Between(1, UnbindTask(p), i)'
      BY <1>1, <3>1, <3>3, BetweenFirst
    <3> QED
      BY <3>3, <3>4
  <2>3. ASSUME NEW p \in Obj, Bears(p, b)', d = 1, queue[1] = BindTask(p), slot[p] = b.slot
        PROVE  \E q \in Obj : Bears(q, b)' /\ Between(1, UnbindTask(q), i)'
    <3>1. 1 \in 1 .. ((i + d) - 1)
      BY <1>1, <2>3
    <3>2. Between(1, UnbindTask(p), i + d)
      BY <1>2, <1>6, <2>3, <3>1 DEF OrderOf
    <3>3. queue[1] # UnbindTask(p)
      BY <2>3, TaskKinds
    <3>4. Between(1, UnbindTask(p), i)'
      BY <1>1, <3>2, <3>3, BetweenFirst
    <3> QED
      BY <2>3, <3>4
  <2> QED
    BY <2>1, <2>2, <2>3 DEF Known
<1>7. ASSUME NEW h \in 1 .. (i - 1), NEW p \in Obj,
             queue'[h] = BindTask(p), slot'[p] = slot'[o]
      PROVE  Between(h, UnbindTask(p), i)'
  <2>1. h \in 1 .. Len(queue') /\ h + d \in 1 .. ((i + d) - 1) /\ queue[h + d] = BindTask(p)
    <3>1. h \in 1 .. Len(queue') /\ h + d \in 1 .. ((i + d) - 1)
      BY <1>1, <1>7
    <3>2. h \in 1 .. (Len(queue) - d)
      BY <1>1, <1>7
    <3> QED
      BY <1>7, <3>1, <3>2 DEF Shifts
  <2>2. Posted(BindTask(p))
    BY <1>1, <2>1 DEF Posted
  <2>3. slot[p] = slot[o]
    BY <1>2, <1>7, <2>2
  <2>4. Between(h + d, UnbindTask(p), i + d)
    BY <1>2, <2>1, <2>3 DEF OrderOf
  <2> QED
    BY <1>1, <2>1, <2>4, BetweenShift
<1> QED
  BY <1>3, <1>4, <1>5, <1>6, <1>7 DEF OrderOf

\* In start() an object has no connection yet.
StartNull == \A t \in Threads : pc[t] \in {"slot", "put"} => Null(cur[t])

\* A step that leaves the sessions leaves what is said of them.
LEMMA SameSession ==
    ASSUME UNCHANGED sessionVars
    PROVE  /\ \A o : (Null(o)' <=> Null(o)) /\ (Linked(o)' <=> Linked(o))
           /\ \A p, b : Bears(p, b)' <=> Bears(p, b)
           /\ BindingInv => BindingInv'
           /\ ServingInv => ServingInv'
BY DEF sessionVars, Null, Linked, Bears, BindingInv, ServingInv

\* Tasks of the servers do not matter to the sessions.
LEMMA SessionBystands ==
    ASSUME TypeOK, SessionInv, Bystands
    PROVE  SessionInv'
<1> USE DEF SessionInv
<1>1. UNCHANGED sessionVars /\ UNCHANGED slots
  BY DEF Bystands
<1>2. PICK d \in {0, 1} : Shifts(d, ServerTask) /\ (d = 1 => queue[1] \in ServerTask)
  BY DEF Bystands
<1>3. \A o \in Obj : /\ Posted(BindTask(o))' <=> Posted(BindTask(o))
                     /\ Posted(UnbindTask(o))' <=> Posted(UnbindTask(o))
                     /\ ~(d = 1 /\ queue[1] = UnbindTask(o))
  BY <1>2, Shifted, TaskKinds
<1>4. StateInv' /\ ConnInv' /\ BearInv'
  BY <1>1, <1>3, SameSession DEF StateInv, ConnInv, BearInv, sessionVars
<1>5. OrderInv'
  <2>1. ASSUME NEW o \in Obj, NEW i \in 1 .. Len(queue'), queue'[i] = BindTask(o)
        PROVE  OrderOf(o, i)'
    <3>1. Posted(BindTask(o)) => slots[o] = slot[o] \/ Posted(UnbindTask(o))
      BY DEF OrderInv, OrderOf, Posted
    <3>2. \A b \in bindings' : Known(d, b)
      BY <1>1, <1>3, SameSession DEF Known, sessionVars
    <3> QED
      BY <1>1, <1>2, <1>3, <2>1, <3>1, <3>2, OrderKept, TaskKinds DEF sessionVars
  <2> QED
    BY <2>1 DEF OrderInv
<1> QED
  BY <1>1, <1>4, <1>5, SameSession

\* The object is marked as stopping, and its unbind task waits.
Halts(o) ==
    /\ UNCHANGED <<slot, conn, bindings, serving>>
    /\ Shifts(0, {UnbindTask(o)}) /\ Posted(UnbindTask(o))'
    /\ state'[o] = "STOPPING"
    /\ \A p \in Obj \ {o} : state'[p] = state[p] /\ slots'[p] = slots[p]

\* A stop keeps the invariant of the sessions.
LEMMA SessionHalts ==
    ASSUME TypeOK, SessionInv, NEW o \in Obj, Halts(o)
    PROVE  SessionInv'
<1> USE DEF SessionInv
<1>1. /\ UNCHANGED <<slot, conn, bindings, serving>>
      /\ Shifts(0, {UnbindTask(o)}) /\ Posted(UnbindTask(o))' /\ state'[o] = "STOPPING"
      /\ \A p \in Obj \ {o} : state'[p] = state[p] /\ slots'[p] = slots[p]
  BY DEF Halts
<1>2. \A p \in Obj : /\ Posted(BindTask(p))' <=> Posted(BindTask(p))
                     /\ Posted(UnbindTask(p))' <=> Posted(UnbindTask(p)) \/ p = o
  BY <1>1, Shifted, TaskKinds
<1>3. /\ \A p : (Null(p)' <=> Null(p)) /\ (Linked(p)' <=> Linked(p))
      /\ \A p, b : Bears(p, b)' <=> Bears(p, b)
      /\ BindingInv' /\ ServingInv'
  BY <1>1 DEF Null, Linked, Bears, BindingInv, ServingInv
<1>4. StateInv'
  BY <1>1, <1>2 DEF StateInv
<1>5. ConnInv'
  BY <1>1, <1>2, <1>3 DEF ConnInv
<1>6. BearInv'
  BY <1>1, <1>2, <1>3 DEF BearInv
<1>7. OrderInv'
  <2>1. ASSUME NEW p \in Obj, NEW i \in 1 .. Len(queue'), queue'[i] = BindTask(p)
        PROVE  OrderOf(p, i)'
    <3>1. Posted(BindTask(p)) => slots[p] = slot[p] \/ Posted(UnbindTask(p))
      BY DEF OrderInv, OrderOf, Posted
    <3>2. \A b \in bindings' : Known(0, b)
      BY <1>1, <1>3 DEF Known
    <3>3. Posted(BindTask(p))' => slots'[p] = slot'[p] \/ Posted(UnbindTask(p))'
      BY <1>1, <1>2, <3>1
    <3>4. BindTask(p) \notin {UnbindTask(o)}
      BY TaskKinds
    <3> QED
      BY <1>1, <2>1, <3>2, <3>3, <3>4, OrderKept
  <2> QED
    BY <2>1 DEF OrderInv
<1> QED
  BY <1>3, <1>4, <1>5, <1>6, <1>7

\* stop() is such a step,
LEMMA StopsHalts ==
    ASSUME TypeOK, NEW o \in Obj, Stops(o)
    PROVE  Halts(o)
<1>1. queue \in Seq(Task) /\ UnbindTask(o) \in Task /\ queue' = Append(queue, UnbindTask(o))
  BY TaskShape DEF Stops, TypeOK, LooperType
<1>2. /\ Shifts(0, {UnbindTask(o)}) /\ Len(queue) \in Nat /\ Len(queue') = Len(queue) + 1
      /\ queue'[Len(queue')] = UnbindTask(o)
  BY <1>1, ShiftsAppend
<1>3. Posted(UnbindTask(o))'
  BY <1>2 DEF Posted
<1> QED
  BY <1>2, <1>3 DEF Stops, Halts, TypeOK, ObjType

\* ... and so is the second loop of a reload.
LEMMA DropsHalts ==
    ASSUME TypeOK, SessionInv, NEW o \in Obj, Drops(o), state[o] # "IDLE"
    PROVE  Halts(o)
<1>1. UNCHANGED <<slot, conn, bindings, serving>>
      /\ \A p \in Obj \ {o} : slots'[p] = slots[p]
  BY DEF Drops, TypeOK, RegistryType
<1>2. CASE Stoppable(o) /\ state' = [state EXCEPT ![o] = "STOPPING"]
           /\ queue' = Append(queue, UnbindTask(o))
  <2>1. queue \in Seq(Task) /\ UnbindTask(o) \in Task
    BY TaskShape DEF TypeOK, LooperType
  <2>2. /\ Shifts(0, {UnbindTask(o)}) /\ Len(queue) \in Nat /\ Len(queue') = Len(queue) + 1
        /\ queue'[Len(queue')] = UnbindTask(o)
    BY <1>2, <2>1, ShiftsAppend
  <2>3. Posted(UnbindTask(o))'
    BY <2>2 DEF Posted
  <2> QED
    BY <1>1, <1>2, <2>2, <2>3 DEF Halts, TypeOK, ObjType
<1>3. CASE ~Stoppable(o) /\ UNCHANGED <<state, queue>>
  <2>1. state[o] = "STOPPING"
    BY <1>3 DEF Stoppable, TypeOK, ObjType, States
  <2>2. Posted(UnbindTask(o))'
    BY <1>3, <2>1 DEF SessionInv, StateInv, Posted
  <2>3. Shifts(0, {UnbindTask(o)})
    BY <1>3, ShiftsNone DEF TypeOK, LooperType
  <2> QED
    BY <1>1, <1>3, <2>1, <2>2, <2>3 DEF Halts
<1> QED
  BY <1>2, <1>3 DEF Drops

\* start() marks an object that nothing waits for, and chooses its slot: neither
\* touches a session, for the object has no connection.
LEMMA SessionStart ==
    ASSUME TypeOK, SessionInv, NEW c \in Obj, Null(c), ~Waits(c), state'[c] = "STARTING",
           \A p \in Obj \ {c} : state'[p] = state[p] /\ slot'[p] = slot[p],
           UNCHANGED <<conn, bindings, serving, slots, queue>>
    PROVE  SessionInv'
<1> USE DEF SessionInv
<1>1. Shifts(0, {})
  BY ShiftsNone DEF TypeOK, LooperType
<1>2. \A p \in Obj : /\ Posted(BindTask(p))' <=> Posted(BindTask(p))
                     /\ Posted(UnbindTask(p))' <=> Posted(UnbindTask(p))
  BY DEF Posted
<1>3. /\ \A p : (Null(p)' <=> Null(p)) /\ (Linked(p)' <=> Linked(p))
      /\ BindingInv' /\ ServingInv'
  BY DEF Null, Linked, BindingInv, ServingInv
<1>4. ASSUME NEW p \in Obj, NEW b \in bindings, Bears(p, b)
      PROVE  Bears(p, b)' /\ p # c
  <2>1. b.conn \in Conn /\ b.kind \in Kinds /\ NoConn \notin Conn
    BY NullAssumption, Phased DEF Conn, Obj, Gens
  <2>2. p # c
    BY <1>4, <2>1 DEF Null, Bears
  <2> QED
    BY <1>4, <2>2 DEF Bears
<1>5. StateInv' /\ ConnInv'
  BY <1>2, <1>3 DEF StateInv, ConnInv, Waits
<1>6. BearInv'
  BY <1>2, <1>4 DEF BearInv
<1>7. OrderInv'
  <2>1. ASSUME NEW p \in Obj, NEW i \in 1 .. Len(queue'), queue'[i] = BindTask(p)
        PROVE  OrderOf(p, i)'
    <3>1. Posted(BindTask(p)) => slots[p] = slot[p] \/ Posted(UnbindTask(p))
      BY DEF OrderInv, OrderOf, Posted
    <3>2. \A b \in bindings' : Known(0, b)
      BY <1>4 DEF Known
    <3>3. \A q \in Obj : Posted(BindTask(q)) => slot'[q] = slot[q]
      BY DEF Waits
    <3>4. Posted(BindTask(p))' => slots'[p] = slot'[p] \/ Posted(UnbindTask(p))'
      BY <1>2, <3>1, <3>3
    <3> QED
      BY <1>1, <2>1, <3>2, <3>3, <3>4, OrderKept
  <2> QED
    BY <2>1 DEF OrderInv
<1> QED
  BY <1>3, <1>5, <1>6, <1>7

\* A connection is not null, and a slot number is not the missing one.
LEMMA BindingFacts ==
    ASSUME TypeOK, NEW b \in bindings
    PROVE  /\ b.conn # NoConn /\ b.conn \in Conn /\ b.conn[1] \in Obj /\ b.kind \in Kinds
           /\ b.slot \in Slots /\ b.slot # NoSlot
<1>1. b.conn \in Conn /\ b.conn[1] \in Obj /\ b.kind \in Kinds /\ b.slot \in Slots
  BY Phased
<1>2. NoConn \notin Conn /\ NoSlot \notin Slots
  BY NullAssumption, SlotsAssumption DEF Conn, Obj, Gens, NoSlot, Slots
<1> QED
  BY <1>1, <1>2

\* The entry in `slots` and the bind task: the slot chosen is still free.
LEMMA SessionPutSlot ==
    ASSUME TypeOK, ChosenSlotIsFree, StartInv, StartNull, SessionInv,
           NEW t \in Threads, PutSlot(t), calm
    PROVE  SessionInv'
<1> USE DEF SessionInv
<1>0. /\ cur[t] \in Obj /\ UNCHANGED <<state, slot, conn, bindings, serving>> /\ pc[t] = "put"
      /\ slots' = [slots EXCEPT ![cur[t]] = slot[cur[t]]]
      /\ queue' = Append(queue, BindTask(cur[t]))
  BY DEF PutSlot, objVars, sysVars, StartInv, TypeOK, RegistryType
<1> PICK c \in Obj : c = cur[t]
  BY <1>0
<1>1. /\ UNCHANGED <<state, slot, conn, bindings, serving>>
      /\ slots' = [slots EXCEPT ![c] = slot[c]] /\ queue' = Append(queue, BindTask(c))
  BY <1>0
<1>2. /\ state[c] = "STARTING" /\ ~Waits(c) /\ Null(c)
      /\ \A o \in Held : slots[o] # slot[c]
  BY <1>0 DEF StartInv, StartNull, ChosenSlotIsFree
<1>3. /\ Shifts(0, {BindTask(c)}) /\ Len(queue) \in Nat /\ Len(queue') = Len(queue) + 1
      /\ queue'[Len(queue')] = BindTask(c)
  BY <1>1, <1>2, TaskShape, ShiftsAppend DEF TypeOK, LooperType
<1>4. \A p \in Obj : /\ Posted(BindTask(p))' => Posted(BindTask(p)) \/ p = c
                     /\ Posted(UnbindTask(p))' <=> Posted(UnbindTask(p))
  BY <1>2, <1>3, Shifted, TaskKinds
<1>5. /\ \A p : (Null(p)' <=> Null(p)) /\ (Linked(p)' <=> Linked(p))
      /\ \A p, b : Bears(p, b)' <=> Bears(p, b)
      /\ BindingInv' /\ ServingInv'
  BY <1>1 DEF Null, Linked, Bears, BindingInv, ServingInv
<1>6. \A p \in Obj \ {c} : slots'[p] = slots[p]
  BY <1>1 DEF TypeOK, RegistryType
<1>7. StateInv' /\ ConnInv'
  BY <1>1, <1>2, <1>4, <1>5 DEF StateInv, ConnInv
<1>8. BearInv'
  <2>1. \A b \in bindings : ~Bears(c, b)
    BY <1>2, BindingFacts DEF Null, Bears
  <2> QED
    BY <1>1, <1>4, <1>5, <1>6, <2>1 DEF BearInv
<1>9. ASSUME NEW p \in Obj, p # c, NEW i \in 1 .. Len(queue'), queue'[i] = BindTask(p)
      PROVE  OrderOf(p, i)'
  <2>1. Posted(BindTask(p)) => slots[p] = slot[p] \/ Posted(UnbindTask(p))
    BY DEF OrderInv, OrderOf, Posted
  <2>2. \A b \in bindings' : Known(0, b)
    BY <1>1, <1>5 DEF Known
  <2>3. Posted(BindTask(p))' => slots'[p] = slot'[p] \/ Posted(UnbindTask(p))'
    BY <1>1, <1>4, <1>6, <1>9, <2>1
  <2>4. BindTask(p) \notin {BindTask(c)}
    BY <1>2, <1>9, TaskKinds
  <2> QED
    BY <1>1, <1>3, <1>9, <2>2, <2>3, <2>4, OrderKept
<1>10. ASSUME NEW i \in 1 .. Len(queue'), queue'[i] = BindTask(c)
       PROVE  OrderOf(c, i)'
  <2>1. \A j \in 1 .. Len(queue) : /\ queue'[j] = queue[j] /\ queue[j] # BindTask(c)
                                   /\ queue[j] # UnbindTask(c)
    BY <1>2, <1>3 DEF Shifts, Waits, Posted
  <2>2. i = Len(queue) + 1 /\ \A j \in 1 .. Len(queue') : queue'[j] = BindTask(c) => j = i
    BY <1>3, <1>10, <2>1
  <2>3. ~Between(1, UnbindTask(c), i)'
    BY <1>3, <2>1, <2>2 DEF Between
  <2>4. (slots[c] = slot[c])'
    BY <1>1, <1>2 DEF TypeOK, RegistryType
  <2>5. ASSUME NEW b \in bindings, b.slot = slot[c]
        PROVE  \E p \in Obj : Bears(p, b) /\ Between(1, UnbindTask(p), i)'
    <3>1. PICK p \in Obj : Bears(p, b) /\ (slots[p] = b.slot \/ Posted(UnbindTask(p)))
      BY DEF BearInv
    <3>2. slots[p] # b.slot
      BY <1>2, <2>5, BindingFacts DEF Held
    <3>3. Posted(UnbindTask(p))
      BY <3>1, <3>2
    <3>4. Between(1, UnbindTask(p), i)'
      BY <2>1, <2>2, <3>3 DEF Between, Posted
    <3> QED
      BY <3>1, <3>4
  <2>6. ASSUME NEW h \in 1 .. (i - 1), NEW p \in Obj, queue'[h] = BindTask(p), slot[p] = slot[c]
        PROVE  Between(h, UnbindTask(p), i)'
    <3>1. h \in 1 .. Len(queue) /\ queue[h] = BindTask(p)
      BY <1>3, <2>1, <2>2, <2>6
    <3>2. OrderOf(p, h)
      BY <3>1 DEF OrderInv
    <3>3. slot[c] \in Slots /\ slot[c] # NoSlot
      BY <1>2, SlotsAssumption DEF TypeOK, ObjType, Slots, NoSlot
    <3>4. Posted(UnbindTask(p)) /\ ~Between(1, UnbindTask(p), h)
      BY <1>2, <2>6, <3>2, <3>3 DEF OrderOf, Held
    <3>5. PICK j \in 1 .. Len(queue) : queue[j] = UnbindTask(p)
      BY <3>4 DEF Posted
    <3>6. j \notin 1 .. (h - 1)
      BY <3>4, <3>5 DEF Between
    <3>7. j \in h .. (i - 1) /\ queue'[j] = UnbindTask(p)
      BY <1>3, <2>1, <2>2, <3>1, <3>5, <3>6
    <3> QED
      BY <3>7 DEF Between
  <2>7. UNCHANGED <<slot, bindings>> /\ \A p, b : Bears(p, b)' <=> Bears(p, b)
    BY <1>1, <1>5
  <2> QED
    BY <2>2, <2>3, <2>4, <2>5, <2>6, <2>7 DEF OrderOf
<1>11. OrderInv'
  BY <1>9, <1>10 DEF OrderInv
<1> QED
  BY <1>5, <1>7, <1>8, <1>11

\* A reload hands a settled profile's session to its new object.
LEMMA SessionCopies ==
    ASSUME TypeOK, FreshInv, HeldInv, SessionInv, NEW t \in Threads, pc[t] = "copy",
           NEW o \in Obj, NEW was \in instances, Copies(t, o, was), calm',
           UNCHANGED <<queue, bindings, serving>>
    PROVE  SessionInv'
<1> USE DEF SessionInv
<1>1. was \in Obj /\ was # o /\ IdOf(was) = IdOf(o) /\ Blank(o)
  BY DEF Copies, getInstance, TypeOK, RegistryType, FreshInv, Fresh
<1>2. /\ state'[o] = state[was] /\ conn'[o] = conn[was] /\ slot'[o] = slot[was]
      /\ \A p \in Obj \ {o} : /\ state'[p] = state[p] /\ conn'[p] = conn[p]
                              /\ slot'[p] = slot[p]
  BY <1>1 DEF Copies, TypeOK, ObjType
<1>3. /\ slots'[o] = IF state[was] # "IDLE" THEN slot[was] ELSE slots[o]
      /\ \A p \in Obj \ {o, was} : slots'[p] = slots[p]
  BY <1>1 DEF Copies, TakeOver, TypeOK, RegistryType
<1>4. \/ state[was] = "IDLE" /\ Null(was) /\ slots[was] = NoSlot
      \/ state[was] = "RUNNING" /\ Linked(was) /\ ~Waits(was) /\ slots[was] = slot[was]
  <2>1. Settled(was)
    BY DEF Copies, Note
  <2>2. CASE state[was] = "IDLE"
    BY <1>1, <2>2 DEF ConnInv, HeldInv, Held
  <2>3. CASE state[was] # "IDLE"
    BY <1>1, <2>1, <2>3, AwaitedWaits DEF Settled, Linked
  <2> QED
    BY <2>2, <2>3
<1>5. \A p \in Obj : /\ Posted(BindTask(p))' <=> Posted(BindTask(p))
                     /\ Posted(UnbindTask(p))' <=> Posted(UnbindTask(p))
  BY DEF Posted
<1>6. ~Posted(BindTask(o)) /\ ~Posted(UnbindTask(o)) /\ Null(o) /\ ~Posted(BindTask(was))
  BY <1>1, <1>4 DEF Blank, Waits, StateInv
<1>7. ASSUME NEW p \in Obj, NEW b \in bindings, Bears(p, b)
      PROVE  /\ p # o /\ Bears(p, b)'
             /\ p = was => /\ state[was] # "IDLE" /\ Bears(o, b)'
                           /\ slots[was] = b.slot => slots'[o] = b.slot
  <2>1. p # o
    BY <1>6, <1>7, BindingFacts DEF Bears, Null
  <2>2. Bears(p, b)'
    BY <1>2, <1>7, <2>1 DEF Bears
  <2>3. ASSUME p = was
        PROVE  /\ state[was] # "IDLE" /\ Bears(o, b)'
               /\ slots[was] = b.slot => slots'[o] = b.slot
    <3>1. state[was] # "IDLE"
      BY <1>4, <1>7, <2>3, BindingFacts DEF Bears, Null
    <3>2. Bears(o, b)'
      BY <1>1, <1>2, <1>7, <2>3 DEF Bears
    <3> QED
      BY <1>3, <1>4, <3>1, <3>2
  <2> QED
    BY <2>1, <2>2, <2>3
<1>8. StateInv'
  BY <1>2, <1>4, <1>5, <1>6 DEF StateInv
<1>9. ConnInv'
  <2>1. ASSUME NEW p \in Obj \ {o}
        PROVE  (Null(p)' <=> Null(p)) /\ (Linked(p)' <=> Linked(p))
    BY <1>2 DEF Null, Linked
  <2>2. (Null(o)' <=> Null(was)) /\ (Linked(o)' <=> Linked(was))
    BY <1>2 DEF Null, Linked
  <2> QED
    BY <1>2, <1>4, <1>5, <1>6, <2>1, <2>2 DEF ConnInv
<1>10. BindingInv' /\ ServingInv'
  <2>1. \A b \in bindings : b.conn[1] \in Obj \ {o}
    BY <1>1, BindingFacts DEF Blank
  <2> QED
    BY <1>2, <2>1 DEF BindingInv, ServingInv
<1>11. BearInv'
  <2>1. ASSUME NEW b \in bindings
        PROVE  \E q \in Obj : Bears(q, b)' /\ (slots'[q] = b.slot \/ Posted(UnbindTask(q))')
    <3>1. PICK p \in Obj : Bears(p, b) /\ (slots[p] = b.slot \/ Posted(UnbindTask(p)))
      BY DEF BearInv
    <3>2. CASE p # was
      BY <1>3, <1>5, <1>7, <3>1, <3>2
    <3>3. CASE p = was
      <4>1. state[was] # "IDLE"
        BY <1>7, <3>1, <3>3
      <4>2. ~Posted(UnbindTask(was))
        BY <1>4, <4>1 DEF Waits
      <4> QED
        BY <1>7, <3>1, <3>3, <4>2
    <3> QED
      BY <3>2, <3>3
  <2> QED
    BY <2>1 DEF BearInv
<1>12. OrderInv'
  <2>1. ASSUME NEW p \in Obj, NEW i \in 1 .. Len(queue'), queue'[i] = BindTask(p)
        PROVE  OrderOf(p, i)'
    <3>1. Shifts(0, {})
      BY ShiftsNone DEF TypeOK, LooperType
    <3>2. Posted(BindTask(p)) => slots[p] = slot[p] \/ Posted(UnbindTask(p))
      BY DEF OrderInv, OrderOf, Posted
    <3>3. \A b \in bindings' : Known(0, b)
      BY <1>7 DEF Known
    <3>4. \A q \in Obj : Posted(BindTask(q)) => q # o /\ q # was /\ slot'[q] = slot[q]
      BY <1>2, <1>6
    <3>5. Posted(BindTask(p))' => slots'[p] = slot'[p] \/ Posted(UnbindTask(p))'
      BY <1>3, <1>5, <3>2, <3>4
    <3> QED
      BY <2>1, <3>1, <3>3, <3>4, <3>5, OrderKept
  <2> QED
    BY <2>1 DEF OrderInv
<1> QED
  BY <1>8, <1>9, <1>10, <1>11, <1>12

\* The task of start(): by now nothing else is bound under the slot.
LEMMA SessionBinds ==
    ASSUME TypeOK, SessionInv, NEW o \in Obj, NEW c \in Conn, Binds(o, c)
    PROVE  SessionInv'
<1> USE DEF SessionInv
<1>1. /\ Len(queue) \in Nat /\ 1 \in 1 .. Len(queue) /\ queue[1] = BindTask(o)
      /\ Shifts(1, {}) /\ c[1] = o
      /\ conn' = [conn EXCEPT ![o] = [k \in Kinds |-> c]]
      /\ bindings' = bindings \cup NewBindings(o, c)
      /\ serving' = onBind(o)
      /\ UNCHANGED <<state, slot, slots>>
  BY EmptySeq, LenProperties DEF Binds, TypeOK, LooperType
<1>2. OrderOf(o, 1) /\ Posted(BindTask(o)) /\ Null(o)
  BY <1>1 DEF OrderInv, Posted, ConnInv
<1>3. \A x : ~Between(1, x, 1)
  BY DEF Between
<1>4. \A b \in bindings : b.slot # slot[o]
  BY <1>2, <1>3 DEF OrderOf
<1>5. \A p \in Obj : /\ Posted(BindTask(p))' => Posted(BindTask(p)) /\ p # o
                     /\ Posted(UnbindTask(p))' <=> Posted(UnbindTask(p))
  <2>1. \A p \in Obj : /\ Posted(BindTask(p))' => Posted(BindTask(p))
                       /\ Posted(UnbindTask(p))' <=> Posted(UnbindTask(p))
    BY <1>1, Shifted, TaskKinds
  <2>2. ~Posted(BindTask(o))'
    <3>1. ASSUME NEW i \in 1 .. Len(queue'), queue'[i] = BindTask(o) PROVE FALSE
      <4>1. i + 1 \in 1 .. Len(queue) /\ queue[i + 1] = BindTask(o)
        BY <1>1, <3>1, Positions
      <4> QED
        BY <1>2, <4>1 DEF OrderOf
    <3> QED
      BY <3>1 DEF Posted
  <2> QED
    BY <2>1, <2>2
<1>6. c # NoConn
  BY NullAssumption DEF Conn, Obj, Gens
<1>7. conn'[o] = [k \in Kinds |-> c] /\ \A p \in Obj \ {o} : conn'[p] = conn[p]
  BY <1>1 DEF TypeOK, ObjType
<1>8. StateInv'
  BY <1>1, <1>5 DEF StateInv
<1>9. ConnInv'
  <2>1. Linked(o)' /\ ~Null(o)'
    BY <1>6, <1>7 DEF Linked, Null, Kinds
  <2>2. \A p \in Obj \ {o} : (Null(p)' <=> Null(p)) /\ (Linked(p)' <=> Linked(p))
    BY <1>7 DEF Linked, Null
  <2>3. state[o] \in {"STARTING", "STOPPING"}
    BY <1>2 DEF StateInv
  <2> QED
    BY <1>1, <1>5, <2>1, <2>2, <2>3 DEF ConnInv
<1>10. ASSUME NEW p \in Obj, NEW b \in bindings, Bears(p, b)
       PROVE  p # o /\ Bears(p, b)'
  <2>1. p # o
    BY <1>2, <1>10, BindingFacts DEF Bears, Null
  <2> QED
    BY <1>1, <1>7, <1>10, <2>1 DEF Bears
<1>11. ASSUME NEW b \in NewBindings(o, c)
       PROVE  /\ Bears(o, b)' /\ b.slot = slot[o] /\ b.phase = "wait" /\ b.conn = c
              /\ b.kind \in Kinds
  <2>1. PICK k \in Kinds : b = [kind |-> k, conn |-> c, slot |-> slot[o], phase |-> "wait"]
    BY DEF NewBindings
  <2> QED
    BY <1>1, <1>7, <2>1 DEF Bears
<1>12. BindingInv'
  <2>1. ASSUME NEW b \in bindings, b.phase = "wait"
        PROVE  conn'[b.conn[1]][b.kind] = b.conn
    <3>1. conn[b.conn[1]][b.kind] = b.conn /\ b.conn[1] \in Obj /\ b.kind \in Kinds /\ b.conn # NoConn
      BY <2>1, BindingFacts DEF BindingInv
    <3>2. b.conn[1] # o
      BY <1>2, <3>1 DEF Null
    <3> QED
      BY <1>7, <3>1, <3>2
  <2>2. ASSUME NEW b \in NewBindings(o, c)
        PROVE  b.phase = "wait" /\ conn'[b.conn[1]][b.kind] = b.conn
    BY <1>1, <1>7, <1>11
  <2> QED
    BY <1>1, <2>1, <2>2 DEF BindingInv
<1>13. BearInv'
  <2>1. slots[o] = slot[o] \/ Posted(UnbindTask(o))
    BY <1>2 DEF OrderOf
  <2>2. ASSUME NEW b \in NewBindings(o, c)
        PROVE  Bears(o, b)' /\ (slots'[o] = b.slot \/ Posted(UnbindTask(o))')
    BY <1>1, <1>5, <1>11, <2>1
  <2>3. ASSUME NEW b \in bindings
        PROVE  \E p \in Obj : Bears(p, b)' /\ (slots'[p] = b.slot \/ Posted(UnbindTask(p))')
    BY <1>1, <1>5, <1>10 DEF BearInv
  <2> QED
    BY <1>1, <2>2, <2>3 DEF BearInv
<1>14. OrderInv'
  <2>1. ASSUME NEW p \in Obj, NEW i \in 1 .. Len(queue'), queue'[i] = BindTask(p)
        PROVE  OrderOf(p, i)'
    <3>1. Posted(BindTask(p)) => slots[p] = slot[p] \/ Posted(UnbindTask(p))
      BY DEF OrderInv, OrderOf, Posted
    <3>2. ASSUME NEW b \in bindings' PROVE Known(1, b)
      <4>1. CASE b \in bindings
        <5>1. \A q \in Obj : queue[1] # UnbindTask(q)
          BY <1>1, TaskKinds
        <5> QED
          BY <1>10, <4>1, <5>1 DEF Known
      <4>2. CASE b \in NewBindings(o, c)
        BY <1>1, <1>11, <4>2 DEF Known
      <4> QED
        BY <1>1, <4>1, <4>2
    <3>3. Posted(BindTask(p))' => slots'[p] = slot'[p] \/ Posted(UnbindTask(p))'
      BY <1>1, <1>5, <3>1
    <3> QED
      BY <1>1, <2>1, <3>2, <3>3, OrderKept
  <2> QED
    BY <2>1 DEF OrderInv
<1>15. ServingInv'
  <2>1. slot[o] \in Slots /\ serving \in [Kinds -> [Slots -> Ids \cup {NoId}]]
    BY DEF TypeOK, ObjType, SystemType
  <2>2. \A k \in Kinds : serving[k][slot[o]] = NoId
    BY <1>4, <2>1 DEF ServingInv
  <2>3. \A k \in Kinds, s \in Slots :
           serving'[k][s] = IF s = slot[o] THEN IdOf(o) ELSE serving[k][s]
    BY <1>1, <2>1, <2>2 DEF onBind
  <2>4. ASSUME NEW k \in Kinds, NEW s \in Slots, serving'[k][s] # NoId
        PROVE  \E b \in bindings' : b.kind = k /\ b.slot = s
    <3>1. CASE s = slot[o]
      <4> DEFINE b == [kind |-> k, conn |-> c, slot |-> slot[o], phase |-> "wait"]
      <4>1. b \in NewBindings(o, c) /\ b.kind = k /\ b.slot = s
        BY <3>1 DEF NewBindings
      <4> HIDE DEF b
      <4> QED
        BY <1>1, <4>1
    <3>2. CASE s # slot[o]
      BY <1>1, <2>3, <2>4, <3>2 DEF ServingInv
    <3> QED
      BY <3>1, <3>2
  <2>5. ASSUME NEW b \in bindings PROVE serving'[b.kind][b.slot] = IdOf(b.conn[1])
    BY <1>4, <2>3, BindingFacts DEF ServingInv
  <2>6. ASSUME NEW b \in NewBindings(o, c) PROVE serving'[b.kind][b.slot] = IdOf(b.conn[1])
    BY <1>1, <1>11, <2>1, <2>3
  <2> QED
    BY <1>1, <2>4, <2>5, <2>6 DEF ServingInv
<1> QED
  BY <1>8, <1>9, <1>12, <1>13, <1>14, <1>15

\* A session that is being closed.
Doer(o) == state[o] # "IDLE" /\ Posted(UnbindTask(o))
DoerInv == \A o \in Obj : Doer(o) =>
    IF o \in instances
    THEN \A t \in Threads : /\ pc[t] = "copy" => IdOf(o) \notin IdsOf(loaded[t] \ todo[t])
                            /\ pc[t] = "drop" => IdOf(o) \notin rows
    ELSE IdOf(o) \notin rows \cup NewIds \cup IdsOf(instances)

\* A service that answers belongs to the session of its object.
LEMMA ConnectsSession ==
    ASSUME TypeOK, SessionInv, NEW b0 \in bindings, Connects(b0)
    PROVE  SessionInv'
<1> USE DEF SessionInv
<1> DEFINE n == [b0 EXCEPT !.phase = "up"]
<1> PICK o \in Obj : o = b0.conn[1]
  BY BindingFacts
<1>1. /\ b0.phase = "wait"
      /\ state' = state \/ state' = [state EXCEPT ![o] = "RUNNING"]
      /\ bindings' = (bindings \ {b0}) \cup {n} /\ Shifts(0, {ServersTask})
      /\ UNCHANGED <<slot, conn, serving, slots>>
  BY DEF Connects
<1>2. /\ n.conn = b0.conn /\ n.kind = b0.kind /\ n.slot = b0.slot /\ n.phase = "up"
  BY Phased
<1>3. Linked(o) /\ ~Null(o)
  <2> HIDE DEF n
  <2>1. conn[o][b0.kind] = b0.conn
    BY <1>1 DEF BindingInv
  <2>2. b0.conn # NoConn /\ b0.kind \in Kinds
    BY BindingFacts
  <2> QED
    BY <2>1, <2>2 DEF ConnInv, Null
<1>4. \A p \in Obj : /\ Posted(BindTask(p))' <=> Posted(BindTask(p))
                     /\ Posted(UnbindTask(p))' <=> Posted(UnbindTask(p))
  BY <1>1, Shifted, TaskKinds
<1>5. /\ \A p : (Null(p)' <=> Null(p)) /\ (Linked(p)' <=> Linked(p))
      /\ \A p, b : Bears(p, b)' <=> Bears(p, b)
      /\ \A p : Bears(p, n) <=> Bears(p, b0)
  BY <1>1, <1>2 DEF Null, Linked, Bears
<1> HIDE DEF n
<1>6. \A p \in Obj : state'[p] = state[p] \/ (p = o /\ state'[p] = "RUNNING")
  BY <1>1 DEF TypeOK, ObjType
<1>7. StateInv' /\ ConnInv'
  BY <1>3, <1>4, <1>5, <1>6 DEF StateInv, ConnInv
<1>8. BindingInv'
  BY <1>1, <1>2 DEF BindingInv
<1>9. \A b \in bindings' : \E a \in bindings :
          /\ a.slot = b.slot /\ a.kind = b.kind /\ a.conn = b.conn
          /\ \A p : Bears(p, a) => Bears(p, b)'
  BY <1>1, <1>2, <1>5
<1>10. BearInv'
  BY <1>1, <1>4, <1>9 DEF BearInv
<1>11. OrderInv'
  <2>1. ASSUME NEW p \in Obj, NEW i \in 1 .. Len(queue'), queue'[i] = BindTask(p)
        PROVE  OrderOf(p, i)'
    <3>1. Posted(BindTask(p)) => slots[p] = slot[p] \/ Posted(UnbindTask(p))
      BY DEF OrderInv, OrderOf, Posted
    <3>2. \A b \in bindings' : Known(0, b)
      BY <1>9 DEF Known
    <3>3. Posted(BindTask(p))' => slots'[p] = slot'[p] \/ Posted(UnbindTask(p))'
      BY <1>1, <1>4, <3>1
    <3>4. BindTask(p) \notin {ServersTask}
      BY TaskKinds
    <3> QED
      BY <1>1, <2>1, <3>2, <3>3, <3>4, OrderKept
  <2> QED
    BY <2>1 DEF OrderInv
<1>12. ServingInv'
  <2>1. \A b \in bindings : \E a \in bindings' : a.kind = b.kind /\ a.slot = b.slot
    BY <1>1, <1>2
  <2> QED
    BY <1>1, <1>9, <2>1 DEF ServingInv
<1> QED
  BY <1>7, <1>8, <1>10, <1>11, <1>12

\* What the task of stop() does when nobody interferes: the profile becomes idle,
\* and no slot but its own is given back.
LEMMA UnbindFacts ==
    ASSUME TypeOK, TableInv, Resting, PlaceInv, DoerInv, SessionInv, NEW o \in Obj, Unbinds(o)
    PROVE  /\ Idles(o) <=> state[o] # "IDLE"
           /\ state'[o] = "IDLE" /\ \A p \in Obj \ {o} : state'[p] = state[p]
           /\ \A p \in Obj \ {o} : slots'[p] = slots[p]
           /\ ~Posted(BindTask(o)) /\ Posted(UnbindTask(o))
<1> USE DEF SessionInv
<1>1. /\ Len(queue) \in Nat /\ 1 \in 1 .. Len(queue) /\ queue[1] = UnbindTask(o)
      /\ state' = [state EXCEPT ![o] = IF Idles(o) THEN "IDLE" ELSE @]
      /\ slots' = IF Idles(o) THEN Released(o) ELSE slots
  BY EmptySeq, LenProperties DEF Unbinds, TypeOK, LooperType
<1>2. Posted(UnbindTask(o)) /\ state[o] # "STARTING"
  BY <1>1 DEF Posted, StateInv
<1>3. ~Posted(BindTask(o))
  <2>1. ASSUME NEW i \in 1 .. Len(queue), queue[i] = BindTask(o) PROVE FALSE
    <3>1. i # 1
      BY <1>1, <2>1, TaskKinds
    <3>2. Between(1, UnbindTask(o), i)
      BY <1>1, <3>1 DEF Between
    <3> QED
      BY <2>1, <3>2 DEF OrderInv, OrderOf
  <2> QED
    BY <2>1 DEF Posted
<1>4. Idles(o) <=> state[o] # "IDLE"
  <2>1. CASE state[o] = "IDLE"
    BY <2>1 DEF ConnInv, Null, Idles, IdleByKlippy, IdleByMoonraker, IdleAtLast, Kinds
  <2>2. CASE state[o] = "RUNNING"
    BY <2>2 DEF ConnInv, Linked, Idles, IdleByMoonraker, Kinds
  <2>3. CASE state[o] = "STOPPING"
    BY <2>3 DEF Idles, IdleAtLast
  <2> QED
    BY <1>2, <2>1, <2>2, <2>3 DEF TypeOK, ObjType, States
<1>5. state'[o] = "IDLE" /\ \A p \in Obj \ {o} : state'[p] = state[p]
  BY <1>1, <1>4 DEF TypeOK, ObjType
<1>6. ASSUME NEW p \in Obj \ {o}
      PROVE  slots'[p] = slots[p]
  <2>1. CASE ~Idles(o) \/ IdOf(p) # IdOf(o) \/ slots[p] = NoSlot
    BY <1>1, <2>1 DEF Released
  <2>2. CASE Idles(o) /\ IdOf(p) = IdOf(o) /\ slots[p] # NoSlot
    <3>1. p \in instances
      BY <2>2 DEF PlaceInv, Held
    <3>2. o \notin instances /\ IdOf(o) \in IdsOf(instances)
      BY <2>2, <3>1 DEF TableInv, Fits, IdsOf
    <3>3. Doer(o)
      BY <1>2, <1>4, <2>2 DEF Doer
    <3> QED
      BY <3>2, <3>3 DEF DoerInv
  <2> QED
    BY <2>1, <2>2
<1> QED
  BY <1>2, <1>3, <1>4, <1>5, <1>6

\* stop()'s task closes the session of its object and no other.
LEMMA SessionUnbinds ==
    ASSUME TypeOK, TableInv, Resting, PlaceInv, DoerInv, SessionInv, NEW o \in Obj, Unbinds(o)
    PROVE  SessionInv'
<1> USE DEF SessionInv
<1>1. /\ state'[o] = "IDLE" /\ \A p \in Obj \ {o} : state'[p] = state[p]
      /\ \A p \in Obj \ {o} : slots'[p] = slots[p]
      /\ ~Posted(BindTask(o)) /\ Posted(UnbindTask(o))
  BY UnbindFacts
<1>2. /\ Shifts(1, {StopServersTask}) /\ queue[1] = UnbindTask(o)
      /\ bindings' = Kept(o) /\ conn' = [conn EXCEPT ![o] = NullConn]
      /\ serving' = [k \in Kinds |-> [s \in Slots |->
            IF \E b \in Kept(o) : b.kind = k /\ b.slot = s THEN serving[k][s] ELSE NoId]]
      /\ UNCHANGED slot
  BY DEF Unbinds, Unbind
<1>3. \A p \in Obj : /\ Posted(BindTask(p))' => Posted(BindTask(p)) /\ p # o
                     /\ Posted(UnbindTask(p))' => Posted(UnbindTask(p))
                     /\ Posted(UnbindTask(p)) /\ p # o => Posted(UnbindTask(p))'
  BY <1>1, <1>2, Shifted, TaskKinds
<1>4. conn'[o] = NullConn /\ \A p \in Obj \ {o} : conn'[p] = conn[p]
  BY <1>2 DEF TypeOK, ObjType
<1>5. StateInv'
  BY <1>1, <1>3 DEF StateInv
<1>6. ConnInv'
  <2>1. Null(o)'
    BY <1>4 DEF Null, NullConn
  <2>2. \A p \in Obj \ {o} : (Null(p)' <=> Null(p)) /\ (Linked(p)' <=> Linked(p))
    BY <1>4 DEF Null, Linked
  <2> QED
    BY <1>1, <1>3, <2>1, <2>2 DEF ConnInv
<1>7. ASSUME NEW b \in bindings'
      PROVE  /\ b \in bindings /\ b.conn # conn[o][b.kind]
             /\ \A p \in Obj : Bears(p, b) => p # o /\ Bears(p, b)'
  BY <1>2, <1>4 DEF Kept, Bears
<1>8. BindingInv'
  <2>1. ASSUME NEW b \in bindings', b.phase = "wait"
        PROVE  conn'[b.conn[1]][b.kind] = b.conn
    <3>1. conn[b.conn[1]][b.kind] = b.conn /\ b.conn[1] \in Obj \ {o}
      BY <1>7, <2>1, BindingFacts DEF BindingInv
    <3> QED
      BY <1>4, <3>1
  <2> QED
    BY <1>7, <2>1 DEF BindingInv
<1>9. BearInv'
  BY <1>1, <1>3, <1>7 DEF BearInv
<1>10. OrderInv'
  <2>1. ASSUME NEW p \in Obj, NEW i \in 1 .. Len(queue'), queue'[i] = BindTask(p)
        PROVE  OrderOf(p, i)'
    <3>1. Posted(BindTask(p)) => slots[p] = slot[p] \/ Posted(UnbindTask(p))
      BY DEF OrderInv, OrderOf, Posted
    <3>2. ASSUME NEW b \in bindings' PROVE Known(1, b)
      <4>1. \A q \in Obj \ {o} : queue[1] # UnbindTask(q)
        BY <1>2, TaskKinds
      <4> QED
        BY <1>7, <4>1 DEF Known
    <3>3. Posted(BindTask(p))' => slots'[p] = slot'[p] \/ Posted(UnbindTask(p))'
      BY <1>1, <1>2, <1>3, <3>1
    <3>4. BindTask(p) \notin {StopServersTask}
      BY TaskKinds
    <3> QED
      BY <1>2, <2>1, <3>2, <3>3, <3>4, OrderKept
  <2> QED
    BY <2>1 DEF OrderInv
<1>11. ServingInv'
  <2>1. ASSUME NEW k \in Kinds, NEW s \in Slots
        PROVE  serving'[k][s] = IF \E b \in Kept(o) : b.kind = k /\ b.slot = s
                                THEN serving[k][s] ELSE NoId
    BY <1>2
  <2>2. \A b \in bindings' : b.kind \in Kinds /\ b.slot \in Slots
    BY <1>7, BindingFacts
  <2> QED
    BY <1>2, <1>7, <2>1, <2>2 DEF ServingInv
<1> QED
  BY <1>5, <1>6, <1>8, <1>9, <1>10, <1>11

-----------------------------------------------------------------------------
\* Ids that have a row, or will get one, never come from elsewhere.
LEMMA TableIds ==
    ASSUME TypeOK, Next
    PROVE  (rows \cup NewIds)' \subseteq rows \cup NewIds
<1> DEFINE Goal == (rows \cup NewIds)' \subseteq rows \cup NewIds
<1>1. CASE UNCHANGED <<rows, pending, fresh>>
  BY <1>1 DEF NewIds, Inserts
<1>2. CASE UNCHANGED tableVars \/ StartUi
           \/ \E t \in Threads : ReadRows(t) \/ Publish(t) \/ ReloadDone(t)
  BY <1>1, <1>2 DEF tableVars, StartUi, ReadRows, Publish, ReloadDone, dbVars
<1>3. ASSUME NEW w \in pending, DbWriteOnIo(w) PROVE Goal
  <2>1. /\ pending' = pending \ {w} /\ UNCHANGED fresh
        /\ rows' = CASE w.op = "insert" -> rows \cup {w.id}
                     [] w.op = "delete" -> rows \ {w.id}
                     [] OTHER -> rows
    BY <1>3 DEF DbWriteOnIo, WriteRow
  <2>2. NewIds' \subseteq NewIds /\ (w.op = "insert" => w.id \in NewIds)
    BY <2>1 DEF NewIds, Inserts
  <2>3. rows' \subseteq rows \cup (IF w.op = "insert" THEN {w.id} ELSE {})
    BY <2>1
  <2> QED
    BY <2>2, <2>3
<1>4. CASE \E o \in view : delete(o) \/ \E a \in BOOLEAN : saveEdited(o, a)
  <2>1. /\ UNCHANGED <<rows, fresh>>
        /\ \E w : w.op # "insert" /\ pending' = pending \cup {w}
    BY <1>4 DEF delete, saveEdited, Launch
  <2>2. Inserts' = Inserts
    BY <2>1 DEF Inserts
  <2> QED
    BY <2>1, <2>2 DEF NewIds
<1>5. ASSUME NEW i \in fresh, NEW a \in BOOLEAN, saveNew(i, a) PROVE Goal
  <2> DEFINE w == [op |-> "insert", id |-> i, auto |-> a]
  <2>1. UNCHANGED rows /\ fresh' = fresh \ {i} /\ pending' = pending \cup {w}
    BY <1>5 DEF saveNew, Launch
  <2>2. w.id = i
    OBVIOUS
  <2>3. Inserts' \subseteq Inserts \cup {w}
    BY <2>1 DEF Inserts
  <2> QED
    BY <2>1, <2>2, <2>3 DEF NewIds
<1> QED
  BY TableSteps, <1>2, <1>3, <1>4, <1>5, Zenon

\* A session begins to close only while its object is published.
LEMMA DoersPublished ==
    ASSUME TypeOK, SessionInv, Roams, calm', deaths' = 0, HeldInv, NEW o \in Obj, Doer(o)'
    PROVE  Doer(o) \/ o \in instances
<1> USE DEF Doer
<1>1. ASSUME UNCHANGED state, Posted(UnbindTask(o))' => Posted(UnbindTask(o)) PROVE Doer(o)
  BY <1>1
<1>2. CASE Bystands \/ Clears
  <2>1. Posted(UnbindTask(o))' => Posted(UnbindTask(o))
    BY <1>2, Shifted, TaskKinds DEF Bystands, Clears
  <2> QED
    BY <1>1, <1>2, <2>1 DEF Bystands, Clears, sessionVars
<1>3. ASSUME NEW p \in Obj, Stops(p) PROVE Doer(o) \/ o \in instances
  <2>1. CASE o = p
    BY <1>3, <2>1 DEF Stops
  <2>2. CASE o # p
    <3>1. Halts(p)
      BY <1>3, StopsHalts
    <3>2. Posted(UnbindTask(o))' => Posted(UnbindTask(o))
      BY <2>2, <3>1, Shifted, TaskKinds DEF Halts
    <3> QED
      BY <2>2, <3>1, <3>2 DEF Halts
  <2> QED
    BY <2>1, <2>2
<1>4. ASSUME NEW p \in Obj, NEW c \in Conn, Binds(p, c) PROVE Doer(o)
  BY <1>1, <1>4, Shifted DEF Binds
<1>5. ASSUME NEW p \in Obj, Unbinds(p) PROVE Doer(o)
  <2>1. Posted(UnbindTask(o))' => Posted(UnbindTask(o))
    BY <1>5, Shifted, TaskKinds DEF Unbinds
  <2>2. state'[o] # "IDLE" => state[o] # "IDLE"
    BY <1>5 DEF Unbinds, TypeOK, ObjType
  <2> QED
    BY <2>1, <2>2
<1>6. ASSUME NEW b \in bindings, Connects(b) PROVE Doer(o)
  <2>1. Posted(UnbindTask(o))' => Posted(UnbindTask(o))
    BY <1>6, Shifted, TaskKinds DEF Connects
  <2>2. state[b.conn[1]] # "IDLE"
    <3>1. conn[b.conn[1]][b.kind] = b.conn
      BY <1>6 DEF Connects, SessionInv, BindingInv
    <3>2. ~Null(b.conn[1]) /\ b.conn[1] \in Obj
      BY <3>1, BindingFacts DEF Null
    <3> QED
      BY <3>2 DEF SessionInv, ConnInv
  <2>3. state'[o] # "IDLE" => state[o] # "IDLE"
    <3>1. state' = state \/ state' = [state EXCEPT ![b.conn[1]] = "RUNNING"]
      BY <1>6 DEF Connects
    <3> QED
      BY <2>2, <3>1, BindingFacts DEF TypeOK, ObjType
  <2> QED
    BY <2>1, <2>3
<1>7. ASSUME NEW b \in bindings, Disconnects(b) PROVE FALSE
  BY <1>7 DEF SessionInv, BindingInv, Disconnects
<1> QED
  BY <1>2, <1>3, <1>4, <1>5, <1>6, <1>7, BindShape, UnbindShape, ConnectShape,
     DisconnectShape DEF Roams

-----------------------------------------------------------------------------
(* Sessions that are being closed stay away from what a reload reads.      *)

\* A step that begins and goes on with no reload.
LEMMA DoersAside ==
    ASSUME TypeOK, DoerInv, Next, UNCHANGED instances,
           \A t \in Threads : pc'[t] \notin {"copy", "drop"},
           \A o \in Obj : Doer(o)' => Doer(o) \/ o \in instances
    PROVE  DoerInv'
<1>1. ASSUME NEW o \in Obj, Doer(o)', o \notin instances
      PROVE  IdOf(o) \notin (rows \cup NewIds \cup IdsOf(instances))'
  <2>1. IdOf(o) \notin rows \cup NewIds \cup IdsOf(instances)
    BY <1>1 DEF DoerInv
  <2>2. IdsOf(instances)' = IdsOf(instances)
    BY DEF IdsOf
  <2> QED
    BY <2>1, <2>2, TableIds
<1> QED
  BY <1>1 DEF DoerInv

\* A step that leaves the sessions and their tasks.
LEMMA DoersSame ==
    ASSUME UNCHANGED <<state, queue>>, NEW o
    PROVE  Doer(o)' <=> Doer(o)
BY DEF Doer, Posted

\* The steps outside the critical sections keep DoerInv,
LEMMA DoersRoam ==
    ASSUME TypeOK, DoerInv, SessionInv, HeldInv, Next, Roams, calm', deaths' = 0
    PROVE  DoerInv'
<1>1. UNCHANGED instances /\ \A t \in Threads : pc'[t] \notin {"copy", "drop"}
  BY DEF Roams, Loose
<1> QED
  BY <1>1, DoersPublished, DoersAside

\* ... start() up to the choice of a slot,
LEMMA DoersBegin ==
    ASSUME TypeOK, DoerInv, Next, NEW t \in Threads, NEW p \in Obj, Begins(t, p), calm'
    PROVE  DoerInv'
<1>1. UNCHANGED <<instances, queue>> /\ \A u \in Threads : pc'[u] \notin {"copy", "drop"}
  BY DEF Begins, Busy, TypeOK, ThreadType
<1>2. ASSUME NEW o \in Obj, Doer(o)' PROVE Doer(o)
  <2>1. Posted(UnbindTask(o))
    BY <1>1, <1>2 DEF Doer, Posted
  <2>2. o # p
    BY <2>1, AwaitedWaits DEF Begins, Waits
  <2> QED
    BY <1>2, <2>1, <2>2 DEF Begins, Doer, TypeOK, ObjType
<1> QED
  BY <1>1, <1>2, DoersAside

\* ... the choice of a slot,
LEMMA DoersPick ==
    ASSUME TypeOK, DoerInv, Next, NEW t \in Threads, PickSlot(t), calm'
    PROVE  DoerInv'
<1>1. UNCHANGED <<instances, state, queue>> /\ \A u \in Threads : pc'[u] \notin {"copy", "drop"}
  <2>1. \A u \in Threads : u # t => ~Busy(u)
    BY Alone DEF PickSlot
  <2> QED
    BY <2>1 DEF PickSlot, Busy, TypeOK, ThreadType, regVars
<1> QED
  BY <1>1, DoersSame, DoersAside

\* ... the entry in `slots`,
LEMMA DoersPut ==
    ASSUME TypeOK, DoerInv, StartInv, Next, NEW t \in Threads, PutSlot(t), calm'
    PROVE  DoerInv'
<1>1. UNCHANGED <<instances, state>> /\ \A u \in Threads : pc'[u] \notin {"copy", "drop"}
  <2>1. \A u \in Threads : u # t => ~Busy(u)
    BY Alone DEF PutSlot
  <2> QED
    BY <2>1 DEF PutSlot, Busy, TypeOK, ThreadType, objVars
<1>2. ASSUME NEW o \in Obj, Doer(o)' PROVE Doer(o)
  <2>1. PICK c \in Obj : c = cur[t]
    BY DEF PutSlot, StartInv, TypeOK, RegistryType
  <2>2. Shifts(0, {BindTask(c)})
    BY <2>1, TaskShape, ShiftsAppend DEF PutSlot, TypeOK, LooperType
  <2>3. UnbindTask(o) # BindTask(c)
    BY TaskKinds
  <2> QED
    BY <1>1, <1>2, <2>2, <2>3, Shifted DEF Doer
<1> QED
  BY <1>1, <1>2, DoersAside

\* ... and the reading of the table.
LEMMA DoersRead ==
    ASSUME TypeOK, DoerInv, Next, NEW t \in Threads, ReadRows(t), calm'
    PROVE  DoerInv'
<1>1. UNCHANGED <<instances, state, queue, rows>> /\ IdsOf(instances)' = IdsOf(instances)
  BY DEF ReadRows, regVars, dbVars, IdsOf
<1>2. \A u \in Threads : IF u = t THEN pc'[u] = "copy" /\ loaded'[u] \ todo'[u] = {}
                         ELSE pc'[u] \notin {"copy", "drop"}
  <2>1. \A u \in Threads : u # t => ~Busy(u)
    BY Alone DEF ReadRows
  <2> QED
    BY <2>1 DEF ReadRows, Busy, TypeOK, ThreadType
<1>3. \A u \in Threads : pc'[u] = "copy" => IdsOf(loaded'[u] \ todo'[u]) = {}
  BY <1>2 DEF IdsOf
<1>4. (rows \cup NewIds)' \subseteq rows \cup NewIds
  BY TableIds
<1>5. \A u \in Threads : pc'[u] # "drop"
  BY <1>2
<1>6. \A o \in Obj : Doer(o)' => Doer(o)
  BY <1>1, DoersSame
<1>7. ASSUME NEW o \in Obj, Doer(o)', o \in instances
      PROVE  \A u \in Threads : pc'[u] = "copy" => IdOf(o) \notin IdsOf(loaded'[u] \ todo'[u])
  BY <1>3
<1>8. ASSUME NEW o \in Obj, Doer(o)', o \notin instances
      PROVE  IdOf(o) \notin (rows \cup NewIds \cup IdsOf(instances))'
  BY <1>1, <1>4, <1>6, <1>8 DEF DoerInv
<1> QED
  BY <1>1, <1>5, <1>7, <1>8 DEF DoerInv

\* Only settled objects are copied, so no session that is being closed is.
LEMMA DoersCopy ==
    ASSUME TypeOK, TableInv, FreshInv, DoerInv, Next, NEW t \in Threads, CopyOne(t), calm'
    PROVE  DoerInv'
<1>1. /\ UNCHANGED <<instances, queue, pc, loaded, rows>> /\ pc[t] = "copy"
      /\ IdsOf(instances)' = IdsOf(instances)
  BY CopyShape DEF IdsOf
<1>2. PICK o \in todo[t] : /\ o \in Obj /\ todo' = [todo EXCEPT ![t] = @ \ {o}]
                           /\ \/ /\ getInstance(IdOf(o)) = {}
                                 /\ UNCHANGED <<state, slot, conn, slots>>
                              \/ \E was \in instances : Copies(t, o, was)
  BY CopyShape
<1>3. \A u \in Threads : u # t => pc[u] \notin {"copy", "drop"}
  BY Alone DEF CopyOne, Busy
<1>4. todo'[t] = todo[t] \ {o}
  BY <1>2 DEF TypeOK, ThreadType
<1>5. \A p \in Obj : Posted(UnbindTask(p))' <=> Posted(UnbindTask(p))
  BY <1>1 DEF Posted
<1>6. ~Posted(UnbindTask(o))
  BY <1>1, <1>2 DEF FreshInv, Fresh, Blank, Waits
<1>7. ASSUME NEW p \in Obj, Doer(p)' PROVE Doer(p)
  <2>1. p # o /\ Posted(UnbindTask(p))
    BY <1>5, <1>6, <1>7 DEF Doer
  <2>2. state'[p] = state[p]
    BY <1>2, <2>1 DEF Copies, TypeOK, ObjType
  <2> QED
    BY <1>7, <2>1, <2>2 DEF Doer
<1>8. ASSUME NEW p \in Obj, Doer(p), p \in instances PROVE IdOf(p) # IdOf(o)
  <2>1. SUFFICES ASSUME IdOf(p) = IdOf(o) PROVE FALSE
    OBVIOUS
  <2>2. p \in getInstance(IdOf(o))
    BY <1>8, <2>1 DEF getInstance
  <2>3. PICK was \in instances : Copies(t, o, was)
    BY <1>2, <2>2
  <2>4. was = p
    BY <1>8, <2>1, <2>3 DEF Copies, getInstance, TableInv, Fits
  <2>5. Settled(p)
    BY <2>3, <2>4 DEF Copies, Note
  <2> QED
    BY <1>8, <2>5, AwaitedWaits DEF Settled, Doer, Waits
<1>9. IdsOf(loaded[t] \ todo'[t]) \subseteq IdsOf(loaded[t] \ todo[t]) \cup {IdOf(o)}
  BY <1>4 DEF IdsOf
<1>10. (rows \cup NewIds)' \subseteq rows \cup NewIds
  BY TableIds
<1>11. ASSUME NEW p \in Obj, Doer(p)', p \in instances, NEW u \in Threads
       PROVE  /\ pc'[u] = "copy" => IdOf(p) \notin IdsOf(loaded'[u] \ todo'[u])
              /\ pc'[u] # "drop"
  <2>1. Doer(p)
    BY <1>7, <1>11
  <2>2. IdOf(p) \notin IdsOf(loaded[t] \ todo[t])
    BY <1>1, <1>11, <2>1 DEF DoerInv
  <2> QED
    BY <1>1, <1>3, <1>8, <1>9, <1>11, <2>1, <2>2
<1>12. ASSUME NEW p \in Obj, Doer(p)', p \notin instances
       PROVE  IdOf(p) \notin (rows \cup NewIds \cup IdsOf(instances))'
  BY <1>1, <1>7, <1>10, <1>12 DEF DoerInv
<1> QED
  BY <1>1, <1>11, <1>12 DEF DoerInv

LEMMA DoersList ==
    ASSUME TypeOK, CopyInv, DoerInv, Next, NEW t \in Threads, ListGone(t), calm'
    PROVE  DoerInv'
<1>1. /\ UNCHANGED <<instances, state, queue, loaded, rows>> /\ IdsOf(instances)' = IdsOf(instances)
      /\ pc[t] = "copy" /\ todo[t] = {} /\ loaded[t] \ todo[t] = loaded[t]
  BY DEF ListGone, objVars, regVars, dbVars, IdsOf
<1>2. \A u \in Threads : /\ pc'[u] # "copy"
                         /\ pc'[u] = "drop" => u = t
  <2>1. \A u \in Threads : u # t => ~Busy(u)
    BY Alone DEF ListGone
  <2> QED
    BY <2>1 DEF ListGone, Busy, TypeOK, ThreadType
<1>3. IdsOf(loaded[t] \ todo[t]) = rows
  BY <1>1 DEF CopyInv, Restless
<1>4. (rows \cup NewIds)' \subseteq rows \cup NewIds
  BY TableIds
<1>5. \A o \in Obj : Doer(o)' => Doer(o)
  BY <1>1, DoersSame
<1>6. ASSUME NEW o \in Obj, Doer(o)', o \in instances PROVE IdOf(o) \notin rows'
  BY <1>1, <1>3, <1>5, <1>6 DEF DoerInv
<1>7. ASSUME NEW o \in Obj, Doer(o)', o \notin instances
      PROVE  IdOf(o) \notin (rows \cup NewIds \cup IdsOf(instances))'
  BY <1>1, <1>4, <1>5, <1>7 DEF DoerInv
<1> QED
  BY <1>1, <1>2, <1>6, <1>7 DEF DoerInv

\* The second loop closes sessions of published objects without a row.
LEMMA DoersDrop ==
    ASSUME TypeOK, PlaceInv, DoerInv, Next, NEW t \in Threads, DropOne(t), calm'
    PROVE  DoerInv'
<1>1. /\ UNCHANGED <<pc, loaded, rows, instances>> /\ pc[t] = "drop"
      /\ IdsOf(instances)' = IdsOf(instances)
  BY DropShape DEF Drops, IdsOf
<1>2. PICK o \in todo[t] : o \in Obj /\ Drops(o)
  BY DropShape
<1>3. o \in instances /\ IdOf(o) \notin rows
  BY <1>1, <1>2 DEF PlaceInv
<1>4. \A u \in Threads : pc'[u] # "copy"
  <2>1. \A u \in Threads : u # t => ~Busy(u)
    BY Alone DEF DropOne
  <2> QED
    BY <1>1, <2>1 DEF Busy
<1>5. ASSUME NEW p \in Obj, p # o, Doer(p)' PROVE Doer(p)
  <2>1. Posted(UnbindTask(p))' => Posted(UnbindTask(p))
    <3>1. CASE UNCHANGED queue
      BY <3>1 DEF Posted
    <3>2. CASE queue' = Append(queue, UnbindTask(o))
      <4>1. Shifts(0, {UnbindTask(o)})
        BY <1>2, <3>2, TaskShape, ShiftsAppend DEF TypeOK, LooperType
      <4> QED
        BY <1>2, <1>5, <4>1, Shifted, TaskKinds
    <3> QED
      BY <1>2, <3>1, <3>2 DEF Drops
  <2>2. state'[p] = state[p]
    BY <1>2, <1>5 DEF Drops, TypeOK, ObjType
  <2> QED
    BY <1>5, <2>1, <2>2 DEF Doer
<1>6. (rows \cup NewIds)' \subseteq rows \cup NewIds
  BY TableIds
<1>7. ASSUME NEW p \in Obj, Doer(p)', p \in instances PROVE IdOf(p) \notin rows'
  <2>1. CASE p = o
    BY <1>1, <1>3, <2>1
  <2>2. CASE p # o
    BY <1>1, <1>5, <1>7, <2>2 DEF DoerInv
  <2> QED
    BY <2>1, <2>2
<1>8. ASSUME NEW p \in Obj, Doer(p)', p \notin instances
      PROVE  IdOf(p) \notin (rows \cup NewIds \cup IdsOf(instances))'
  <2>1. Doer(p)
    BY <1>3, <1>5, <1>8
  <2> QED
    BY <1>1, <1>6, <1>8, <2>1 DEF DoerInv
<1> QED
  BY <1>1, <1>4, <1>7, <1>8 DEF DoerInv

\* The tasks a reload posts at its end are the servers' and the screen's.
LEMMA PublishShifts ==
    ASSUME TypeOK, NEW t, Publish(t)
    PROVE  Shifts(0, ServerTask)
<1>1. /\ StopServersTask \in Task /\ RefreshTask \in Task
      /\ StopServersTask \in ServerTask /\ RefreshTask \in ServerTask
  BY TaskKinds DEF ServerTask
<1>2. queue \in Seq(Task) /\ queue' = queue \o <<StopServersTask, RefreshTask>>
  BY DEF Publish, TypeOK, LooperType
<1>3. Shifts(0, {StopServersTask, RefreshTask})
  BY <1>1, <1>2, ShiftsTwo
<1> QED
  BY <1>1, <1>3 DEF Shifts

\* The deleted profiles that are being closed leave the list; no new profile
\* will have their ids.
LEMMA DoersPublish ==
    ASSUME TypeOK, TableInv, CopyInv, DoerInv, Next, NEW t \in Threads, Publish(t), calm'
    PROVE  DoerInv'
<1>1. /\ UNCHANGED <<state, rows>> /\ instances' = loaded[t] /\ pc[t] = "drop"
  BY DEF Publish, objVars, dbVars
<1>2. \A u \in Threads : pc'[u] \notin {"copy", "drop"}
  <2>1. \A u \in Threads : u # t => ~Busy(u)
    BY Alone DEF Publish
  <2> QED
    BY <2>1 DEF Publish, Busy, TypeOK, ThreadType
<1>3. IdsOf(instances)' = rows
  <2>1. IdsOf(loaded[t]) = rows
    BY <1>1 DEF CopyInv, Restless
  <2> QED
    BY <1>1, <2>1 DEF IdsOf
<1>4. \A o \in Obj : Doer(o)' => Doer(o)
  BY <1>1, PublishShifts, Shifted, TaskKinds DEF Doer
<1>5. ASSUME NEW o \in Obj, Doer(o)', o \notin instances'
      PROVE  IdOf(o) \notin (rows \cup NewIds \cup IdsOf(instances))'
  <2>1. Doer(o)
    BY <1>4, <1>5
  <2>2. IdOf(o) \notin rows \cup NewIds
    <3>1. CASE o \in instances
      <4>1. IdOf(o) \notin rows
        BY <1>1, <2>1, <3>1 DEF DoerInv
      <4>2. IdOf(o) \in IdsOf(instances)
        BY <3>1 DEF IdsOf
      <4> QED
        BY <4>1, <4>2 DEF TableInv, Fits
    <3>2. CASE o \notin instances
      BY <2>1, <3>2 DEF DoerInv
    <3> QED
      BY <3>1, <3>2
  <2>3. (rows \cup NewIds)' \subseteq rows \cup NewIds
    BY TableIds
  <2> QED
    BY <1>1, <1>3, <2>2, <2>3
<1> QED
  BY <1>2, <1>5 DEF DoerInv

\* The screen's first reading finds no session to close.
LEMMA DoersUi ==
    ASSUME TypeOK, DoerInv, Next, StartUi, calm'
    PROVE  DoerInv'
<1>1. /\ UNCHANGED <<state, queue, rows, pc>> /\ pc["main"] = "idle"
      /\ \/ instances = {} /\ instances' = OfRows(rows, gen + 1)
         \/ UNCHANGED instances
  BY DEF StartUi, dbVars, thrVars, MainFree, OfRows
<1>2. \A u \in Threads : pc'[u] \notin {"copy", "drop"}
  <2>1. "main" \in Threads /\ \A u \in Threads : u = "main" \/ u = "io"
    BY DEF Threads
  <2>2. \A u \in Threads : u # "main" => ~Busy(u)
    BY <2>1, Alone DEF StartUi
  <2> QED
    BY <1>1, <2>2 DEF Busy
<1>3. \A o \in Obj : Doer(o)' => Doer(o)
  BY <1>1, DoersSame
<1>4. CASE UNCHANGED instances
  <2>1. UNCHANGED instances
    BY <1>4
  <2> QED
    BY <1>2, <1>3, <2>1, DoersAside
<1>5. CASE instances = {} /\ instances' = OfRows(rows, gen + 1)
  <2>1. IdsOf(instances)' = rows
    <3>1. IdsOf(OfRows(rows, gen + 1)) = rows
      BY NewObjects
    <3> QED
      BY <1>5, <3>1 DEF IdsOf
  <2>2. ASSUME NEW o \in Obj, Doer(o)'
        PROVE  IdOf(o) \notin (rows \cup NewIds \cup IdsOf(instances))'
    <3>1. Doer(o) /\ o \notin instances
      BY <1>3, <1>5, <2>2
    <3>2. IdOf(o) \notin rows \cup NewIds
      BY <3>1 DEF DoerInv
    <3>3. (rows \cup NewIds)' \subseteq rows \cup NewIds
      BY TableIds
    <3> QED
      BY <1>1, <2>1, <3>2, <3>3
  <2> QED
    BY <1>2, <2>2 DEF DoerInv
<1> QED
  BY <1>1, <1>4, <1>5

\* Every step keeps DoerInv.
LEMMA NextDoers ==
    ASSUME CalmInv, calm, SessionInv, DoerInv, Next, calm', deaths' = 0
    PROVE  DoerInv'
<1>1. TypeOK /\ CoreInv /\ TableInv
  BY DEF CalmInv, SlotsInv
<1>2. FreshInv /\ CopyInv /\ PlaceInv /\ HeldInv /\ StartInv
  BY <1>1 DEF CoreInv
<1>3. ASSUME NEW k \in Kinds, NEW s \in Slots, Die(k, s) PROVE FALSE
  BY <1>1, <1>3 DEF Die, TypeOK, CountType
<1> QED
  BY <1>1, <1>2, <1>3, StepShapes, DoersRoam, DoersBegin, DoersPick, DoersPut, DoersRead,
     DoersCopy, DoersList, DoersDrop, DoersPublish, DoersUi

-----------------------------------------------------------------------------
\* Between the choice of a slot and slots[this] = slot nobody binds the object.
LEMMA NextStartNull ==
    ASSUME CalmInv, calm, SessionInv, StartNull, Next, calm', deaths' = 0
    PROVE  StartNull'
<1>1. TypeOK /\ TurnInv /\ StartInv
  BY DEF CalmInv, SlotsInv, CoreInv
<1>2. CASE \A t \in Threads : pc'[t] \notin {"slot", "put"}
  BY <1>2 DEF StartNull
<1>3. CASE Roams
  BY <1>2, <1>3 DEF Roams, Loose
<1>4. ASSUME NEW t \in Threads, NEW o \in Obj, Begins(t, o) PROVE StartNull'
  <2>1. \A u \in Threads : pc'[u] \in {"slot", "put"} => u = t /\ cur'[u] = o
    BY <1>1, <1>4 DEF Begins, Busy, TypeOK, ThreadType
  <2>2. Null(o) /\ UNCHANGED conn
    BY <1>4 DEF Begins, SessionInv, ConnInv
  <2> QED
    BY <2>1, <2>2 DEF StartNull, Null
<1>5. ASSUME NEW t \in Threads, PickSlot(t) PROVE StartNull'
  <2>1. UNCHANGED <<conn, cur>> /\ pc[t] = "slot"
    BY <1>5 DEF PickSlot
  <2>2. \A u \in Threads : pc'[u] \in {"slot", "put"} => pc[u] \in {"slot", "put"}
    BY <1>1, <1>5 DEF PickSlot, TypeOK, ThreadType
  <2> QED
    BY <2>1, <2>2 DEF StartNull, Null
<1>6. ASSUME NEW t \in Threads,
             PutSlot(t) \/ ReadRows(t) \/ CopyOne(t) \/ ListGone(t) \/ DropOne(t) \/ Publish(t)
      PROVE  StartNull'
  <2>1. \A u \in Threads : u # t => ~Busy(u)
    <3>1. \E ok : Note(t, ok)
      BY <1>6 DEF PutSlot, ReadRows, CopyOne, ListGone, DropOne, Publish
    <3> QED
      BY <1>1, <3>1, Alone
  <2>2. /\ \A u \in Threads : u # t => pc'[u] = pc[u]
        /\ pc'[t] \notin {"slot", "put"}
    BY <1>1, <1>6 DEF PutSlot, ReadRows, CopyOne, ListGone, DropOne, Publish, TypeOK, ThreadType
  <2> QED
    BY <1>2, <2>1, <2>2 DEF Busy
<1>7. CASE StartUi
  <2>1. UNCHANGED <<pc, conn, cur>>
    BY <1>7 DEF StartUi, thrVars
  <2> QED
    BY <2>1 DEF StartNull, Null
<1>8. ASSUME NEW k \in Kinds, NEW s \in Slots, Die(k, s) PROVE FALSE
  BY <1>1, <1>8 DEF Die, TypeOK, CountType
<1> QED
  BY <1>1, <1>3, <1>4, <1>5, <1>6, <1>7, <1>8, StepShapes

LEMMA SessionRoams ==
    ASSUME TypeOK, TableInv, CoreInv, SessionInv, DoerInv, Roams, calm'
    PROVE  SessionInv'
<1>1. HeldInv /\ PlaceInv
  BY DEF CoreInv
<1>2. Resting
  BY DEF Roams, Loose, Resting, Restless, Busy
<1>3. CASE Clears
  <2>1. \A o \in Obj : slots[o] = NoSlot
    BY <1>1, <1>3 DEF Clears, HeldInv, Held
  <2>2. slots' = slots
    BY <1>3, <2>1 DEF Clears, TypeOK, RegistryType
  <2>3. Bystands
    BY <1>3, <2>2 DEF Clears, Bystands
  <2> QED
    BY <2>3, SessionBystands
<1>4. CASE \E o \in Obj : Stops(o)
  BY <1>4, StopsHalts, SessionHalts
<1>5. CASE RunBind
  BY <1>5, BindShape, SessionBinds
<1>6. CASE RunUnbind
  BY <1>1, <1>2, <1>6, UnbindShape, SessionUnbinds
<1>7. ASSUME NEW b \in bindings, onServiceConnected(b) PROVE SessionInv'
  BY <1>7, ConnectShape, ConnectsSession
<1>8. ASSUME NEW b \in bindings, onServiceDisconnected(b) PROVE FALSE
  <2>1. Disconnects(b)
    BY <1>8, DisconnectShape
  <2> QED
    BY <2>1 DEF Disconnects, SessionInv, BindingInv
<1> QED
  BY <1>3, <1>4, <1>5, <1>6, <1>7, <1>8, SessionBystands DEF Roams

\* ... start() up to the choice of a slot,
LEMMA SessionBegins ==
    ASSUME TypeOK, SessionInv, NEW t \in Threads, NEW o \in Obj, Begins(t, o), calm'
    PROVE  SessionInv'
<1>1. /\ state[o] = "IDLE" /\ state' = [state EXCEPT ![o] = "STARTING"] /\ ~Awaited(o)
      /\ UNCHANGED <<slot, conn, bindings, serving, slots, queue>>
  BY DEF Begins
<1>2. Null(o) /\ ~Waits(o)
  BY <1>1, AwaitedWaits DEF SessionInv, ConnInv
<1>3. /\ state'[o] = "STARTING"
      /\ \A p \in Obj \ {o} : state'[p] = state[p] /\ slot'[p] = slot[p]
  BY <1>1 DEF TypeOK, ObjType
<1> QED
  BY <1>1, <1>2, <1>3, SessionStart

\* ... the choice of a slot,
LEMMA SessionPickSlot ==
    ASSUME TypeOK, StartInv, StartNull, SessionInv, NEW t \in Threads, PickSlot(t)
    PROVE  SessionInv'
<1>1. /\ pc[t] = "slot" /\ UNCHANGED <<state, conn, bindings, serving, slots, queue>>
      /\ \/ UNCHANGED slot
         \/ \E s : slot' = [slot EXCEPT ![cur[t]] = s]
  BY DEF PickSlot, regVars, sysVars
<1>2. PICK c \in Obj : c = cur[t]
  BY <1>1 DEF StartInv, TypeOK, RegistryType
<1>3. Null(c) /\ ~Waits(c) /\ state'[c] = "STARTING"
  BY <1>1, <1>2 DEF StartInv, StartNull
<1>4. \A p \in Obj \ {c} : state'[p] = state[p] /\ slot'[p] = slot[p]
  BY <1>1, <1>2 DEF TypeOK, ObjType
<1> QED
  BY <1>1, <1>3, <1>4, SessionStart

\* The steps of a reload and of the user interface that leave the sessions.
LEMMA SessionReads ==
    ASSUME TypeOK, SessionInv, NEW t \in Threads,
           ReadRows(t) \/ ListGone(t) \/ Publish(t) \/ StartUi
    PROVE  SessionInv'
<1>1. UNCHANGED sessionVars /\ UNCHANGED slots
  BY DEF ReadRows, ListGone, Publish, StartUi, sessionVars, objVars, regVars, sysVars, cntVars
<1>2. Bystands
  <2>1. CASE UNCHANGED queue
    BY <1>1, <2>1, StaysPut
  <2>2. CASE Publish(t)
    BY <1>1, <2>2, PublishShifts DEF Bystands
  <2> QED
    BY <2>1, <2>2 DEF ReadRows, ListGone, StartUi
<1> QED
  BY <1>2, SessionBystands

\* ... the first loop of a reload,
LEMMA SessionCopyOne ==
    ASSUME TypeOK, FreshInv, HeldInv, SessionInv, NEW t \in Threads, CopyOne(t), calm'
    PROVE  SessionInv'
<1>1. pc[t] = "copy" /\ UNCHANGED <<queue, bindings, serving, deaths>>
  BY CopyShape
<1>2. PICK o \in todo[t] : /\ o \in Obj
                           /\ \/ UNCHANGED <<state, slot, conn, slots>>
                              \/ \E was \in instances : Copies(t, o, was)
  BY CopyShape
<1>3. CASE UNCHANGED <<state, slot, conn, slots>>
  BY <1>1, <1>3, StaysPut, SessionBystands DEF sessionVars
<1>4. CASE \E was \in instances : Copies(t, o, was)
  BY <1>1, <1>2, <1>4, SessionCopies
<1> QED
  BY <1>2, <1>3, <1>4

\* ... and the second.
LEMMA SessionDropOne ==
    ASSUME TypeOK, PlaceInv, HeldInv, SessionInv, NEW t \in Threads, DropOne(t)
    PROVE  SessionInv'
<1>1. PICK o \in todo[t] : o \in Obj /\ Drops(o) /\ pc[t] = "drop"
  BY DropShape
<1>2. state[o] # "IDLE"
  BY <1>1 DEF PlaceInv, HeldInv
<1> QED
  BY <1>1, <1>2, DropsHalts, SessionHalts

\* Every step keeps the invariant of the sessions.
LEMMA NextSession ==
    ASSUME CalmInv, calm, SessionInv, StartNull, DoerInv, Next, calm', deaths' = 0
    PROVE  SessionInv'
<1>1. TypeOK /\ CoreInv /\ TableInv /\ ChosenSlotIsFree
  BY DEF CalmInv, SlotsInv
<1>2. FreshInv /\ PlaceInv /\ HeldInv /\ StartInv
  BY <1>1 DEF CoreInv
<1>3. ASSUME NEW k \in Kinds, NEW s \in Slots, Die(k, s) PROVE FALSE
  BY <1>1, <1>3 DEF Die, TypeOK, CountType
<1>4. "main" \in Threads
  BY DEF Threads
<1> QED
  BY <1>1, <1>2, <1>3, <1>4, StepShapes, SessionRoams, SessionBegins, SessionPickSlot,
     SessionPutSlot, SessionReads, SessionCopyOne, SessionDropOne

-----------------------------------------------------------------------------
(* The sessions of a calm application whose services live.                 *)

LiveInv == SessionInv /\ StartNull /\ DoerInv
SessionsInv == CalmInv /\ (calm /\ deaths = 0 => LiveInv)

\* There is no session at first.
LEMMA InitSessions == Init => SessionsInv
<1> SUFFICES ASSUME Init PROVE SessionsInv
  OBVIOUS
<1>1. CalmInv
  BY InitCalm
<1>2. /\ queue = <<>> /\ bindings = {}
      /\ \A o \in Obj : state[o] = "IDLE" /\ Null(o)
      /\ \A k \in Kinds, s \in Slots : serving[k][s] = NoId
      /\ \A t \in Threads : pc[t] \notin {"slot", "put"}
  BY DEF Init, Null, NullConn
<1>3. \A x : ~Posted(x)
  BY <1>2 DEF Posted
<1>4. StateInv /\ ConnInv /\ StartNull /\ DoerInv
  BY <1>2, <1>3 DEF StateInv, ConnInv, StartNull, DoerInv, Doer
<1>5. BindingInv /\ BearInv /\ OrderInv /\ ServingInv
  BY <1>2 DEF BindingInv, BearInv, OrderInv, ServingInv
<1> QED
  BY <1>1, <1>4, <1>5 DEF SessionsInv, LiveInv, SessionInv

\* Deaths are never taken back.
LEMMA DeathsCount ==
    ASSUME TypeOK, Next, deaths' = 0
    PROVE  deaths = 0
<1>1. ASSUME NEW k \in Kinds, NEW s \in Slots, Die(k, s) PROVE FALSE
  BY <1>1 DEF Die, TypeOK, CountType
<1>2. ASSUME NEW t \in Threads, PickSlot(t) \/ PutSlot(t) \/ ReadRows(t) \/ CopyOne(t)
                                \/ ListGone(t) \/ DropOne(t) \/ Publish(t)
      PROVE  UNCHANGED deaths
  BY <1>2 DEF PickSlot, PutSlot, ReadRows, CopyOne, ListGone, DropOne, Publish, cntVars
<1>3. CASE StartUi \/ \E t \in Threads, o \in Obj : Begins(t, o)
  BY <1>3 DEF StartUi, Begins
<1>4. CASE Roams
  <2>1. CASE Bystands \/ Clears \/ \E o \in Obj : Stops(o)
    BY <2>1 DEF Bystands, Clears, Stops, sessionVars
  <2>2. CASE RunBind \/ RunUnbind
    BY <2>2 DEF RunBind, RunUnbind, cntVars
  <2>3. CASE \E b \in bindings : onServiceConnected(b) \/ onServiceDisconnected(b)
    BY <2>3 DEF onServiceConnected, onServiceDisconnected, cntVars
  <2> QED
    BY <1>4, <2>1, <2>2, <2>3 DEF Roams
<1> QED
  BY <1>1, <1>2, <1>3, <1>4, StepShapes

\* Every step keeps the invariant of the live sessions.
LEMMA NextSessions == ASSUME SessionsInv, Next PROVE SessionsInv'
<1>1. CalmInv /\ TypeOK
  BY DEF SessionsInv, CalmInv, SlotsInv
<1>2. CalmInv'
  BY <1>1, NextCalm
<1>3. ASSUME calm', deaths' = 0 PROVE LiveInv'
  <2>1. calm /\ deaths = 0
    BY <1>1, <1>3, CalmBefore, DeathsCount
  <2>2. SessionInv /\ StartNull /\ DoerInv
    BY <2>1 DEF SessionsInv, LiveInv
  <2> QED
    BY <1>1, <1>3, <2>1, <2>2, NextSession, NextStartNull, NextDoers DEF LiveInv
<1> QED
  BY <1>2, <1>3 DEF SessionsInv

\* So does a step in which nothing changes.
LEMMA SessionsStutter == ASSUME SessionsInv, UNCHANGED vars PROVE SessionsInv'
<1>1. CalmInv'
  BY CalmStutters DEF SessionsInv
<1>2. /\ UNCHANGED sessionVars /\ UNCHANGED <<slots, queue, calm, pc, cur, instances, loaded, todo>>
      /\ UNCHANGED <<rows, fresh, pending>>
  BY DEF vars, objVars, regVars, thrVars, dbVars, sysVars, cntVars, sessionVars
<1>3. ASSUME calm, deaths = 0 PROVE LiveInv'
  <2>1. TypeOK /\ SessionInv /\ StartNull /\ DoerInv
    BY <1>3 DEF SessionsInv, CalmInv, SlotsInv, LiveInv
  <2>2. SessionInv'
    BY <1>2, <2>1, StaysPut, SessionBystands
  <2>3. StartNull'
    BY <1>2, <2>1 DEF StartNull, Null, sessionVars
  <2>4. DoerInv'
    BY <1>2, <2>1 DEF DoerInv, Doer, Posted, sessionVars, IdsOf, NewIds, Inserts
  <2> QED
    BY <2>2, <2>3, <2>4 DEF LiveInv
<1> QED
  BY <1>1, <1>2, <1>3 DEF SessionsInv, sessionVars

\* The invariant of the live sessions.
LEMMA SessionsInvariant == Spec => []SessionsInv
<1>1. SessionsInv /\ [Next]_vars => SessionsInv'
  BY NextSessions, SessionsStutter
<1> QED
  BY <1>1, InitSessions, PTL DEF Spec

\* For any number of profiles, slots, edits and bindings: as long as the application
\* stays calm and no service process dies, the service pair of a slot is bound for
\* one profile only, and runs that profile.  stop()'s task unbinds a session before
\* start()'s task can bind another under its slot, because the slot comes free only
\* with that task, or with a deletion that has posted it.
THEOREM OwnProcessAlways == Spec => []OwnProcess
<1>1. SessionsInv => OwnProcess
  BY DEF SessionsInv, LiveInv, SessionInv, ServingInv, OwnProcess
<1> QED
  BY <1>1, SessionsInvariant, PTL

\* Likewise no binding is ever leaked: the object that knows a binding's connection
\* either holds the slot, and then the registry or the list a reload is about to
\* publish has it, or its unbind task waits in the queue.
THEOREM NoStrayBindings == Spec => []NoStrayBinding
<1>1. ASSUME SessionsInv PROVE NoStrayBinding
  <2>1. SUFFICES ASSUME calm, deaths = 0, NEW b \in bindings
                 PROVE  \E o \in Obj :
                          /\ conn[o][b.kind] = b.conn
                          /\ \/ o \in instances /\ slots[o] = b.slot
                             \/ o \in UNION {loaded[t] : t \in Threads} /\ slots[o] = b.slot
                             \/ Posted(UnbindTask(o))
    BY DEF NoStrayBinding
  <2>2. PlaceInv /\ BearInv /\ TypeOK
    BY <1>1, <2>1 DEF SessionsInv, CalmInv, CoreInv, LiveInv, SessionInv, SlotsInv
  <2>3. PICK o \in Obj : Bears(o, b) /\ (slots[o] = b.slot \/ Posted(UnbindTask(o)))
    BY <2>2 DEF BearInv
  <2>4. ASSUME slots[o] = b.slot
        PROVE  o \in instances \/ \E t \in Threads : o \in loaded[t]
    <3>1. o \in Held
      BY <2>2, <2>4, BindingFacts DEF Held
    <3>2. CASE Resting
      BY <2>2, <3>1, <3>2 DEF PlaceInv
    <3>3. ASSUME NEW t \in Threads, Restless(t)
          PROVE  o \in instances \/ o \in loaded[t]
      BY <2>2, <3>1, <3>3 DEF PlaceInv, Restless
    <3> QED
      BY <3>2, <3>3 DEF Resting
  <2>5. o \in UNION {loaded[t] : t \in Threads} <=> \E t \in Threads : o \in loaded[t]
    OBVIOUS
  <2>6. conn[o][b.kind] = b.conn
    BY <2>3 DEF Bears
  <2> QED
    BY <2>3, <2>4, <2>5, <2>6
<1> QED
  BY <1>1, SessionsInvariant, PTL

-----------------------------------------------------------------------------
(* What a step does to the application's own two servers.                  *)

serverVars == <<webConn, camConn, camPref>>

\* Some x in the queue has no y behind it.
Trails(x, y) == \E j \in 1 .. Len(queue) :
    queue[j] = x /\ \A i \in j .. Len(queue) : queue[i] # y

\* Tasks that neither bind nor unbind a server, and those with stopServers.
Plain == {x \in Task : x.op \in {"bind", "unbind", "refresh"}}
Mild  == Plain \cup {StopServersTask}

\* An x without a y behind it keeps its place, unless it is taken and no y is left.
LEMMA TrailsKept ==
    ASSUME NEW d, NEW News, Shifts(d, News), NEW x, NEW y, y \notin News, Trails(x, y)
    PROVE  Trails(x, y)' \/ (d = 1 /\ queue[1] = x /\ ~Posted(y)')
<1>1. PICK j \in 1 .. Len(queue) : queue[j] = x /\ \A i \in j .. Len(queue) : queue[i] # y
  BY DEF Trails
<1>2. /\ d \in {0, 1} /\ Len(queue) \in Nat /\ Len(queue') \in Nat /\ d <= Len(queue)
      /\ Len(queue) - d <= Len(queue')
      /\ \A i \in 1 .. (Len(queue) - d) : queue'[i] = queue[i + d]
      /\ \A i \in (Len(queue) - d + 1) .. Len(queue') : queue'[i] \in News
  BY DEF Shifts
<1>3. \A i \in 1 .. Len(queue') : i + d >= j => queue'[i] # y
  <2>1. ASSUME NEW i \in 1 .. Len(queue'), i + d >= j PROVE queue'[i] # y
    <3>1. CASE i \in 1 .. (Len(queue) - d)
      <4>1. i + d \in j .. Len(queue) /\ queue'[i] = queue[i + d]
        BY <1>2, <2>1, <3>1
      <4> QED
        BY <1>1, <4>1
    <3>2. CASE i \in (Len(queue) - d + 1) .. Len(queue')
      BY <1>2, <3>2
    <3> QED
      BY <1>2, <3>1, <3>2
  <2> QED
    BY <2>1
<1>4. CASE j > d
  <2>1. j - d \in 1 .. (Len(queue) - d) /\ j - d \in 1 .. Len(queue') /\ (j - d) + d = j
    BY <1>2, <1>4
  <2>2. queue'[j - d] = x
    BY <1>1, <1>2, <2>1
  <2>3. \A i \in (j - d) .. Len(queue') : queue'[i] # y
    BY <1>2, <1>3, <2>1
  <2> QED
    BY <2>1, <2>2, <2>3 DEF Trails
<1>5. CASE j <= d
  <2>1. d = 1 /\ j = 1
    BY <1>2, <1>5
  <2>2. \A i \in 1 .. Len(queue') : queue'[i] # y
    BY <1>2, <1>3, <2>1
  <2> QED
    BY <1>1, <2>1, <2>2 DEF Posted
<1> QED
  BY <1>2, <1>4, <1>5

\* An x that was not posted now stood without a y behind it before.
LEMMA TrailsBefore ==
    ASSUME NEW d, NEW News, Shifts(d, News), NEW x, NEW y, x \notin News, Trails(x, y)'
    PROVE  Trails(x, y)
<1>1. PICK j \in 1 .. Len(queue') : queue'[j] = x /\ \A i \in j .. Len(queue') : queue'[i] # y
  BY DEF Trails
<1>2. /\ d \in {0, 1} /\ Len(queue) \in Nat /\ Len(queue') \in Nat
      /\ Len(queue) - d <= Len(queue')
      /\ \A i \in 1 .. (Len(queue) - d) : queue'[i] = queue[i + d]
  BY DEF Shifts
<1>3. j + d \in 1 .. Len(queue) /\ queue[j + d] = x
  BY <1>1, Positions
<1>4. ASSUME NEW i \in (j + d) .. Len(queue) PROVE queue[i] # y
  <2>1. i - d \in 1 .. (Len(queue) - d) /\ i - d \in j .. Len(queue') /\ (i - d) + d = i
    BY <1>2
  <2>2. queue'[i - d] = queue[i]
    BY <1>2, <2>1
  <2> QED
    BY <1>1, <2>1, <2>2
<1> QED
  BY <1>3, <1>4 DEF Trails

\* The servers' tasks, the camera's and the others differ.
LEMMA ServerKinds ==
    /\ ServersTask \notin Mild /\ StopServersTask \notin Plain
    /\ \A on \in BOOLEAN : CameraTask(on) \notin Mild
    /\ RefreshTask \in Plain /\ \A o \in Obj : BindTask(o) \in Plain /\ UnbindTask(o) \in Plain
    /\ ServersTask # StopServersTask
    /\ \A on \in BOOLEAN : CameraTask(on) # ServersTask /\ CameraTask(on) # StopServersTask
    /\ CameraTask(TRUE) # CameraTask(FALSE)
    /\ \A x \in Task : /\ x.op = "servers" => x = ServersTask
                       /\ x.op = "stopServers" => x = StopServersTask
                       /\ x.op = "camera" => x.on \in BOOLEAN /\ x = CameraTask(x.on)
<1>1. /\ ServersTask.op = "servers" /\ StopServersTask.op = "stopServers"
      /\ RefreshTask.op = "refresh"
      /\ \A on : CameraTask(on).op = "camera" /\ CameraTask(on).on = on
      /\ \A o : BindTask(o).op = "bind" /\ UnbindTask(o).op = "unbind"
  BY DEF BindTask, UnbindTask, ServersTask, StopServersTask, RefreshTask, CameraTask
<1>2. RefreshTask \in Task /\ \A o \in Obj : BindTask(o) \in Task /\ UnbindTask(o) \in Task
  BY TaskShape, TaskKinds DEF ServerTask
<1>3. \A x \in Task : /\ x.op = "servers" => x = ServersTask
                      /\ x.op = "stopServers" => x = StopServersTask
                      /\ x.op = "camera" => x.on \in BOOLEAN /\ x = CameraTask(x.on)
  BY DEF Task, ServersTask, StopServersTask, CameraTask
<1>4. RefreshTask \in Plain /\ \A o \in Obj : BindTask(o) \in Plain /\ UnbindTask(o) \in Plain
  BY <1>1, <1>2 DEF Plain
<1>5. \A x : x \in Mild => x.op \in {"bind", "unbind", "refresh", "stopServers"}
  BY <1>1 DEF Mild, Plain
<1>6. \A x : x \in Plain => x.op \in {"bind", "unbind", "refresh"}
  BY DEF Plain
<1>7. /\ ServersTask \notin Mild /\ StopServersTask \notin Plain
      /\ \A on \in BOOLEAN : CameraTask(on) \notin Mild
  BY <1>1, <1>5, <1>6
<1>8. /\ ServersTask # StopServersTask
      /\ \A on \in BOOLEAN : CameraTask(on) # ServersTask /\ CameraTask(on) # StopServersTask
      /\ CameraTask(TRUE) # CameraTask(FALSE)
  <2>1. CameraTask(TRUE).on = TRUE /\ CameraTask(FALSE).on = FALSE
    BY <1>1
  <2>2. CameraTask(TRUE) # CameraTask(FALSE)
    BY <2>1, Zenon
  <2>3. ASSUME NEW on \in BOOLEAN
        PROVE  CameraTask(on) # ServersTask /\ CameraTask(on) # StopServersTask
    BY <1>1
  <2> QED
    BY <1>1, <2>2, <2>3
<1> QED
  BY <1>3, <1>4, <1>7, <1>8

\* A step that leaves the servers and their tasks, but for a stopServers it may post.
Aside ==
    /\ UNCHANGED serverVars
    /\ \E d \in {0, 1} : Shifts(d, Mild) /\ (d = 1 => queue[1] \in Plain)

\* A step that leaves the queue, or posts a task of a profile or of the screen.
LEMMA AsideQueue ==
    ASSUME TypeOK, UNCHANGED serverVars,
           UNCHANGED queue \/ \E x \in Plain : queue' = Append(queue, x)
    PROVE  Aside
<1>1. queue \in Seq(Task)
  BY DEF TypeOK, LooperType
<1>2. CASE UNCHANGED queue
  BY <1>1, <1>2, ShiftsNone DEF Aside
<1>3. ASSUME NEW x \in Plain, queue' = Append(queue, x) PROVE Aside
  <2>1. x \in Task
    BY DEF Plain
  <2>2. Shifts(0, {x})
    BY <1>1, <1>3, <2>1, ShiftsAppend
  <2>3. Shifts(0, Mild)
    BY <2>2 DEF Shifts, Mild
  <2> QED
    BY <2>3 DEF Aside
<1> QED
  BY <1>2, <1>3

\* The steps that touch the servers or their tasks, and the others.
LEMMA ServerSteps ==
    ASSUME TypeOK, StartsAnObject, Next
    PROVE  \/ Aside
           \/ RunServers \/ stopServerServicesIfNoSlots \/ RunCamera \/ resetSlotsForFreshStart
           \/ \E b \in bindings : onServiceConnected(b)
           \/ \E on \in BOOLEAN : setCameraEnabled(on)
<1> USE DEF serverVars
<1>0. queue \in Seq(Task)
  BY DEF TypeOK, LooperType
<1>1. ASSUME NEW t \in Threads, PickSlot(t) \/ ReadRows(t) \/ CopyOne(t) \/ ListGone(t)
                                  \/ ReloadDone(t)
      PROVE  Aside
  BY <1>1, AsideQueue DEF PickSlot, ReadRows, CopyOne, ListGone, ReloadDone, regVars, dbVars
<1>2. ASSUME NEW t \in Threads, PutSlot(t) PROVE Aside
  <2>1. cur[t] \in Obj
    BY <1>2 DEF StartsAnObject, PutSlot
  <2> QED
    BY <1>2, <2>1, AsideQueue, ServerKinds DEF PutSlot, dbVars
<1>3. ASSUME NEW t \in Threads, DropOne(t) PROVE Aside
  <2>1. PICK o \in todo[t] : stop(o)
    BY <1>3 DEF DropOne
  <2>2. o \in Obj
    BY DEF TypeOK, ThreadType
  <2>3. UNCHANGED queue \/ queue' = Append(queue, UnbindTask(o))
    BY <2>1 DEF stop, stopping
  <2> QED
    BY <1>3, <2>2, <2>3, AsideQueue, ServerKinds DEF DropOne, dbVars
<1>4. ASSUME NEW t \in Threads, Publish(t) PROVE Aside
  <2>1. StopServersTask \in Task /\ RefreshTask \in Task
    BY TaskKinds DEF ServerTask
  <2>2. Shifts(0, {StopServersTask, RefreshTask})
    BY <1>0, <1>4, <2>1, ShiftsTwo DEF Publish
  <2>3. Shifts(0, Mild)
    BY <2>2, ServerKinds DEF Shifts, Mild
  <2> QED
    BY <1>4, <2>3 DEF Aside, Publish, dbVars
<1>5. ASSUME NEW t \in Threads, AutostartOne(t) PROVE Aside
  <2>1. PICK o \in todo[t] : UNCHANGED queue \/ queue' = Append(queue, UnbindTask(o))
    BY <1>5 DEF AutostartOne, startBegin, stopping
  <2>2. o \in Obj
    BY DEF TypeOK, ThreadType
  <2> QED
    BY <1>5, <2>1, <2>2, AsideQueue, ServerKinds DEF AutostartOne, regVars, dbVars
<1>6. CASE BatchOne
  <2>1. PICK o \in batch.objs : UNCHANGED queue \/ queue' = Append(queue, UnbindTask(o))
    BY <1>6 DEF BatchOne, startBegin, stop, stopping
  <2>2. o \in Obj
    BY DEF TypeOK, LooperType
  <2> QED
    BY <1>6, <2>1, <2>2, AsideQueue, ServerKinds DEF BatchOne, regVars
<1>7. CASE \E w \in pending : DbWriteOnIo(w)
  BY <1>7, AsideQueue DEF DbWriteOnIo, regVars
<1>8. CASE RunBind
  <2>1. PICK o \in Obj, c \in Conn : Binds(o, c)
    BY <1>8, BindShape
  <2>2. Shifts(1, Mild) /\ queue[1] \in Plain
    BY <2>1, ServerKinds DEF Binds, Shifts
  <2> QED
    BY <1>8, <2>2 DEF Aside, RunBind, regVars, dbVars
<1>9. CASE RunUnbind
  <2>1. PICK o \in Obj : Unbinds(o)
    BY <1>9, UnbindShape
  <2>2. Shifts(1, Mild) /\ queue[1] \in Plain
    BY <2>1, ServerKinds DEF Unbinds, Shifts, Mild
  <2> QED
    BY <1>9, <2>2 DEF Aside, RunUnbind, dbVars
<1>10. CASE RunRefresh
  <2>1. queue # <<>> /\ Head(queue).op = "refresh" /\ queue' = Tail(queue)
    BY <1>10 DEF RunRefresh, Dequeue
  <2>2. Shifts(1, Mild) /\ queue[1] \in Plain
    BY <1>0, <2>1, ShiftsTail, QueueShape DEF Plain
  <2> QED
    BY <1>10, <2>2 DEF Aside, RunRefresh, regVars, dbVars
<1>11. ASSUME NEW b \in bindings, onServiceDisconnected(b) PROVE Aside
  <2>1. Shifts(0, {StopServersTask})
    BY <1>11, DisconnectShape DEF Disconnects
  <2>2. Shifts(0, Mild)
    BY <2>1 DEF Shifts, Mild
  <2> QED
    BY <1>11, <2>2 DEF Aside, onServiceDisconnected, dbVars
<1>12. CASE \/ StartUi \/ Resubscribe
            \/ \E op \in {"start", "stop"}, S \in SUBSET view : Tap /\ BeginBatch(op, S)
  BY <1>12, AsideQueue DEF StartUi, Resubscribe, BeginBatch, regVars, dbVars
<1>13. ASSUME NEW o \in view, delete(o) PROVE Aside
  <2>1. o \in Obj
    BY DEF TypeOK, RegistryType
  <2>2. UNCHANGED queue \/ queue' = Append(queue, UnbindTask(o))
    BY <1>13 DEF delete, stop, stopping
  <2> QED
    BY <1>13, <2>1, <2>2, AsideQueue, ServerKinds DEF delete, regVars
<1>14. CASE \/ \E o \in view, a \in BOOLEAN : saveEdited(o, a)
            \/ \E i \in fresh, a \in BOOLEAN : saveNew(i, a)
            \/ \E k \in Kinds, s \in Slots : Die(k, s)
  BY <1>14, AsideQueue DEF saveEdited, saveNew, Die, regVars, dbVars
<1> QED
  BY StepCases, <1>1, <1>2, <1>3, <1>4, <1>5, <1>6, <1>7, <1>8, <1>9, <1>10, <1>11, <1>12,
     <1>13, <1>14, Zenon

Running == \E o \in Held : state[o] = "RUNNING"

\* Some profile is in a slot, or a session is being closed, or a reload goes on:
\* each of them ends with a stopServers task.
Used == Held # {} \/ ~Resting \/ \E o \in Obj : Doer(o)

\* A reload makes no profile run that did not.
LEMMA CopyRuns ==
    ASSUME TypeOK, NEW t \in Threads, NEW o \in Obj, NEW was \in instances, Copies(t, o, was),
           calm', Running'
    PROVE  Running
<1>1. /\ state' = [state EXCEPT ![o] = state[was]] /\ slots' = TakeOver(o, was) /\ Settled(was)
      /\ was \in Obj
  BY DEF Copies, Note, TypeOK, RegistryType
<1>2. PICK h \in Obj : slots'[h] # NoSlot /\ state'[h] = "RUNNING"
  BY DEF Running, Held
<1>3. CASE h = o
  <2>1. state[was] = "RUNNING"
    BY <1>1, <1>2, <1>3 DEF TypeOK, ObjType
  <2>2. slots[was] = slot[was] /\ slot[was] \in Slots
    BY <1>1, <2>1 DEF Settled, TypeOK, ObjType
  <2>3. slots[was] # NoSlot
    BY <2>2, SlotsAssumption DEF Slots, NoSlot
  <2> QED
    BY <1>1, <2>1, <2>3 DEF Running, Held
<1>4. CASE h # o
  <2>1. state[h] = "RUNNING" /\ slots[h] # NoSlot
    BY <1>1, <1>2, <1>4 DEF TypeOK, ObjType, RegistryType, TakeOver
  <2> QED
    BY <2>1 DEF Running, Held
<1> QED
  BY <1>3, <1>4

\* A profile starts to run only when its services answer.
LEMMA RunningKept ==
    ASSUME TypeOK, StartInv, SessionInv, Next, calm', deaths' = 0, Running'
    PROVE  Running \/ Posted(ServersTask)'
<1> USE DEF Running, Held
<1>1. ASSUME \A o \in Obj : slots'[o] # NoSlot /\ state'[o] = "RUNNING" =>
                            slots[o] # NoSlot /\ state[o] = "RUNNING"
      PROVE  Running
  BY <1>1
<1>2. CASE Bystands
  BY <1>1, <1>2 DEF Bystands, sessionVars
<1>3. CASE Clears
  BY <1>3 DEF Clears
<1>4. ASSUME NEW o \in Obj, Stops(o) PROVE Running
  BY <1>1, <1>4 DEF Stops, TypeOK, ObjType
<1>5. ASSUME NEW o \in Obj, NEW c \in Conn, Binds(o, c) PROVE Running
  BY <1>1, <1>5 DEF Binds
<1>6. ASSUME NEW o \in Obj, Unbinds(o) PROVE Running
  BY <1>1, <1>6 DEF Unbinds, Released, TypeOK, ObjType
<1>7. ASSUME NEW b \in bindings, Connects(b) PROVE Running \/ Posted(ServersTask)'
  <2>1. CASE state' = state
    BY <1>1, <1>7, <2>1 DEF Connects
  <2> QED
    BY <1>7, <2>1 DEF Connects
<1>8. ASSUME NEW b \in bindings, Disconnects(b) PROVE FALSE
  BY <1>8 DEF SessionInv, BindingInv, Disconnects
<1>9. CASE Roams
  BY <1>2, <1>3, <1>4, <1>5, <1>6, <1>7, <1>8, <1>9, BindShape, UnbindShape, ConnectShape,
     DisconnectShape DEF Roams
<1>10. ASSUME NEW t \in Threads, NEW o \in Obj, Begins(t, o) PROVE Running
  BY <1>1, <1>10 DEF Begins, TypeOK, ObjType
<1>11. ASSUME NEW t \in Threads, PickSlot(t) \/ ReadRows(t) \/ ListGone(t) \/ Publish(t) \/ StartUi
       PROVE  Running
  <2>1. UNCHANGED <<state, slots>>
    BY <1>11 DEF PickSlot, ReadRows, ListGone, Publish, StartUi, objVars, regVars
  <2> QED
    BY <1>1, <2>1
<1>12. ASSUME NEW t \in Threads, PutSlot(t) PROVE Running
  <2>1. PICK c \in Obj : c = cur[t] /\ state[c] = "STARTING"
    BY <1>12 DEF PutSlot, StartInv, TypeOK, RegistryType
  <2>2. UNCHANGED state /\ \A p \in Obj \ {c} : slots'[p] = slots[p]
    BY <1>12, <2>1 DEF PutSlot, objVars, TypeOK, RegistryType
  <2> QED
    BY <1>1, <2>1, <2>2
<1>13. ASSUME NEW t \in Threads, CopyOne(t) PROVE Running
  <2>1. PICK o \in Obj : UNCHANGED <<state, slots>> \/ \E was \in instances : Copies(t, o, was)
    BY <1>13, CopyShape
  <2> QED
    BY <1>1, <2>1, CopyRuns
<1>14. ASSUME NEW t \in Threads, DropOne(t) PROVE Running
  <2>1. PICK o \in Obj : Drops(o)
    BY <1>14, DropShape
  <2> QED
    BY <1>1, <2>1 DEF Drops, TypeOK, ObjType, RegistryType
<1>15. ASSUME NEW k \in Kinds, NEW s \in Slots, Die(k, s) PROVE FALSE
  BY <1>15 DEF Die, TypeOK, CountType
<1>16. "main" \in Threads
  BY DEF Threads
<1> QED
  BY StepShapes, <1>9, <1>10, <1>11, <1>12, <1>13, <1>14, <1>15, <1>16

\* What the queue loses is not the task of a session that is being closed.
LEMMA DoerStays ==
    ASSUME NEW d, NEW News, Shifts(d, News), NEW o \in Obj, Doer(o), state'[o] # "IDLE",
           d = 1 => queue[1] # UnbindTask(o)
    PROVE  Doer(o)'
BY Shifted DEF Doer

\* The steps outside the critical sections: what was in use stays so, or the
\* stopServers task of its session is posted,
LEMMA UsedRoams ==
    ASSUME CalmInv, calm, SessionInv, DoerInv, Roams, calm', Used
    PROVE  Used' \/ Trails(StopServersTask, ServersTask)'
<1> DEFINE Goal == Used' \/ Trails(StopServersTask, ServersTask)'
<1>1. TypeOK /\ TableInv /\ HeldInv /\ PlaceInv
  BY DEF CalmInv, SlotsInv, CoreInv
<1>2. Resting
  BY DEF Roams, Loose, Resting, Restless, Busy
<1>3. CASE Bystands
  <2>1. UNCHANGED <<state, slots>>
    BY <1>3 DEF Bystands, sessionVars
  <2>2. ASSUME NEW o \in Obj, Doer(o) PROVE Doer(o)'
    <3>1. state'[o] # "IDLE" /\ UnbindTask(o) \notin ServerTask
      BY <2>1, <2>2, TaskKinds DEF Doer
    <3> QED
      BY <1>3, <2>2, <3>1, DoerStays DEF Bystands
  <2> QED
    BY <1>2, <2>1, <2>2 DEF Used, Held
<1>4. CASE Clears
  <2>1. Held = {} /\ UNCHANGED state
    BY <1>1, <1>4 DEF Clears, HeldInv, sessionVars
  <2>2. PICK o \in Obj : Doer(o)
    BY <1>2, <2>1 DEF Used
  <2>3. state'[o] # "IDLE" /\ UnbindTask(o) \notin ServerTask
    BY <2>1, <2>2, TaskKinds DEF Doer
  <2>4. Doer(o)'
    BY <1>4, <2>2, <2>3, DoerStays DEF Clears
  <2> QED
    BY <2>4 DEF Used
<1>5. ASSUME NEW o \in Obj, Stops(o) PROVE Goal
  <2>1. Halts(o)
    BY <1>1, <1>5, StopsHalts
  <2>2. Doer(o)'
    BY <2>1 DEF Halts, Doer
  <2> QED
    BY <2>2 DEF Used
<1>6. ASSUME NEW p \in Obj, NEW c \in Conn, Binds(p, c) PROVE Goal
  <2>1. UNCHANGED <<state, slots>> /\ Shifts(1, {}) /\ queue[1] = BindTask(p)
    BY <1>6 DEF Binds
  <2>2. ASSUME NEW o \in Obj, Doer(o) PROVE Doer(o)'
    <3>1. state'[o] # "IDLE" /\ UnbindTask(o) # BindTask(p)
      BY <2>1, <2>2, TaskKinds DEF Doer
    <3> QED
      BY <2>1, <2>2, <3>1, DoerStays
  <2> QED
    BY <1>2, <2>1, <2>2 DEF Used, Held
<1>7. ASSUME NEW p \in Obj, Unbinds(p) PROVE Goal
  <2>1. CASE Idles(p)
    <3>1. Len(queue') \in (Len(queue)) .. Len(queue') /\ queue'[Len(queue')] = StopServersTask
      BY <1>7, <2>1 DEF Unbinds
    <3>2. Len(queue) \in Nat \ {0} /\ Len(queue') \in Nat
      BY <1>1, <1>7 DEF Unbinds, Shifts
    <3>3. \A i \in Len(queue') .. Len(queue') : queue'[i] # ServersTask
      BY <3>1, <3>2, ServerKinds
    <3>4. Len(queue') \in 1 .. Len(queue')
      BY <3>1, <3>2
    <3> QED
      BY <3>1, <3>3, <3>4 DEF Trails
  <2>2. CASE ~Idles(p)
    <3>1. state[p] = "IDLE" /\ state' = state /\ slots' = slots
      <4>1. state[p] = "IDLE" /\ slots' = slots
        BY <1>1, <1>2, <1>7, <2>2, UnbindFacts DEF Unbinds
      <4>2. state' = state
        BY <1>1, <1>7, <2>2 DEF Unbinds, TypeOK, ObjType
      <4> QED
        BY <4>1, <4>2
    <3>2. Shifts(1, {StopServersTask}) /\ queue[1] = UnbindTask(p)
      BY <1>7 DEF Unbinds
    <3>3. ASSUME NEW o \in Obj, Doer(o) PROVE Doer(o)'
      <4>1. o # p /\ state'[o] # "IDLE"
        BY <3>1, <3>3 DEF Doer
      <4>2. UnbindTask(o) # UnbindTask(p)
        BY <4>1, TaskKinds
      <4> QED
        BY <3>2, <3>3, <4>1, <4>2, DoerStays
    <3> QED
      BY <1>2, <3>1, <3>3 DEF Used, Held
  <2> QED
    BY <2>1, <2>2
<1>8. ASSUME NEW b \in bindings, Connects(b) PROVE Goal
  <2>1. ASSUME NEW o \in Obj, Doer(o) PROVE Doer(o)'
    <3>1. state'[o] # "IDLE"
      BY <1>1, <1>8, <2>1 DEF Connects, Doer, TypeOK, ObjType
    <3> QED
      BY <1>8, <2>1, <3>1, DoerStays DEF Connects
  <2>2. UNCHANGED slots
    BY <1>8 DEF Connects
  <2> QED
    BY <1>2, <2>1, <2>2 DEF Used, Held
<1>9. ASSUME NEW b \in bindings, Disconnects(b) PROVE FALSE
  BY <1>9 DEF SessionInv, BindingInv, Disconnects
<1> QED
  BY <1>1, <1>3, <1>4, <1>5, <1>6, <1>7, <1>8, <1>9, BindShape, UnbindShape, ConnectShape,
     DisconnectShape DEF Roams

\* ... and so does every step.
LEMMA UsedKept ==
    ASSUME CalmInv, calm, SessionInv, DoerInv, Next, calm', deaths' = 0, Used
    PROVE  Used' \/ Trails(StopServersTask, ServersTask)'
<1> DEFINE Goal == Used' \/ Trails(StopServersTask, ServersTask)'
<1>1. TypeOK /\ StartInv /\ HeldInv
  BY DEF CalmInv, SlotsInv, CoreInv
<1>2. ASSUME NEW t \in Threads, NEW c \in Obj, Begins(t, c) PROVE Goal
  <2>1. Resting /\ UNCHANGED <<slots, queue>>
    BY <1>2 DEF Begins, Resting, Restless, Busy
  <2>2. ASSUME NEW o \in Obj, Doer(o) PROVE Doer(o)'
    <3>1. state'[o] # "IDLE"
      BY <1>1, <1>2, <2>2 DEF Begins, Doer, TypeOK, ObjType
    <3> QED
      BY <2>1, <2>2, <3>1 DEF Doer, Posted
  <2> QED
    BY <2>1, <2>2 DEF Used, Held
<1>3. ASSUME NEW t \in Threads, PickSlot(t) PROVE Goal
  <2>1. UNCHANGED <<state, slots, queue>> /\ pc[t] = "slot"
    BY <1>3 DEF PickSlot, regVars
  <2>2. \A u \in Threads : Restless(u) => Restless(u)'
    BY <1>1, <1>3 DEF PickSlot, Restless, TypeOK, ThreadType
  <2> QED
    BY <2>1, <2>2 DEF Used, Held, Doer, Posted, Resting
<1>4. ASSUME NEW t \in Threads, PutSlot(t) PROVE Goal
  <2>1. PICK c \in Obj : c = cur[t]
    BY <1>1, <1>4 DEF PutSlot, StartInv, TypeOK, RegistryType
  <2>2. slots'[c] = slot[c] /\ slot[c] \in Slots
    BY <1>1, <1>4, <2>1 DEF PutSlot, TypeOK, ObjType, RegistryType
  <2>3. slots'[c] # NoSlot
    BY <2>2, SlotsAssumption DEF Slots, NoSlot
  <2> QED
    BY <2>3 DEF Used, Held
<1>5. ASSUME NEW t \in Threads, ReadRows(t) \/ CopyOne(t) \/ ListGone(t) \/ DropOne(t) PROVE Goal
  <2>1. Restless(t)'
    BY <1>1, <1>5 DEF ReadRows, CopyOne, ListGone, DropOne, Restless, TypeOK, ThreadType
  <2> QED
    BY <2>1 DEF Used, Resting
<1>6. ASSUME NEW t \in Threads, Publish(t) PROVE Goal
  <2>1. StopServersTask \in Task /\ RefreshTask \in Task
    BY TaskKinds DEF ServerTask
  <2>2. /\ Len(queue') = Len(queue) + 2 /\ Len(queue) \in Nat
        /\ queue'[Len(queue) + 1] = StopServersTask /\ queue'[Len(queue) + 2] = RefreshTask
    BY <1>1, <1>6, <2>1, ShiftsTwo DEF Publish, TypeOK, LooperType
  <2>3. RefreshTask # ServersTask /\ StopServersTask # ServersTask
    BY ServerKinds DEF Mild
  <2>4. \A i \in (Len(queue) + 1) .. Len(queue') : i = Len(queue) + 1 \/ i = Len(queue) + 2
    BY <2>2
  <2>5. Len(queue) + 1 \in 1 .. Len(queue')
    BY <2>2
  <2> QED
    BY <2>2, <2>3, <2>4, <2>5 DEF Trails
<1>7. CASE StartUi
  <2>1. UNCHANGED <<state, slots, queue, pc>>
    BY <1>7 DEF StartUi, thrVars
  <2> QED
    BY <2>1 DEF Used, Held, Doer, Posted, Resting, Restless
<1>8. ASSUME NEW k \in Kinds, NEW s \in Slots, Die(k, s) PROVE FALSE
  BY <1>1, <1>8 DEF Die, TypeOK, CountType
<1> QED
  BY <1>1, StepShapes, UsedRoams, <1>2, <1>3, <1>4, <1>5, <1>6, <1>7, <1>8

\* The objects that are in the list, or will be once the reload has ended.
Listed(o) == IF Resting THEN o \in instances ELSE \E t \in Threads : Restless(t) /\ o \in loaded[t]

\* The object's services are bound, or will be.
Engaged(o) == Linked(o) \/ Posted(BindTask(o))

\* A listed profile whose services are bound has a slot.
ActiveInv == \A o \in Obj : Listed(o) /\ Engaged(o) => slots[o] # NoSlot

\* A step that leaves the connections and posts no bind task of the object.
LEMMA EngagedSame ==
    ASSUME UNCHANGED conn, NEW d, NEW News, Shifts(d, News), NEW o \in Obj,
           BindTask(o) \notin News, Engaged(o)'
    PROVE  Engaged(o)
<1>1. Linked(o)' => Linked(o)
  BY DEF Linked
<1> QED
  BY <1>1, Shifted DEF Engaged

\* The steps outside the critical sections keep ActiveInv,
LEMMA ActiveRoams ==
    ASSUME CalmInv, calm, SessionInv, DoerInv, Roams, calm', ActiveInv
    PROVE  ActiveInv'
<1>1. TypeOK /\ TableInv /\ HeldInv /\ PlaceInv
  BY DEF CalmInv, SlotsInv, CoreInv
<1>2. Resting /\ \A o : Listed(o)' => Listed(o)
  BY DEF Roams, Loose, Resting, Restless, Busy, Listed
<1>3. ASSUME \A o \in Obj : Engaged(o)' => (Engaged(o) /\ slots'[o] = slots[o])
      PROVE  ActiveInv'
  BY <1>2, <1>3 DEF ActiveInv
<1>4. ASSUME Bystands \/ Clears, UNCHANGED slots PROVE ActiveInv'
  <2>1. \A o \in Obj : BindTask(o) \notin ServerTask
    BY TaskKinds
  <2> QED
    BY <1>3, <1>4, <2>1, EngagedSame DEF Bystands, Clears, sessionVars
<1>5. CASE Clears
  <2>1. \A o \in Obj : slots[o] = NoSlot
    BY <1>1, <1>5 DEF Clears, HeldInv, Held
  <2>2. slots' = slots
    BY <1>1, <1>5, <2>1 DEF Clears, TypeOK, RegistryType
  <2> QED
    BY <1>4, <1>5, <2>2
<1>6. ASSUME NEW p \in Obj, Stops(p) PROVE ActiveInv'
  <2>1. Shifts(0, {UnbindTask(p)}) /\ UNCHANGED <<conn, slots>>
    BY <1>1, <1>6, StopsHalts DEF Halts, Stops
  <2>2. \A o \in Obj : BindTask(o) \notin {UnbindTask(p)}
    BY TaskKinds
  <2> QED
    BY <1>3, <2>1, <2>2, EngagedSame
<1>7. ASSUME NEW p \in Obj, NEW c \in Conn, Binds(p, c) PROVE ActiveInv'
  <2>1. /\ Shifts(1, {}) /\ queue[1] = BindTask(p) /\ UNCHANGED slots
        /\ \A o \in Obj \ {p} : conn'[o] = conn[o]
    BY <1>1, <1>7 DEF Binds, TypeOK, ObjType
  <2>2. Posted(BindTask(p))
    BY <1>1, <2>1 DEF Shifts, Posted
  <2>3. ASSUME NEW o \in Obj, Engaged(o)' PROVE Engaged(o)
    <3>1. CASE o = p
      BY <2>2, <3>1 DEF Engaged
    <3>2. CASE o # p
      BY <2>1, <2>3, <3>2, Shifted DEF Engaged, Linked
    <3> QED
      BY <3>1, <3>2
  <2> QED
    BY <1>3, <2>1, <2>3
<1>8. ASSUME NEW p \in Obj, Unbinds(p) PROVE ActiveInv'
  <2>1. /\ \A o \in Obj \ {p} : slots'[o] = slots[o]
        /\ ~Posted(BindTask(p))
    BY <1>1, <1>2, <1>8, UnbindFacts
  <2>2. /\ Shifts(1, {StopServersTask}) /\ conn'[p] = NullConn
        /\ \A o \in Obj \ {p} : conn'[o] = conn[o]
    BY <1>1, <1>8 DEF Unbinds, TypeOK, ObjType
  <2>3. \A o \in Obj : BindTask(o) \notin {StopServersTask}
    BY TaskKinds
  <2>4. ~Engaged(p)'
    <3>1. ~Posted(BindTask(p))'
      BY <2>1, <2>2, <2>3, Shifted
    <3> QED
      BY <2>2, <3>1 DEF Engaged, Linked, NullConn, Kinds
  <2>5. ASSUME NEW o \in Obj, Engaged(o)' PROVE Engaged(o) /\ slots'[o] = slots[o]
    <3>1. o # p
      BY <2>4, <2>5
    <3>2. Posted(BindTask(o))' => Posted(BindTask(o))
      BY <2>2, <2>3, Shifted
    <3>3. Linked(o)' => Linked(o)
      BY <2>2, <3>1 DEF Linked
    <3> QED
      BY <2>1, <2>5, <3>1, <3>2, <3>3 DEF Engaged
  <2> QED
    BY <1>3, <2>5
<1>9. ASSUME NEW b \in bindings, Connects(b) PROVE ActiveInv'
  <2>1. Shifts(0, {ServersTask}) /\ UNCHANGED <<conn, slots>>
    BY <1>9 DEF Connects
  <2>2. \A o \in Obj : BindTask(o) \notin {ServersTask}
    BY TaskKinds
  <2> QED
    BY <1>3, <2>1, <2>2, EngagedSame
<1>10. ASSUME NEW b \in bindings, Disconnects(b) PROVE FALSE
  BY <1>10 DEF SessionInv, BindingInv, Disconnects
<1>11. CASE Bystands
  BY <1>4, <1>11 DEF Bystands
<1> QED
  BY <1>1, <1>5, <1>6, <1>7, <1>8, <1>9, <1>10, <1>11, BindShape, UnbindShape, ConnectShape,
     DisconnectShape DEF Roams

\* ... those of start(),
LEMMA ActiveStart ==
    ASSUME TypeOK, StartInv, ActiveInv, NEW t \in Threads, calm',
           PutSlot(t) \/ PickSlot(t) \/ \E c \in Obj : Begins(t, c)
    PROVE  ActiveInv'
<1>1. Resting /\ Resting' /\ UNCHANGED instances
  <2>1. CASE PutSlot(t) \/ PickSlot(t)
    <3>1. \A u \in Threads : u # t => ~Busy(u)
      BY <2>1, Alone DEF PutSlot, PickSlot
    <3> QED
      BY <2>1, <3>1 DEF PutSlot, PickSlot, regVars, Busy, Resting, Restless, TypeOK, ThreadType
  <2>2. CASE \E c \in Obj : Begins(t, c)
    BY <2>2 DEF Begins, Busy, Resting, Restless, TypeOK, ThreadType
  <2> QED
    BY <2>1, <2>2
<1>2. CASE PickSlot(t) \/ \E c \in Obj : Begins(t, c)
  <2>1. UNCHANGED <<conn, slots, queue>>
    BY <1>2 DEF PickSlot, Begins, regVars
  <2> QED
    BY <1>1, <2>1 DEF ActiveInv, Listed, Engaged, Linked, Posted
<1>3. CASE PutSlot(t)
  <2>1. PICK c \in Obj : c = cur[t]
    BY <1>3 DEF PutSlot, StartInv, TypeOK, RegistryType
  <2>2. /\ slots'[c] = slot[c] /\ slot[c] \in Slots /\ UNCHANGED conn
        /\ \A o \in Obj \ {c} : slots'[o] = slots[o]
    BY <1>3, <2>1 DEF PutSlot, TypeOK, ObjType, RegistryType, objVars
  <2>3. slots'[c] # NoSlot
    BY <2>2, SlotsAssumption DEF Slots, NoSlot
  <2>4. Shifts(0, {BindTask(c)})
    BY <1>3, <2>1, TaskShape, ShiftsAppend DEF PutSlot, TypeOK, LooperType
  <2>5. ASSUME NEW o \in Obj, o # c, Engaged(o)' PROVE Engaged(o)
    <3>1. BindTask(o) \notin {BindTask(c)}
      BY <2>5, TaskKinds
    <3> QED
      BY <2>2, <2>4, <2>5, <3>1, EngagedSame
  <2> QED
    BY <1>1, <2>2, <2>3, <2>5 DEF ActiveInv, Listed
<1> QED
  BY <1>2, <1>3

\* ... those of a reload,
LEMMA ActiveReload ==
    ASSUME CalmInv, calm, SessionInv, ActiveInv, Next, calm', NEW t \in Threads,
           ReadRows(t) \/ CopyOne(t) \/ ListGone(t) \/ DropOne(t) \/ Publish(t)
    PROVE  ActiveInv'
<1>1. TypeOK /\ TypeOK' /\ TableInv /\ CoreInv
  <2>1. TypeOK /\ TypeOK'
    BY NextCalm DEF CalmInv, SlotsInv
  <2> QED
    BY <2>1 DEF CalmInv
<1>2. FreshInv /\ CopyInv /\ PlaceInv
  BY <1>1 DEF CoreInv
<1>3. \A u \in Threads : u # t => ~Restless(u)
  <2>1. \E ok : Note(t, ok)
    BY DEF ReadRows, CopyOne, ListGone, DropOne, Publish
  <2>2. \A u \in Threads : u # t => ~Busy(u)
    BY <1>1, <2>1, Alone
  <2> QED
    BY <2>2 DEF Restless, Busy
<1>4. ASSUME NEW o, o \in loaded[t], Restless(t) PROVE Listed(o)
  BY <1>4 DEF Listed, Resting
<1>5. \A u \in Threads : u # t => pc'[u] = pc[u]
  BY <1>1 DEF ReadRows, CopyOne, ListGone, DropOne, Publish, TypeOK, ThreadType
<1>6. ASSUME Restless(t)', NEW o, Listed(o)' PROVE o \in loaded'[t]
  BY <1>3, <1>5, <1>6 DEF Listed, Resting, Restless
<1>7. CASE ReadRows(t)
  <2> DEFINE new == OfRows(rows, gen + 1)
  <2>1. /\ UNCHANGED <<conn, queue>> /\ gen' = gen + 1 /\ loaded'[t] = new /\ Restless(t)'
    BY <1>1, <1>7 DEF ReadRows, Restless, OfRows, TypeOK, ThreadType
  <2>2. new \in SUBSET Obj
    BY <1>1, <2>1 DEF TypeOK, ThreadType
  <2>3. \A o \in new : o \notin Made
    BY <1>1, <2>1, <2>2, NewList
  <2>4. ASSUME NEW o \in Obj, Listed(o)' PROVE ~Engaged(o)'
    <3>1. Blank(o)
      BY <1>2, <1>6, <2>1, <2>3, <2>4 DEF FreshInv, Fresh
    <3>2. ~Engaged(o)
      BY <3>1 DEF Blank, Engaged, Null, Linked, Waits, Kinds
    <3> QED
      BY <2>1, <3>2 DEF Engaged, Linked, Posted
  <2> QED
    BY <2>4 DEF ActiveInv
<1>8. CASE CopyOne(t)
  <2>1. /\ pc[t] = "copy" /\ UNCHANGED <<queue, pc, loaded>> /\ Restless(t) /\ Restless(t)'
    BY <1>1, <1>8, CopyShape DEF Restless
  <2>2. PICK o \in todo[t] : /\ o \in Obj
                             /\ \/ UNCHANGED <<state, slot, conn, slots>>
                                \/ \E was \in instances : Copies(t, o, was)
    BY <1>1, <1>8, CopyShape
  <2>3. o \in loaded[t] /\ o \notin instances /\ Blank(o)
    BY <1>2, <2>1, <2>2 DEF FreshInv, Fresh, CopyInv
  <2>4. \A q \in Obj : Listed(q)' => Listed(q) /\ q \in loaded[t]
    BY <1>4, <1>6, <2>1
  <2>5. CASE UNCHANGED <<state, slot, conn, slots>>
    BY <2>1, <2>4, <2>5 DEF ActiveInv, Engaged, Linked, Posted
  <2>6. ASSUME NEW was \in instances, Copies(t, o, was) PROVE ActiveInv'
    <3>1. /\ conn' = [conn EXCEPT ![o] = conn[was]] /\ slots' = TakeOver(o, was)
          /\ IdOf(was) = IdOf(o) /\ was \in Obj
      BY <1>1, <2>6 DEF Copies, getInstance, TypeOK, RegistryType
    <3>2. was \notin loaded[t]
      BY <1>1, <2>3, <3>1 DEF TableInv, Fits
    <3>3. ASSUME NEW q \in Obj, q # o, Listed(q)', Engaged(q)' PROVE slots'[q] # NoSlot
      <4>1. q # was /\ Listed(q)
        BY <2>4, <3>2, <3>3
      <4>2. slots'[q] = slots[q] /\ conn'[q] = conn[q]
        BY <1>1, <3>1, <3>3, <4>1 DEF TakeOver, TypeOK, ObjType, RegistryType
      <4>3. Engaged(q)
        BY <2>1, <3>3, <4>2 DEF Engaged, Linked, Posted
      <4> QED
        BY <4>1, <4>2, <4>3 DEF ActiveInv
    <3>4. ASSUME Engaged(o)' PROVE slots'[o] # NoSlot
      <4>1. ~Posted(BindTask(o))'
        BY <2>1, <2>3 DEF Blank, Waits, Posted
      <4>2. Linked(was)
        BY <1>1, <2>2, <3>1, <3>4, <4>1 DEF Engaged, Linked, TypeOK, ObjType
      <4>3. state[was] # "IDLE"
        BY <3>1, <4>2 DEF SessionInv, ConnInv, Linked, Null, Kinds
      <4>4. slots'[o] = slot[was] /\ slot[was] \in Slots
        BY <1>1, <2>2, <3>1, <4>3 DEF TakeOver, TypeOK, ObjType, RegistryType
      <4> QED
        BY <4>4, SlotsAssumption DEF Slots, NoSlot
    <3> QED
      BY <3>3, <3>4 DEF ActiveInv
  <2> QED
    BY <2>2, <2>5, <2>6
<1>9. CASE ListGone(t)
  <2>1. UNCHANGED <<conn, slots, queue, loaded>> /\ Restless(t) /\ Restless(t)'
    BY <1>1, <1>9 DEF ListGone, objVars, regVars, Restless, TypeOK, ThreadType
  <2>2. \A q \in Obj : Listed(q)' => Listed(q)
    BY <1>4, <1>6, <2>1
  <2> QED
    BY <2>1, <2>2 DEF ActiveInv, Engaged, Linked, Posted
<1>10. CASE DropOne(t)
  <2>1. pc[t] = "drop" /\ UNCHANGED <<pc, loaded>> /\ Restless(t) /\ Restless(t)'
    BY <1>1, <1>10, DropShape DEF Restless
  <2>2. PICK o \in todo[t] : o \in Obj /\ Drops(o)
    BY <1>1, <1>10, DropShape
  <2>3. o \notin loaded[t]
    <3>1. IdOf(o) \notin IdsOf(loaded[t])
      BY <1>2, <2>1, <2>2 DEF PlaceInv, CopyInv
    <3> QED
      BY <3>1 DEF IdsOf
  <2>4. UNCHANGED conn /\ \A q \in Obj \ {o} : slots'[q] = slots[q]
    BY <1>1, <2>2 DEF Drops, TypeOK, RegistryType
  <2>5. Shifts(0, {UnbindTask(o)})
    <3>1. CASE UNCHANGED queue
      BY <1>1, <3>1, ShiftsNone DEF TypeOK, LooperType
    <3>2. CASE queue' = Append(queue, UnbindTask(o))
      BY <1>1, <2>2, <3>2, TaskShape, ShiftsAppend DEF TypeOK, LooperType
    <3> QED
      BY <2>2, <3>1, <3>2 DEF Drops
  <2>6. ASSUME NEW q \in Obj, Listed(q)', Engaged(q)' PROVE slots'[q] # NoSlot
    <3>1. q # o /\ Listed(q)
      BY <1>4, <1>6, <2>1, <2>3, <2>6
    <3>2. BindTask(q) \notin {UnbindTask(o)}
      BY <2>2, TaskKinds
    <3>3. Engaged(q)
      BY <2>4, <2>5, <2>6, <3>2, EngagedSame
    <3> QED
      BY <2>4, <3>1, <3>3 DEF ActiveInv
  <2> QED
    BY <2>6 DEF ActiveInv
<1>11. CASE Publish(t)
  <2>1. UNCHANGED <<conn, slots>> /\ instances' = loaded[t] /\ Restless(t)
    BY <1>11 DEF Publish, objVars, Restless
  <2>2. Resting'
    BY <1>1, <1>3, <1>5, <1>11 DEF Publish, Resting, Restless, TypeOK, ThreadType
  <2>3. \A q \in Obj : Listed(q)' => Listed(q)
    BY <1>4, <2>1, <2>2 DEF Listed
  <2>4. \A q \in Obj : Engaged(q)' => Engaged(q)
    BY <1>1, <1>11, <2>1, PublishShifts, EngagedSame, TaskKinds
  <2> QED
    BY <2>1, <2>3, <2>4 DEF ActiveInv
<1> QED
  BY <1>7, <1>8, <1>9, <1>10, <1>11

\* ... and the screen's first reading of the table.
LEMMA ActiveUi ==
    ASSUME TypeOK, TypeOK', CoreInv, ActiveInv, StartUi, calm'
    PROVE  ActiveInv'
<1> DEFINE new == OfRows(rows, gen + 1)
<1>1. /\ UNCHANGED <<conn, slots, queue, pc, loaded>> /\ pc["main"] = "idle"
      /\ \/ UNCHANGED instances
         \/ gen' = gen + 1 /\ instances' = new
  BY DEF StartUi, thrVars, MainFree, OfRows
<1>2. Resting /\ Resting'
  <2>1. "main" \in Threads /\ \A u \in Threads : u = "main" \/ u = "io"
    BY DEF Threads
  <2>2. \A u \in Threads : u # "main" => ~Busy(u)
    BY <2>1, Alone DEF StartUi
  <2> QED
    BY <1>1, <2>1, <2>2 DEF Resting, Restless, Busy
<1>3. \A o \in Obj : Engaged(o)' <=> Engaged(o)
  BY <1>1 DEF Engaged, Linked, Posted
<1>4. CASE UNCHANGED instances
  BY <1>1, <1>2, <1>3, <1>4 DEF ActiveInv, Listed
<1>5. CASE gen' = gen + 1 /\ instances' = new
  <2>1. new \in SUBSET Obj
    BY <1>5 DEF TypeOK, RegistryType
  <2>2. \A o \in new : o \notin Made
    BY <1>5, <2>1, NewList
  <2>3. ASSUME NEW o \in Obj, o \in new PROVE ~Engaged(o)
    <3>1. Blank(o)
      BY <2>2, <2>3 DEF CoreInv, FreshInv, Fresh
    <3> QED
      BY <3>1 DEF Blank, Engaged, Null, Linked, Waits, Kinds
  <2> QED
    BY <1>2, <1>3, <1>5, <2>3 DEF ActiveInv, Listed
<1> QED
  BY <1>1, <1>4, <1>5

\* Every step keeps ActiveInv.
LEMMA NextActive ==
    ASSUME CalmInv, calm, SessionInv, DoerInv, ActiveInv, Next, calm', deaths' = 0
    PROVE  ActiveInv'
<1>1. TypeOK /\ TypeOK' /\ StartInv /\ CoreInv
  <2>1. TypeOK /\ TypeOK' /\ CoreInv
    BY NextCalm DEF CalmInv, SlotsInv
  <2> QED
    BY <2>1 DEF CoreInv
<1>2. ASSUME NEW k \in Kinds, NEW s \in Slots, Die(k, s) PROVE FALSE
  BY <1>1, <1>2 DEF Die, TypeOK, CountType
<1> QED
  BY <1>1, <1>2, StepShapes, ActiveRoams, ActiveStart, ActiveReload, ActiveUi

\* A profile in a slot runs: the web server is bound, or will be.
WebInv == Running => webConn \/ Posted(ServersTask)

\* Of the camera's tasks the last one says what the preference says,
CamLast == \A on \in BOOLEAN : camPref = on => ~Trails(CameraTask(~on), CameraTask(on))
\* ... and the camera server is, or will be, bound and unbound accordingly.
CamInv ==
    /\ CamLast
    /\ camPref /\ Running => camConn \/ Posted(ServersTask) \/ Posted(CameraTask(TRUE))
    /\ ~camPref /\ camConn => Posted(CameraTask(FALSE))

\* What is bound, or will be, will be unbound when it is no longer used: no bind
\* of the servers comes after the last stopServers task of an unused application.
LeaveInv == webConn \/ camConn \/ Posted(ServersTask) =>
    Used \/ Trails(StopServersTask, ServersTask)

ServerInv == WebInv /\ CamInv /\ LeaveInv

\* The queue's task in front is taken.
LEMMA TaskTaken ==
    ASSUME TypeOK, NEW op, Dequeue(op), queue' = Tail(queue)
    PROVE  /\ Shifts(1, {}) /\ queue[1] = Head(queue) /\ queue[1] \in Task /\ queue[1].op = op
           /\ Posted(queue[1])
<1>1. queue \in Seq(Task) /\ queue # <<>> /\ Head(queue).op = op
  BY DEF Dequeue, TypeOK, LooperType
<1>2. Shifts(1, {}) /\ queue[1] = Head(queue)
  BY <1>1, ShiftsTail
<1>3. 1 \in 1 .. Len(queue)
  BY <1>2 DEF Shifts
<1> QED
  BY <1>1, <1>2, <1>3, QueueShape DEF Posted

\* A step that leaves the servers alone.
LEMMA ServersAside ==
    ASSUME ServerInv, Aside,
           Running' => Running \/ Posted(ServersTask)',
           Used => Used' \/ Trails(StopServersTask, ServersTask)'
    PROVE  ServerInv'
<1>1. PICK d \in {0, 1} : Shifts(d, Mild) /\ (d = 1 => queue[1] \in Plain)
  BY DEF Aside
<1>2. UNCHANGED <<webConn, camConn, camPref>>
  BY DEF Aside, serverVars
<1>3. ASSUME NEW x, x \notin Mild
      PROVE  Posted(x)' <=> Posted(x)
  <2>1. d = 1 => queue[1] # x
    BY <1>1, <1>3 DEF Mild
  <2> QED
    BY <1>1, <1>3, <2>1, Shifted
<1>4. /\ Posted(ServersTask)' <=> Posted(ServersTask)
      /\ \A on \in BOOLEAN : Posted(CameraTask(on))' <=> Posted(CameraTask(on))
  BY <1>3, ServerKinds
<1>5. WebInv'
  BY <1>2, <1>4 DEF ServerInv, WebInv
<1>6. CamInv'
  <2>1. ASSUME NEW on \in BOOLEAN, NEW y, Trails(CameraTask(on), y)' PROVE Trails(CameraTask(on), y)
    BY <1>1, <2>1, TrailsBefore, ServerKinds
  <2>2. CamLast'
    BY <1>2, <2>1 DEF ServerInv, CamInv, CamLast
  <2> QED
    BY <1>2, <1>4, <2>2 DEF ServerInv, CamInv
<1>7. LeaveInv'
  <2>1. Trails(StopServersTask, ServersTask) => Trails(StopServersTask, ServersTask)'
    BY <1>1, TrailsKept, ServerKinds
  <2> QED
    BY <1>2, <1>4, <2>1 DEF ServerInv, LeaveInv
<1> QED
  BY <1>5, <1>6, <1>7 DEF ServerInv

\* Both services of a profile have answered: it has a slot, or is being stopped.
LEMMA ServersConnect ==
    ASSUME CalmInv, SessionInv, ServerInv, NEW b \in bindings, onServiceConnected(b),
           Running' => Running \/ Posted(ServersTask)',
           Used => Used' \/ Trails(StopServersTask, ServersTask)'
    PROVE  ServerInv'
<1>1. TypeOK
  BY DEF CalmInv, SlotsInv
<1>2. Shifts(0, {ServersTask}) /\ UNCHANGED <<webConn, camConn, camPref>>
  BY <1>1, ConnectShape DEF Connects, onServiceConnected, regVars, dbVars
<1>3. \A x : Posted(x) => Posted(x)'
  BY <1>2, Shifted
<1>4. WebInv'
  BY <1>2, <1>3 DEF ServerInv, WebInv
<1>5. CamInv'
  <2>1. ASSUME NEW on \in BOOLEAN, NEW y, Trails(CameraTask(on), y)' PROVE Trails(CameraTask(on), y)
    BY <1>2, <2>1, TrailsBefore, ServerKinds
  <2>2. CamLast'
    BY <1>2, <2>1 DEF ServerInv, CamInv, CamLast
  <2> QED
    BY <1>2, <1>3, <2>2 DEF ServerInv, CamInv
<1>6. Used
  <2>1. PICK p \in Obj : Bears(p, b) /\ (slots[p] = b.slot \/ Posted(UnbindTask(p)))
    BY DEF SessionInv, BearInv
  <2>2. b.conn # NoConn /\ b.slot # NoSlot /\ b.kind \in Kinds
    BY <1>1, BindingFacts
  <2>3. CASE slots[p] = b.slot
    BY <2>1, <2>2, <2>3 DEF Used, Held
  <2>4. CASE Posted(UnbindTask(p))
    <3>1. ~Null(p)
      BY <2>1, <2>2 DEF Bears, Null
    <3>2. Doer(p)
      BY <2>4, <3>1 DEF SessionInv, ConnInv, Doer
    <3> QED
      BY <3>2 DEF Used
  <2> QED
    BY <2>1, <2>3, <2>4
<1>7. LeaveInv'
  BY <1>6 DEF LeaveInv
<1> QED
  BY <1>4, <1>5, <1>7 DEF ServerInv

\* The task of notifyStateChanged(RUNNING) binds both servers.
LEMMA ServersRun ==
    ASSUME TypeOK, ServerInv, RunServers,
           Used => Used' \/ Trails(StopServersTask, ServersTask)'
    PROVE  ServerInv'
<1>1. /\ webConn' = TRUE /\ camConn' = (camConn \/ camPref) /\ UNCHANGED camPref
      /\ Dequeue("servers") /\ queue' = Tail(queue)
  BY DEF RunServers, dbVars
<1>2. Shifts(1, {}) /\ queue[1] = ServersTask /\ Posted(ServersTask)
  <2>1. /\ Shifts(1, {}) /\ queue[1] \in Task /\ queue[1].op = "servers" /\ Posted(queue[1])
    BY <1>1, TaskTaken
  <2> QED
    BY <2>1, ServerKinds
<1>3. \A on \in BOOLEAN : Posted(CameraTask(on)) => Posted(CameraTask(on))'
  BY <1>2, Shifted, ServerKinds
<1>4. CamInv'
  <2>1. ASSUME NEW x, NEW y, Trails(x, y)' PROVE Trails(x, y)
    BY <1>2, <2>1, TrailsBefore
  <2>2. CamLast'
    BY <1>1, <2>1 DEF ServerInv, CamInv, CamLast
  <2> QED
    BY <1>1, <1>3, <2>2 DEF ServerInv, CamInv
<1>5. LeaveInv'
  <2>1. Trails(StopServersTask, ServersTask) => Trails(StopServersTask, ServersTask)'
    BY <1>2, TrailsKept, ServerKinds
  <2> QED
    BY <1>2, <2>1 DEF ServerInv, LeaveInv
<1> QED
  BY <1>1, <1>4, <1>5 DEF ServerInv, WebInv

\* stopServerServicesIfNoSlots() unbinds both, or finds a profile that needs them.
LEMMA ServersStop ==
    ASSUME TypeOK, ServerInv, stopServerServicesIfNoSlots,
           Used => Used' \/ Trails(StopServersTask, ServersTask)'
    PROVE  ServerInv'
<1>1. /\ Dequeue("stopServers") /\ queue' = Tail(queue) /\ UNCHANGED <<state, camPref>>
      /\ \/ hasAnyRunningInstance /\ UNCHANGED <<slots, webConn, camConn>>
         \/ /\ ~hasAnyRunningInstance /\ slots' = [o \in Obj |-> NoSlot]
            /\ webConn' = FALSE /\ camConn' = FALSE
  BY DEF stopServerServicesIfNoSlots, dbVars, objVars
<1>2. Shifts(1, {}) /\ queue[1] = StopServersTask
  <2>1. /\ Shifts(1, {}) /\ queue[1] \in Task /\ queue[1].op = "stopServers"
    BY <1>1, TaskTaken
  <2> QED
    BY <2>1, ServerKinds
<1>3. \A x : /\ x # StopServersTask /\ Posted(x) => Posted(x)'
             /\ Posted(x)' => Posted(x)
  BY <1>2, Shifted
<1>4. ServersTask # StopServersTask /\ \A on \in BOOLEAN : CameraTask(on) # StopServersTask
  BY ServerKinds
<1>5. CamLast'
  <2>1. ASSUME NEW x, NEW y, Trails(x, y)' PROVE Trails(x, y)
    BY <1>2, <2>1, TrailsBefore
  <2> QED
    BY <1>1, <2>1 DEF ServerInv, CamInv, CamLast
<1>6. CASE hasAnyRunningInstance /\ UNCHANGED <<slots, webConn, camConn>>
  <2>1. Running' <=> Running
    BY <1>1, <1>6 DEF Running, Held
  <2>2. Used'
    BY <1>6 DEF hasAnyRunningInstance, Used, Held
  <2> QED
    BY <1>1, <1>3, <1>4, <1>5, <1>6, <2>1, <2>2 DEF ServerInv, WebInv, CamInv, LeaveInv
<1>7. CASE /\ ~hasAnyRunningInstance /\ slots' = [o \in Obj |-> NoSlot]
           /\ webConn' = FALSE /\ camConn' = FALSE
  <2>1. ~Running'
    BY <1>7 DEF Running, Held
  <2>2. ASSUME Posted(ServersTask)' PROVE (Used \/ Trails(StopServersTask, ServersTask))'
    <3>1. Used \/ Trails(StopServersTask, ServersTask)
      BY <1>3, <2>2 DEF ServerInv, LeaveInv
    <3>2. Trails(StopServersTask, ServersTask) => Trails(StopServersTask, ServersTask)'
      BY <1>2, <2>2, TrailsKept
    <3> QED
      BY <3>1, <3>2
  <2> QED
    BY <1>1, <1>5, <1>7, <2>1, <2>2 DEF ServerInv, WebInv, CamInv, LeaveInv
<1> QED
  BY <1>1, <1>6, <1>7

\* The camera's task: one that says the opposite has another behind it.
LEMMA ServersCamera ==
    ASSUME TypeOK, ServerInv, RunCamera,
           Used => Used' \/ Trails(StopServersTask, ServersTask)'
    PROVE  ServerInv'
<1>1. /\ Dequeue("camera") /\ queue' = Tail(queue) /\ UNCHANGED <<state, slots, webConn, camPref>>
      /\ camConn' = IF Head(queue).on THEN camConn \/ Held # {} ELSE FALSE
  BY DEF RunCamera, dbVars, objVars
<1>2. PICK on \in BOOLEAN : /\ Shifts(1, {}) /\ queue[1] = CameraTask(on) /\ Head(queue).on = on
                            /\ 1 \in 1 .. Len(queue)
  <2>1. /\ Shifts(1, {}) /\ queue[1] = Head(queue) /\ queue[1] \in Task /\ queue[1].op = "camera"
    BY <1>1, TaskTaken
  <2>2. 1 \in 1 .. Len(queue)
    BY <2>1 DEF Shifts
  <2> QED
    BY <2>1, <2>2, ServerKinds
<1>3. \A x : /\ x # CameraTask(on) /\ Posted(x) => Posted(x)'
             /\ Posted(x)' => Posted(x)
  BY <1>2, Shifted
<1>4. CameraTask(on) # ServersTask /\ CameraTask(on) # StopServersTask
  BY ServerKinds
<1>5. Running' <=> Running
  BY <1>1 DEF Running, Held
<1>6. CamLast'
  <2>1. ASSUME NEW x, NEW y, Trails(x, y)' PROVE Trails(x, y)
    BY <1>2, <2>1, TrailsBefore
  <2> QED
    BY <1>1, <2>1 DEF ServerInv, CamInv, CamLast
<1>7. WebInv'
  BY <1>1, <1>3, <1>4, <1>5 DEF ServerInv, WebInv
<1>8. \A p \in BOOLEAN : camPref = p /\ on # p => Posted(CameraTask(p))'
  <2>1. ASSUME NEW p \in BOOLEAN, camPref = p, on # p PROVE Posted(CameraTask(p))'
    <3>1. on = ~p /\ ((p = TRUE /\ on = FALSE) \/ (p = FALSE /\ on = TRUE))
      BY <2>1
    <3>2. ~Trails(CameraTask(on), CameraTask(p))
      BY <2>1, <3>1 DEF ServerInv, CamInv, CamLast
    <3>3. PICK i \in 1 .. Len(queue) : queue[i] = CameraTask(p)
      BY <1>2, <3>2 DEF Trails
    <3>4. CameraTask(p) # CameraTask(on)
      BY <3>1, ServerKinds
    <3> QED
      BY <1>3, <3>3, <3>4 DEF Posted
  <2> QED
    BY <2>1
<1>9. CamInv'
  <2>1. ASSUME camPref, Running PROVE (camConn \/ Posted(ServersTask) \/ Posted(CameraTask(TRUE)))'
    <3>1. CASE on = TRUE
      <4>1. Held # {}
        BY <2>1 DEF Running
      <4> QED
        BY <1>1, <1>2, <3>1, <4>1
    <3>2. CASE on = FALSE
      <4>1. camPref = TRUE
        BY <2>1 DEF TypeOK, TableType
      <4> QED
        BY <1>8, <3>2, <4>1
    <3> QED
      BY <3>1, <3>2
  <2>2. ASSUME ~camPref, camConn' PROVE Posted(CameraTask(FALSE))'
    <3>1. on = TRUE
      BY <1>1, <1>2, <2>2
    <3>2. camPref = FALSE
      BY <2>2 DEF TypeOK, TableType
    <3> QED
      BY <1>8, <3>1, <3>2
  <2> QED
    BY <1>1, <1>5, <1>6, <2>1, <2>2 DEF CamInv
<1>10. LeaveInv'
  <2>1. Trails(StopServersTask, ServersTask) => Trails(StopServersTask, ServersTask)'
    BY <1>2, <1>4, TrailsKept
  <2>2. camConn' => camConn \/ Used
    BY <1>1 DEF Used
  <2> QED
    BY <1>1, <1>3, <2>1, <2>2 DEF ServerInv, LeaveInv
<1> QED
  BY <1>7, <1>9, <1>10 DEF ServerInv

\* The user changes the preference, and the task that says so is the last.
LEMMA ServersSwitch ==
    ASSUME TypeOK, ServerInv, NEW on \in BOOLEAN, setCameraEnabled(on),
           Used => Used' \/ Trails(StopServersTask, ServersTask)'
    PROVE  ServerInv'
<1>1. /\ camPref' = on /\ queue' = Append(queue, CameraTask(on))
      /\ UNCHANGED <<webConn, camConn, state, slots>>
  BY DEF setCameraEnabled, objVars, regVars
<1>2. /\ Shifts(0, {CameraTask(on)}) /\ queue'[Len(queue')] = CameraTask(on)
      /\ Len(queue') \in Nat \ {0} /\ Len(queue') \in 1 .. Len(queue')
  <2>1. CameraTask(on) \in Task
    BY TaskKinds DEF ServerTask
  <2>2. /\ Shifts(0, {CameraTask(on)}) /\ Len(queue') = Len(queue) + 1
        /\ queue'[Len(queue')] = CameraTask(on) /\ Len(queue) \in Nat
    BY <1>1, <2>1, ShiftsAppend DEF TypeOK, LooperType
  <2> QED
    BY <2>2
<1>3. /\ \A x : Posted(x) => Posted(x)'
      /\ Posted(CameraTask(on))'
      /\ Posted(ServersTask)' => Posted(ServersTask)
  <2>1. Posted(ServersTask)' => Posted(ServersTask)
    BY <1>2, Shifted, ServerKinds
  <2> QED
    BY <1>2, <2>1, Shifted DEF Posted
<1>4. Running' <=> Running
  BY <1>1 DEF Running, Held
<1>5. ~Trails(CameraTask(~on), CameraTask(on))'
  <2>1. CameraTask(~on) # CameraTask(on)
    <3>1. on = TRUE \/ on = FALSE
      OBVIOUS
    <3>2. (~TRUE) = FALSE /\ (~FALSE) = TRUE
      OBVIOUS
    <3> QED
      BY <3>1, <3>2, ServerKinds
  <2>2. \A i \in Len(queue') .. Len(queue') : i = Len(queue')
    BY <1>2
  <2>3. ASSUME NEW j \in 1 .. Len(queue') PROVE \E i \in j .. Len(queue') : queue'[i] = CameraTask(on)
    BY <1>2
  <2> QED
    BY <2>3 DEF Trails
<1>6. WebInv'
  BY <1>1, <1>3, <1>4 DEF ServerInv, WebInv
<1>7. CamInv'
  <2>1. CASE on = TRUE
    BY <1>1, <1>3, <1>5, <2>1 DEF CamInv, CamLast
  <2>2. CASE on = FALSE
    BY <1>1, <1>3, <1>5, <2>2 DEF CamInv, CamLast
  <2> QED
    BY <2>1, <2>2
<1>8. LeaveInv'
  <2>1. Trails(StopServersTask, ServersTask) => Trails(StopServersTask, ServersTask)'
    BY <1>2, TrailsKept, ServerKinds
  <2> QED
    BY <1>1, <1>3, <2>1 DEF ServerInv, LeaveInv
<1> QED
  BY <1>6, <1>7, <1>8 DEF ServerInv

\* The boot unbinds nothing, for nothing is bound while no profile was started.
LEMMA ServersBoot ==
    ASSUME TypeOK, ServerInv, resetSlotsForFreshStart,
           Used => Used' \/ Trails(StopServersTask, ServersTask)'
    PROVE  ServerInv'
<1>1. /\ slots' = [o \in Obj |-> NoSlot] /\ webConn' = FALSE /\ camConn' = FALSE
      /\ UNCHANGED <<queue, camPref>>
  BY DEF resetSlotsForFreshStart, dbVars
<1>2. ~Running'
  BY <1>1 DEF Running, Held
<1>3. \A x, y : (Posted(x)' <=> Posted(x)) /\ (Trails(x, y)' <=> Trails(x, y))
  BY <1>1 DEF Posted, Trails
<1>4. CamLast'
  BY <1>1, <1>3 DEF ServerInv, CamInv, CamLast
<1> QED
  BY <1>1, <1>2, <1>3, <1>4 DEF ServerInv, WebInv, CamInv, LeaveInv

\* Every step keeps the invariant of the servers.
LEMMA NextServers ==
    ASSUME CalmInv, calm, SessionInv, DoerInv, ServerInv, Next, calm', deaths' = 0
    PROVE  ServerInv'
<1>1. TypeOK /\ StartsAnObject /\ StartInv
  BY DEF CalmInv, SlotsInv, CoreInv
<1>2. Running' => Running \/ Posted(ServersTask)'
  BY <1>1, RunningKept
<1>3. Used => Used' \/ Trails(StopServersTask, ServersTask)'
  BY UsedKept
<1> QED
  BY <1>1, <1>2, <1>3, ServerSteps, ServersAside, ServersConnect, ServersRun, ServersStop,
     ServersCamera, ServersSwitch, ServersBoot

-----------------------------------------------------------------------------
FollowInv == SessionsInv /\ (calm /\ deaths = 0 => ActiveInv /\ ServerInv)

\* Nothing is bound at first.
LEMMA InitFollow == Init => FollowInv
<1> SUFFICES ASSUME Init PROVE FollowInv
  OBVIOUS
<1>1. /\ queue = <<>> /\ \A o \in Obj : Null(o) /\ slots[o] = NoSlot
      /\ webConn = FALSE /\ camConn = FALSE
  BY DEF Init, Null, NullConn
<1>2. \A x, y : ~Posted(x) /\ ~Trails(x, y)
  BY <1>1 DEF Posted, Trails
<1>3. ActiveInv
  BY <1>1, <1>2 DEF ActiveInv, Engaged, Linked, Null, Kinds
<1>4. WebInv /\ CamInv /\ LeaveInv
  BY <1>1, <1>2 DEF WebInv, CamInv, CamLast, LeaveInv, Running, Held
<1> QED
  BY <1>3, <1>4, InitSessions DEF FollowInv, ServerInv

\* Every step keeps the invariant that ServersFollowInstances follows from.
LEMMA NextFollow == ASSUME FollowInv, Next PROVE FollowInv'
<1>1. SessionsInv /\ CalmInv /\ TypeOK
  BY DEF FollowInv, SessionsInv, CalmInv, SlotsInv
<1>2. SessionsInv'
  BY <1>1, NextSessions
<1>3. ASSUME calm', deaths' = 0 PROVE (ActiveInv /\ ServerInv)'
  <2>1. calm /\ deaths = 0
    BY <1>1, <1>3, CalmBefore, DeathsCount
  <2>2. SessionInv /\ DoerInv /\ ActiveInv /\ ServerInv
    BY <1>1, <2>1 DEF FollowInv, SessionsInv, LiveInv
  <2> QED
    BY <1>1, <1>3, <2>1, <2>2, NextActive, NextServers
<1> QED
  BY <1>2, <1>3 DEF FollowInv

\* So does a step in which nothing changes.
LEMMA FollowStutters == ASSUME FollowInv, UNCHANGED vars PROVE FollowInv'
<1>1. SessionsInv'
  BY SessionsStutter DEF FollowInv
<1>2. /\ UNCHANGED <<state, conn, slots, queue, calm, deaths, pc, instances, loaded>>
      /\ UNCHANGED <<webConn, camConn, camPref>>
  BY DEF vars, objVars, regVars, thrVars, dbVars, cntVars
<1>3. \A x, y : (Posted(x)' <=> Posted(x)) /\ (Trails(x, y)' <=> Trails(x, y))
  BY <1>2 DEF Posted, Trails
<1>4. (Used' <=> Used) /\ (Running' <=> Running)
  BY <1>2, <1>3 DEF Used, Running, Held, Resting, Restless, Doer
<1>5. ServerInv => ServerInv'
  BY <1>2, <1>3, <1>4 DEF ServerInv, WebInv, CamInv, CamLast, LeaveInv
<1>6. ActiveInv => ActiveInv'
  BY <1>2, <1>3 DEF ActiveInv, Listed, Engaged, Linked, Resting, Restless
<1> QED
  BY <1>1, <1>2, <1>5, <1>6 DEF FollowInv

\* For any number of profiles, slots, edits and changes of the preference: as long
\* as the application stays calm and no service process dies, the web and the camera
\* server are bound, once all is done, exactly as the profiles and the preference
\* ask: no servers task outlasts the stopServers task of the last session, and the
\* last of the camera tasks agrees with the preference.
THEOREM ServersFollow == Spec => []ServersFollowInstances
<1>1. FollowInv /\ [Next]_vars => FollowInv'
  BY NextFollow, FollowStutters
<1>2. ASSUME FollowInv PROVE ServersFollowInstances
  <2>1. SUFFICES ASSUME calm, deaths = 0, Quiet
                 PROVE  /\ (\E o \in instances : state[o] = "RUNNING") =>
                              webConn /\ (camPref => camConn)
                        /\ webConn => Held # {}
                        /\ camConn => Held # {} /\ camPref
    BY DEF ServersFollowInstances
  <2>2. TypeOK /\ ActiveInv /\ ServerInv /\ SessionInv
    BY <1>2, <2>1 DEF FollowInv, SessionsInv, LiveInv, CalmInv, SlotsInv
  <2>3. \A x, y : ~Posted(x) /\ ~Trails(x, y)
    BY <2>1 DEF Quiet, Posted, Trails
  <2>4. Resting
    BY <2>1 DEF Quiet, MainFree, Resting, Restless, Threads
  <2>5. webConn \/ camConn => Held # {}
    BY <2>2, <2>3, <2>4 DEF ServerInv, LeaveInv, Used, Doer
  <2>6. ASSUME NEW o \in instances, state[o] = "RUNNING" PROVE Running
    <3>1. o \in Obj
      BY <2>2 DEF TypeOK, RegistryType
    <3>2. Linked(o)
      BY <2>2, <2>6, <3>1 DEF SessionInv, ConnInv
    <3>3. slots[o] # NoSlot
      BY <2>2, <2>4, <2>6, <3>1, <3>2 DEF ActiveInv, Listed, Engaged
    <3> QED
      BY <2>6, <3>1, <3>3 DEF Running, Held
  <2>7. /\ Running => webConn /\ (camPref => camConn)
        /\ camConn => camPref
    BY <2>2, <2>3 DEF ServerInv, WebInv, CamInv
  <2> QED
    BY <2>5, <2>6, <2>7
<1> QED
  BY <1>1, <1>2, InitFollow, PTL DEF Spec

-----------------------------------------------------------------------------
(* What is under way, whatever services die.                               *)

\* A service of kind k that the object has bound is still to report, or to be lost.
Due(o, k) == \E b \in bindings : b.kind = k /\ b.conn[1] = o /\ b.phase # "up"
Launching(o) == \E t \in Threads : pc[t] \in {"slot", "put"} /\ cur[t] = o
\* Whoever is not connected is due, and somebody is.
Called(o) == /\ \E k \in Kinds : Due(o, k)
             /\ \A k \in Kinds : connected[o][k] \/ Due(o, k)

StopWay(o) == state[o] = "STOPPING" => Posted(UnbindTask(o))
StartWay(o) == state[o] = "STARTING" =>
    ~Posted(UnbindTask(o)) /\ (Launching(o) \/ Posted(BindTask(o)) \/ Called(o))
WayInv == \A o \in Obj : StopWay(o) /\ StartWay(o)

\* p was copied from q, or from a copy of q, and knows connections that q made. Its
\* unbind task takes q's bindings away, so nobody may start q any more: q is older
\* than p and no longer published.
Heir(p, q) == p # q /\ \E k \in Kinds : conn[p][k] # NoConn /\ conn[p][k][1] = q
HeirInv == \A p, q \in Obj : Heir(p, q) =>
    /\ q[2] < p[2] /\ p \in Made
    /\ state[q] # "STARTING" /\ (Resting => q \notin instances)
AgeInv == \A t \in Threads : Restless(t) => \A o \in loaded[t] : o[2] = gen

OnInv == WayInv /\ HeirInv /\ AgeInv
OnwardInv == CalmInv /\ (calm => OnInv)

\* What a step leaves of the ways of an object.
LEMMA WayKept ==
    ASSUME NEW o, StopWay(o), StartWay(o),
           state'[o] \in {"STARTING", "STOPPING"} => state'[o] = state[o],
           connected'[o] = connected[o],
           Posted(UnbindTask(o))' <=> Posted(UnbindTask(o)),
           Posted(BindTask(o)) => Posted(BindTask(o))',
           Launching(o) => Launching(o)' \/ Posted(BindTask(o))',
           \A b \in bindings : b.conn[1] = o => b \in bindings'
    PROVE  StopWay(o)' /\ StartWay(o)'
<1>1. \A k \in Kinds : Due(o, k) => Due(o, k)'
  BY DEF Due
<1>2. Called(o) => Called(o)'
  BY <1>1 DEF Called
<1> QED
  BY <1>2 DEF StopWay, StartWay

\* ... and of the heirs.
LEMMA HeirsKept ==
    ASSUME HeirInv, Made \subseteq Made',
           \A p, q \in Obj : Heir(p, q)' => Heir(p, q),
           \A q \in Obj : state'[q] = "STARTING" => state[q] = "STARTING",
           Resting' => Resting /\ instances' \subseteq instances
    PROVE  HeirInv'
<1> SUFFICES ASSUME NEW p \in Obj, NEW q \in Obj, Heir(p, q)'
             PROVE  /\ q[2] < p[2] /\ p \in Made'
                    /\ state'[q] # "STARTING" /\ (Resting' => q \notin instances')
  BY DEF HeirInv
<1>1. Heir(p, q)
  OBVIOUS
<1>2. /\ q[2] < p[2] /\ p \in Made /\ state[q] # "STARTING"
      /\ (Resting => q \notin instances)
  BY <1>1 DEF HeirInv
<1> QED
  BY <1>2

\* No task of a profile is posted or taken.
LEMMA PostedSame ==
    ASSUME TypeOK, NEW d \in {0, 1}, NEW News, Shifts(d, News), NEW o \in Obj,
           News \subseteq ServerTask, d = 1 => queue[1] \notin {BindTask(o), UnbindTask(o)}
    PROVE  /\ Posted(UnbindTask(o))' <=> Posted(UnbindTask(o))
           /\ Posted(BindTask(o))' <=> Posted(BindTask(o))
<1>1. BindTask(o) \notin News /\ UnbindTask(o) \notin News
  BY TaskKinds
<1> QED
  BY <1>1, Shifted

\* Outside the critical sections nobody is inside start() or a reload.
LEMMA LooseRests ==
    ASSUME Loose, calm'
    PROVE  /\ calm /\ Resting /\ Resting' /\ UNCHANGED <<instances, gen>>
           /\ \A o : ~Launching(o)
<1> QED
  BY DEF Loose, Resting, Restless, Busy, Launching

\* Which steps change `connected`.
LEMMA FlagSteps ==
    ASSUME Next
    PROVE  \/ UNCHANGED connected
           \/ RunUnbind
           \/ \E b \in bindings : onServiceConnected(b) \/ onServiceDisconnected(b)
           \/ \E t \in Threads : CopyOne(t)
<1>1. ASSUME NEW t \in Threads, PickSlot(t) \/ PutSlot(t) \/ ReadRows(t) \/ ListGone(t)
                 \/ DropOne(t) \/ Publish(t) \/ AutostartOne(t) \/ ReloadDone(t)
      PROVE  UNCHANGED connected
  BY <1>1 DEF PickSlot, PutSlot, ReadRows, ListGone, DropOne, Publish, AutostartOne,
     ReloadDone, objVars
<1>2. CASE resetSlotsForFreshStart \/ \E w \in pending : DbWriteOnIo(w)
  BY <1>2 DEF resetSlotsForFreshStart, DbWriteOnIo, objVars
<1>3. CASE RunBind \/ RunServers \/ stopServerServicesIfNoSlots \/ RunCamera \/ RunRefresh
  BY <1>3 DEF RunBind, RunServers, stopServerServicesIfNoSlots, RunCamera, RunRefresh, objVars
<1>4. CASE BatchOne \/ StartUi \/ Resubscribe
  BY <1>4 DEF BatchOne, StartUi, Resubscribe, objVars
<1>5. CASE \E op \in {"start", "stop"}, S \in SUBSET view : Tap /\ BeginBatch(op, S)
  BY <1>5 DEF BeginBatch, objVars
<1>6. CASE \E o \in view : delete(o) \/ \E a \in BOOLEAN : saveEdited(o, a)
  BY <1>6 DEF delete, saveEdited
<1>7. CASE \/ \E i \in fresh, a \in BOOLEAN : saveNew(i, a)
           \/ \E on \in BOOLEAN : setCameraEnabled(on)
           \/ \E k \in Kinds, s \in Slots : Die(k, s)
  BY <1>7 DEF saveNew, setCameraEnabled, Die, objVars
<1> QED
  BY StepCases, <1>1, <1>2, <1>3, <1>4, <1>5, <1>6, <1>7, Zenon

\* Outside the critical sections: the heirs stay.
LEMMA LooseAge ==
    ASSUME Loose, calm', HeirInv, AgeInv,
           \A p, q \in Obj : Heir(p, q)' => Heir(p, q),
           \A q \in Obj : state'[q] = "STARTING" => state[q] = "STARTING"
    PROVE  HeirInv' /\ AgeInv'
<1>1. Resting /\ Resting' /\ UNCHANGED <<instances, gen>>
  BY LooseRests
<1>2. Made' = Made
  BY <1>1 DEF Made
<1>3. HeirInv'
  BY <1>1, <1>2, HeirsKept
<1> QED
  BY <1>1, <1>3 DEF AgeInv, Resting

\* Other tasks, stop() and start()'s task keep what is under way,
LEMMA OnRoams ==
    ASSUME TypeOK, OnInv, Loose, calm', UNCHANGED connected,
           Bystands \/ Clears \/ (\E o \in Obj : Stops(o)) \/ RunBind
    PROVE  OnInv'
<1> USE DEF OnInv
<1>1. \A o : ~Launching(o)
  BY LooseRests
<1>2. CASE Bystands \/ Clears
  <2>1. UNCHANGED sessionVars
    BY <1>2 DEF Bystands, Clears
  <2>2. PICK d \in {0, 1} : Shifts(d, ServerTask) /\ (d = 1 => queue[1] \in ServerTask)
    BY <1>2 DEF Bystands, Clears
  <2>3. ASSUME NEW o \in Obj PROVE StopWay(o)' /\ StartWay(o)'
    <3>1. d = 1 => queue[1] \notin {BindTask(o), UnbindTask(o)}
      BY <2>2, TaskKinds
    <3>2. /\ Posted(UnbindTask(o))' <=> Posted(UnbindTask(o))
          /\ Posted(BindTask(o))' <=> Posted(BindTask(o))
      BY <2>2, <3>1, PostedSame
    <3>3. StopWay(o) /\ StartWay(o)
      BY DEF WayInv
    <3>4. state'[o] = state[o] /\ connected'[o] = connected[o] /\ bindings' = bindings
      BY <2>1 DEF sessionVars
    <3> QED
      BY <1>1, <3>2, <3>3, <3>4, WayKept
  <2>4. HeirInv' /\ AgeInv'
    BY <2>1, LooseAge DEF Heir, sessionVars
  <2> QED
    BY <2>3, <2>4 DEF WayInv
<1>3. ASSUME NEW p \in Obj, Stops(p) PROVE OnInv'
  <2>1. /\ state' = [state EXCEPT ![p] = "STOPPING"] /\ UNCHANGED <<conn, bindings>>
        /\ queue' = Append(queue, UnbindTask(p)) /\ queue \in Seq(Task)
        /\ UnbindTask(p) \in Task /\ state \in [Obj -> States]
    BY <1>3, TaskShape DEF Stops, TypeOK, LooperType, ObjType
  <2>2. Shifts(0, {UnbindTask(p)}) /\ Posted(UnbindTask(p))'
    <3>1. queue'[Len(queue) + 1] = UnbindTask(p) /\ Len(queue') = Len(queue) + 1
          /\ Len(queue) \in Nat
      BY <2>1
    <3> QED
      BY <2>1, <3>1, ShiftsAppend DEF Posted
  <2>3. ASSUME NEW o \in Obj PROVE StopWay(o)' /\ StartWay(o)'
    <3>1. CASE o = p
      BY <2>1, <2>2, <3>1 DEF StopWay, StartWay
    <3>2. CASE o # p
      <4>1. /\ Posted(UnbindTask(o))' <=> Posted(UnbindTask(o))
            /\ Posted(BindTask(o)) => Posted(BindTask(o))'
        BY <2>2, <3>2, TaskKinds, Shifted
      <4>2. state'[o] = state[o] /\ connected'[o] = connected[o]
        BY <2>1, <3>2
      <4> QED
        BY <1>1, <2>1, <4>1, <4>2, WayKept DEF WayInv
    <3> QED
      BY <3>1, <3>2
  <2>4. HeirInv' /\ AgeInv'
    BY <2>1, LooseAge DEF Heir
  <2> QED
    BY <2>3, <2>4 DEF WayInv
<1>4. CASE RunBind
  <2>1. PICK p \in Obj, c \in Conn : Binds(p, c)
    BY <1>4, BindShape
  <2>2. /\ state' = state /\ queue[1] = BindTask(p) /\ Shifts(1, {}) /\ c[1] = p
        /\ conn' = [conn EXCEPT ![p] = [k \in Kinds |-> c]]
        /\ bindings' = bindings \cup NewBindings(p, c)
    BY <2>1 DEF Binds
  <2>3. ASSUME NEW o \in Obj PROVE StopWay(o)' /\ StartWay(o)'
    <3>1. Posted(UnbindTask(o))' <=> Posted(UnbindTask(o))
      BY <2>2, TaskKinds, Shifted
    <3>2. CASE o = p
      <4>1. \A k \in Kinds : Due(o, k)'
        <5>1. ASSUME NEW k \in Kinds PROVE Due(o, k)'
          <6> DEFINE b == [kind |-> k, conn |-> c, slot |-> slot[p], phase |-> "wait"]
          <6>1. b \in bindings' /\ b.kind = k /\ b.conn[1] = o /\ b.phase # "up"
            BY <2>2, <3>2 DEF NewBindings
          <6> HIDE DEF b
          <6> QED
            BY <6>1 DEF Due
        <5> QED
          BY <5>1
      <4>2. Called(o)'
        BY <4>1 DEF Called, Kinds
      <4> QED
        BY <2>2, <3>1, <4>2 DEF WayInv, StopWay, StartWay
    <3>3. CASE o # p
      <4>1. Posted(BindTask(o)) => Posted(BindTask(o))'
        BY <2>2, <3>3, TaskKinds, Shifted
      <4> QED
        BY <1>1, <2>2, <3>1, <4>1, WayKept DEF WayInv
    <3> QED
      BY <3>2, <3>3
  <2>4. ASSUME NEW o \in Obj, NEW q \in Obj, Heir(o, q)' PROVE Heir(o, q)
    <3>1. o # p
      BY <2>2, <2>4 DEF Heir, TypeOK, ObjType
    <3> QED
      BY <2>2, <2>4, <3>1 DEF Heir, TypeOK, ObjType
  <2>5. HeirInv' /\ AgeInv'
    BY <2>2, <2>4, LooseAge
  <2> QED
    BY <2>3, <2>5 DEF WayInv
<1> QED
  BY <1>2, <1>3, <1>4

\* ... stop()'s task,
LEMMA OnUnbinds ==
    ASSUME TypeOK, OnInv, RunUnbind, calm'
    PROVE  OnInv'
<1> USE DEF OnInv
<1>1. Loose
  BY LooseTasks DEF Roams
<1>2. \A o : ~Launching(o)
  BY <1>1, LooseRests
<1>3. PICK p \in Obj : Unbinds(p)
  BY UnbindShape
<1>4. /\ queue[1] = UnbindTask(p) /\ Shifts(1, {StopServersTask})
      /\ bindings' = Kept(p) /\ conn' = [conn EXCEPT ![p] = NullConn]
      /\ state' = [state EXCEPT ![p] = IF Idles(p) THEN "IDLE" ELSE @]
  BY <1>3 DEF Unbinds, Unbind
<1>5. \A o \in Obj \ {p} : connected'[o] = connected[o]
  <2>1. Head(queue).obj = p
    <3>1. Head(queue) = queue[1] /\ queue # <<>>
      BY <1>3 DEF Unbinds, TypeOK, LooperType
    <3> QED
      BY <1>4, <3>1 DEF UnbindTask
  <2> QED
    BY <2>1 DEF RunUnbind, TypeOK, ObjType
<1>6. ASSUME NEW o \in Obj PROVE StopWay(o)' /\ StartWay(o)'
  <2>1. CASE o = p
    <3>1. Posted(UnbindTask(p))
      <4>1. 1 \in 1 .. Len(queue)
        BY <1>4 DEF Shifts
      <4> QED
        BY <1>4, <4>1 DEF Posted
    <3>2. state[p] # "STARTING" /\ (state[p] = "STOPPING" => Idles(p))
      BY <3>1 DEF WayInv, StartWay, Idles, IdleAtLast
    <3>3. state'[p] \notin {"STARTING", "STOPPING"}
      BY <1>4, <3>2 DEF TypeOK, ObjType
    <3> QED
      BY <2>1, <3>3 DEF StopWay, StartWay
  <2>2. CASE o # p
    <3>1. /\ Posted(UnbindTask(o))' <=> Posted(UnbindTask(o))
          /\ Posted(BindTask(o)) => Posted(BindTask(o))'
      BY <1>4, <2>2, TaskKinds, Shifted
    <3>2. state'[o] = state[o] /\ connected'[o] = connected[o]
      BY <1>4, <1>5, <2>2 DEF TypeOK, ObjType
    <3>3. CASE state[o] = "STARTING"
      <4>1. ASSUME NEW b \in bindings, b.conn[1] = o PROVE b \in bindings'
        <5>1. b.conn # NoConn /\ b.kind \in Kinds
          BY BindingFacts
        <5>2. b.conn # conn[p][b.kind]
          <6>1. ASSUME b.conn = conn[p][b.kind] PROVE FALSE
            <7>1. conn[p][b.kind] # NoConn
              BY <5>1, <6>1
            <7>2. Heir(p, o)
              BY <2>2, <4>1, <5>1, <6>1, <7>1 DEF Heir
            <7> QED
              BY <3>3, <7>2 DEF HeirInv
          <6> QED
            BY <6>1
        <5> QED
          BY <1>4, <5>2 DEF Kept
      <4> QED
        BY <1>2, <3>1, <3>2, <4>1, WayKept DEF WayInv
    <3>4. CASE state[o] # "STARTING"
      BY <3>1, <3>2, <3>4 DEF WayInv, StopWay, StartWay
    <3> QED
      BY <3>3, <3>4
  <2> QED
    BY <2>1, <2>2
<1>7. ASSUME NEW o \in Obj, NEW q \in Obj, Heir(o, q)' PROVE Heir(o, q)
  <2>1. o # p
    BY <1>4, <1>7 DEF Heir, NullConn, TypeOK, ObjType
  <2> QED
    BY <1>4, <1>7, <2>1 DEF Heir, TypeOK, ObjType
<1>8. \A q \in Obj : state'[q] = "STARTING" => state[q] = "STARTING"
  BY <1>4 DEF TypeOK, ObjType
<1>9. HeirInv' /\ AgeInv'
  BY <1>1, <1>7, <1>8, LooseAge
<1> QED
  BY <1>6, <1>9 DEF WayInv

\* A callback keeps the other bindings.
LEMMA Marked ==
    ASSUME TypeOK, NEW b \in bindings, NEW ph \in {"up", "wait"},
           bindings' = (bindings \ {b}) \cup {[b EXCEPT !.phase = ph]}, NEW o, NEW k
    PROVE  /\ o # b.conn[1] \/ k # b.kind => (Due(o, k) => Due(o, k)')
           /\ o # b.conn[1] => \A x \in bindings : x.conn[1] = o => x \in bindings'
           /\ o = b.conn[1] /\ k = b.kind /\ ph = "wait" => Due(o, k)'
<1> DEFINE m == [b EXCEPT !.phase = ph]
<1>1. m.conn = b.conn /\ m.kind = b.kind /\ m.phase = ph /\ m \in bindings'
  BY Phased
<1> HIDE DEF m
<1>2. \A x \in bindings : x # b => x \in bindings'
  OBVIOUS
<1> QED
  BY <1>1, <1>2 DEF Due

\* Callbacks run outside the critical sections.
LEMMA LooseCallbacks ==
    ASSUME TypeOK, NEW b \in bindings, onServiceConnected(b) \/ onServiceDisconnected(b)
    PROVE  Loose
<1>1. pc["main"] = "idle" /\ UNCHANGED <<pc, instances, gen>>
  BY DEF onServiceConnected, onServiceDisconnected, MainFree, thrVars, regVars, cntVars
<1>2. calm' => calm /\ ~Busy("io")
  BY DEF onServiceConnected, onServiceDisconnected, Note, Other
<1> QED
  BY <1>1, <1>2, LooseMain

\* onServiceConnected(): it ends the start, or the other service is still due,
LEMMA OnConnects ==
    ASSUME TypeOK, OnInv, NEW b \in bindings, onServiceConnected(b), calm'
    PROVE  OnInv'
<1> USE DEF OnInv
<1> DEFINE p == b.conn[1]
           k == b.kind
<1>1. Loose /\ \A o : ~Launching(o)
  BY LooseCallbacks, LooseRests
<1>2. /\ conn' = conn
      /\ bindings' = (bindings \ {b}) \cup {[b EXCEPT !.phase = "up"]}
      /\ connected' = [connected EXCEPT ![p][k] = TRUE]
      /\ \/ connected[p][OtherKind(k)] /\ state' = [state EXCEPT ![p] = "RUNNING"]
         \/ ~connected[p][OtherKind(k)] /\ state' = state
      /\ p \in Obj /\ k \in Kinds /\ Shifts(0, {ServersTask})
  BY Phased, ConnectShape DEF onServiceConnected, Completes, Connects
<1> HIDE DEF p, k
<1>3. ASSUME NEW o \in Obj PROVE StopWay(o)' /\ StartWay(o)'
  <2>1. /\ Posted(UnbindTask(o))' <=> Posted(UnbindTask(o))
        /\ Posted(BindTask(o))' <=> Posted(BindTask(o))
    BY <1>2, TaskKinds, PostedSame
  <2>2. StopWay(o) /\ StartWay(o)
    BY DEF WayInv
  <2>3. CASE o # p
    <3>1. state'[o] = state[o] /\ connected'[o] = connected[o]
      BY <1>2, <2>3 DEF TypeOK, ObjType
    <3>2. \A x \in bindings : x.conn[1] = o => x \in bindings'
      BY <1>2, <2>3, Marked DEF p
    <3> QED
      BY <1>1, <2>1, <2>2, <3>1, <3>2, WayKept
  <2>4. CASE o = p /\ state' = [state EXCEPT ![p] = "RUNNING"]
    <3>1. state'[o] = "RUNNING"
      BY <2>4 DEF TypeOK, ObjType
    <3> QED
      BY <3>1 DEF StopWay, StartWay
  <2>5. CASE o = p /\ state' = state /\ ~connected[p][OtherKind(k)]
    <3> DEFINE j == OtherKind(k)
    <3>1. /\ j \in Kinds /\ j # k /\ Kinds = {j, k}
      BY <1>2 DEF Kinds, OtherKind
    <3> HIDE DEF j
    <3>2. Due(o, j) => Due(o, j)'
      BY <1>2, <3>1, Marked DEF k
    <3>3. connected'[o][k]
      BY <1>2, <2>5 DEF TypeOK, ObjType
    <3>4. Called(o) => Called(o)'
      BY <2>5, <3>1, <3>2, <3>3 DEF Called, j
    <3> QED
      BY <1>1, <2>1, <2>2, <2>5, <3>4 DEF StopWay, StartWay
  <2> QED
    BY <1>2, <2>3, <2>4, <2>5
<1>4. HeirInv' /\ AgeInv'
  <2>1. \A q \in Obj : state'[q] = "STARTING" => state[q] = "STARTING"
    BY <1>2 DEF TypeOK, ObjType
  <2> QED
    BY <1>1, <1>2, <2>1, LooseAge DEF Heir
<1> QED
  BY <1>3, <1>4 DEF WayInv

\* ... and onServiceDisconnected(): the profile is idle, or the service will be
\* created again,
LEMMA OnDisconnects ==
    ASSUME TypeOK, OnInv, NEW b \in bindings, onServiceDisconnected(b), calm'
    PROVE  OnInv'
<1> USE DEF OnInv
<1> DEFINE p == b.conn[1]
           k == b.kind
<1>1. Loose /\ \A o : ~Launching(o)
  BY LooseCallbacks, LooseRests
<1>2. /\ conn' = [conn EXCEPT ![p][k] = NoConn]
      /\ bindings' = (bindings \ {b}) \cup {[b EXCEPT !.phase = "wait"]}
      /\ connected' = [connected EXCEPT ![p][k] = FALSE]
      /\ \/ connected[p][OtherKind(k)] /\ state' = state
         \/ state' = [state EXCEPT ![p] = "IDLE"]
      /\ p \in Obj /\ k \in Kinds /\ Shifts(0, {StopServersTask})
  BY Phased, DisconnectShape DEF onServiceDisconnected, Disconnects
<1> HIDE DEF p, k
<1>3. ASSUME NEW o \in Obj PROVE StopWay(o)' /\ StartWay(o)'
  <2>1. /\ Posted(UnbindTask(o))' <=> Posted(UnbindTask(o))
        /\ Posted(BindTask(o))' <=> Posted(BindTask(o))
    BY <1>2, TaskKinds, PostedSame
  <2>2. StopWay(o) /\ StartWay(o)
    BY DEF WayInv
  <2>3. CASE o # p
    <3>1. state'[o] = state[o] /\ connected'[o] = connected[o]
      BY <1>2, <2>3 DEF TypeOK, ObjType
    <3>2. \A x \in bindings : x.conn[1] = o => x \in bindings'
      BY <1>2, <2>3, Marked DEF p
    <3> QED
      BY <1>1, <2>1, <2>2, <3>1, <3>2, WayKept
  <2>4. CASE o = p /\ state' = [state EXCEPT ![p] = "IDLE"]
    <3>1. state'[o] = "IDLE"
      BY <2>4 DEF TypeOK, ObjType
    <3> QED
      BY <3>1 DEF StopWay, StartWay
  <2>5. CASE o = p /\ state' = state /\ connected[p][OtherKind(k)]
    <3> DEFINE j == OtherKind(k)
    <3>1. /\ j \in Kinds /\ j # k /\ Kinds = {j, k}
      BY <1>2 DEF Kinds, OtherKind
    <3> HIDE DEF j
    <3>2. Due(o, k)'
      BY <1>2, <2>5, Marked DEF k, p
    <3>3. connected'[o][j]
      BY <1>2, <2>5, <3>1 DEF TypeOK, ObjType, j
    <3>4. Called(o)'
      BY <3>1, <3>2, <3>3 DEF Called
    <3> QED
      BY <2>1, <2>2, <2>5, <3>4 DEF StopWay, StartWay
  <2> QED
    BY <1>2, <2>3, <2>4, <2>5
<1>4. HeirInv' /\ AgeInv'
  <2>1. \A q \in Obj : state'[q] = "STARTING" => state[q] = "STARTING"
    BY <1>2 DEF TypeOK, ObjType
  <2>2. ASSUME NEW o \in Obj, NEW q \in Obj, Heir(o, q)' PROVE Heir(o, q)
    <3>1. \A i \in Kinds : conn'[o][i] = conn[o][i] \/ conn'[o][i] = NoConn
      BY <1>2 DEF TypeOK, ObjType
    <3> QED
      BY <2>2, <3>1 DEF Heir
  <2> QED
    BY <1>1, <2>1, <2>2, LooseAge
<1> QED
  BY <1>3, <1>4 DEF WayInv

\* start() up to the choice of a slot,
LEMMA OnBegins ==
    ASSUME TypeOK, OnInv, NEW t \in Threads, NEW p \in Obj, Begins(t, p), UNCHANGED connected, calm'
    PROVE  OnInv'
<1> USE DEF OnInv
<1>1. /\ state' = [state EXCEPT ![p] = "STARTING"] /\ UNCHANGED <<conn, bindings, queue, instances, gen>>
      /\ pc' = [pc EXCEPT ![t] = "slot"] /\ cur' = [cur EXCEPT ![t] = p]
      /\ p \in instances /\ ~Awaited(p) /\ \A u \in Threads : ~Busy(u)
  BY DEF Begins
<1>2. /\ Resting /\ Resting' /\ \A o : ~Launching(o)
      /\ Launching(p)' /\ \A u \in Threads : ~Restless(u)'
  BY <1>1 DEF Resting, Restless, Busy, Launching, TypeOK, ThreadType
<1>3. ~Posted(UnbindTask(p))
  BY <1>1, AwaitedWaits DEF Waits
<1>4. ASSUME NEW o \in Obj PROVE StopWay(o)' /\ StartWay(o)'
  <2>1. \A x : Posted(x)' <=> Posted(x)
    BY <1>1 DEF Posted
  <2>2. CASE o = p
    <3>1. state'[o] = "STARTING"
      BY <1>1, <2>2 DEF TypeOK, ObjType
    <3> QED
      BY <1>2, <1>3, <2>1, <2>2, <3>1 DEF StopWay, StartWay
  <2>3. CASE o # p
    <3>1. state'[o] = state[o]
      BY <1>1, <2>3 DEF TypeOK, ObjType
    <3> QED
      BY <1>1, <1>2, <2>1, <3>1, WayKept DEF WayInv
  <2> QED
    BY <2>2, <2>3
<1>5. HeirInv'
  <2> SUFFICES ASSUME NEW o \in Obj, NEW q \in Obj, Heir(o, q)'
               PROVE  /\ q[2] < o[2] /\ o \in Made'
                      /\ state'[q] # "STARTING" /\ (Resting' => q \notin instances')
    BY DEF HeirInv
  <2>1. Heir(o, q) /\ Made' = Made
    BY <1>1 DEF Heir, Made
  <2>2. q[2] < o[2] /\ o \in Made /\ state[q] # "STARTING" /\ q \notin instances
    BY <1>2, <2>1 DEF HeirInv
  <2> QED
    BY <1>1, <2>1, <2>2 DEF TypeOK, ObjType
<1> QED
  BY <1>2, <1>4, <1>5 DEF WayInv, AgeInv

\* A step that leaves the sessions and the queue keeps the ways of every object that
\* no thread ceases to launch.
LEMMA WaysSame ==
    ASSUME WayInv, UNCHANGED <<state, connected, bindings, queue>>,
           \A o \in Obj : Launching(o) => Launching(o)'
    PROVE  WayInv'
<1>1. \A x : Posted(x)' <=> Posted(x)
  BY DEF Posted
<1>2. ASSUME NEW o \in Obj PROVE StopWay(o)' /\ StartWay(o)'
  BY <1>1, WayKept DEF WayInv
<1> QED
  BY <1>2 DEF WayInv

\* ... the choice of a slot, which does not fail,
LEMMA OnPickSlot ==
    ASSUME CalmInv, OnInv, NEW t \in Threads, PickSlot(t), UNCHANGED connected, calm'
    PROVE  OnInv'
<1> USE DEF OnInv, CalmInv, SlotsInv
<1>1. /\ UNCHANGED <<state, conn, bindings, queue, instances, gen, cur, loaded>>
      /\ pc[t] = "slot" /\ pc' = [pc EXCEPT ![t] = "put"]
  BY RoomForOne DEF PickSlot, regVars, sysVars, cntVars
<1>2. \A u \in Threads : /\ pc'[u] = IF u = t THEN "put" ELSE pc[u]
                         /\ (Restless(u)' <=> Restless(u))
  BY <1>1 DEF TypeOK, ThreadType, Restless
<1>3. WayInv'
  BY <1>1, <1>2, WaysSame DEF Launching
<1>4. HeirInv'
  BY <1>1, <1>2, HeirsKept DEF Heir, Made, Resting
<1> QED
  BY <1>1, <1>2, <1>3, <1>4 DEF AgeInv

\* ... and its recording, which posts start()'s task,
LEMMA OnPutSlot ==
    ASSUME TypeOK, StartsAnObject, OnInv, NEW t \in Threads, PutSlot(t), UNCHANGED connected, calm'
    PROVE  OnInv'
<1> USE DEF OnInv
<1>0. PICK c \in Obj : c = cur[t]
  BY DEF PutSlot, StartsAnObject
<1>1. /\ UNCHANGED <<state, conn, bindings, instances, gen, loaded>>
      /\ queue' = Append(queue, BindTask(c)) /\ pc[t] = "put"
      /\ \A u \in Threads : IF u = t THEN pc'[u] \in {"idle", "auto"}
                                     ELSE pc'[u] = pc[u] /\ cur'[u] = cur[u]
  BY <1>0 DEF PutSlot, objVars, sysVars, cntVars, TypeOK, ThreadType
<1>2. queue \in Seq(Task) /\ BindTask(c) \in Task
  BY TaskShape DEF TypeOK, LooperType
<1>3. Shifts(0, {BindTask(c)}) /\ Posted(BindTask(c))'
  <2>1. Shifts(0, {BindTask(c)}) /\ Len(queue) + 1 \in 1 .. Len(queue')
        /\ queue'[Len(queue) + 1] = BindTask(c)
    BY <1>1, <1>2, ShiftsAppend
  <2> QED
    BY <2>1 DEF Posted
<1>4. ASSUME NEW o \in Obj PROVE StopWay(o)' /\ StartWay(o)'
  <2>1. /\ Posted(UnbindTask(o))' <=> Posted(UnbindTask(o))
        /\ Posted(BindTask(o)) => Posted(BindTask(o))'
    BY <1>2, <1>3, TaskKinds, Shifted
  <2>2. Launching(o) => Launching(o)' \/ Posted(BindTask(o))'
    BY <1>0, <1>1, <1>3 DEF Launching
  <2> QED
    BY <1>1, <2>1, <2>2, WayKept DEF WayInv
<1>5. \A u \in Threads : Restless(u)' <=> Restless(u)
  BY <1>1 DEF Restless
<1>6. HeirInv'
  BY <1>1, <1>5, HeirsKept DEF Heir, Made, Resting
<1> QED
  BY <1>1, <1>4, <1>5, <1>6 DEF WayInv, AgeInv

\* ... the reading of the table,
LEMMA OnReadRows ==
    ASSUME TypeOK, TypeOK', OnInv, NEW t \in Threads, ReadRows(t), UNCHANGED connected, calm'
    PROVE  OnInv'
<1> USE DEF OnInv
<1>1. /\ UNCHANGED <<state, conn, bindings, queue, instances, cur>> /\ gen' = gen + 1
      /\ pc[t] = "read" /\ loaded'[t] = OfRows(rows, gen + 1)
      /\ \A u \in Threads : pc'[u] = IF u = t THEN "copy" ELSE pc[u]
  BY DEF ReadRows, regVars, sysVars, TypeOK, ThreadType, OfRows
<1>2. \A u \in Threads : u # t => ~Busy(u)
  BY Alone DEF ReadRows
<1>3. Made \subseteq Made'
  <2>1. gen \in Nat /\ \A o \in Obj : o[2] \in Nat
    BY BoundsAssumption DEF TypeOK, CountType, Obj, Gens
  <2> QED
    BY <1>1, <2>1 DEF Made
<1>4. WayInv'
  BY <1>1, WaysSame DEF Launching
<1>5. HeirInv'
  <2>1. ~Resting'
    BY <1>1 DEF Resting, Restless
  <2> QED
    BY <1>1, <1>3, <2>1, HeirsKept DEF Heir
<1>6. AgeInv'
  <2>1. \A o \in loaded'[t] : o[2] = gen'
    BY <1>1 DEF OfRows
  <2> QED
    BY <1>1, <1>2, <2>1 DEF AgeInv, Restless, Busy
<1> QED
  BY <1>4, <1>5, <1>6

\* ... the end of its first loop,
LEMMA OnListGone ==
    ASSUME TypeOK, OnInv, NEW t \in Threads, ListGone(t), UNCHANGED connected
    PROVE  OnInv'
<1> USE DEF OnInv
<1>1. /\ UNCHANGED <<state, conn, bindings, queue, instances, gen, cur, loaded>>
      /\ pc[t] = "copy" /\ \A u \in Threads : pc'[u] = IF u = t THEN "drop" ELSE pc[u]
  BY DEF ListGone, objVars, regVars, sysVars, cntVars, TypeOK, ThreadType
<1>2. \A u \in Threads : Restless(u)' <=> Restless(u)
  BY <1>1 DEF Restless
<1>3. WayInv'
  BY <1>1, WaysSame DEF Launching
<1>4. HeirInv'
  BY <1>1, <1>2, HeirsKept DEF Heir, Made, Resting
<1> QED
  BY <1>1, <1>2, <1>3, <1>4 DEF AgeInv

\* ... the publication of the list, in which everything is new,
LEMMA OnPublish ==
    ASSUME TypeOK, OnInv, NEW t \in Threads, Publish(t), UNCHANGED connected, calm'
    PROVE  OnInv'
<1> USE DEF OnInv
<1>1. /\ UNCHANGED <<state, conn, bindings, gen, cur, loaded>> /\ instances' = loaded[t]
      /\ queue' = queue \o <<StopServersTask, RefreshTask>>
      /\ pc[t] = "drop" /\ \A u \in Threads : pc'[u] = IF u = t THEN "auto" ELSE pc[u]
  BY DEF Publish, objVars, sysVars, cntVars, TypeOK, ThreadType
<1>2. \A u \in Threads : u # t => ~Busy(u)
  BY Alone DEF Publish
<1>3. ASSUME NEW o \in Obj PROVE StopWay(o)' /\ StartWay(o)'
  <2>1. /\ Posted(UnbindTask(o))' <=> Posted(UnbindTask(o))
        /\ Posted(BindTask(o))' <=> Posted(BindTask(o))
    BY PublishShifts, TaskKinds, PostedSame
  <2>2. Launching(o) => Launching(o)'
    BY <1>1 DEF Launching
  <2> QED
    BY <1>1, <2>1, <2>2, WayKept DEF WayInv
<1>4. ASSUME NEW o \in Obj, NEW q \in Obj, Heir(o, q)'
      PROVE  /\ q[2] < o[2] /\ o \in Made'
             /\ state'[q] # "STARTING" /\ (Resting' => q \notin instances')
  <2>1. Heir(o, q) /\ Made' = Made
    BY <1>1, <1>4 DEF Heir, Made
  <2>2. q[2] < o[2] /\ o \in Made /\ state[q] # "STARTING"
    BY <2>1 DEF HeirInv
  <2>3. q \notin loaded[t]
    <3>1. q \in loaded[t] => q[2] = gen
      BY <1>1 DEF AgeInv, Restless
    <3>2. o[2] <= gen /\ o[2] \in Nat /\ q[2] \in Nat /\ gen \in Nat
      BY <2>2, BoundsAssumption DEF Made, TypeOK, CountType, Obj, Gens
    <3> QED
      BY <2>2, <3>1, <3>2
  <2> QED
    BY <1>1, <2>1, <2>2, <2>3
<1>5. AgeInv'
  BY <1>1, <1>2 DEF AgeInv, Restless, Busy
<1> QED
  BY <1>3, <1>4, <1>5 DEF WayInv, HeirInv

\* ... its first loop, in which a settled object gets an heir,
LEMMA OnCopyOne ==
    ASSUME TypeOK, CoreInv, OnInv, NEW t \in Threads, CopyOne(t), calm'
    PROVE  OnInv'
<1> USE DEF OnInv
<1>1. /\ UNCHANGED <<instances, queue, bindings, pc, cur, loaded, gen>> /\ pc[t] = "copy"
  BY CopyShape
<1>2. PICK o \in todo[t] :
        \/ UNCHANGED <<state, conn, connected>>
        \/ \E was \in getInstance(IdOf(o)) :
              /\ state' = [state EXCEPT ![o] = state[was]]
              /\ conn' = [conn EXCEPT ![o] = conn[was]]
              /\ connected' = [connected EXCEPT ![o] = connected[was]]
              /\ Settled(was)
  BY DEF CopyOne, TakenConn, Note
<1>3. ~Resting' /\ Made' = Made /\ (\A p : Launching(p)' <=> Launching(p))
      /\ \A x : Posted(x)' <=> Posted(x)
  BY <1>1 DEF Resting, Restless, Made, Launching, Posted
<1>4. AgeInv'
  BY <1>1 DEF AgeInv, Restless
<1>5. CASE UNCHANGED <<state, conn, connected>>
  <2>1. WayInv'
    BY <1>1, <1>3, <1>5, WaysSame
  <2>2. HeirInv'
    BY <1>3, <1>5, HeirsKept DEF Heir
  <2> QED
    BY <1>4, <2>1, <2>2
<1>6. ASSUME NEW was \in getInstance(IdOf(o)), Settled(was),
             state' = [state EXCEPT ![o] = state[was]],
             conn' = [conn EXCEPT ![o] = conn[was]],
             connected' = [connected EXCEPT ![o] = connected[was]]
      PROVE  OnInv'
  <2>1. /\ o \in Obj /\ o \in loaded[t] /\ o[2] = gen /\ o \in Made /\ o \notin instances
        /\ was \in Obj /\ was \in instances /\ was \in Made /\ IdOf(was) = IdOf(o)
    <3>1. o \in Obj /\ o \in loaded[t] /\ o \in Fresh
      BY <1>1 DEF CoreInv, CopyInv, Fresh, TypeOK, ThreadType
    <3>2. o[2] = gen /\ o \in Made /\ o \notin instances
      BY <1>1, <3>1 DEF AgeInv, Restless, CoreInv, MadeInv, FreshInv
    <3> QED
      BY <1>6, <3>1, <3>2 DEF getInstance, CoreInv, MadeInv, TypeOK, RegistryType
  <2>2. was[2] < o[2] /\ was # o
    <3>1. was[2] <= gen /\ was[2] \in Nat /\ gen \in Nat
      BY <2>1, BoundsAssumption DEF Made, Obj, Gens, TypeOK, CountType
    <3>2. was[2] # o[2]
      BY <2>1 DEF IdOf, Obj
    <3> QED
      BY <2>1, <3>1, <3>2
  <2>3. /\ state'[o] = state[was] /\ conn'[o] = conn[was]
        /\ \A p \in Obj \ {o} : /\ state'[p] = state[p] /\ conn'[p] = conn[p]
                                /\ connected'[p] = connected[p]
    BY <1>6, <2>1 DEF TypeOK, ObjType
  <2>4. state[was] \notin {"STARTING", "STOPPING"}
    BY <1>6 DEF Settled
  <2>5. ASSUME NEW p \in Obj PROVE StopWay(p)' /\ StartWay(p)'
    <3>1. CASE p = o
      BY <2>3, <2>4, <3>1 DEF StopWay, StartWay
    <3>2. CASE p # o
      BY <1>1, <1>3, <2>3, <3>2, WayKept DEF WayInv
    <3> QED
      BY <3>1, <3>2
  <2>6. ASSUME NEW p \in Obj, NEW q \in Obj, Heir(p, q)'
        PROVE  q[2] < p[2] /\ p \in Made /\ state'[q] # "STARTING"
    <3>1. state[q] # "STARTING" => state'[q] # "STARTING"
      BY <2>3, <2>4
    <3>2. CASE p # o
      <4>1. Heir(p, q)
        BY <2>3, <2>6, <3>2 DEF Heir
      <4> QED
        BY <3>1, <4>1 DEF HeirInv
    <3>3. CASE p = o /\ q = was
      BY <2>1, <2>2, <2>4, <3>1, <3>3
    <3>4. CASE p = o /\ q # was
      <4>1. Heir(was, q)
        BY <2>3, <2>6, <3>4 DEF Heir
      <4>2. q[2] < was[2] /\ state[q] # "STARTING"
        BY <2>1, <4>1 DEF HeirInv
      <4>3. q[2] \in Nat /\ was[2] \in Nat /\ o[2] \in Nat
        BY <2>1, BoundsAssumption DEF Obj, Gens
      <4> QED
        BY <2>1, <2>2, <3>1, <3>4, <4>2, <4>3
    <3> QED
      BY <3>2, <3>3, <3>4
  <2>7. HeirInv'
    BY <1>3, <2>6 DEF HeirInv
  <2> QED
    BY <1>4, <2>5, <2>7 DEF WayInv
<1> QED
  BY <1>2, <1>5, <1>6

\* ... its second loop, which posts the unbinding of what it stops,
LEMMA OnDropOne ==
    ASSUME TypeOK, OnInv, NEW t \in Threads, DropOne(t), UNCHANGED connected
    PROVE  OnInv'
<1> USE DEF OnInv
<1>1. UNCHANGED <<pc, cur, loaded>>
  BY DropShape
<1>2. PICK p \in Obj : Drops(p)
  BY DropShape
<1>3. /\ UNCHANGED <<conn, bindings, instances, gen>>
      /\ \/ /\ state' = [state EXCEPT ![p] = "STOPPING"] /\ queue' = Append(queue, UnbindTask(p))
         \/ UNCHANGED <<state, queue>>
  BY <1>2 DEF Drops
<1>4. \A o : Launching(o)' <=> Launching(o)
  BY <1>1 DEF Launching
<1>5. HeirInv' /\ AgeInv'
  <2>1. \A q \in Obj : state'[q] = "STARTING" => state[q] = "STARTING"
    BY <1>3 DEF TypeOK, ObjType
  <2>2. (Resting' <=> Resting) /\ Made' = Made
    BY <1>1, <1>3 DEF Resting, Restless, Made
  <2>3. HeirInv'
    BY <1>3, <2>1, <2>2, HeirsKept DEF Heir
  <2> QED
    BY <1>1, <1>3, <2>3 DEF AgeInv, Restless
<1>6. CASE UNCHANGED <<state, queue>>
  BY <1>3, <1>4, <1>5, <1>6, WaysSame
<1>7. CASE /\ state' = [state EXCEPT ![p] = "STOPPING"] /\ queue' = Append(queue, UnbindTask(p))
  <2>1. Shifts(0, {UnbindTask(p)}) /\ Posted(UnbindTask(p))'
    <3>1. Shifts(0, {UnbindTask(p)}) /\ Len(queue) + 1 \in 1 .. Len(queue')
          /\ queue'[Len(queue) + 1] = UnbindTask(p)
      BY <1>7, TaskShape, ShiftsAppend DEF TypeOK, LooperType
    <3> QED
      BY <3>1 DEF Posted
  <2>2. ASSUME NEW o \in Obj PROVE StopWay(o)' /\ StartWay(o)'
    <3>1. CASE o = p
      <4>1. state'[o] = "STOPPING"
        BY <1>7, <3>1 DEF TypeOK, ObjType
      <4> QED
        BY <2>1, <3>1, <4>1 DEF StopWay, StartWay
    <3>2. CASE o # p
      <4>1. /\ Posted(UnbindTask(o))' <=> Posted(UnbindTask(o))
            /\ Posted(BindTask(o)) => Posted(BindTask(o))'
        BY <2>1, <3>2, TaskKinds, Shifted
      <4>2. state'[o] = state[o]
        BY <1>7, <3>2 DEF TypeOK, ObjType
      <4> QED
        BY <1>3, <1>4, <4>1, <4>2, WayKept DEF WayInv
    <3> QED
      BY <3>1, <3>2
  <2> QED
    BY <1>5, <2>2 DEF WayInv
<1> QED
  BY <1>3, <1>6, <1>7

\* ... the screen's first reading of the list, all of whose objects are new,
LEMMA OnStartUi ==
    ASSUME TypeOK, TypeOK', OnInv, StartUi, UNCHANGED connected, calm'
    PROVE  OnInv'
<1> USE DEF OnInv
<1> DEFINE new == OfRows(rows, gen + 1)
<1>1. /\ UNCHANGED <<state, conn, bindings, queue, pc, cur, loaded>>
      /\ \/ UNCHANGED <<instances, gen>>
         \/ instances' = new /\ gen' = gen + 1
      /\ pc["main"] = "idle" /\ ~Busy("io")
  BY DEF StartUi, thrVars, sysVars, OfRows, MainFree, Note, Other
<1>2. \A u \in Threads : ~Restless(u) /\ ~Restless(u)'
  BY <1>1 DEF Busy, Threads, Restless
<1>3. gen \in Nat /\ \A o \in Obj : o[2] \in Nat
  BY BoundsAssumption DEF TypeOK, CountType, Obj, Gens
<1>4. WayInv'
  BY <1>1, WaysSame DEF Launching
<1>5. ASSUME NEW o \in Obj, NEW q \in Obj, Heir(o, q)'
      PROVE  /\ q[2] < o[2] /\ o \in Made'
             /\ state'[q] # "STARTING" /\ (Resting' => q \notin instances')
  <2>1. Heir(o, q)
    BY <1>1, <1>5 DEF Heir
  <2>2. q[2] < o[2] /\ o \in Made /\ state[q] # "STARTING" /\ q \notin instances
    BY <1>2, <2>1 DEF HeirInv, Resting
  <2>3. CASE UNCHANGED <<instances, gen>>
    BY <1>1, <2>2, <2>3 DEF Made
  <2>4. CASE instances' = new /\ gen' = gen + 1
    <3>1. o[2] <= gen
      BY <2>2 DEF Made
    <3>2. q \notin new
      BY <1>3, <2>2, <3>1 DEF OfRows
    <3> QED
      BY <1>1, <1>3, <2>2, <2>4, <3>1, <3>2 DEF Made
  <2> QED
    BY <1>1, <2>3, <2>4
<1>6. AgeInv'
  BY <1>2 DEF AgeInv
<1> QED
  BY <1>4, <1>5, <1>6 DEF HeirInv

\* ... and the death of a service process: Android will tell it.
LEMMA OnDie ==
    ASSUME TypeOK, OnInv, NEW i \in Kinds, NEW s \in Slots, Die(i, s), UNCHANGED connected
    PROVE  OnInv'
<1> USE DEF OnInv
<1>1. /\ UNCHANGED <<state, conn, queue, instances, gen, pc, cur, loaded>>
      /\ bindings' = {IF b.kind = i /\ b.slot = s /\ b.phase = "up"
                      THEN [b EXCEPT !.phase = "dead"] ELSE b : b \in bindings}
  BY DEF Die, objVars, regVars, thrVars, cntVars
<1>2. ASSUME NEW o \in Obj PROVE StopWay(o)' /\ StartWay(o)'
  <2>1. ASSUME NEW k \in Kinds, Due(o, k) PROVE Due(o, k)'
    <3>1. PICK b \in bindings : b.kind = k /\ b.conn[1] = o /\ b.phase # "up"
      BY <2>1 DEF Due
    <3>2. b \in bindings'
      BY <1>1, <3>1
    <3> QED
      BY <3>1, <3>2 DEF Due
  <2>2. Called(o) => Called(o)'
    BY <2>1 DEF Called
  <2>3. (\A x : Posted(x)' <=> Posted(x)) /\ (Launching(o)' <=> Launching(o))
    BY <1>1 DEF Posted, Launching
  <2> QED
    BY <1>1, <2>2, <2>3 DEF WayInv, StopWay, StartWay
<1>3. (Resting' <=> Resting) /\ Made' = Made
  BY <1>1 DEF Resting, Restless, Made
<1>4. HeirInv'
  BY <1>1, <1>3, HeirsKept DEF Heir
<1> QED
  BY <1>1, <1>2, <1>4 DEF WayInv, AgeInv, Restless

\* Nothing is under way at first.
LEMMA InitOnward == Init => OnwardInv
<1> SUFFICES ASSUME Init PROVE OnwardInv
  OBVIOUS
<1>1. /\ \A o \in Obj : state[o] = "IDLE" /\ \A k \in Kinds : conn[o][k] = NoConn
      /\ \A t \in Threads : ~Restless(t)
  BY DEF Init, NullConn, Restless, Threads
<1> QED
  BY <1>1, InitCalm DEF OnwardInv, OnInv, WayInv, StopWay, StartWay, HeirInv, Heir, AgeInv

\* Every step keeps what is under way.
LEMMA NextOnward == ASSUME OnwardInv, Next PROVE OnwardInv'
<1> USE DEF OnwardInv
<1>1. CalmInv'
  BY NextCalm
<1>2. ASSUME calm' PROVE OnInv'
  <2>1. TypeOK /\ TypeOK' /\ StartsAnObject /\ CoreInv /\ OnInv /\ calm
    BY <1>1, <1>2, CalmBefore DEF CalmInv, SlotsInv
  <2>2. CASE RunUnbind
    BY <1>2, <2>1, <2>2, OnUnbinds
  <2>3. ASSUME NEW b \in bindings, onServiceConnected(b) \/ onServiceDisconnected(b) PROVE OnInv'
    BY <1>2, <2>1, <2>3, OnConnects, OnDisconnects
  <2>4. ASSUME NEW t \in Threads, CopyOne(t) PROVE OnInv'
    BY <1>2, <2>1, <2>4, OnCopyOne
  <2>5. CASE UNCHANGED connected
    <3>1. CASE Roams
      BY <1>2, <2>1, <2>2, <2>3, <2>5, <3>1, OnRoams DEF Roams
    <3>2. ASSUME NEW t \in Threads, NEW o \in Obj, Begins(t, o) PROVE OnInv'
      BY <1>2, <2>1, <2>5, <3>2, OnBegins
    <3>3. ASSUME NEW t \in Threads, PickSlot(t) \/ PutSlot(t) PROVE OnInv'
      BY <1>2, <2>1, <2>5, <3>3, OnPickSlot, OnPutSlot
    <3>4. ASSUME NEW t \in Threads, ReadRows(t) \/ ListGone(t) PROVE OnInv'
      BY <1>2, <2>1, <2>5, <3>4, OnReadRows, OnListGone
    <3>5. ASSUME NEW t \in Threads, DropOne(t) \/ Publish(t) PROVE OnInv'
      BY <1>2, <2>1, <2>5, <3>5, OnDropOne, OnPublish
    <3>6. CASE StartUi
      BY <1>2, <2>1, <2>5, <3>6, OnStartUi
    <3>7. ASSUME NEW k \in Kinds, NEW s \in Slots, Die(k, s) PROVE OnInv'
      BY <2>1, <2>5, <3>7, OnDie
    <3> QED
      BY <2>1, <2>4, StepShapes, <3>1, <3>2, <3>3, <3>4, <3>5, <3>6, <3>7
  <2> QED
    BY FlagSteps, <2>2, <2>3, <2>4, <2>5
<1> QED
  BY <1>1, <1>2

\* So does a step in which nothing changes.
LEMMA OnwardStutters == ASSUME OnwardInv, UNCHANGED vars PROVE OnwardInv'
<1>1. CalmInv'
  BY CalmStutters DEF OnwardInv
<1>2. /\ UNCHANGED <<state, conn, connected, bindings, queue, instances, gen, pc, cur, loaded, calm>>
  BY DEF vars, objVars, regVars, thrVars, sysVars, cntVars
<1>3. (Resting' <=> Resting) /\ Made' = Made /\ \A o : Launching(o)' <=> Launching(o)
  BY <1>2 DEF Resting, Restless, Made, Launching
<1>4. WayInv => WayInv'
  BY <1>2, <1>3, WaysSame
<1>5. HeirInv => HeirInv'
  BY <1>2, <1>3, HeirsKept DEF Heir
<1>6. AgeInv => AgeInv'
  BY <1>2 DEF AgeInv, Restless
<1> QED
  BY <1>1, <1>2, <1>4, <1>5, <1>6 DEF OnwardInv, OnInv

\* A stop that has begun still has its task in the queue; a start is inside start(),
\* or has its task in the queue, or waits for a service that will report or be lost.
NothingIsStuck ==
    calm => \A o \in Obj :
        /\ state[o] = "STOPPING" => Posted(UnbindTask(o))
        /\ state[o] = "STARTING" =>
              \/ \E t \in Threads : pc[t] \in {"slot", "put"} /\ cur[t] = o
              \/ Posted(BindTask(o))
              \/ \E b \in bindings : b.conn[1] = o /\ b.phase # "up"

\* What StartSettles and StopSettles need of the state, for any number of profiles,
\* slots and edits and of deaths of service processes: as long as the application
\* stays calm, no profile is left STARTING or STOPPING with nothing under way.
\* stop() posts its task in the step that says STOPPING and start() before it returns,
\* a reload copies settled objects only, and a callback that does not end a start
\* leaves the one of the other service to come.
THEOREM StartsAndStopsGoOn == Spec => []NothingIsStuck
<1>1. OnwardInv /\ [Next]_vars => OnwardInv'
  BY NextOnward, OnwardStutters
<1>2. OnwardInv => NothingIsStuck
  BY DEF OnwardInv, OnInv, WayInv, StopWay, StartWay, Launching, Called, Due, NothingIsStuck
<1> QED
  BY <1>1, <1>2, InitOnward, PTL DEF Spec
=============================================================================
