------------------------ MODULE MoonrakerPort_proofs ------------------------
(***************************************************************************)
(* For any number of profiles: while calm, the lock excludes, and no two    *)
(* profiles have one port.  The inductive invariant says in addition what a *)
(* process in the section has learned: every port in use is among the ones  *)
(* it has noted or in a file it has still to read, and the one it has       *)
(* chosen is nobody's.                                                      *)
(***************************************************************************)
EXTENDS MoonrakerPort, FiniteSetTheorems, TLAPS

Noted ==
    calm => \A p \in Profiles : pc[p] = "scan" =>
        \A q \in Profiles : conf[q] \in Ports => q \in todo[p] \/ conf[q] \in used[p]

ChosenIsFree ==
    calm => \A p \in Profiles : pc[p] = "write" => \A q \in Profiles : conf[q] # port[p]

PortInv == TypeOK /\ LockExclusive /\ Noted /\ ChosenIsFree /\ PortsDistinct

\* There is a first port, and the marks for a missing or an empty file are none.
LEMMA PortNumbers ==
    /\ FirstPort \in Ports /\ Ports \subseteq Nat
    /\ NoConf \notin Ports /\ EmptyConf \notin Ports
<1>1. Cardinality(Profiles) \in Nat
  BY ProfilesAssumption, FS_CardinalityType
<1> QED
  BY <1>1 DEF Ports, FirstPort, NoConf, EmptyConf

\* The initial state satisfies the invariant.
LEMMA InitInv == Init => PortInv
<1> SUFFICES ASSUME Init PROVE PortInv
  OBVIOUS
<1>1. TypeOK
  BY PortNumbers DEF Init, TypeOK, Phases
<1>2. LockExclusive /\ Noted /\ ChosenIsFree
  BY DEF Init, LockExclusive, Noted, ChosenIsFree, InSection
<1>3. PortsDistinct
  BY PortNumbers DEF Init, PortsDistinct
<1> QED
  BY <1>1, <1>2, <1>3 DEF PortInv

\* A process moves on without touching a file, into the section never.
LEMMA QuietSteps ==
    ASSUME PortInv, NEW p \in Profiles,
           onBind(p) \/ onStartPython(p) \/ LookAtAge(p) \/ Expire(p) \/ OpenFails(p)
    PROVE  PortInv'
<1> USE DEF PortInv, onBind, onStartPython, LookAtAge, Expire, OpenFails, Goto, locals, file
<1>1. TypeOK'
  BY DEF TypeOK, Phases
<1>2. LockExclusive'
  BY DEF LockExclusive, InSection, TypeOK
<1>3. Noted' /\ ChosenIsFree' /\ PortsDistinct'
  BY DEF Noted, ChosenIsFree, PortsDistinct, TypeOK
<1> QED
  BY <1>1, <1>2, <1>3

\* Deleting the lock of a process that is no longer choosing disturbs nobody.
LEMMA DeleteSteps ==
    ASSUME PortInv, NEW p \in Profiles, DeleteStale(p) \/ ForceDelete(p)
    PROVE  PortInv'
<1> USE DEF PortInv, DeleteStale, ForceDelete, DeleteLock, Goto, locals, Note, DeadOwner
<1>1. TypeOK'
  <2>1. calm' \in BOOLEAN
    BY Zenon
  <2> QED
    BY <2>1 DEF TypeOK, Phases
<1>2. LockExclusive'
  BY ProfilesAssumption DEF LockExclusive, InSection, TypeOK
<1>3. Noted' /\ ChosenIsFree' /\ PortsDistinct'
  BY DEF Noted, ChosenIsFree, PortsDistinct, TypeOK
<1> QED
  BY <1>1, <1>2, <1>3

\* A process that creates the lock file finds nobody in the section.
LEMMA EnterSteps ==
    ASSUME PortInv, NEW p \in Profiles, CreateLock(p) \/ ForceCreate(p)
    PROVE  PortInv'
<1> USE DEF PortInv
<1>1. CASE lock = NoLock
  <2>1. /\ lock' = p /\ lockAge' = 0 /\ Enter(p, TRUE)
        /\ UNCHANGED <<rows, known, conf, used, port, kills>>
    BY <1>1 DEF CreateLock, ForceCreate
  <2> USE DEF Enter, Goto, Note
  <2>2. TypeOK'
    BY <2>1 DEF TypeOK, Phases
  <2>3. calm => \A q \in Profiles : ~InSection(q)
    BY <1>1, ProfilesAssumption DEF LockExclusive
  <2>4. LockExclusive'
    BY <2>1, <2>3 DEF LockExclusive, InSection, TypeOK
  <2>5. Noted'
    BY <2>1, <2>3 DEF Noted, InSection, ListIsComplete, TypeOK
  <2>6. ChosenIsFree' /\ PortsDistinct'
    BY <2>1, <2>3 DEF ChosenIsFree, PortsDistinct, InSection, TypeOK
  <2> QED
    BY <2>2, <2>4, <2>5, <2>6
<1>2. CASE CreateLock(p) /\ lock # NoLock
  <2> USE <1>2 DEF CreateLock, Goto, file
  <2>1. TypeOK'
    BY DEF TypeOK, Phases
  <2>2. LockExclusive'
    BY DEF LockExclusive, InSection, TypeOK
  <2>3. /\ pc' = [pc EXCEPT ![p] = "age"]
        /\ UNCHANGED <<conf, todo, used, port, calm>>
    OBVIOUS
  <2>4. Noted' /\ ChosenIsFree' /\ PortsDistinct'
    BY <2>3 DEF Noted, ChosenIsFree, PortsDistinct, TypeOK
  <2> QED
    BY <2>1, <2>2, <2>4
<1>3. CASE ForceCreate(p) /\ lock # NoLock
  <2>1. /\ UNCHANGED file /\ Enter(p, FALSE)
        /\ UNCHANGED <<rows, known, conf, used, port, kills>>
    BY <1>3 DEF ForceCreate
  <2>2. TypeOK'
    BY <2>1 DEF TypeOK, Phases, Enter, Goto, Note, file
  <2>3. ~calm'
    BY <2>1 DEF Enter, Note
  <2> QED
    BY <2>2, <2>3 DEF LockExclusive, Noted, ChosenIsFree, PortsDistinct
<1> QED
  BY <1>1, <1>2, <1>3

\* A file that has been read is replaced by the port it names.
LEMMA ReadStep ==
    ASSUME PortInv, NEW p \in Profiles, ReadConf(p)
    PROVE  PortInv'
<1> USE DEF PortInv, ReadConf, file
<1>1. TypeOK'
  BY DEF TypeOK, PortsOf
<1>2. LockExclusive' /\ ChosenIsFree' /\ PortsDistinct'
  BY DEF LockExclusive, InSection, ChosenIsFree, PortsDistinct
<1>3. Noted'
  BY DEF Noted, PortsOf, TypeOK
<1> QED
  BY <1>1, <1>2, <1>3

\* Once every file is read, the number that freePort++ stops at is free.
LEMMA OpenStep ==
    ASSUME PortInv, NEW p \in Profiles, OpenConf(p)
    PROVE  PortInv'
<1> USE DEF PortInv
<1>1. PICK n \in Ports : n \notin used[p] /\ port' = [port EXCEPT ![p] = n]
  BY DEF OpenConf, IsFreePort
<1>2. /\ pc[p] = "scan" /\ todo[p] = {}
      /\ conf' = [conf EXCEPT ![p] = EmptyConf]
      /\ pc' = [pc EXCEPT ![p] = "write"]
      /\ UNCHANGED <<rows, known, todo, used, acquired, waited, lock, lockAge, kills, calm>>
  BY DEF OpenConf, Goto, file
<1>3. TypeOK'
  BY <1>1, <1>2 DEF TypeOK, Phases
<1>4. LockExclusive'
  BY <1>2 DEF LockExclusive, InSection, TypeOK
<1>5. Noted'
  BY <1>2, PortNumbers DEF Noted, TypeOK
<1>6. calm => \A q \in Profiles : conf'[q] # n
  BY <1>1, <1>2, PortNumbers DEF Noted, TypeOK
<1>7. calm => \A q \in Profiles : InSection(q) => q = p
  BY <1>2 DEF LockExclusive, InSection
<1>8. ChosenIsFree'
  BY <1>1, <1>2, <1>6, <1>7 DEF ChosenIsFree, InSection, TypeOK
<1>9. PortsDistinct'
  BY <1>2, PortNumbers DEF PortsDistinct, TypeOK
<1> QED
  BY <1>3, <1>4, <1>5, <1>8, <1>9

\* The port written is nobody else's, and no other process is choosing.
LEMMA WriteStep ==
    ASSUME PortInv, NEW p \in Profiles, WriteConf(p)
    PROVE  PortInv'
<1> USE DEF PortInv
<1>1. /\ pc[p] = "write"
      /\ conf' = [conf EXCEPT ![p] = port[p]] \/ conf' = conf
      /\ pc' = [pc EXCEPT ![p] = "unlock"]
      /\ UNCHANGED <<rows, known, todo, used, port, acquired, waited, lock, lockAge, kills, calm>>
  BY DEF WriteConf, Goto, locals, file
<1>2. TypeOK'
  BY <1>1 DEF TypeOK, Phases
<1>3. LockExclusive'
  BY <1>1 DEF LockExclusive, InSection, TypeOK
<1>4. calm => \A q \in Profiles : InSection(q) => q = p
  BY <1>1 DEF LockExclusive, InSection
<1>5. Noted' /\ ChosenIsFree'
  BY <1>1, <1>4 DEF Noted, ChosenIsFree, InSection, TypeOK
<1>6. PortsDistinct'
  BY <1>1 DEF PortsDistinct, ChosenIsFree, TypeOK
<1> QED
  BY <1>2, <1>3, <1>5, <1>6

\* Leaving the section, by the finally block or killed, disturbs nobody.
LEMMA LeaveSteps ==
    ASSUME PortInv, NEW p \in Profiles, Unlock(p) \/ Kill(p)
    PROVE  PortInv'
<1> USE DEF PortInv, ForgetLocals, Goto, file
<1>1. TypeOK'
  <2>1. CASE Unlock(p)
    BY <2>1, PortNumbers DEF TypeOK, Phases, Unlock
  <2>2. CASE Kill(p)
    BY <2>2, PortNumbers DEF TypeOK, Phases, Kill
  <2> QED
    BY <2>1, <2>2
<1>2. LockExclusive'
  <2>1. CASE Kill(p)
    BY <2>1 DEF Kill, LockExclusive, InSection, TypeOK
  <2>2. CASE Unlock(p)
    <3>1. calm => \A q \in Profiles : InSection(q) => q = p
      BY <2>2 DEF Unlock, LockExclusive, InSection
    <3> QED
      BY <2>2, <3>1 DEF Unlock, LockExclusive, InSection, TypeOK
  <2> QED
    BY <2>1, <2>2
<1>3. Noted' /\ ChosenIsFree'
  BY DEF Unlock, Kill, Noted, ChosenIsFree, TypeOK
<1>4. PortsDistinct'
  BY DEF Unlock, Kill, PortsDistinct
<1> QED
  BY <1>1, <1>2, <1>3, <1>4

\* A new profile and the passing of time leave the files and the lock alone.
LEMMA OtherSteps ==
    ASSUME PortInv, Tick \/ (\E p \in Profiles : Create(p)) \/ UNCHANGED vars
    PROVE  PortInv'
<1> USE DEF PortInv
<1>1. UNCHANGED <<conf, pc, todo, used, port, acquired, lock, calm>>
  BY DEF Tick, Create, vars, locals, file
<1>2. TypeOK'
  BY DEF Tick, Create, vars, locals, file, TypeOK
<1>3. LockExclusive' /\ Noted' /\ ChosenIsFree' /\ PortsDistinct'
  BY <1>1 DEF LockExclusive, InSection, Noted, ChosenIsFree, PortsDistinct
<1> QED
  BY <1>2, <1>3

\* The invariant is preserved by every step.
LEMMA NextInv ==
    ASSUME PortInv, [Next]_vars
    PROVE  PortInv'
<1>1. ASSUME NEW p \in Profiles, onBind(p) \/ Step(p) \/ Kill(p)
      PROVE  PortInv'
  BY <1>1, QuietSteps, DeleteSteps, EnterSteps, ReadStep, OpenStep, WriteStep, LeaveSteps
     DEF Step
<1> QED
  BY <1>1, OtherSteps DEF Next

\* The action of withMoonrakerPortLock runs in at most one process, for any
\* number of profiles and whichever processes are killed, as long as no waiter
\* deletes a live owner's file.
THEOREM LockExcludes == Spec => []LockExclusive
<1>1. PortInv /\ [Next]_vars => PortInv'
  BY NextInv
<1>2. PortInv => LockExclusive
  BY DEF PortInv
<1> QED
  BY InitInv, <1>1, <1>2, PTL DEF Spec

\* No two profiles get one Moonraker port, under the same proviso and if the
\* lists the processes have read are complete.
THEOREM PortsAreDistinct == Spec => []PortsDistinct
<1>1. PortInv /\ [Next]_vars => PortInv'
  BY NextInv
<1>2. PortInv => PortsDistinct
  BY DEF PortInv
<1> QED
  BY InitInv, <1>1, <1>2, PTL DEF Spec

\* Every variable keeps its type; a port that is noted or chosen is a real one.
THEOREM TypeCorrect == Spec => []TypeOK
<1>1. PortInv /\ [Next]_vars => PortInv'
  BY NextInv
<1>2. PortInv => TypeOK
  BY DEF PortInv
<1> QED
  BY InitInv, <1>1, <1>2, PTL DEF Spec

-----------------------------------------------------------------------------
(* The lock file comes to an end with the section of its owner. *)

\* While no process has been killed, a lock file that exists belongs to a
\* process in the section that knows it has acquired it.
OwnerLives ==
    kills = 0 /\ lock # NoLock => acquired[lock] /\ InSection(lock)

\* The lock changes hands by createNewFile(), by a delete() and by the finally
\* block of its owner, and in no other way.
LEMMA OwnerSteps ==
    ASSUME TypeOK, OwnerLives, NEW p \in Profiles,
           Create(p) \/ onBind(p) \/ Step(p) \/ Kill(p)
    PROVE  OwnerLives'
<1> USE DEF OwnerLives, InSection, Goto
<1>1. CASE \/ onBind(p) \/ onStartPython(p) \/ LookAtAge(p) \/ Expire(p)
           \/ OpenFails(p) \/ Create(p)
  BY <1>1 DEF TypeOK, onBind, onStartPython, LookAtAge, Expire, OpenFails, Create, locals, file
<1>2. CASE DeleteStale(p) \/ ForceDelete(p)
  BY <1>2 DEF DeleteStale, ForceDelete, DeleteLock
<1>3. CASE CreateLock(p)
  BY <1>3 DEF TypeOK, CreateLock, Enter, file
<1>4. CASE ForceCreate(p)
  BY <1>4 DEF TypeOK, ForceCreate, Enter, file
<1>5. CASE ReadConf(p) \/ OpenConf(p) \/ WriteConf(p)
  BY <1>5 DEF TypeOK, ReadConf, OpenConf, WriteConf, locals, file
<1>6. CASE Unlock(p)
  BY <1>6 DEF TypeOK, Unlock, Releases, ForgetLocals, file
<1>7. CASE Kill(p)
  BY <1>7 DEF TypeOK, Kill
<1> QED
  BY <1>1, <1>2, <1>3, <1>4, <1>5, <1>6, <1>7 DEF Step

\* If no process was killed and every one has gone on, by a success, an
\* IOException or the deadline, the lock file is gone: whoever created it has
\* deleted it, or a waiter has.
THEOREM LockIsReleased == Spec => []LockReleased
<1>1. Init => OwnerLives
  BY DEF Init, OwnerLives
<1>2. ASSUME TypeOK, OwnerLives, [Next]_vars
      PROVE  OwnerLives'
  <2>1. CASE Tick \/ UNCHANGED vars
    BY <1>2, <2>1 DEF OwnerLives, InSection, Tick, vars, locals, file
  <2> QED
    BY <1>2, <2>1, OwnerSteps DEF Next
<1>3. TypeOK /\ OwnerLives => LockReleased
  BY DEF TypeOK, OwnerLives, LockReleased, InSection
<1> QED
  BY <1>1, <1>2, <1>3, TypeCorrect, PTL DEF Spec
=============================================================================
