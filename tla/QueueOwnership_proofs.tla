------------------------ MODULE QueueOwnership_proofs ------------------------
(***************************************************************************)
(* At most one keyed owner of a queue and at most one updater per claim,   *)
(* in every cluster and whatever the bounds.                               *)
(***************************************************************************)
EXTENDS QueueOwnership, TLAPS

-----------------------------------------------------------------------------
(* The variables keep their types. *)
LEMMA InitTypeOK == Init => TypeOK
BY WorkersAssumption, BoundsAssumption
   DEF Init, TypeOK, Everywhere, EmptyDirectory, Directory, Absent, Messages

LEMMA FaultType == TypeOK /\ Fault => faults' \in 0 .. MaxFaults
BY BoundsAssumption DEF TypeOK, Fault

LEMMA ProcessDiesType ==
    ASSUME TypeOK, NEW n \in Node, NEW how \in {"crashed", "panicked"},
           ProcessDies(n, how), faults' \in 0 .. MaxFaults
    PROVE  TypeOK'
<1>1. /\ launches' \in [Node -> 0 .. MaxLaunches]
      /\ deletes' \in [Node -> 0 .. Workers]
  BY BoundsAssumption, WorkersAssumption DEF TypeOK, ProcessDies
<1>2. message' \in [Node -> Messages]
  BY DEF TypeOK, ProcessDies, Messages
<1>3. /\ seen' \in [Node -> Nat] /\ basis' \in [Node -> Nat] /\ resets' \in [Node -> Nat]
      /\ creating' \in [Node -> Nat] /\ looping' \in [Node -> Nat]
  BY DEF TypeOK, ProcessDies, Absent
<1>4. /\ proc' \in [Node -> {"up", "crashed", "panicked"}]
      /\ mgr' \in [Node -> {"select", "claim", "release", "returned"}]
      /\ state' \in [Node -> {"pre", "start", "running", "end"}]
      /\ queueMaster' \in [Node -> BOOLEAN]
      /\ running' \in [Node -> BOOLEAN]
      /\ mon' \in [Node -> {"select", "verdict", "event", "delete", "kill"}]
      /\ masterTimer' \in [Node -> {"armed", "fired", "stopped"}]
  BY DEF TypeOK, ProcessDies
<1> QED
  BY <1>1, <1>2, <1>3, <1>4 DEF TypeOK, ProcessDies, etcdVars

LEMMA ReceivedType ==
    ASSUME TypeOK, NEW n \in Node, Received(n)
    PROVE  /\ mon' \in [Node -> {"select", "verdict", "event", "delete", "kill"}]
           /\ message' \in [Node -> Messages]
           /\ seen' \in [Node -> Nat]
           /\ UNCHANGED <<dir, lastIndex, lease, masterTimer, creating, looping,
                          deletes, events, faults>>
<1>1. "none" \in Messages /\ Absent \in Nat
  BY DEF Messages, Absent
<1> QED
  BY <1>1 DEF TypeOK, Received, etcdVars, updaterVars, boundVars

LEMMA StepTypeOK == TypeOK /\ [Next]_vars => TypeOK'
<1> SUFFICES ASSUME TypeOK, [Next]_vars PROVE TypeOK'
  OBVIOUS
<1>1. ASSUME NEW n \in Node, ManagerTimer(n) PROVE TypeOK'
  <2>1. CASE PreTimer(n)
    BY <2>1 DEF TypeOK, PreTimer, etcdVars, monitorVars, updaterVars, boundVars
  <2>2. CASE StartTimer(n)
    <3>1. launches' \in [Node -> 0 .. MaxLaunches]
      BY <2>2, BoundsAssumption DEF TypeOK, StartTimer, Launch
    <3>2. state' \in [Node -> {"pre", "start", "running", "end"}]
      BY <2>2 DEF TypeOK, StartTimer
    <3> QED
      BY <2>2, <3>1, <3>2
         DEF TypeOK, StartTimer, etcdVars, monitorVars, updaterVars, boundVars
  <2>3. CASE RunningTimer(n)
    BY <2>3 DEF TypeOK, RunningTimer, etcdVars, monitorVars, updaterVars, boundVars
  <2>4. CASE EndTimer(n)
    BY <2>4 DEF TypeOK, EndTimer, etcdVars, monitorVars, updaterVars, boundVars
  <2> QED
    BY <1>1, <2>1, <2>2, <2>3, <2>4 DEF ManagerTimer
<1>2. ASSUME NEW n \in Node, LaunchTakesEffect(n) PROVE TypeOK'
  <2>1. launches' \in [Node -> 0 .. MaxLaunches]
    BY <1>2, BoundsAssumption DEF TypeOK, LaunchTakesEffect
  <2> QED
    BY <1>2, <2>1 DEF TypeOK, LaunchTakesEffect, etcdVars, monitorVars, updaterVars, boundVars
<1>3. ASSUME NEW n \in Node, Claim(n) PROVE TypeOK'
  BY <1>3 DEF TypeOK, Claim, etcdVars, boundVars
<1>4. ASSUME NEW n \in Node, Release(n) PROVE TypeOK'
  BY <1>4 DEF TypeOK, Release, AfterRelease, etcdVars, updaterVars, boundVars
<1>5. ASSUME NEW n \in Node, MonitorRequestsDelete(n) PROVE TypeOK'
  <2>1. deletes' \in [Node -> 0 .. Workers]
    BY <1>5, WorkersAssumption DEF TypeOK, MonitorRequestsDelete
  <2> QED
    BY <1>5, <2>1 DEF TypeOK, MonitorRequestsDelete, etcdVars, managerVars, boundVars
<1>6. ASSUME NEW n \in Node, MonitorKillsUpdater(n) PROVE TypeOK'
  BY <1>6 DEF TypeOK, MonitorKillsUpdater, StopTimer, etcdVars, managerVars, boundVars
<1>7. ASSUME NEW n \in Node, MasterTimerFires(n) PROVE TypeOK'
  BY <1>7 DEF TypeOK, MasterTimerFires, etcdVars, managerVars, updaterVars, boundVars
<1>8. ASSUME NEW n \in Node, NEW v \in Messages, NEW i \in Nat, SendVerdict(n, v, i),
             faults' \in 0 .. MaxFaults
      PROVE  TypeOK'
  BY <1>8 DEF TypeOK, SendVerdict, etcdVars, managerVars, updaterVars
<1>9. ASSUME NEW n \in Node, Poll(n) \/ PollFails(n) PROVE TypeOK'
  <2>1. "became master" \in Messages /\ "became slave" \in Messages
    BY DEF Messages
  <2>2. dir[n] \in Nat /\ Absent \in Nat
    BY DEF TypeOK, Directory, Absent
  <2>3. faults' \in 0 .. MaxFaults
    BY <1>9, FaultType DEF Poll, PollFails, TypeOK
  <2> QED
    BY <1>8, <1>9, <2>1, <2>2, <2>3 DEF Poll, PollFails
<1>10. ASSUME NEW n \in Node, DeliverVerdict(n) PROVE TypeOK'
  <2>1. CASE BecameMaster(n)
    <3>1. Received(n)
      BY <2>1 DEF BecameMaster
    <3>2. basis' \in [Node -> Nat]
      BY <2>1 DEF TypeOK, BecameMaster
    <3>3. state' \in [Node -> {"pre", "start", "running", "end"}]
      BY <2>1 DEF TypeOK, BecameMaster
    <3> QED
      BY <2>1, <3>1, <3>2, <3>3, ReceivedType DEF TypeOK, BecameMaster
  <2>2. CASE BecameSlave(n)
    <3>1. Received(n)
      BY <2>2 DEF BecameSlave
    <3>2. basis' \in [Node -> Nat]
      BY <2>2 DEF TypeOK, BecameSlave, Absent
    <3>3. running' \in [Node -> BOOLEAN] /\ queueMaster' \in [Node -> BOOLEAN]
      BY Zenon, <2>2 DEF TypeOK, BecameSlave
    <3> QED
      BY <2>2, <3>1, <3>2, <3>3, ReceivedType DEF TypeOK, BecameSlave
  <2> QED
    BY <1>10, <2>1, <2>2 DEF DeliverVerdict
<1>11. ASSUME NEW n \in Node, EventArrives(n) PROVE TypeOK'
  <2>1. events' \in 0 .. MaxEvents
    BY <1>11, BoundsAssumption DEF TypeOK, EventArrives
  <2>2. message' \in [Node -> Messages]
    <3>1. PICK e \in Events : message' = [message EXCEPT ![n] = e]
      BY <1>11 DEF EventArrives
    <3>2. e \in Messages
      BY EventsAssumption DEF Messages
    <3> QED
      BY <3>1, <3>2 DEF TypeOK
  <2> QED
    BY <1>11, <2>1, <2>2 DEF TypeOK, EventArrives, etcdVars, managerVars, updaterVars
<1>12. ASSUME NEW n \in Node, DeliverEvent(n) PROVE TypeOK'
  <2>1. CASE QueueUpdatePanics(n)
    BY <2>1, ProcessDiesType DEF QueueUpdatePanics, TypeOK
  <2>2. CASE QueueUpdateResets(n)
    <3>1. message' \in [Node -> Messages]
      BY <2>2 DEF TypeOK, QueueUpdateResets, Messages
    <3>3. resets' \in [Node -> Nat]
      <4>1. resets \in [Node -> Nat] /\ resets' = [resets EXCEPT ![n] = resets[n] + 1]
        BY <2>2 DEF TypeOK, QueueUpdateResets
      <4> QED
        BY <4>1
    <3>2. faults' \in 0 .. MaxFaults
      BY <2>2, FaultType DEF QueueUpdateResets
    <3> QED
      BY <2>2, <3>1, <3>2, <3>3 DEF TypeOK, QueueUpdateResets, etcdVars, updaterVars
  <2>3. CASE QueueDeleted(n)
    <3>1. Received(n)
      BY <2>3 DEF QueueDeleted, EventReceived
    <3> QED
      BY <2>3, <3>1, ReceivedType DEF TypeOK, QueueDeleted
  <2>4. CASE TaskChanged(n)
    <3>1. Received(n)
      BY <2>4 DEF TaskChanged, EventReceived
    <3> QED
      BY <2>4, <3>1, ReceivedType DEF TypeOK, TaskChanged, managerVars
  <2>5. CASE TaskCompleted(n)
    <3>1. Received(n)
      BY <2>5 DEF TaskCompleted, EventReceived
    <3>2. launches' \in [Node -> 0 .. MaxLaunches]
      <4>1. launches \in [Node -> 0 .. MaxLaunches]
        BY DEF TypeOK
      <4>2. CASE UNCHANGED launches
        BY <4>1, <4>2
      <4>3. CASE Launch(n)
        BY <4>1, <4>3, BoundsAssumption DEF Launch
      <4> QED
        BY Zenon, <2>5, <4>2, <4>3 DEF TaskCompleted
    <3> QED
      BY <2>5, <3>1, <3>2, ReceivedType DEF TypeOK, TaskCompleted
  <2> QED
    BY <1>12, <2>1, <2>2, <2>3, <2>4, <2>5 DEF DeliverEvent
<1>13. ASSUME NEW n \in Node, Updater(n) PROVE TypeOK'
  <2>1. CASE UpdaterCreates(n)
    <3>1. dir' \in Directory /\ lastIndex' \in 0 .. MaxIndex
      BY <2>1, BoundsAssumption DEF TypeOK, UpdaterCreates, CreateKey, Directory
    <3>2. lease' \in [Node -> {"fresh", "stale"}]
      BY <2>1 DEF TypeOK, UpdaterCreates
    <3>3. creating' \in [Node -> Nat] /\ looping' \in [Node -> Nat]
      BY <2>1 DEF TypeOK, UpdaterCreates, UpdaterStartsLoop
    <3> QED
      BY <2>1, <3>1, <3>2, <3>3
         DEF TypeOK, UpdaterCreates, UpdaterStartsLoop, managerVars, monitorVars
  <2>2. CASE UpdaterFailsToCreate(n)
    <3>1. creating' \in [Node -> Nat] /\ looping' \in [Node -> Nat]
      BY <2>2 DEF TypeOK, UpdaterFailsToCreate, UpdaterStartsLoop
    <3>2. faults' \in 0 .. MaxFaults
      BY <2>2, FaultType DEF UpdaterFailsToCreate
    <3> QED
      BY <2>2, <3>1, <3>2
         DEF TypeOK, UpdaterFailsToCreate, UpdaterStartsLoop, etcdVars, managerVars, monitorVars
  <2>3. CASE UpdaterRefreshes(n)
    BY <2>3 DEF TypeOK, UpdaterRefreshes, UpdateKey, managerVars, monitorVars,
                updaterVars, boundVars
  <2> QED
    BY <1>13, <2>1, <2>2, <2>3 DEF Updater
<1>14. ASSUME NEW n \in Node, LeaseAges(n) PROVE TypeOK'
  <2>1. faults' \in 0 .. MaxFaults
    BY <1>14, FaultType DEF LeaseAges, TypeOK
  <2> QED
    BY <1>14, <2>1 DEF TypeOK, LeaseAges, managerVars, monitorVars, updaterVars
<1>15. ASSUME NEW n \in Node, KeyExpires(n) \/ WorkerDeletes(n) PROVE TypeOK'
  <2>1. dir' \in Directory
    BY <1>15 DEF TypeOK, KeyExpires, WorkerDeletes, KeyRemoved, RemoveKey, Directory, Absent
  <2>2. deletes' \in [Node -> 0 .. Workers]
    BY <1>15, WorkersAssumption DEF TypeOK, KeyExpires, WorkerDeletes
  <2> QED
    BY <1>15, <2>1, <2>2 DEF TypeOK, KeyExpires, WorkerDeletes, KeyRemoved,
                             managerVars, monitorVars
<1>16. ASSUME NEW n \in Node, WorkerFailsToDelete(n) PROVE TypeOK'
  <2>1. deletes' \in [Node -> 0 .. Workers] /\ faults' \in 0 .. MaxFaults
    BY <1>16, FaultType, WorkersAssumption DEF TypeOK, WorkerFailsToDelete
  <2> QED
    BY <1>16, <2>1 DEF TypeOK, WorkerFailsToDelete, etcdVars, managerVars, monitorVars
<1>17. ASSUME NEW n \in Node, Crash(n) PROVE TypeOK'
  BY <1>17, FaultType, ProcessDiesType DEF Crash
<1>18. ASSUME UNCHANGED vars PROVE TypeOK'
  BY <1>18 DEF TypeOK, vars, etcdVars, managerVars, monitorVars, updaterVars, boundVars
<1> QED
  BY <1>1, <1>2, <1>3, <1>4, <1>5, <1>6, <1>7, <1>9, <1>10, <1>11, <1>12, <1>13, <1>14,
     <1>15, <1>16, <1>17, <1>18 DEF Next, Etcd

-----------------------------------------------------------------------------
(***************************************************************************)
(* Why there is one keyed owner.  A verdict under way (seen) and one acted *)
(* upon (basis) each name the index under which the node was found to be   *)
(* first.  An index is never handed out twice and a new one is higher than *)
(* all others, so a node that still has the key it was confirmed on is     *)
(* still first.                                                            *)
(***************************************************************************)
IndexesOrdered ==
    /\ \A n \in Node : dir[n] <= lastIndex /\ seen[n] <= lastIndex /\ basis[n] <= lastIndex
    /\ \A m, n \in Node : dir[m] # Absent /\ dir[m] = dir[n] => m = n

ConfirmedIsFirst ==
    \A n \in Node :
        dir[n] # Absent /\ (dir[n] = seen[n] \/ dir[n] = basis[n]) => IsMaster(dir, n)

OInv == TypeOK /\ IndexesOrdered /\ ConfirmedIsFirst

(* What a step may do to the directory and to the confirmations. *)
Idle == UNCHANGED <<dir, lastIndex, seen, basis>>

Polled(n) ==
    /\ seen' = [seen EXCEPT ![n] = IF IsMaster(dir, n) THEN dir[n] ELSE Absent]
    /\ UNCHANGED <<dir, lastIndex, basis>>

Handled(n) ==
    /\ seen' = [seen EXCEPT ![n] = Absent]
    /\ \E i \in {Absent, seen[n], basis[n]} : basis' = [basis EXCEPT ![n] = i]
    /\ UNCHANGED <<dir, lastIndex>>

Created(n) ==
    /\ dir[n] = Absent
    /\ dir' = [dir EXCEPT ![n] = lastIndex + 1]
    /\ lastIndex' = lastIndex + 1
    /\ UNCHANGED <<seen, basis>>

Removed(n) ==
    /\ dir' = [dir EXCEPT ![n] = Absent]
    /\ UNCHANGED <<lastIndex, seen, basis>>

LEMMA StepKinds ==
    ASSUME TypeOK, [Next]_vars
    PROVE  \/ Idle
           \/ \E n \in Node : Polled(n) \/ Handled(n) \/ Created(n) \/ Removed(n)
<1> DEFINE Goal == Idle \/ \E n \in Node : Polled(n) \/ Handled(n) \/ Created(n) \/ Removed(n)
<1>t. dir \in [Node -> Nat] /\ seen \in [Node -> Nat] /\ basis \in [Node -> Nat]
      /\ lastIndex \in Nat
  BY BoundsAssumption DEF TypeOK, Directory
<1>h. ASSUME NEW n \in Node, Handled(n) PROVE Goal
  BY <1>h
<1>1. ASSUME NEW n \in Node,
             ManagerTimer(n) \/ LaunchTakesEffect(n) \/ Claim(n) \/ Release(n)
      PROVE  Goal
  <2>1. Idle
    BY <1>1 DEF Idle, ManagerTimer, PreTimer, StartTimer, RunningTimer, EndTimer,
                LaunchTakesEffect, Claim, Release, etcdVars, monitorVars
  <2> QED
    BY <2>1
<1>2. ASSUME NEW n \in Node,
             MonitorRequestsDelete(n) \/ MonitorKillsUpdater(n) \/ MasterTimerFires(n)
               \/ EventArrives(n) \/ WorkerFailsToDelete(n) \/ LeaseAges(n)
      PROVE  Goal
  <2>1. Idle
    BY <1>2 DEF Idle, MonitorRequestsDelete, MonitorKillsUpdater, MasterTimerFires,
                EventArrives, WorkerFailsToDelete, LeaseAges, etcdVars, managerVars, monitorVars
  <2> QED
    BY <2>1
<1>3. ASSUME NEW n \in Node, Poll(n) PROVE Goal
  <2>1. Polled(n)
    BY <1>3 DEF Poll, SendVerdict, Polled, etcdVars, managerVars
  <2> QED
    BY <2>1
<1>4. ASSUME NEW n \in Node, PollFails(n) PROVE Goal
  <2>1. /\ seen' = [seen EXCEPT ![n] = Absent]
        /\ UNCHANGED <<dir, lastIndex, basis>>
    BY <1>4 DEF PollFails, SendVerdict, etcdVars, managerVars
  <2>2. basis' = [basis EXCEPT ![n] = basis[n]]
    BY <1>t, <2>1
  <2> QED
    BY <1>h, <2>1, <2>2 DEF Handled
<1>5. ASSUME NEW n \in Node, DeliverVerdict(n) PROVE Goal
  <2>1. Handled(n)
    BY <1>5 DEF DeliverVerdict, BecameMaster, BecameSlave, Received, Handled, etcdVars
  <2> QED
    BY <1>h, <2>1
<1>6. ASSUME NEW n \in Node, DeliverEvent(n) PROVE Goal
  <2>1. CASE QueueUpdatePanics(n)
    <3>1. Handled(n)
      BY <2>1 DEF QueueUpdatePanics, ProcessDies, Handled, etcdVars
    <3> QED
      BY <1>h, <3>1
  <2>2. CASE QueueUpdateResets(n)
    BY <2>2 DEF QueueUpdateResets, Idle, etcdVars
  <2>3. CASE QueueDeleted(n) \/ TaskChanged(n) \/ TaskCompleted(n)
    <3>1. /\ seen' = [seen EXCEPT ![n] = Absent]
          /\ UNCHANGED <<dir, lastIndex, basis>>
      BY <2>3 DEF QueueDeleted, TaskChanged, TaskCompleted, EventReceived, Received,
                  etcdVars, managerVars
    <3>2. basis' = [basis EXCEPT ![n] = basis[n]]
      BY <1>t, <3>1
    <3> QED
      BY <1>h, <3>1, <3>2 DEF Handled
  <2> QED
    BY <1>6, <2>1, <2>2, <2>3 DEF DeliverEvent
<1>7. ASSUME NEW n \in Node, Updater(n) PROVE Goal
  <2>1. CASE UpdaterCreates(n)
    <3>1. /\ UNCHANGED <<seen, basis>>
          /\ dir' = CreateKey(dir, n, lastIndex + 1)
          /\ lastIndex' = IF dir' = dir THEN lastIndex ELSE lastIndex + 1
      BY <2>1 DEF UpdaterCreates, UpdaterStartsLoop, managerVars, monitorVars
    <3>2. CASE dir[n] = Absent
      <4>1. dir' = [dir EXCEPT ![n] = lastIndex + 1] /\ dir' # dir
        BY <1>t, <3>1, <3>2 DEF CreateKey, Absent
      <4> QED
        BY <3>1, <3>2, <4>1 DEF Created
    <3>3. CASE dir[n] # Absent
      BY <3>1, <3>3 DEF CreateKey, Idle
    <3> QED
      BY <3>2, <3>3
  <2>2. CASE UpdaterFailsToCreate(n) \/ UpdaterRefreshes(n)
    BY <2>2 DEF UpdaterFailsToCreate, UpdaterRefreshes, UpdaterStartsLoop, UpdateKey,
                Idle, etcdVars, managerVars, monitorVars
  <2> QED
    BY <1>7, <2>1, <2>2 DEF Updater
<1>8. ASSUME NEW n \in Node, KeyExpires(n) \/ WorkerDeletes(n) PROVE Goal
  <2>1. Removed(n)
    BY <1>8 DEF KeyExpires, WorkerDeletes, KeyRemoved, RemoveKey, Removed,
                managerVars, monitorVars
  <2> QED
    BY <2>1
<1>9. ASSUME NEW n \in Node, Crash(n) PROVE Goal
  <2>1. Handled(n)
    BY <1>9 DEF Crash, ProcessDies, Handled, etcdVars
  <2> QED
    BY <1>h, <2>1
<1>10. ASSUME UNCHANGED vars PROVE Goal
  BY <1>10 DEF vars, etcdVars, managerVars, monitorVars, Idle
<1> HIDE DEF Goal
<1>11. Goal
  BY <1>1, <1>2, <1>3, <1>4, <1>5, <1>6, <1>7, <1>8, <1>9, <1>10 DEF Next, Etcd
<1> QED
  BY <1>11 DEF Goal

LEMMA StepOInv == OInv /\ [Next]_vars => OInv'
<1> SUFFICES ASSUME OInv, [Next]_vars PROVE OInv'
  OBVIOUS
<1>0. TypeOK /\ TypeOK' /\ IndexesOrdered /\ ConfirmedIsFirst
  BY StepTypeOK DEF OInv
<1>t. /\ dir \in [Node -> Nat] /\ seen \in [Node -> Nat] /\ basis \in [Node -> Nat]
      /\ lastIndex \in Nat
  BY <1>0, BoundsAssumption DEF TypeOK, Directory
<1> DEFINE Rest == IndexesOrdered' /\ ConfirmedIsFirst'
<1>1. ASSUME Idle PROVE Rest
  BY <1>0, <1>1 DEF Idle, IndexesOrdered, ConfirmedIsFirst, IsMaster
<1>2. ASSUME NEW n \in Node, Polled(n) PROVE Rest
  BY <1>0, <1>t, <1>2 DEF Polled, IndexesOrdered, ConfirmedIsFirst, IsMaster, Absent
<1>3. ASSUME NEW n \in Node, Handled(n) PROVE Rest
  BY <1>0, <1>t, <1>3 DEF Handled, IndexesOrdered, ConfirmedIsFirst, IsMaster, Absent
<1>4. ASSUME NEW n \in Node, Created(n) PROVE Rest
  BY <1>0, <1>t, <1>4 DEF Created, IndexesOrdered, ConfirmedIsFirst, IsMaster, Absent
<1>5. ASSUME NEW n \in Node, Removed(n) PROVE Rest
  BY <1>0, <1>t, <1>5 DEF Removed, IndexesOrdered, ConfirmedIsFirst, IsMaster, Absent
<1> HIDE DEF Rest
<1>6. Rest
  BY <1>0, <1>1, <1>2, <1>3, <1>4, <1>5, StepKinds
<1> QED
  BY <1>0, <1>6 DEF Rest, OInv

(***************************************************************************)
(* Two managers that hold the key on which they were last confirmed owner  *)
(* are one and the same, in every cluster.                                 *)
(***************************************************************************)
THEOREM OneOwner == Spec => []OneKeyedOwner
<1>1. Init => OInv
  <2> SUFFICES ASSUME Init PROVE OInv
    OBVIOUS
  <2>1. TypeOK
    BY InitTypeOK
  <2> QED
    BY <2>1 DEF Init, OInv, IndexesOrdered, ConfirmedIsFirst, EmptyDirectory, Everywhere, Absent
<1>2. OInv => OneKeyedOwner
  <2> SUFFICES ASSUME OInv, NEW m \in Node, NEW n \in Node, KeyedOwner(m), KeyedOwner(n)
               PROVE  m = n
    BY DEF OneKeyedOwner
  <2>1. IsMaster(dir, m) /\ IsMaster(dir, n)
    BY DEF OInv, ConfirmedIsFirst, KeyedOwner
  <2>2. dir \in [Node -> Nat]
    BY DEF OInv, TypeOK, Directory
  <2>3. dir[m] = dir[n] /\ dir[m] # Absent
    BY <2>1, <2>2 DEF IsMaster
  <2> QED
    BY <2>3 DEF OInv, IndexesOrdered
<1> QED
  BY <1>1, <1>2, StepOInv, PTL DEF Spec

(***************************************************************************)
(* The variables of manager and monitor keep their types.                  *)
(***************************************************************************)
THEOREM TypeCorrect == Spec => []TypeOK
<1> QED
  BY InitTypeOK, StepTypeOK, PTL DEF Spec

-----------------------------------------------------------------------------
(***************************************************************************)
(* Why updaters do not pile up.  A claim is only made from "pre", and a    *)
(* manager is in "pre" with the monitor done releasing only when the       *)
(* updater of its last claim has been stopped or a queue update sent it    *)
(* there.                                                                  *)
(***************************************************************************)
Releasing(n) == mon[n] \in {"delete", "kill"}

UpdatersAt(n) == creating[n] + looping[n]

UInvAt(n) ==
    /\ mgr[n] = "claim" => state[n] = "pre"
    /\ UpdatersAt(n) <= 1 + resets[n]
    /\ state[n] = "pre" /\ ~Releasing(n) => UpdatersAt(n) <= resets[n]

UInv == TypeOK /\ \A n \in Node : UInvAt(n)

(* Every step preserves the invariant at every node. *)
LEMMA StepUInvAt ==
    ASSUME TypeOK, [Next]_vars, NEW m \in Node, UInvAt(m)
    PROVE  UInvAt(m)'
<1>t. /\ creating \in [Node -> Nat] /\ looping \in [Node -> Nat] /\ resets \in [Node -> Nat]
      /\ mgr \in [Node -> {"select", "claim", "release", "returned"}]
      /\ state \in [Node -> {"pre", "start", "running", "end"}]
      /\ mon \in [Node -> {"select", "verdict", "event", "delete", "kill"}]
  BY DEF TypeOK
<1> USE DEF UInvAt, UpdatersAt, Releasing
<1>0. ASSUME UNCHANGED <<creating, looping, resets, mgr, state, mon>> PROVE UInvAt(m)'
  BY <1>0
<1>1. ASSUME NEW n \in Node, ManagerTimer(n) PROVE UInvAt(m)'
  <2>1. UNCHANGED <<creating, looping, resets, mon>>
    BY <1>1 DEF ManagerTimer, PreTimer, StartTimer, RunningTimer, EndTimer,
                monitorVars, updaterVars
  <2>2. (mgr[m]' = "claim" => state[m]' = "pre") /\ (state[m]' = "pre" => state[m] = "pre")
    BY <1>1, <1>t DEF ManagerTimer, PreTimer, StartTimer, RunningTimer, EndTimer, TimerFires
  <2> QED
    BY <2>1, <2>2
<1>2. ASSUME NEW n \in Node,
             LaunchTakesEffect(n) \/ MasterTimerFires(n) \/ UpdaterRefreshes(n)
               \/ LeaseAges(n) \/ KeyExpires(n) \/ WorkerDeletes(n) \/ WorkerFailsToDelete(n)
      PROVE  UInvAt(m)'
  <2>1. UNCHANGED <<creating, looping, resets, mgr, state, mon>>
    BY <1>2 DEF LaunchTakesEffect, MasterTimerFires, UpdaterRefreshes, LeaseAges,
                KeyExpires, WorkerDeletes, WorkerFailsToDelete, KeyRemoved,
                managerVars, monitorVars, updaterVars
  <2> QED
    BY <1>0, <2>1
<1>3. ASSUME NEW n \in Node, Claim(n) PROVE UInvAt(m)'
  BY <1>3, <1>t DEF Claim
<1>4. ASSUME NEW n \in Node, Release(n) PROVE UInvAt(m)'
  <2>1. UNCHANGED <<creating, looping, resets>>
    BY <1>4 DEF Release, updaterVars
  <2> QED
    BY <1>4, <1>t, <2>1 DEF Release
<1>5. ASSUME NEW n \in Node, MonitorRequestsDelete(n) PROVE UInvAt(m)'
  BY <1>5, <1>t DEF MonitorRequestsDelete, managerVars
<1>6. ASSUME NEW n \in Node, MonitorKillsUpdater(n) PROVE UInvAt(m)'
  BY <1>6, <1>t DEF MonitorKillsUpdater, managerVars
<1>7. ASSUME NEW n \in Node, Poll(n) \/ PollFails(n) \/ EventArrives(n) PROVE UInvAt(m)'
  <2>1. UNCHANGED <<creating, looping, resets, mgr, state>>
    BY <1>7 DEF Poll, PollFails, EventArrives, SendVerdict, managerVars, updaterVars
  <2>2. ~Releasing(m)' => ~Releasing(m)
    BY <1>7, <1>t DEF Poll, PollFails, EventArrives, SendVerdict
  <2> QED
    BY <2>1, <2>2
<1>8. ASSUME NEW n \in Node, DeliverVerdict(n) PROVE UInvAt(m)'
  <2>1. UNCHANGED <<creating, looping, resets, mgr>> /\ mgr[n] = "select" /\ ~Releasing(n)
    BY <1>8 DEF DeliverVerdict, BecameMaster, BecameSlave, Received, updaterVars
  <2>2. state[m]' = "pre" => state[m] = "pre"
    BY <1>8, <1>t DEF DeliverVerdict, BecameMaster, BecameSlave
  <2>3. ~Releasing(m)' => ~Releasing(m)
    BY <1>8, <1>t, <2>1 DEF DeliverVerdict, BecameMaster, BecameSlave, Received
  <2>4. mgr[m] = "claim" => state[m]' = state[m]
    BY <1>8, <1>t, <2>1 DEF DeliverVerdict, BecameMaster, BecameSlave
  <2> QED
    BY <2>1, <2>2, <2>3, <2>4
<1>9. ASSUME NEW n \in Node, QueueDeleted(n) \/ TaskChanged(n) \/ TaskCompleted(n)
      PROVE  UInvAt(m)'
  <2>1. UNCHANGED <<creating, looping, resets, state>> /\ ~Releasing(n)
    BY <1>9 DEF QueueDeleted, TaskChanged, TaskCompleted, EventReceived, Received,
                managerVars, updaterVars
  <2>2. mgr[m]' = "claim" => mgr[m] = "claim"
    BY <1>9, <1>t DEF QueueDeleted, TaskChanged, TaskCompleted, managerVars
  <2>3. ~Releasing(m)' => ~Releasing(m)
    BY <1>9, <1>t, <2>1 DEF QueueDeleted, TaskChanged, TaskCompleted, EventReceived, Received
  <2> QED
    BY <2>1, <2>2, <2>3
<1>10. ASSUME NEW n \in Node, QueueUpdateResets(n) PROVE UInvAt(m)'
  <2>1. UNCHANGED <<creating, looping, mgr>> /\ mgr[n] = "select"
    BY <1>10 DEF QueueUpdateResets, updaterVars
  <2>2. CASE m = n
    <3>1. resets[m]' = resets[m] + 1
      BY <1>10, <1>t, <2>2 DEF QueueUpdateResets
    <3> QED
      BY <1>t, <2>1, <2>2, <3>1
  <2>3. CASE m # n
    <3>1. UNCHANGED <<resets[m], state[m], mon[m]>>
      BY <1>10, <1>t, <2>3 DEF QueueUpdateResets
    <3> QED
      BY <2>1, <3>1
  <2> QED
    BY <2>2, <2>3
<1>11. ASSUME NEW n \in Node, QueueUpdatePanics(n) \/ Crash(n) PROVE UInvAt(m)'
  <2>1. PICK how \in {"crashed", "panicked"} : ProcessDies(n, how)
    BY <1>11 DEF QueueUpdatePanics, Crash
  <2> QED
    BY <1>t, <2>1 DEF ProcessDies
<1>12. ASSUME NEW n \in Node, UpdaterStartsLoop(n) PROVE UInvAt(m)'
  <2>1. UNCHANGED <<resets, mgr, state, mon>>
    BY <1>12 DEF UpdaterStartsLoop, managerVars, monitorVars
  <2>2. UpdatersAt(m)' = UpdatersAt(m)
    BY <1>12, <1>t DEF UpdaterStartsLoop
  <2> QED
    BY <2>1, <2>2
<1>13. ASSUME UNCHANGED vars PROVE UInvAt(m)'
  <2>1. UNCHANGED <<creating, looping, resets, mgr, state, mon>>
    BY <1>13 DEF vars, managerVars, monitorVars, updaterVars
  <2> QED
    BY <1>0, <2>1
<1> HIDE DEF UInvAt
<1> QED
  BY <1>1, <1>2, <1>3, <1>4, <1>5, <1>6, <1>7, <1>8, <1>9, <1>10, <1>11, <1>12, <1>13
     DEF Next, DeliverEvent, Updater, Etcd, UpdaterCreates, UpdaterFailsToCreate

(***************************************************************************)
(* However many claims and releases a queue sees, no node ever runs two    *)
(* updaters for it except for those a queue update left behind.            *)
(***************************************************************************)
THEOREM OneUpdater == Spec => []OneUpdaterPerClaim
<1>1. Init => UInv
  <2> SUFFICES ASSUME Init PROVE UInv
    OBVIOUS
  <2>1. TypeOK
    BY InitTypeOK
  <2> QED
    BY <2>1 DEF Init, UInv, UInvAt, UpdatersAt, Everywhere
<1>2. UInv /\ [Next]_vars => UInv'
  BY StepTypeOK, StepUInvAt DEF UInv
<1>3. UInv => OneUpdaterPerClaim
  BY DEF UInv, UInvAt, UpdatersAt, OneUpdaterPerClaim
<1> QED
  BY <1>1, <1>2, <1>3, PTL DEF Spec
=============================================================================
