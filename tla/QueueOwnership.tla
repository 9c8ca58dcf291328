---------------------------- MODULE QueueOwnership ----------------------------
(***************************************************************************)
(* Which node of the cluster executes a queue.                             *)
(*                                                                         *)
(* For every queue each node runs a queueManager (dike) and a monitorQueue *)
(* (eunomia) that talk over two unbuffered channels.  The manager steps    *)
(* through pre, start, running and end as its timer fires: before a window *)
(* it asks the monitor to claim the queue, after it to release it.  A      *)
(* claim starts an updateNode goroutine that keeps a key of the node in    *)
(* the queue's etcd directory; the monitor polls the directory and tells   *)
(* the manager whether its node is the master.  A release asks a worker to *)
(* delete the key and stops the updateNode goroutine.                      *)
(*                                                                         *)
(* A send on an unbuffered channel is modelled by the state of the sender: *)
(* it waits in "claim", "release", "verdict", "event", "delete" or "kill"  *)
(* until the receiver is ready, and the two then step together.            *)
(***************************************************************************)
EXTENDS EtcdDirectory

CONSTANTS
    Draining,     \* the queue is being drained: it may run out of tasks
    ShouldDrain,  \* queue.ShouldDrain
    Events,       \* the kinds of change of the API that may arrive
    Workers,      \* how many update workers eunomia runs
    MaxEvents,    \* bound on changes made through the API
    MaxIndex,     \* bound on keys created
    MaxLaunches,  \* bound on executions launched and not yet begun, per node
    MaxFaults     \* bound on crashes, failed calls and late renewals

EventKinds == {"queue update", "queue delete", "task change", "task complete"}

ASSUME FlagsAssumption == Draining \in BOOLEAN /\ ShouldDrain \in BOOLEAN
ASSUME EventsAssumption == Events \subseteq EventKinds
ASSUME WorkersAssumption == Workers \in Nat \ {0}
ASSUME BoundsAssumption ==
    MaxEvents \in Nat /\ MaxIndex \in Nat /\ MaxLaunches \in Nat /\ MaxFaults \in Nat

VARIABLES
    dir,          \* etcd: the CreatedIndex of each node's key for the queue
    lastIndex,    \* etcd: the last index handed out
    lease,        \* etcd: whether a key is about to run out of TTL
    proc,         \* the process: up, crashed, or killed by a panic of its own
    mgr,          \* queueManager: in its select, or sending, or returned
    state,        \* queueManager: state
    queueMaster,  \* queueManager: queueMaster
    running,      \* queue.Running
    launches,     \* goroutines begun by "go queue.StartOrContinueExecution"
    mon,          \* monitorQueue: in its select, or sending
    message,      \* monitorQueue: what it is sending to the manager
    masterTimer,  \* monitorQueue: masterTimer
    creating,     \* updateNode goroutines about to create the key
    looping,      \* updateNode goroutines renewing it
    deletes,      \* deletions of the key handed to the update workers
    seen,         \* ghost: the node's index when the last poll found it master
    basis,        \* ghost: the index on which its last confirmation rests
    resets,       \* ghost: how often the manager went to "pre" without a release
    events, faults

etcdVars    == <<dir, lastIndex, lease>>
managerVars == <<mgr, state, queueMaster, running, launches, basis, resets>>
monitorVars == <<mon, message, masterTimer, seen>>
updaterVars == <<creating, looping, deletes>>
boundVars   == <<events, faults>>
vars == <<etcdVars, proc, managerVars, monitorVars, updaterVars, boundVars>>

Messages == {"none", "became master", "became slave"} \cup EventKinds

TypeOK ==
    /\ dir \in Directory
    /\ lastIndex \in 0 .. MaxIndex
    /\ lease \in [Node -> {"fresh", "stale"}]
    /\ proc \in [Node -> {"up", "crashed", "panicked"}]
    /\ mgr \in [Node -> {"select", "claim", "release", "returned"}]
    /\ state \in [Node -> {"pre", "start", "running", "end"}]
    /\ queueMaster \in [Node -> BOOLEAN]
    /\ running \in [Node -> BOOLEAN]
    /\ launches \in [Node -> 0 .. MaxLaunches]
    /\ mon \in [Node -> {"select", "verdict", "event", "delete", "kill"}]
    /\ message \in [Node -> Messages]
    /\ masterTimer \in [Node -> {"armed", "fired", "stopped"}]
    /\ creating \in [Node -> Nat]
    /\ looping \in [Node -> Nat]
    /\ deletes \in [Node -> 0 .. Workers]
    /\ seen \in [Node -> Nat]
    /\ basis \in [Node -> Nat]
    /\ resets \in [Node -> Nat]
    /\ events \in 0 .. MaxEvents
    /\ faults \in 0 .. MaxFaults

Everywhere(x) == [n \in Node |-> x]

Init ==
    /\ dir = EmptyDirectory
    /\ lastIndex = 0
    /\ lease = Everywhere("fresh")
    /\ proc = Everywhere("up")
    /\ mgr = Everywhere("select")
    /\ state = Everywhere("pre")
    /\ queueMaster = Everywhere(FALSE)
    /\ running = Everywhere(FALSE)
    /\ launches = Everywhere(0)
    /\ mon = Everywhere("select")
    /\ message = Everywhere("none")
    /\ masterTimer = Everywhere("armed")
    /\ creating = Everywhere(0)
    /\ looping = Everywhere(0)
    /\ deletes = Everywhere(0)
    /\ seen = Everywhere(Absent)
    /\ basis = Everywhere(Absent)
    /\ resets = Everywhere(0)
    /\ events = 0
    /\ faults = 0

Fault == faults < MaxFaults /\ faults' = faults + 1

-----------------------------------------------------------------------------
(* queueManager: the timer. *)
TimerFires(n, s) == proc[n] = "up" /\ mgr[n] = "select" /\ state[n] = s

(* pre: ask the monitor to claim the queue. *)
PreTimer(n) ==
    /\ TimerFires(n, "pre")
    /\ mgr' = [mgr EXCEPT ![n] = "claim"]
    /\ UNCHANGED <<etcdVars, proc, state, queueMaster, running, launches, basis, resets,
                   monitorVars, updaterVars, boundVars>>

(* start: launch the execution if we are master and contained.  Otherwise *)
(* wait for containment, or for the end of the window if it is near.      *)
Launch(n) ==
    /\ launches[n] < MaxLaunches
    /\ launches' = [launches EXCEPT ![n] = @ + 1]

StartTimer(n) ==
    /\ TimerFires(n, "start")
    /\ \/ /\ ~queueMaster[n]
          /\ state' = [state EXCEPT ![n] = "running"]
          /\ UNCHANGED launches
       \/ /\ queueMaster[n]
          /\ Launch(n)
          /\ state' = [state EXCEPT ![n] = "running"]
       \/ /\ queueMaster[n]
          /\ state' \in {state, [state EXCEPT ![n] = "end"]}
          /\ UNCHANGED launches
    /\ UNCHANGED <<etcdVars, proc, mgr, queueMaster, running, basis, resets,
                   monitorVars, updaterVars, boundVars>>

(* running: stop if containment is lost, otherwise go on until the end. *)
RunningTimer(n) ==
    /\ TimerFires(n, "running")
    /\ \/ /\ running' = [running EXCEPT ![n] = FALSE]
          /\ state' = [state EXCEPT ![n] = "start"]
       \/ /\ state' \in {state, [state EXCEPT ![n] = "end"]}
          /\ UNCHANGED running
    /\ UNCHANGED <<etcdVars, proc, mgr, queueMaster, launches, basis, resets,
                   monitorVars, updaterVars, boundVars>>

(* end: stop the execution and ask the monitor to release the queue. *)
EndTimer(n) ==
    /\ TimerFires(n, "end")
    /\ running' = [running EXCEPT ![n] = FALSE]
    /\ mgr' = [mgr EXCEPT ![n] = "release"]
    /\ UNCHANGED <<etcdVars, proc, state, queueMaster, launches, basis, resets,
                   monitorVars, updaterVars, boundVars>>

(* The goroutine started by a launch gets to run: q.Running = true. *)
LaunchTakesEffect(n) ==
    /\ launches[n] > 0
    /\ launches' = [launches EXCEPT ![n] = @ - 1]
    /\ running' = [running EXCEPT ![n] = TRUE]
    /\ UNCHANGED <<etcdVars, proc, mgr, state, queueMaster, basis, resets,
                   monitorVars, updaterVars, boundVars>>

-----------------------------------------------------------------------------
(* The monitor receives the claim: another updateNode, and the first poll *)
(* in two seconds.  The manager goes on to wait for the window to open.   *)
Claim(n) ==
    /\ mgr[n] = "claim" /\ mon[n] = "select"
    /\ creating' = [creating EXCEPT ![n] = @ + 1]
    /\ masterTimer' = [masterTimer EXCEPT ![n] = "armed"]
    /\ mgr' = [mgr EXCEPT ![n] = "select"]
    /\ state' = [state EXCEPT ![n] = "start"]
    /\ UNCHANGED <<etcdVars, proc, queueMaster, running, launches, basis, resets,
                   mon, message, seen, looping, deletes, boundVars>>

(* The monitor receives the release.  The manager is back in "pre", with *)
(* queueMaster as it was, unless the queue is drained and it returns.    *)
AfterRelease == IF Draining THEN {"select", "returned"} ELSE {"select"}

Release(n) ==
    /\ mgr[n] = "release" /\ mon[n] = "select"
    /\ mon' = [mon EXCEPT ![n] = "delete"]
    /\ \E m \in AfterRelease : mgr' = [mgr EXCEPT ![n] = m]
    /\ state' = [state EXCEPT ![n] = "pre"]
    /\ UNCHANGED <<etcdVars, proc, queueMaster, running, launches, basis, resets,
                   message, masterTimer, seen, updaterVars, boundVars>>

(* Mutant: the request is queued although all workers are busy. *)
MonitorQueuesDelete(n) ==
    /\ mon[n] = "delete"
    /\ deletes' = [deletes EXCEPT ![n] = @ + 1]
    /\ mon' = [mon EXCEPT ![n] = "kill"]
    /\ UNCHANGED <<etcdVars, proc, managerVars, message, masterTimer, seen,
                   creating, looping, boundVars>>

(* It hands the deletion of the key to a worker, when one is free ... *)
MonitorRequestsDelete(n) ==
    /\ mon[n] = "delete"
    /\ deletes[n] < Workers
    /\ deletes' = [deletes EXCEPT ![n] = @ + 1]
    /\ mon' = [mon EXCEPT ![n] = "kill"]
    /\ UNCHANGED <<etcdVars, proc, managerVars, message, masterTimer, seen,
                   creating, looping, boundVars>>

(* ... and stops an updater, waiting until one receives from the channel. *)
(* Stopping a timer that has fired leaves its value in the channel.       *)
StopTimer(t) == IF t = "armed" THEN "stopped" ELSE t

(* Mutant: the send does not wait for an updater that is busy creating the key. *)
MonitorKillsIfListening(n) ==
    /\ mon[n] = "kill"
    /\ looping' = [looping EXCEPT ![n] = IF @ > 0 THEN @ - 1 ELSE @]
    /\ masterTimer' = [masterTimer EXCEPT ![n] = StopTimer(@)]
    /\ mon' = [mon EXCEPT ![n] = "select"]
    /\ UNCHANGED <<etcdVars, proc, managerVars, message, seen,
                   creating, deletes, boundVars>>

MonitorKillsUpdater(n) ==
    /\ mon[n] = "kill"
    /\ looping[n] > 0
    /\ looping' = [looping EXCEPT ![n] = @ - 1]
    /\ masterTimer' = [masterTimer EXCEPT ![n] = StopTimer(@)]
    /\ mon' = [mon EXCEPT ![n] = "select"]
    /\ UNCHANGED <<etcdVars, proc, managerVars, message, seen,
                   creating, deletes, boundVars>>

-----------------------------------------------------------------------------
(* masterTimer runs out, whatever the monitor is doing. *)
MasterTimerFires(n) ==
    /\ proc[n] = "up"
    /\ masterTimer[n] = "armed"
    /\ masterTimer' = [masterTimer EXCEPT ![n] = "fired"]
    /\ UNCHANGED <<etcdVars, proc, managerVars, mon, message, seen, updaterVars, boundVars>>

(* Mutant: the timer is not set again, so there is a single poll per claim. *)
SendOnlyVerdict(n, verdict, index) ==
    /\ proc[n] = "up"
    /\ mon[n] = "select"
    /\ masterTimer[n] = "fired"
    /\ masterTimer' = [masterTimer EXCEPT ![n] = "stopped"]
    /\ mon' = [mon EXCEPT ![n] = "verdict"]
    /\ message' = [message EXCEPT ![n] = verdict]
    /\ seen' = [seen EXCEPT ![n] = index]
    /\ UNCHANGED <<etcdVars, proc, managerVars, updaterVars, events>>

(* The monitor polls the directory and sends the manager what it found. *)
SendVerdict(n, verdict, index) ==
    /\ proc[n] = "up"
    /\ mon[n] = "select"
    /\ masterTimer[n] = "fired"
    /\ masterTimer' = [masterTimer EXCEPT ![n] = "armed"]
    /\ mon' = [mon EXCEPT ![n] = "verdict"]
    /\ message' = [message EXCEPT ![n] = verdict]
    /\ seen' = [seen EXCEPT ![n] = index]
    /\ UNCHANGED <<etcdVars, proc, managerVars, updaterVars, events>>

Poll(n) ==
    /\ IF IsMaster(dir, n)
       THEN SendVerdict(n, "became master", dir[n])
       ELSE SendVerdict(n, "became slave", Absent)
    /\ UNCHANGED faults

PollFails(n) ==
    /\ Fault
    /\ SendVerdict(n, "became slave", Absent)

(* The manager receives a verdict.  A confirmation is news only to a manager *)
(* that does not take itself for the master already.                         *)
Received(n) ==
    /\ mgr[n] = "select"
    /\ mon' = [mon EXCEPT ![n] = "select"]
    /\ message' = [message EXCEPT ![n] = "none"]
    /\ seen' = [seen EXCEPT ![n] = Absent]
    /\ UNCHANGED <<etcdVars, masterTimer, updaterVars, boundVars>>

BecameMaster(n) ==
    /\ mon[n] = "verdict" /\ message[n] = "became master"
    /\ Received(n)
    /\ queueMaster' = [queueMaster EXCEPT ![n] = TRUE]
    /\ state' = [state EXCEPT ![n] = IF queueMaster[n] THEN @ ELSE "start"]
    /\ basis' = [basis EXCEPT ![n] = seen[n]]
    /\ UNCHANGED <<proc, mgr, running, launches, resets>>

BecameSlave(n) ==
    /\ mon[n] = "verdict" /\ message[n] = "became slave"
    /\ Received(n)
    /\ queueMaster' = [queueMaster EXCEPT ![n] = FALSE]
    /\ running' = [running EXCEPT ![n] = @ /\ ~queueMaster[n]]
    /\ basis' = [basis EXCEPT ![n] = Absent]
    /\ UNCHANGED <<proc, mgr, state, launches, resets>>

-----------------------------------------------------------------------------
(* A change made through the API reaches the monitor by way of an etcd watch. *)
EventArrives(n) ==
    /\ proc[n] = "up"
    /\ mon[n] = "select"
    /\ events < MaxEvents
    /\ events' = events + 1
    /\ \E e \in Events : message' = [message EXCEPT ![n] = e]
    /\ mon' = [mon EXCEPT ![n] = "event"]
    /\ UNCHANGED <<etcdVars, proc, managerVars, masterTimer, seen, updaterVars, faults>>

EventReceived(n, e) ==
    /\ mon[n] = "event" /\ message[n] = e
    /\ Received(n)

(* Everything a process holds in memory is gone; its key stays until the TTL. *)
ProcessDies(n, how) ==
    /\ proc' = [proc EXCEPT ![n] = how]
    /\ mgr' = [mgr EXCEPT ![n] = "returned"]
    /\ state' = [state EXCEPT ![n] = "pre"]
    /\ queueMaster' = [queueMaster EXCEPT ![n] = FALSE]
    /\ running' = [running EXCEPT ![n] = FALSE]
    /\ launches' = [launches EXCEPT ![n] = 0]
    /\ mon' = [mon EXCEPT ![n] = "select"]
    /\ message' = [message EXCEPT ![n] = "none"]
    /\ masterTimer' = [masterTimer EXCEPT ![n] = "stopped"]
    /\ creating' = [creating EXCEPT ![n] = 0]
    /\ looping' = [looping EXCEPT ![n] = 0]
    /\ deletes' = [deletes EXCEPT ![n] = 0]
    /\ seen' = [seen EXCEPT ![n] = Absent]
    /\ basis' = [basis EXCEPT ![n] = Absent]
    /\ resets' = [resets EXCEPT ![n] = 0]
    /\ UNCHANGED <<etcdVars, events>>

(* queue update: the queue is read again, without its window.  queueTime *)
(* then asks a window without times for its next start and panics.       *)
QueueUpdatePanics(n) ==
    /\ mgr[n] = "select"
    /\ mon[n] = "event" /\ message[n] = "queue update"
    /\ ProcessDies(n, "panicked")
    /\ UNCHANGED faults

(* queue update when the queue cannot be read: the old one is kept, and the *)
(* manager starts over from "pre" without having released anything.         *)
QueueUpdateResets(n) ==
    /\ mgr[n] = "select"
    /\ mon[n] = "event" /\ message[n] = "queue update"
    /\ Fault
    /\ running' = [running EXCEPT ![n] = FALSE]
    /\ state' = [state EXCEPT ![n] = "pre"]
    /\ resets' = [resets EXCEPT ![n] = @ + 1]
    /\ mon' = [mon EXCEPT ![n] = "select"]
    /\ message' = [message EXCEPT ![n] = "none"]
    /\ UNCHANGED <<etcdVars, proc, mgr, queueMaster, launches, basis,
                   masterTimer, seen, updaterVars, events>>

(* queue delete: the manager returns, unless the queue is to be drained. *)
QueueDeleted(n) ==
    /\ EventReceived(n, "queue delete")
    /\ mgr' = [mgr EXCEPT ![n] = IF ShouldDrain THEN @ ELSE "returned"]
    /\ UNCHANGED <<proc, state, queueMaster, running, launches, basis, resets>>

(* task created, updated or deleted: nothing that concerns ownership. *)
TaskChanged(n) ==
    /\ EventReceived(n, "task change")
    /\ UNCHANGED <<proc, managerVars>>

(* task complete: the execution goes on to the next task if the queue is open. *)
TaskCompleted(n) ==
    /\ EventReceived(n, "task complete")
    /\ IF running[n] THEN Launch(n) ELSE UNCHANGED launches
    /\ UNCHANGED <<proc, mgr, state, queueMaster, running, basis, resets>>

-----------------------------------------------------------------------------
(* updateNode: the one attempt to create the key. *)
UpdaterStartsLoop(n) ==
    /\ creating[n] > 0
    /\ creating' = [creating EXCEPT ![n] = @ - 1]
    /\ looping' = [looping EXCEPT ![n] = @ + 1]
    /\ UNCHANGED <<proc, managerVars, monitorVars, deletes, events>>

UpdaterCreates(n) ==
    /\ UpdaterStartsLoop(n)
    /\ lastIndex < MaxIndex
    /\ dir' = CreateKey(dir, n, lastIndex + 1)
    /\ lastIndex' = IF dir' = dir THEN lastIndex ELSE lastIndex + 1
    /\ lease' = IF dir' = dir THEN lease ELSE [lease EXCEPT ![n] = "fresh"]
    /\ UNCHANGED faults

UpdaterFailsToCreate(n) ==
    /\ UpdaterStartsLoop(n)
    /\ Fault
    /\ UNCHANGED etcdVars

(* updateNode: a tick renews the key if it is still there. *)
UpdaterRefreshes(n) ==
    /\ looping[n] > 0
    /\ dir' = UpdateKey(dir, n)
    /\ lease' = [lease EXCEPT ![n] = "fresh"]
    /\ UNCHANGED <<lastIndex, proc, managerVars, monitorVars, updaterVars, boundVars>>

(* A key runs out of TTL because nobody renews it, or not in time. *)
LeaseAges(n) ==
    /\ dir[n] # Absent
    /\ lease[n] = "fresh"
    /\ \/ looping[n] = 0 /\ UNCHANGED faults
       \/ looping[n] > 0 /\ Fault
    /\ lease' = [lease EXCEPT ![n] = "stale"]
    /\ UNCHANGED <<dir, lastIndex, proc, managerVars, monitorVars, updaterVars, events>>

KeyRemoved(n) ==
    /\ dir' = RemoveKey(dir, n)
    /\ lease' = [lease EXCEPT ![n] = "fresh"]
    /\ UNCHANGED <<lastIndex, proc, managerVars, monitorVars, creating, looping, events>>

KeyExpires(n) ==
    /\ dir[n] # Absent
    /\ lease[n] = "stale"
    /\ KeyRemoved(n)
    /\ UNCHANGED <<deletes, faults>>

(* A worker deletes the key, or fails to. *)
WorkerDeletes(n) ==
    /\ deletes[n] > 0
    /\ deletes' = [deletes EXCEPT ![n] = @ - 1]
    /\ KeyRemoved(n)
    /\ UNCHANGED faults

WorkerFailsToDelete(n) ==
    /\ deletes[n] > 0
    /\ deletes' = [deletes EXCEPT ![n] = @ - 1]
    /\ Fault
    /\ UNCHANGED <<etcdVars, proc, managerVars, monitorVars, creating, looping, events>>

Crash(n) ==
    /\ proc[n] = "up"
    /\ Fault
    /\ ProcessDies(n, "crashed")

-----------------------------------------------------------------------------
ManagerTimer(n) == PreTimer(n) \/ StartTimer(n) \/ RunningTimer(n) \/ EndTimer(n)

DeliverVerdict(n) == BecameMaster(n) \/ BecameSlave(n)

DeliverEvent(n) ==
    \/ QueueUpdatePanics(n) \/ QueueUpdateResets(n) \/ QueueDeleted(n)
    \/ TaskChanged(n) \/ TaskCompleted(n)

Updater(n) == UpdaterCreates(n) \/ UpdaterFailsToCreate(n) \/ UpdaterRefreshes(n)

Etcd(n) == LeaseAges(n) \/ KeyExpires(n)

Next ==
    \E n \in Node :
        \/ ManagerTimer(n) \/ LaunchTakesEffect(n)
        \/ Claim(n) \/ Release(n) \/ MonitorRequestsDelete(n) \/ MonitorKillsUpdater(n)
        \/ MasterTimerFires(n) \/ Poll(n) \/ PollFails(n) \/ DeliverVerdict(n)
        \/ EventArrives(n) \/ DeliverEvent(n)
        \/ Updater(n) \/ Etcd(n) \/ WorkerDeletes(n) \/ WorkerFailsToDelete(n)
        \/ Crash(n)

Spec == Init /\ [][Next]_vars

(***************************************************************************)
(* Fairness: the goroutines of a live process run, timers fire, workers    *)
(* serve their channel and etcd removes what nobody renews.  A select      *)
(* picks at random among what is ready, so a poll that is ready again and  *)
(* again is taken in the end.  Nothing is promised about the manager's     *)
(* timer, which waits for the windows of the queue, nor about failures.    *)
(***************************************************************************)
Fairness ==
    \A n \in Node :
        /\ WF_vars(LaunchTakesEffect(n))
        /\ WF_vars(Claim(n))
        /\ WF_vars(Release(n))
        /\ WF_vars(MonitorRequestsDelete(n))
        /\ WF_vars(MonitorKillsUpdater(n))
        /\ WF_vars(MasterTimerFires(n))
        /\ SF_vars(Poll(n))
        /\ SF_vars(DeliverVerdict(n))
        /\ SF_vars(DeliverEvent(n))
        /\ WF_vars(UpdaterCreates(n) \/ UpdaterFailsToCreate(n))
        /\ WF_vars(WorkerDeletes(n) \/ WorkerFailsToDelete(n))
        /\ WF_vars(Etcd(n))

FairSpec == Spec /\ Fairness
-----------------------------------------------------------------------------
(***************************************************************************)
(* Managers that take themselves for the owner of the queue and hold the   *)
(* very key on which that was last confirmed are never two, whatever       *)
(* crashes, expires, fails or is released in between.                      *)
(***************************************************************************)
KeyedOwner(n) == queueMaster[n] /\ dir[n] # Absent /\ dir[n] = basis[n]

OneKeyedOwner == \A m, n \in Node : KeyedOwner(m) /\ KeyedOwner(n) => m = n

(***************************************************************************)
(* Every release stops the updater its claim started: a node never has     *)
(* more than one of them at work on the key of a queue, except for those   *)
(* left behind when a queue update sent the manager back to "pre".         *)
(***************************************************************************)
OneUpdaterPerClaim == \A n \in Node : creating[n] + looping[n] <= 1 + resets[n]

(***************************************************************************)
(* A node that claims a queue and has the first key for good learns that   *)
(* it owns the queue, unless its manager and monitor are stuck waiting for *)
(* each other, its manager has returned, or its monitor waits for an       *)
(* updater to stop.                                                        *)
(***************************************************************************)
MutualWait(n) ==
    mgr[n] \in {"claim", "release"} /\ mon[n] \in {"verdict", "event"}

KillsNobody(n) == mon[n] = "kill" /\ creating[n] + looping[n] = 0

Responsive(n) == ~MutualWait(n) /\ ~KillsNobody(n) /\ mgr[n] # "returned"

FirstClaimantLearns ==
    \A n \in Node :
        <>[](IsMaster(dir, n) /\ state[n] # "pre" /\ Responsive(n)) => <>[]queueMaster[n]

-----------------------------------------------------------------------------
(* What the code's comments and documents say, and the code does not do. *)

(***************************************************************************)
(* The manager is kept in sync with the API: every change the monitor has  *)
(* seen reaches it.                                                        *)
(***************************************************************************)
ChangesReachManager ==
    \A n \in Node : mon[n] = "event" ~> mon[n] # "event"

(***************************************************************************)
(* A release kills the updater: there is one whenever the monitor sends to *)
(* it.                                                                     *)
(***************************************************************************)
KillReachesUpdater == \A n \in Node : ~KillsNobody(n)

(***************************************************************************)
(* When a window opens, an execution is launched only by the node whose    *)
(* key comes first.                                                        *)
(***************************************************************************)
OnlyMasterLaunches ==
    [][\A n \in Node :
          state[n] = "start" /\ launches'[n] > launches[n] => IsMaster(dir, n)]_vars

(***************************************************************************)
(* A change made through the API never takes a process down.               *)
(***************************************************************************)
NoPanic == \A n \in Node : proc[n] # "panicked"
=============================================================================
