----------------------------- MODULE QueueWatch -----------------------------
(***************************************************************************)
(* The watches of a queue's monitor: two goroutines poll etcd, one for the *)
(* notices of the queue and one for those of its tasks, and hand what they *)
(* get to the monitor over a channel each; the monitor passes it on to the *)
(* manager of the queue and restarts both when one has ended.              *)
(***************************************************************************)
EXTENDS EtcdClient

VARIABLES
    watch,     \* Watch, of each goroutine that was started
    closed,    \* the keys whose channel was closed
    monitor,   \* monitorQueue: selecting, or about to send on a stop channel
    heard      \* history: the events that reached the monitor, by goroutine

watchVars == <<watch, closed, monitor, heard>>
vars == <<clientVars, watchVars>>

QueueKey == "queue"
TaskKey == "tasks"
ASSUME KeyAssumption == Key = {QueueKey, TaskKey}

(* startWatchers: both watch for what happens from now on. *)
Init ==
    /\ ClientInit
    /\ watch = [w \in Watcher |-> IF w[2] = 1 THEN "start" ELSE "none"]
    /\ closed = {}
    /\ monitor = "select"
    /\ heard = [w \in Watcher |-> <<>>]

(* The process dies when a goroutine panics. *)
Alive == monitor # "panic"

-----------------------------------------------------------------------------
(* Watch: the first poll has no index, the next ones begin after the last    *)
(* event.                                                                    *)
Poll(w) ==
    /\ Alive /\ watch[w] = "start"
    /\ StartRequest(w, 0, 0)
    /\ watch' = [watch EXCEPT ![w] = "polling"]
    /\ UNCHANGED <<machines, etcd, lead, pending, faults, closed, monitor, heard>>

(* Mutant: every poll is for what happens from now on. *)
DeliverForgets(w) ==
    /\ monitor = "select" /\ watch[w] = "polling" /\ req[w].pc = "ok" /\ KeyOf(w) \notin closed
    /\ heard' = [heard EXCEPT ![w] = Append(@, req[w].at)]
    /\ StartRequest(w, 0, 0)
    /\ UNCHANGED <<machines, etcd, lead, pending, faults, watch, closed, monitor>>

(* receiver <- resp, in the select of the monitor, which passes on to the     *)
(* manager what is not an expiry.                                            *)
Deliver(w) ==
    /\ monitor = "select" /\ watch[w] = "polling" /\ req[w].pc = "ok" /\ KeyOf(w) \notin closed
    /\ heard' = [heard EXCEPT ![w] = Append(@, req[w].at)]
    /\ StartRequest(w, 0, req[w].at + 1)
    /\ UNCHANGED <<machines, etcd, lead, pending, faults, watch, closed, monitor>>

(* The channel was closed by another watch of the key. *)
DeliverOnClosed(w) ==
    /\ Alive /\ watch[w] = "polling" /\ req[w].pc = "ok" /\ KeyOf(w) \in closed
    /\ monitor' = "panic"
    /\ UNCHANGED <<clientVars, watch, closed, heard>>

(* Mutant: the channel stays open. *)
CloseNot(w) == watch' = [watch EXCEPT ![w] = "off"] /\ closed' = closed

(* Watch returns and closes its channel, which panics if that is closed. *)
Close(w) ==
    /\ watch' = [watch EXCEPT ![w] = "off"]
    /\ closed' = closed \cup {KeyOf(w)}

WatchEnds(w) ==
    /\ Alive /\ watch[w] = "polling" /\ req[w].pc = "failed"
    /\ Close(w)
    /\ monitor' = IF KeyOf(w) \in closed THEN "panic" ELSE monitor
    /\ UNCHANGED <<clientVars, heard>>

-----------------------------------------------------------------------------
(* restartWatchers, when nil is received from a channel that was closed. *)
ReceiveNil ==
    /\ monitor = "select" /\ closed # {}
    /\ monitor' = "stop queue"
    /\ UNCHANGED <<clientVars, watch, closed, heard>>

(* A stop is received by the routine beside a request, which cancels it ... *)
Cancelled(w, next) ==
    /\ watch[w] = "polling" /\ req[w].pc \in {"sent", "waiting"}
    /\ Close(w)
    /\ req' = [req EXCEPT ![w] = [@ EXCEPT !.pc = "failed", !.stop = TRUE]]
    /\ monitor' = IF KeyOf(w) \in closed THEN "panic" ELSE next

(* ... or too late, as an answer or a failure came first: the watch goes on   *)
(* as if there had been no stop.                                              *)
TakenLate(w, next) ==
    /\ req[w].pc \in {"ok", "failed"} /\ ~req[w].stop
    /\ req' = [req EXCEPT ![w] = [@ EXCEPT !.stop = TRUE]]
    /\ monitor' = next
    /\ UNCHANGED <<watch, closed>>

(* Whichever watch of the key gets the stop. *)
Stop(key, next) ==
    /\ \E w \in Watcher : KeyOf(w) = key /\ (Cancelled(w, next) \/ TakenLate(w, next))
    /\ UNCHANGED <<machines, etcd, lead, pending, faults, heard>>

StopQueue == monitor = "stop queue" /\ Stop(QueueKey, "stop tasks")
StopTasks == monitor = "stop tasks" /\ Stop(TaskKey, "restart")

(* More goroutines are started on the same channels. *)
Restart ==
    /\ monitor = "restart"
    /\ \E n \in 2 .. MaxStarts :
          /\ \A w \in Watcher : watch[w] = "none" <=> w[2] >= n
          /\ watch' = [w \in Watcher |-> IF w[2] = n THEN "start" ELSE watch[w]]
    /\ monitor' = "select"
    /\ UNCHANGED <<clientVars, closed, heard>>

-----------------------------------------------------------------------------
WatchNext ==
    \/ \E w \in Watcher : Poll(w) \/ Deliver(w) \/ DeliverOnClosed(w) \/ WatchEnds(w)
    \/ ReceiveNil \/ StopQueue \/ StopTasks \/ Restart

Next == (Alive /\ ClientNext /\ UNCHANGED watchVars) \/ WatchNext

Spec == Init /\ [][Next]_vars

(***************************************************************************)
(* Fairness: goroutines and machines go on.  That a stop is received late  *)
(* is not promised, nor that anything fails.                               *)
(***************************************************************************)
FairSpec ==
    /\ Spec
    /\ \A c \in Caller : WF_vars(Alive /\ Answer(c) /\ UNCHANGED watchVars)
    /\ \A c \in Worker : WF_vars(Alive /\ Take(c) /\ UNCHANGED watchVars)
    /\ \A w \in Watcher : WF_vars(Poll(w)) /\ SF_vars(Deliver(w)) /\ WF_vars(WatchEnds(w))
    /\ WF_vars(ReceiveNil) /\ WF_vars(Restart)

-----------------------------------------------------------------------------
TypeOK ==
    /\ ClientTypeOK
    /\ watch \in [Watcher -> {"none", "start", "polling", "off"}]
    /\ closed \subseteq Key
    /\ monitor \in {"select", "stop queue", "stop tasks", "restart", "panic"}
    /\ \A w \in Watcher : heard[w] \in Seq({i \in DOMAIN log : log[i].key = KeyOf(w)})

(* From the first event that a watch delivers it delivers all that happens to *)
(* its key, in this order and once, whatever fails between two polls.         *)
NoGap ==
    \A w \in Watcher : \A k \in 1 .. Len(heard[w]) - 1 :
        heard[w][k + 1] \in FirstFrom(KeyOf(w), heard[w][k] + 1)

(* Every request of a worker comes to an end, however machines fail, as long *)
(* as the process lives.                                                      *)
RequestsEnd ==
    \A c \in Worker : req[c].pc = "sent" ~> (req[c].pc \in {"ok", "failed"} \/ ~Alive)

(* What happens to a key after an event that a watch delivered reaches the   *)
(* monitor in the end, although machines stop and polls are repeated, as long *)
(* as no watch has ended.                                                     *)
Later(i) ==
    /\ i \in DOMAIN log
    /\ \E w \in Watcher : KeyOf(w) = log[i].key /\ heard[w] # <<>> /\ Last(heard[w]) < i

LaterEventsHeard ==
    \A i \in 2 .. Len(Notices) + MaxFaults + MaxExpiries :
        Later(i) ~> ((\E w \in Watcher : i \in Range(heard[w])) \/ closed # {} \/ ~Alive)

-----------------------------------------------------------------------------
(* What does not hold.  queue_monitor.go:61: "long poll has expired.          *)
(* restart".  A watch that ended is followed by one that delivers.            *)
WatchRestarts ==
    [](closed # {} => <>(\A k \in Key : k \notin closed
                            /\ \E w \in Watcher : KeyOf(w) = k /\ watch[w] = "polling"))

(* What happens after a poll is held reaches the monitor.  (A first poll has  *)
(* no waitIndex.  Sent again, it is for what happens from then on.)           *)
HeldMeansHeard ==
    \A w \in Watcher, i \in 1 .. Len(Notices) + MaxFaults + MaxExpiries :
        (req[w].pc = "waiting" /\ i \in FirstFrom(KeyOf(w), req[w].at))
            ~> (i \in Range(heard[w]) \/ closed # {} \/ ~Alive)

(* A key has one watch at a time.  (A stop that comes too late ends none.)    *)
OneWatchPerKey ==
    \A v, w \in Watcher :
        watch[v] = "polling" /\ watch[w] = "polling" /\ KeyOf(v) = KeyOf(w) => v = w
=============================================================================
