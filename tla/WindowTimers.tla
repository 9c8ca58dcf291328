---------------------------- MODULE WindowTimers ----------------------------
(***************************************************************************)
(* The managers of queues through the day: every node runs one for every   *)
(* queue, which opens and closes the queue by its window, by the ownership *)
(* its monitor finds, and by the queues that contain it.                   *)
(*                                                                         *)
(* A timer that is due fires before time goes on, so that time moves from  *)
(* one timer to the next.  Instants are those of QueueWindow.              *)
(***************************************************************************)
EXTENDS QueueWindow, Sequences, FiniteSets, SequencesExt

CONSTANTS
    Node,
    Queue,
    Path,       \* paths, as sequences of names; the empty one is "/"
    Paths(_),   \* the paths of a queue, in the order they were read
    Windows,    \* the windows that queues may have
    Starts,     \* the instants at which the nodes may start
    Horizon,    \* bound on the time
    MaxFaults   \* bound on lost leases and on deletions

Root == <<>>
Manager == Node \X Queue

ASSUME ManagerAssumption == Node # {} /\ Queue # {}
ASSUME PathAssumption ==
    /\ Root \in Path
    /\ \A p \in Path : p \in Seq(ToSet(p)) /\ (p # Root => Front(p) \in Path)
ASSUME PathsAssumption == \A q \in Queue : Paths(q) \in Seq(Path)
ASSUME WindowsAssumption == \A w \in Windows : IsWindow(w)
ASSUME TimeAssumption ==
    /\ Horizon \in Nat /\ Horizon < FarFuture
    /\ Starts \subseteq 0 .. Horizon /\ Starts # {}
    /\ MaxFaults \in Nat

VARIABLES
    now,
    window,     \* the window of each queue, as it is stored
    mgr,        \* the managers
    check,      \* when a monitor looks again who owns its queue
    keys,       \* the nodes registered for a queue in etcd, by age
    known,      \* the queues in knownQueues of a node, besides the root queue
    faults,
    since       \* history: when each manager last opened its queue, and since when
                \* it is open uncontained, open without owning it, or idle

mechanism == <<now, window, mgr, check, keys, known, faults>>
vars == <<mechanism, since>>

Never == FarFuture

-----------------------------------------------------------------------------
(* shouldRun: whether the queues at a path and at every path above it are   *)
(* open on this node.  Of several queues at one path, one that is open is   *)
(* enough; of "/" it is enough that the root queue is known.                *)
KnownAt(n, p) == {q \in known[n] : p \in ToSet(Paths(q))}
OpenAt(n, p) == \E q \in KnownAt(n, p) : mgr[n, q].running

(* Mutant: what contains the containing queue is not asked. *)
shouldRunOneUp(n, path) ==
    path = Root \/ KnownAt(n, path) = {} \/ OpenAt(n, path)

shouldRun(n, path) ==
    LET at[p \in Path] == \/ p = Root
                          \/ (KnownAt(n, p) = {} \/ OpenAt(n, p)) /\ at[Front(p)]
    IN  at[path]

(* path.Dir *)
Dir(p) == IF p = Root THEN Root ELSE Front(p)

(* All paths are asked about, and the last one decides. *)
MayRun(m) == Paths(m[2]) = <<>> \/ shouldRun(m[1], Dir(Last(Paths(m[2]))))

-----------------------------------------------------------------------------
(* queueTime, as the instant at which a timer set now will fire.  A negative *)
(* duration fires at once.                                                   *)
Later(t) == IF t > now THEN t ELSE now

Asked(m) == Refresh(window[m[2]], now, mgr[m].times)
NextStart(m) == GetNextStartTime(window[m[2]], now, Asked(m))
NextEnd(m) == GetNextEndTime(window[m[2]], now, Asked(m))

PreTime(m)   == IF NextStart(m) = now THEN now ELSE Later(NextStart(m) - 20)
StartTime(m) == IF NextStart(m) = now THEN now + 20 ELSE Later(NextStart(m))
StopTime(m)  == Later(NextEnd(m))

(* endTime < 60 * time.Second.  Of the present second a part is over. *)
EndsWithinMinute(m) == NextEnd(m) - now <= Minute

-----------------------------------------------------------------------------
NewManager == [state |-> "begin", master |-> FALSE, running |-> FALSE, due |-> Never,
               times |-> [start |-> Zero, end |-> Zero]]

Init ==
    /\ now \in Starts
    /\ window \in [Queue -> Windows]
    /\ mgr = [m \in Manager |-> [NewManager EXCEPT !.due = now]]
    /\ check = [m \in Manager |-> Never]
    /\ keys = [q \in Queue |-> <<>>]
    /\ known = [n \in Node |-> Queue]
    /\ faults = 0
    /\ since = [m \in Manager |-> [opened |-> Never, alone |-> Never, stray |-> Never, idle |-> Never]]

Fires(m, state) == mgr[m].state = state /\ mgr[m].due <= now

(* The timer is set for an answer of the window. *)
SetTimer(m, r, due) == mgr' = [mgr EXCEPT ![m] = [r EXCEPT !.due = due, !.times = Asked(m)]]

(* The timer is set for a minute, without asking the window. *)
SetMinute(m, r) == mgr' = [mgr EXCEPT ![m] = [r EXCEPT !.due = now + Minute]]

(* LoadWindow and the first timer. *)
Begin(m) ==
    /\ Fires(m, "begin")
    /\ SetTimer(m, [mgr[m] EXCEPT !.state = "pre"], PreTime(m))
    /\ UNCHANGED <<now, window, check, keys, known, faults>>

(* The monitor registers the node and looks two seconds later. *)
PreTimer(m) ==
    /\ Fires(m, "pre")
    /\ SetTimer(m, [mgr[m] EXCEPT !.state = "start"], StartTime(m))
    /\ keys' = [keys EXCEPT ![m[2]] = IF m[1] \in ToSet(@) THEN @ ELSE Append(@, m[1])]
    /\ check' = [check EXCEPT ![m] = now + 2]
    /\ UNCHANGED <<now, window, known, faults>>

(* Mutant: a queue that may not run yet waits for the end of its window. *)
StartTimerGivesUp(m) ==
    /\ Fires(m, "start")
    /\ IF mgr[m].master /\ ~MayRun(m)
       THEN SetTimer(m, [mgr[m] EXCEPT !.state = "end"], StopTime(m))
       ELSE SetMinute(m, [mgr[m] EXCEPT !.state = "running", !.running = @ \/ mgr[m].master])
    /\ UNCHANGED <<now, window, check, keys, known, faults>>

(* A queue that may not run yet is tried again, if the window is long enough. *)
StartTimer(m) ==
    /\ Fires(m, "start")
    /\ CASE ~mgr[m].master -> SetMinute(m, [mgr[m] EXCEPT !.state = "running"])
         [] mgr[m].master /\ MayRun(m) ->
              SetMinute(m, [mgr[m] EXCEPT !.state = "running", !.running = TRUE])
         [] mgr[m].master /\ ~MayRun(m) ->
              IF EndsWithinMinute(m)
              THEN SetTimer(m, [mgr[m] EXCEPT !.state = "end"], StopTime(m))
              ELSE SetTimer(m, mgr[m], now + Minute)
    /\ UNCHANGED <<now, window, check, keys, known, faults>>

(* Mutant: the end is looked for when it is over. *)
RunningTimerLate(m) ==
    /\ Fires(m, "running")
    /\ CASE ~MayRun(m) -> SetMinute(m, [mgr[m] EXCEPT !.state = "start", !.running = FALSE])
         [] MayRun(m) /\ NextEnd(m) < now -> SetTimer(m, [mgr[m] EXCEPT !.state = "end"], StopTime(m))
         [] MayRun(m) /\ NextEnd(m) >= now -> SetTimer(m, mgr[m], now + Minute)
    /\ UNCHANGED <<now, window, check, keys, known, faults>>

RunningTimer(m) ==
    /\ Fires(m, "running")
    /\ CASE ~MayRun(m) -> SetMinute(m, [mgr[m] EXCEPT !.state = "start", !.running = FALSE])
         [] MayRun(m) /\ EndsWithinMinute(m) ->
              SetTimer(m, [mgr[m] EXCEPT !.state = "end"], StopTime(m))
         [] MayRun(m) /\ ~EndsWithinMinute(m) -> SetTimer(m, mgr[m], now + Minute)
    /\ UNCHANGED <<now, window, check, keys, known, faults>>

(* The monitor deletes the key and stops its timer.  The manager does not    *)
(* forget that it was the master.                                            *)
EndTimer(m) ==
    /\ Fires(m, "end")
    /\ SetTimer(m, [mgr[m] EXCEPT !.state = "pre", !.running = FALSE], PreTime(m))
    /\ keys' = [keys EXCEPT ![m[2]] = Remove(@, m[1])]
    /\ check' = [check EXCEPT ![m] = Never]
    /\ UNCHANGED <<now, window, known, faults>>

(* Mutant: a manager that lost its queue only notes it. *)
CheckOwnerNotes(m) ==
    LET isMaster == keys[m[2]] # <<>> /\ Head(keys[m[2]]) = m[1] IN
    /\ check[m] <= now
    /\ check' = [check EXCEPT ![m] = now + 30]
    /\ mgr' = [mgr EXCEPT ![m].master = isMaster]
    /\ UNCHANGED <<now, window, keys, known, faults>>

(* The monitor asks for the oldest key, and the manager hears what it found. *)
CheckOwner(m) ==
    LET isMaster == keys[m[2]] # <<>> /\ Head(keys[m[2]]) = m[1] IN
    /\ check[m] <= now
    /\ check' = [check EXCEPT ![m] = now + 30]
    /\ CASE mgr[m].state = "returned" \/ isMaster = mgr[m].master -> UNCHANGED mgr
         [] mgr[m].state # "returned" /\ isMaster /\ ~mgr[m].master ->
              SetTimer(m, [mgr[m] EXCEPT !.master = TRUE, !.state = "start"], StartTime(m))
         [] mgr[m].state # "returned" /\ ~isMaster /\ mgr[m].master ->
              mgr' = [mgr EXCEPT ![m] = [@ EXCEPT !.master = FALSE, !.running = FALSE]]
    /\ UNCHANGED <<now, window, keys, known, faults>>

Fault == faults < MaxFaults /\ faults' = faults + 1

(* The key of a node expires.  Updates do not bring it back. *)
LeaseLost(m) ==
    /\ Fault
    /\ m[1] \in ToSet(keys[m[2]])
    /\ keys' = [keys EXCEPT ![m[2]] = Remove(@, m[1])]
    /\ UNCHANGED <<now, window, mgr, check, known>>

(* The notice of a deletion: the manager returns at once ... *)
DeletedAtOnce(m) ==
    /\ Fault
    /\ mgr[m].state # "returned"
    /\ mgr' = [mgr EXCEPT ![m] = [@ EXCEPT !.state = "returned", !.due = Never]]
    /\ UNCHANGED <<now, window, check, keys, known>>

(* ... and StartDike cuts the queue from its list. *)
Forgotten(m) ==
    /\ mgr[m].state = "returned" /\ m[2] \in known[m[1]]
    /\ known' = [known EXCEPT ![m[1]] = @ \ {m[2]}]
    /\ UNCHANGED <<now, window, mgr, check, keys, faults>>

Dues == {mgr[m].due : m \in Manager} \cup {check[m] : m \in Manager}

Tick ==
    /\ \A d \in Dues : d > now
    /\ now' = CHOOSE d \in Dues : \A e \in Dues : d <= e
    /\ now' <= Horizon
    /\ UNCHANGED <<window, mgr, check, keys, known, faults>>

-----------------------------------------------------------------------------
(* What a reader of the documentation takes for granted of one queue: the   *)
(* queues at all paths above its last one are open, the time is in its       *)
(* window, and its node is the one that registered first.                    *)
Above(p) == {SubSeq(p, 1, i) : i \in 1 .. Len(p) - 1}

Contained(m) ==
    Paths(m[2]) # <<>> =>
        \A a \in Above(Last(Paths(m[2]))) : KnownAt(m[1], a) = {} \/ OpenAt(m[1], a)

InHours(w, t) == w.start <= MinuteOf(t) /\ MinuteOf(t) < w.end
InWindow(w, t) ==
    CASE w.kind = "every" -> InHours(w, t)
      [] w.kind = "always" -> TRUE
      [] w.kind = "always_except" -> ~InHours(w, t)

(* When a window closes that is open at t. *)
Closing(w, t) ==
    CASE w.kind = "every" -> At(DayOf(t), w.end)
      [] w.kind = "always" -> Never
      [] w.kind = "always_except" ->
           At(IF MinuteOf(t) < w.start THEN DayOf(t) ELSE DayOf(t) + 1, w.start)

Owns(m) == keys[m[2]] # <<>> /\ Head(keys[m[2]]) = m[1]
Open(m) == mgr[m].running /\ mgr[m].state # "returned"
Idle(m) == ~mgr[m].running /\ mgr[m].state # "returned" /\ mgr[m].master
           /\ InWindow(window[m[2]], now) /\ Contained(m)

Begun(holds, before) == IF ~holds THEN Never ELSE IF before = Never THEN now' ELSE before

History ==
    since' = [m \in Manager |->
        [opened |-> IF Open(m)' /\ ~Open(m) THEN now ELSE since[m].opened,
         alone  |-> Begun(Open(m)' /\ ~Contained(m)', since[m].alone),
         stray  |-> Begun(Open(m)' /\ ~Owns(m)', since[m].stray),
         idle   |-> Begun(Idle(m)', since[m].idle)]]

Step(m) ==
    \/ Begin(m) \/ PreTimer(m) \/ StartTimer(m) \/ RunningTimer(m) \/ EndTimer(m)
    \/ CheckOwner(m) \/ LeaseLost(m) \/ DeletedAtOnce(m) \/ Forgotten(m)

Next == (Tick \/ \E m \in Manager : Step(m)) /\ History

Spec == Init /\ [][Next]_vars

-----------------------------------------------------------------------------
TypeOK ==
    /\ now \in 0 .. Horizon
    /\ \A m \in Manager :
          /\ mgr[m].state \in {"begin", "pre", "start", "running", "end", "returned"}
          /\ mgr[m].due >= now /\ check[m] >= now
    /\ \A q \in Queue : keys[q] \in Seq(Node) /\ IsInjective(keys[q])

(* A queue that was opened in its window is closed within a minute of the    *)
(* end of this window (queue_manager.go, the states "running" and "end").    *)
ClosesAtEnd ==
    \A m \in Manager :
        Open(m) /\ InWindow(window[m[2]], since[m].opened)
            => now <= Closing(window[m[2]], since[m].opened) + Minute

(* A queue whose containing queues closed, however far up, closes within a   *)
(* minute (queue_manager.go, "check if queue is *still* contained").         *)
UncontainedCloses == \A m \in Manager : now <= since[m].alone + Minute

(* Two nodes execute a queue for no longer than the monitor takes to look    *)
(* again: it is 30 seconds after its owner changed that a node stops.        *)
StrayCloses == \A m \in Manager : now <= since[m].stray + 30

(* An owner whose queue is contained and in its window executes it within a  *)
(* minute, whatever was closed before (resetStart in queue_manager.go).      *)
OwnerOpens == \A m \in Manager : now <= since[m].idle + Minute

-----------------------------------------------------------------------------
(* What does not hold.  README.md:43: "Queues act as a window of operation   *)
(* in which tasks may be actioned."  A queue is opened in its window.        *)
OpensInWindow == \A m \in Manager : Open(m) => InWindow(window[m[2]], since[m].opened)

(* README.md:59: "If *any* queue within the path is closed the queue will    *)
(* not open", for each of the paths and on whatever node a queue is open.    *)
OpensUnderOpenQueues ==
    [][\A m \in Manager : ~Open(m) /\ Open(m)' =>
         \A p \in ToSet(Paths(m[2])) : \A a \in Above(p) :
             \A q \in known[m[1]] : a \in ToSet(Paths(q)) => \E n \in Node : mgr[n, q].running]_vars

(* README.md:59 the other way around: a queue opens when those above it have *)
(* opened, on whatever node that was.                                        *)
OpensWhenContained ==
    \A m \in Manager :
        LET p == Last(Paths(m[2])) IN
        Owns(m) /\ mgr[m].master /\ mgr[m].state = "start" /\ ~mgr[m].running /\ mgr[m].due = now + Minute
            => \E a \in Above(p) : \E q \in Queue : a \in ToSet(Paths(q)) /\ \A n \in Node : ~mgr[n, q].running

(* A manager that has returned has closed its queue. *)
ReturnedIsClosed == \A m \in Manager : mgr[m].state = "returned" => ~mgr[m].running
=============================================================================
