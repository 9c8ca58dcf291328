------------------------------ MODULE AsyncQueue ------------------------------
(***************************************************************************)
(* How the owner of an asynchronous queue executes tasks at their time.    *)
(*                                                                         *)
(* An executor scans the table of pending tasks every Period minutes for   *)
(* those due within the next Horizon minutes (or until the window closes)  *)
(* and sets a timer for each.  Tasks created or changed between two scans  *)
(* come by way of notices, which the queue's manager handles.  Executor,   *)
(* manager and timer callbacks share one map from tasks to timers.         *)
(*                                                                         *)
(* Every statement is a step, and any of them may fail: a scan that fails  *)
(* looks like one that found less, and a notice that is lost is not missed. *)
(***************************************************************************)
EXTENDS Integers, FiniteSets

CONSTANTS
    Task,        \* the tasks clients may create
    Loop,        \* executors: each launch begins another, and none ever ends
    Timer,       \* names for time.Timer objects
    Handler,     \* goroutines that serve requests of clients
    Written,     \* the statuses clients write
    Horizon, Period,   \* in minutes: 5 and 4 in the code
    Close, NextClose,  \* when the window closes, and closes the next time
    Budget,      \* bounds: how often each of these kinds of step is taken
    MaxTime      \* bound on the clock

Kinds == {"launch", "stop", "change", "fail"}

ASSUME PeriodAssumption == Period \in Nat /\ Horizon \in Nat /\ 0 < Period /\ Period < Horizon
ASSUME CloseAssumption == Close \in Nat /\ NextClose \in Nat /\ Close < NextClose
ASSUME BudgetAssumption == Budget \in [Kinds -> Nat]
ASSUME NamesAssumption == Timer \subseteq Nat \ {0} /\ MaxTime \in Nat

Status == {"none", "Pending", "Finished", "Deleted"}
ASSUME WrittenAssumption == Written \subseteq Status \ {"none"}

VARIABLES
    now,         \* the clock, in minutes
    tasks,       \* table tasks
    rows,        \* the pending rows of table async_tasks: no other is ever read
    map,         \* queue.asyncTimerMap: the timer of each task, or none
    horizon,     \* queue.asyncTimeWindow
    timer,       \* the timers and their callbacks
    loop,        \* the executors
    call,        \* the handlers, and the task each has in memory
    notices,     \* changes on their way to the manager
    alive,       \* the process has not panicked
    used,        \* what has been spent of Budget
    since,       \* ghost: when the execution now open began
    dropped      \* ghost: the tasks that a failure kept from whatever would take them up

tables == <<tasks, rows>>
clients == <<call, notices>>
vars == <<now, tables, map, horizon, timer, loop, clients, alive, used, since, dropped>>

Never == -1
NoTimer == 0
Times == 0 .. MaxTime

Free == [pc |-> "free", task |-> Never, as |-> "none", due |-> Never]
Asleep(t) == [pc |-> "asleep", wake |-> t, found |-> {}]
NotBegun == [pc |-> "none", wake |-> Never, found |-> {}]
NoCall == [pc |-> "free", kind |-> "none", task |-> Never, status |-> "none", when |-> 0]

TypeOK ==
    /\ now \in Times
    /\ tasks \in [Task -> [status : Status, when : Times]]
    /\ rows \subseteq [when : Times, task : Task]
    /\ map \in [Task -> Timer \cup {NoTimer}]
    /\ horizon \in Int
    /\ timer \in [Timer -> [pc : {"free", "armed", "called", "stored", "saved", "ended"},
                            task : Task \cup {Never}, as : Status, due : Times \cup {Never}]]
    /\ loop \in [Loop -> [pc : {"none", "launched", "query", "add", "asleep"},
                          wake : Int, found : SUBSET Task]]
    /\ call \in [Handler -> [pc : {"free", "store", "insert", "notify"},
                             kind : {"none", "create", "update", "delete"},
                             task : Task \cup {Never}, status : Status, when : Times]]
    /\ notices \subseteq {"create", "update", "delete"} \X Task
    /\ alive \in BOOLEAN
    /\ used \in [Kinds -> Nat]
    /\ dropped \subseteq Task
    /\ since \in Times \cup {Never}

Init ==
    /\ now = 0
    /\ tasks = [t \in Task |-> [status |-> "none", when |-> 0]]
    /\ rows = {}
    /\ map = [t \in Task |-> NoTimer]
    /\ horizon = Never
    /\ timer = [i \in Timer |-> Free]
    /\ loop = [l \in Loop |-> NotBegun]
    /\ call = [c \in Handler |-> NoCall]
    /\ notices = {}
    /\ alive = TRUE
    /\ used = [k \in Kinds |-> 0]
    /\ dropped = {}
    /\ since = Never

Spend(k) == used[k] < Budget[k] /\ used' = [used EXCEPT ![k] = @ + 1]

-----------------------------------------------------------------------------
(* Of the rows of table async_tasks, those of other statuses are left out. *)
RowOf(status, w, t) == IF status = "Pending" THEN {[when |-> w, task |-> t]} ELSE {}

(* The map and the timers. *)
FreeTimers == {i \in Timer : timer[i].pc = "free"}

FirstFree == CHOOSE i \in FreeTimers : \A j \in FreeTimers : i <= j

(* addToTimerMap: a timer for the time the table now gives.  A timer of the *)
(* task that is there already is replaced in the map, but not stopped.      *)
AddToTimerMap(t) ==
    /\ FreeTimers # {}
    /\ timer' = [timer EXCEPT ![FirstFree] =
          [pc |-> "armed", task |-> t, as |-> tasks[t].status, due |-> tasks[t].when]]
    /\ map' = [map EXCEPT ![t] = FirstFree]

(* timer.Stop() leaves a callback that has begun alone. *)
Stopped(i) == IF timer[i].pc = "armed" THEN Free ELSE timer[i]

-----------------------------------------------------------------------------
(* StartOrContinueExecution.  It is launched by the manager ... *)
Launch(l) ==
    /\ loop[l].pc = "none"
    /\ since = Never
    /\ Spend("launch")
    /\ loop' = [loop EXCEPT ![l].pc = "launched"]
    /\ since' = now
    /\ UNCHANGED <<now, tables, map, horizon, timer, clients, alive, dropped>>

(* ... and forgets the timers it finds when it begins. *)
NextEndTime == IF now < Close THEN Close ELSE NextClose
TimeForQuery == IF now + Horizon > NextEndTime THEN NextEndTime ELSE now + Horizon

Begin(l) ==
    /\ loop[l].pc = "launched"
    /\ map' = [t \in Task |-> NoTimer]
    /\ horizon' = TimeForQuery
    /\ loop' = [loop EXCEPT ![l].pc = "query"]
    /\ UNCHANGED <<now, tables, timer, clients, alive, used, since, dropped>>

(* The pending rows due after now and before the horizon. *)
Matching == {r.task : r \in {q \in rows : now < q.when /\ q.when < TimeForQuery}}

Query(l) ==
    /\ loop[l].pc = "query"
    /\ loop' = [loop EXCEPT ![l].pc = "add", ![l].found = Matching]
    /\ UNCHANGED <<now, tables, map, horizon, timer, clients, alive, used, since, dropped>>

(* Of the tasks a scan misses, those are lost that are due before the next. *)
Miss(missed) == dropped' = dropped \cup {t \in missed : tasks[t].when <= now + Period}

(* The error of an iterator is not looked at: the scan ends where it fails. *)
QueryFails(l) ==
    /\ loop[l].pc = "query"
    /\ Spend("fail")
    /\ \E found \in SUBSET Matching :
          /\ loop' = [loop EXCEPT ![l].pc = "add", ![l].found = found]
          /\ Miss(Matching \ found)
    /\ UNCHANGED <<now, tables, map, horizon, timer, clients, alive, since>>

(* A timer for each of them that has none. *)
Add(l, t) ==
    /\ loop[l].pc = "add" /\ t \in loop[l].found
    /\ IF map[t] = NoTimer THEN AddToTimerMap(t) ELSE UNCHANGED <<timer, map>>
    /\ loop' = [loop EXCEPT ![l].found = @ \ {t}]
    /\ UNCHANGED <<now, tables, horizon, clients, alive, used, since, dropped>>

(* The task cannot be read. *)
AddFails(l, t) ==
    /\ loop[l].pc = "add" /\ t \in loop[l].found
    /\ Spend("fail")
    /\ loop' = [loop EXCEPT ![l].found = @ \ {t}]
    /\ Miss({t})
    /\ UNCHANGED <<now, tables, map, horizon, timer, clients, alive, since>>

(* Mutant: the executor sleeps until the horizon has passed. *)
SleepTooLong(l) ==
    /\ loop[l].pc = "add" /\ loop[l].found = {}
    /\ loop' = [loop EXCEPT ![l] = Asleep(now + Horizon + 1)]
    /\ UNCHANGED <<now, tables, map, horizon, timer, clients, alive, used, since, dropped>>

Sleep(l) ==
    /\ loop[l].pc = "add" /\ loop[l].found = {}
    /\ loop' = [loop EXCEPT ![l] = Asleep(now + Period)]
    /\ UNCHANGED <<now, tables, map, horizon, timer, clients, alive, used, since, dropped>>

(* Whether the queue is still open it does not ask. *)
Wake(l) ==
    /\ loop[l].pc = "asleep" /\ now >= loop[l].wake
    /\ loop' = [loop EXCEPT ![l] = [Asleep(Never) EXCEPT !.pc = "query"]]
    /\ horizon' = TimeForQuery
    /\ UNCHANGED <<now, tables, map, timer, clients, alive, used, since, dropped>>

(* StopExecution: the timers of the map are stopped and removed. *)
StopExecution ==
    /\ since # Never
    /\ Spend("stop")
    /\ timer' = [i \in Timer |-> IF \E t \in Task : map[t] = i THEN Stopped(i) ELSE timer[i]]
    /\ map' = [t \in Task |-> NoTimer]
    /\ since' = Never
    /\ UNCHANGED <<now, tables, horizon, loop, clients, alive, dropped>>

-----------------------------------------------------------------------------
(* The callback of a timer: Execute(false), and the entry of the map is    *)
(* deleted, be it this timer's or that of another one for the same task.   *)
Fire(i) ==
    /\ timer[i].pc = "armed" /\ timer[i].due <= now
    /\ timer' = [timer EXCEPT ![i].pc = "called"]
    /\ UNCHANGED <<now, tables, map, horizon, loop, clients, alive, used, since, dropped>>

(* The task is stored as it was loaded when the timer was set.  (Complete,   *)
(* Failure and Partially Failed are one status here: no scan asks for them.) *)
Finish(i) == tasks' = [tasks EXCEPT ![timer[i].task] = [status |-> "Finished", when |-> timer[i].due]]

SaveTask(i) ==
    /\ timer[i].pc = "called"
    /\ Finish(i)
    /\ timer' = [timer EXCEPT ![i].pc = "stored"]
    /\ UNCHANGED <<now, rows, map, horizon, loop, clients, alive, used, since, dropped>>

(* The statement fails, or the queue of the task cannot be read. *)
SaveFails(i) ==
    /\ timer[i].pc = "called"
    /\ Spend("fail")
    /\ timer' = [timer EXCEPT ![i].pc = "saved"]
    /\ dropped' = dropped \cup {timer[i].task}
    /\ UNCHANGED <<now, tables, map, horizon, loop, clients, alive, since>>

SaveRow(i) ==
    /\ timer[i].pc = "stored"
    /\ \/ rows' = rows \ RowOf(timer[i].as, timer[i].due, timer[i].task)
          /\ UNCHANGED used
       \/ Spend("fail") /\ UNCHANGED rows
    /\ timer' = [timer EXCEPT ![i].pc = "saved"]
    /\ UNCHANGED <<now, tasks, map, horizon, loop, clients, alive, since, dropped>>

(* ExecutePromise, if there is one, stores it again. *)
Promise(i) ==
    /\ timer[i].pc = "saved"
    /\ Finish(i)
    /\ timer' = [timer EXCEPT ![i].pc = "ended"]
    /\ UNCHANGED <<now, rows, map, horizon, loop, clients, alive, used, since, dropped>>

(* Mutant: the callback goes on holding its timer's name in the map. *)
ForgetNothing(i) ==
    /\ timer[i].pc \in {"saved", "ended"}
    /\ timer' = [timer EXCEPT ![i] = Free]
    /\ UNCHANGED <<now, tables, map, horizon, loop, clients, alive, used, since, dropped>>

Forget(i) ==
    /\ timer[i].pc \in {"saved", "ended"}
    /\ map' = [map EXCEPT ![timer[i].task] = NoTimer]
    /\ timer' = [timer EXCEPT ![i] = Free]
    /\ UNCHANGED <<now, tables, horizon, loop, clients, alive, used, since, dropped>>

-----------------------------------------------------------------------------
(* The API.  A handler has read the task, if there was one, and put into it  *)
(* what the client sent; it stores the task, then a row, then a notice.      *)
Ask(c, kind, t, status, w) ==
    /\ call[c].pc = "free"
    /\ call' = [call EXCEPT ![c] =
          [pc |-> "store", kind |-> kind, task |-> t, status |-> status, when |-> w]]
    /\ UNCHANGED <<now, tables, map, horizon, timer, loop, notices, alive, since, dropped>>

(* A new UUID.  A task without a time is refused. *)
CreateTask(c, t, status, w) ==
    /\ tasks[t].status = "none" /\ \A d \in Handler : call[d].task # t
    /\ Ask(c, "create", t, status, w)
    /\ UNCHANGED used

UpdateTask(c, t, status, w) ==
    /\ tasks[t].status # "none"
    /\ Spend("change")
    /\ Ask(c, "update", t, status, w)

DeleteTask(c, t) ==
    /\ tasks[t].status # "none"
    /\ Spend("change")
    /\ Ask(c, "delete", t, "Deleted", tasks[t].when)

(* A deletion writes the status alone.  What was dropped has another chance. *)
Store(c) ==
    LET t == call[c].task
        deletes == call[c].kind = "delete"
    IN  /\ call[c].pc = "store"
        /\ tasks' = [tasks EXCEPT ![t] =
              [status |-> call[c].status, when |-> IF deletes THEN @.when ELSE call[c].when]]
        /\ dropped' = IF deletes THEN dropped ELSE dropped \ {t}
        /\ call' = [call EXCEPT ![c].pc = "insert"]
        /\ UNCHANGED <<now, rows, map, horizon, timer, loop, notices, alive, used, since>>

(* A row is never deleted here, as previousStatus is not set. *)
InsertRow(c) ==
    /\ call[c].pc = "insert"
    /\ rows' = rows \cup RowOf(call[c].status, call[c].when, call[c].task)
    /\ call' = [call EXCEPT ![c].pc = "notify"]
    /\ UNCHANGED <<now, tasks, map, horizon, timer, loop, notices, alive, used, since, dropped>>

(* If the queue of the task cannot be read there is no row, and no error. *)
SkipRow(c) ==
    /\ call[c].pc = "insert"
    /\ Spend("fail")
    /\ dropped' = dropped \cup {call[c].task}
    /\ call' = [call EXCEPT ![c].pc = "notify"]
    /\ UNCHANGED <<now, tables, map, horizon, timer, loop, notices, alive, since>>

SendNotice(c) ==
    /\ call[c].pc = "notify"
    /\ notices' = notices \cup {<<call[c].kind, call[c].task>>}
    /\ call' = [call EXCEPT ![c] = NoCall]
    /\ UNCHANGED <<now, tables, map, horizon, timer, loop, alive, used, since, dropped>>

(* What a notice would have told is lost if the last scan looked that far, or *)
(* if the next one will pass over the task, for the timer the map has of it.  *)
Untold(t) ==
    dropped' = IF tasks[t].when < horizon \/ map[t] # NoTimer THEN dropped \cup {t} ELSE dropped

(* A statement fails and the client is told so, or the node stops. *)
HandlerFails(c) ==
    /\ call[c].pc # "free"
    /\ Spend("fail")
    /\ CASE call[c].pc = "store" -> UNCHANGED dropped
         [] call[c].pc = "insert" -> dropped' = dropped \cup {call[c].task}
         [] call[c].pc = "notify" -> Untold(call[c].task)
    /\ call' = [call EXCEPT ![c] = NoCall]
    /\ UNCHANGED <<now, tables, map, horizon, timer, loop, notices, alive, since>>

Handle(c) == Store(c) \/ InsertRow(c) \/ SendNotice(c)

-----------------------------------------------------------------------------
(* UpdatedTask, on the manager of the queue.  The ten update workers of     *)
(* eunomia may store two notices in either order.                           *)
Receive(kind, t) ==
    /\ <<kind, t>> \in notices
    /\ notices' = notices \ {<<kind, t>>}
    /\ UNCHANGED <<now, tables, horizon, loop, call, since>>

(* A notice expires before it is stored, or no watch runs; or the task it is *)
(* about, if it is new, cannot be read.                                      *)
NoticeLost(kind, t) ==
    /\ Receive(kind, t)
    /\ Spend("fail")
    /\ Untold(t)
    /\ UNCHANGED <<timer, map, alive>>

(* create: the task is due before the horizon of the last scan, or left to *)
(* the next one.                                                            *)
Created(t) ==
    /\ Receive("create", t)
    /\ IF horizon # Never /\ tasks[t].when < horizon
       THEN AddToTimerMap(t) ELSE UNCHANGED <<timer, map>>
    /\ UNCHANGED <<alive, used, dropped>>

(* update: stopping the timer of a task that has none panics. *)
Updated(t) ==
    /\ Receive("update", t)
    /\ IF map[t] = NoTimer
       THEN alive' = FALSE /\ UNCHANGED <<timer, map>>
       ELSE LET moved == [timer EXCEPT ![map[t]] = Stopped(map[t])] IN
            \E i \in Timer :
                /\ moved[i].pc = "free" /\ \A j \in Timer : moved[j].pc = "free" => i <= j
                /\ timer' = [moved EXCEPT ![i] = [pc |-> "armed", task |-> t,
                                 as |-> tasks[t].status, due |-> tasks[t].when]]
                /\ map' = [map EXCEPT ![t] = i]
                /\ UNCHANGED alive
    /\ UNCHANGED <<used, dropped>>

(* The timer of the map is stopped and removed, and no other is set: a task  *)
(* that cannot be read again, or one that was deleted.                       *)
Remove(t) ==
    /\ timer' = IF map[t] = NoTimer THEN timer ELSE [timer EXCEPT ![map[t]] = Stopped(map[t])]
    /\ map' = [map EXCEPT ![t] = NoTimer]
    /\ dropped' = dropped \cup {t}
    /\ UNCHANGED alive

UpdatedFails(t) ==
    /\ Receive("update", t)
    /\ Spend("fail")
    /\ map[t] # NoTimer
    /\ Remove(t)

(* delete *)
Deleted(t) ==
    /\ Receive("delete", t)
    /\ Remove(t)
    /\ UNCHANGED used

(* Time passes.  What an executor does between two sleeps takes no time to *)
(* speak of; a callback takes as long as the service it calls.             *)
Due(l) ==
    loop[l].pc \in {"launched", "query", "add"} \/ (loop[l].pc = "asleep" /\ loop[l].wake <= now)

Tick ==
    /\ now < MaxTime
    /\ \A l \in Loop : ~Due(l)
    /\ now' = now + 1
    /\ UNCHANGED <<tables, map, horizon, timer, loop, clients, alive, used, since, dropped>>

-----------------------------------------------------------------------------
Execute(l) == Begin(l) \/ Query(l) \/ (\E t \in Task : Add(l, t)) \/ Sleep(l) \/ Wake(l)

Callback(i) == Fire(i) \/ SaveTask(i) \/ SaveRow(i) \/ Promise(i) \/ Forget(i)

Manage(t) == Created(t) \/ Updated(t) \/ Deleted(t)

Client(c, t) ==
    \/ \E w \in Times, status \in Written :
          CreateTask(c, t, status, w) \/ UpdateTask(c, t, status, w)
    \/ DeleteTask(c, t)

Fails ==
    \/ \E l \in Loop : QueryFails(l) \/ \E t \in Task : AddFails(l, t)
    \/ \E i \in Timer : SaveFails(i)
    \/ \E c \in Handler : SkipRow(c) \/ HandlerFails(c)
    \/ \E t \in Task : UpdatedFails(t) \/ \E kind \in {"create", "update", "delete"} : NoticeLost(kind, t)

Next ==
    /\ alive
    /\ \/ \E l \in Loop : Launch(l) \/ Execute(l)
       \/ \E i \in Timer : Callback(i)
       \/ \E c \in Handler : Handle(c) \/ \E t \in Task : Client(c, t)
       \/ \E t \in Task : Manage(t)
       \/ StopExecution \/ Fails
       \/ Tick

Spec == Init /\ [][Next]_vars

(* Goroutines run, and time passes. *)
Fairness ==
    /\ \A l \in Loop : WF_vars(alive /\ Execute(l))
    /\ \A i \in Timer : WF_vars(alive /\ Callback(i))
    /\ \A c \in Handler : WF_vars(alive /\ Handle(c))
    /\ \A t \in Task : WF_vars(alive /\ Manage(t))
    /\ WF_vars(alive /\ Tick)

FairSpec == Spec /\ Fairness

-----------------------------------------------------------------------------
(* Scans and notices leave no gap: a pending task whose time came while the *)
(* queue was open has a timer set for that time or before, or a request or  *)
(* a notice about it is still on its way, whatever else failed, unless the  *)
(* failure was one of its own: its row or the end of its execution was not  *)
(* written, it was deleted or could not be read again, its notice was lost  *)
(* after the scan that looked that far or while it had a timer already, or  *)
(* the last scan before its time failed.                                    *)
Serves(i, t) ==
    timer[i].pc \in {"armed", "called"} /\ timer[i].task = t /\ timer[i].due <= tasks[t].when

HasTimer(t) == \E i \in Timer : Serves(i, t)

Announced(t) == \E kind \in {"create", "update"} : <<kind, t>> \in notices

UnderWay(t) ==
    \E c \in Handler :
        call[c].task = t /\ call[c].pc \in {"insert", "notify"} /\ call[c].kind # "delete"

NoTaskSkipped ==
    \A t \in Task :
        /\ alive /\ since # Never
        /\ tasks[t].status = "Pending" /\ t \notin dropped
        /\ since < tasks[t].when /\ tasks[t].when <= now /\ tasks[t].when < Close
        => HasTimer(t) \/ Announced(t) \/ UnderWay(t)

(* What the map holds is a timer of that very task, which has not finished: *)
(* a scan that passes over a known task, or a deletion that stops its timer, *)
(* is not misled by one that is gone or that serves another task.           *)
MapHoldsLive ==
    \A t \in Task : map[t] # NoTimer =>
        timer[map[t]].pc # "free" /\ timer[map[t]].task = t

(* api_queue.go: any tasks available in an asynchronous queue are executed  *)
(* in its next window.  Here: those whose time had come when it opened.     *)
Waiting(t) == tasks[t].status = "Pending" /\ since # Never /\ tasks[t].when <= since

WaitingTasksRun == \A t \in Task : Waiting(t) ~> ~Waiting(t)

(* queue.go: an executor does not set a timer for a task it knows already.  *)
ExecutedOnce == [][\A i \in Timer : Fire(i) => tasks[timer[i].task].status # "Finished"]_vars

(* README.md: an open queue means its tasks may be executed. *)
ClosedMeansIdle == [][\A i \in Timer : Fire(i) => since # Never]_vars

(* api_task.go: a deleted task is removed unless it is in execution. *)
DeletedNotExecuted == [][\A i \in Timer : Fire(i) => tasks[timer[i].task].status # "Deleted"]_vars

(* A change of a task is not the end of the process that hears of it. *)
NoPanic == alive

=============================================================================
