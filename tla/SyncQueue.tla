------------------------------ MODULE SyncQueue ------------------------------
(***************************************************************************)
(* The execution of a synchronous queue.                                   *)
(*                                                                         *)
(* A task has a row in the table tasks and a row in sync_tasks, which      *)
(* orders the tasks of a queue by status and priority.  Every change of a  *)
(* task is several statements on these tables, none of them in a           *)
(* transaction, and is made by a goroutine of its own:                     *)
(*   exec      StartOrContinueExecution: picks a pending task and calls    *)
(*             its action; it ends there, and the queue goes on when the   *)
(*             completion of the task is reported                          *)
(*   create, update, delete, complete                                      *)
(*             the handlers of the API                                     *)
(*   promise   the manager of a node while it executes the promise of a    *)
(*             completed task                                              *)
(* A reported completion reaches the manager of every node through etcd.   *)
(*                                                                         *)
(* Which node owns the queue is QueueOwnership's matter: here the owners   *)
(* are the nodes of Executors, whose window may open and close.            *)
(***************************************************************************)
EXTENDS Naturals, FiniteSets, Functions

CONSTANTS
    Node,
    Executors,  \* the nodes that come to own the queue
    Task,       \* the tasks, numbered in the order of their time UUIDs
    Priority,   \* the priorities in use; the default is 0
    Promised,   \* the tasks that have a promise
    Slot,       \* bound on goroutines alive at a time
    Budget,     \* bounds on what the environment does, by name
    MaxSpent    \* bound on what it does altogether

BudgetNames == {"start", "stop", "spurious", "statement", "action", "promise",
                "event", "update", "delete", "crash"}

ASSUME ExecutorsAssumption == Executors \subseteq Node
ASSUME TaskAssumption      == Task \subseteq Nat /\ Promised \subseteq Task
ASSUME FiniteAssumption    == IsFiniteSet(Task) /\ IsFiniteSet(Slot)
ASSUME PriorityAssumption  == Priority \subseteq Nat /\ 0 \in Priority
ASSUME BudgetAssumption    == Budget \in [BudgetNames -> Nat] /\ MaxSpent \in Nat

VARIABLES
    tasks,        \* Cassandra: table tasks, the status and priority of each task
    rows,         \* Cassandra: table sync_tasks, the part of it for this queue
    gor,          \* the goroutines
    running,      \* queue.Running of each node
    inbox,        \* completions on their way to the manager of each node
    outstanding,  \* services: executions of each task not reported complete
    used,         \* how much of each budget is spent
    \* ghosts
    queued,       \* tasks whose creation was confirmed to the client
    called,       \* tasks whose action was called, with or without success
    closed,       \* tasks reported complete though nobody was executing them
    deleted,      \* tasks whose deletion was confirmed before any execution
    abandoned     \* tasks whose executor died between taking them and calling, or
                  \* that were never listed because the queue could not be read

tables == <<tasks, rows>>
ghosts == <<queued, called, closed, deleted, abandoned>>
vars == <<tables, gor, running, inbox, outstanding, used, ghosts>>

(* The status of a task that was never stored, and the previousStatus of a *)
(* task fresh from JSON.                                                   *)
Unset == ""

Status == {Unset, "Pending", "Running", "Complete", "Partially Failed", "Deleted"}

Row == [status : Status, priority : Priority, task : Task]

Kinds == {"exec", "create", "update", "delete", "complete", "promise"}

(* The local variables of a goroutine: where it is, and the copy of the *)
(* task it loaded and is about to store.                                *)
Asking ==
    [kind : Kinds, node : Node, pc : {"begin", "query"}, task : {0},
     status : Status, previous : Status, priority : Priority]

Holding ==
    [kind : Kinds, node : Node,
     pc : {"load", "write", "insert", "remove", "call", "promise", "notify", "continue"},
     task : Task, status : Status, previous : Status, priority : Priority]

Idle == [kind |-> "idle"]

TypeOK ==
    /\ tasks \in [Task -> [status : Status, priority : Priority]]
    /\ rows \subseteq Row
    /\ gor \in [Slot -> Asking \cup Holding \cup {Idle}]
    /\ running \in [Node -> BOOLEAN]
    /\ inbox \in [Node -> [Task -> Nat]]
    /\ outstanding \in [Task -> Nat]
    /\ used \in [BudgetNames -> Nat]
    /\ \A b \in BudgetNames : used[b] <= Budget[b]
    /\ queued \subseteq Task /\ called \subseteq Task /\ closed \subseteq Task
    /\ deleted \subseteq Task /\ abandoned \subseteq Task

Init ==
    /\ tasks = [t \in Task |-> [status |-> Unset, priority |-> 0]]
    /\ rows = {}
    /\ gor = [s \in Slot |-> Idle]
    /\ running = [n \in Node |-> FALSE]
    /\ inbox = [n \in Node |-> [t \in Task |-> 0]]
    /\ outstanding = [t \in Task |-> 0]
    /\ used = [b \in BudgetNames |-> 0]
    /\ queued = {} /\ called = {} /\ closed = {} /\ deleted = {} /\ abandoned = {}

Spend(b) ==
    /\ used[b] < Budget[b] /\ SumFunction(used) < MaxSpent
    /\ used' = [used EXCEPT ![b] = @ + 1]

-----------------------------------------------------------------------------
(* Goroutines. *)
Free == {s \in Slot : gor[s] = Idle}

Go(g) ==
    /\ Free # {}
    /\ gor' = [gor EXCEPT ![CHOOSE s \in Free : TRUE] = g]

At(s, kind, pc) == gor[s].kind = kind /\ gor[s].pc = pc

Continue(s, pc) == gor' = [gor EXCEPT ![s].pc = pc]

End(s) == gor' = [gor EXCEPT ![s] = Idle]

Executor(n) ==
    [kind |-> "exec", node |-> n, pc |-> "begin", task |-> 0, status |-> Unset,
     previous |-> Unset, priority |-> 0]

(* A handler of the API on node n about to store task t. *)
Handler(n, kind, t, status, previous, priority) ==
    [kind |-> kind, node |-> n, pc |-> "write", task |-> t, status |-> status,
     previous |-> previous, priority |-> priority]

(* The manager of a node serves one message at a time. *)
ManagerFree(n) == \A s \in Slot : gor[s].kind = "promise" => gor[s].node # n

-----------------------------------------------------------------------------
(* The window of the queue opens or closes at its owner. *)
StartWindow(n) ==
    /\ n \in Executors /\ ManagerFree(n)
    /\ Spend("start")
    /\ Go(Executor(n))
    /\ UNCHANGED <<tables, running, inbox, outstanding, ghosts>>

StopExecution(n) ==
    /\ n \in Executors /\ ManagerFree(n)
    /\ Spend("stop")
    /\ running' = [running EXCEPT ![n] = FALSE]
    /\ UNCHANGED <<tables, gor, inbox, outstanding, ghosts>>

(* Mutant: Running is left as it was. *)
ExecBeginsQuietly(s) ==
    /\ At(s, "exec", "begin")
    /\ Continue(s, "query")
    /\ UNCHANGED <<tables, running, inbox, outstanding, used, ghosts>>

(* StartOrContinueExecution *)
ExecBegins(s) ==
    /\ At(s, "exec", "begin")
    /\ running' = [running EXCEPT ![gor[s].node] = TRUE]
    /\ Continue(s, "query")
    /\ UNCHANGED <<tables, inbox, outstanding, used, ghosts>>

(* The first pending row: highest priority, then oldest.  As long as there *)
(* is none the goroutine sleeps and asks again, whatever becomes of Running. *)
PendingRows == {r \in rows : r.status = "Pending"}

Precedes(r, q) == r.priority > q.priority \/ (r.priority = q.priority /\ r.task < q.task)

(* Mutant: the executor takes the row out of the table when it picks it. *)
ExecQueryDequeues(s) ==
    /\ At(s, "exec", "query")
    /\ \E r \in PendingRows :
        /\ \A q \in PendingRows \ {r} : Precedes(r, q)
        /\ rows' = rows \ {r}
        /\ gor' = [gor EXCEPT ![s].pc = "load", ![s].task = r.task]
    /\ UNCHANGED <<tasks, running, inbox, outstanding, used, ghosts>>

ExecQuery(s) ==
    /\ At(s, "exec", "query")
    /\ \E r \in PendingRows :
        /\ \A q \in PendingRows \ {r} : Precedes(r, q)
        /\ gor' = [gor EXCEPT ![s].pc = "load", ![s].task = r.task]
    /\ UNCHANGED <<tables, running, inbox, outstanding, used, ghosts>>

(* GetTask, and the new status in the local copy. *)
ExecLoad(s) ==
    /\ At(s, "exec", "load")
    /\ gor' = [gor EXCEPT ![s].pc = "write",
                          ![s].status = "Running",
                          ![s].previous = tasks[gor[s].task].status,
                          ![s].priority = tasks[gor[s].task].priority]
    /\ UNCHANGED <<tables, running, inbox, outstanding, used, ghosts>>

(* GetTask fails: the goroutine sleeps and asks again. *)
ExecFailsToLoad(s) ==
    /\ At(s, "exec", "load")
    /\ Spend("statement")
    /\ gor' = [gor EXCEPT ![s].pc = "query", ![s].task = 0]
    /\ UNCHANGED <<tables, running, inbox, outstanding, ghosts>>

(* Mutant: the executor goes on with the next task instead of returning. *)
ExecCallLoops(s) ==
    /\ At(s, "exec", "call")
    /\ outstanding' = [outstanding EXCEPT ![gor[s].task] = @ + 1]
    /\ called' = called \cup {gor[s].task}
    /\ gor' = [gor EXCEPT ![s].pc = "query", ![s].task = 0]
    /\ UNCHANGED <<tables, running, inbox, used, queued, closed, deleted, abandoned>>

(* The action is called: the service accepts the work, or the call fails.  *)
(* Either way Execute(true) reports success and the goroutine ends.        *)
ExecCall(s) ==
    /\ At(s, "exec", "call")
    /\ \/ outstanding' = [outstanding EXCEPT ![gor[s].task] = @ + 1] /\ UNCHANGED used
       \/ Spend("action") /\ UNCHANGED outstanding
    /\ called' = called \cup {gor[s].task}
    /\ End(s)
    /\ UNCHANGED <<tables, running, inbox, queued, closed, deleted, abandoned>>

-----------------------------------------------------------------------------
(* CreateOrUpdate and createOrUpdateInSubTables: the row in tasks, and if *)
(* the status is another one than before, the rows in sync_tasks.         *)
AfterSave(kind) ==
    CASE kind = "exec"    -> "call"
      [] kind = "promise" -> "continue"
      [] OTHER            -> "notify"

SaveWrites(s) ==
    LET g == gor[s] IN
    /\ g.kind # "idle" /\ g.pc = "write"
    /\ tasks' = [tasks EXCEPT ![g.task] =
                    [status |-> g.status,
                     priority |-> IF g.kind = "delete" THEN @.priority ELSE g.priority]]
    /\ Continue(s, IF g.status # g.previous THEN "insert" ELSE AfterSave(g.kind))
    /\ UNCHANGED <<rows, running, inbox, outstanding, used, ghosts>>

SaveInserts(s) ==
    LET g == gor[s] IN
    /\ g.kind # "idle" /\ g.pc = "insert"
    /\ rows' = rows \cup {[status |-> g.status, priority |-> g.priority, task |-> g.task]}
    /\ Continue(s, "remove")
    /\ UNCHANGED <<tasks, running, inbox, outstanding, used, ghosts>>

SaveRemoves(s) ==
    LET g == gor[s] IN
    /\ g.kind # "idle" /\ g.pc = "remove"
    /\ rows' = rows \ {[status |-> g.previous, priority |-> g.priority, task |-> g.task]}
    /\ Continue(s, AfterSave(g.kind))
    /\ UNCHANGED <<tasks, running, inbox, outstanding, used, ghosts>>

(* createOrUpdateInSubTables cannot read the queue: it leaves sync_tasks as *)
(* it is and reports success.                                               *)
SaveSkipsRows(s) ==
    LET g == gor[s] IN
    /\ g.kind # "idle" /\ g.pc = "insert"
    /\ Spend("statement")
    /\ Continue(s, AfterSave(g.kind))
    /\ abandoned' = IF g.kind = "create" THEN abandoned \cup {g.task} ELSE abandoned
    /\ UNCHANGED <<tables, running, inbox, outstanding, queued, called, closed, deleted>>

(* A statement fails and the rest is skipped.  A handler tells its client; *)
(* the executor and the promise do not look at the error.                  *)
SaveFails(s) ==
    LET g == gor[s] IN
    /\ g.kind # "idle" /\ g.pc \in {"write", "insert", "remove"}
    /\ Spend("statement")
    /\ IF g.kind \in {"exec", "promise"} THEN Continue(s, AfterSave(g.kind)) ELSE End(s)
    /\ UNCHANGED <<tables, running, inbox, outstanding, ghosts>>

-----------------------------------------------------------------------------
(* The handlers of the API, on any node. *)
CreateTask(n, t, p) ==
    /\ tasks[t].status = Unset
    /\ \A s \in Slot : gor[s].kind = "create" => gor[s].task # t
    /\ Go(Handler(n, "create", t, "Pending", Unset, p))
    /\ UNCHANGED <<tables, running, inbox, outstanding, used, ghosts>>

(* The client changes the priority; previousStatus is not part of the JSON. *)
UpdateTask(n, t, p) ==
    /\ tasks[t].status # Unset
    /\ Spend("update")
    /\ Go(Handler(n, "update", t, tasks[t].status, Unset, p))
    /\ UNCHANGED <<tables, running, inbox, outstanding, ghosts>>

(* Delete sets the status and leaves previousStatus unset as well. *)
DeleteTask(n, t) ==
    /\ tasks[t].status # Unset
    /\ Spend("delete")
    /\ Go(Handler(n, "delete", t, "Deleted", Unset, tasks[t].priority))
    /\ UNCHANGED <<tables, running, inbox, outstanding, ghosts>>

(* SetStatus(Complete): called by the service that executes the task. *)
CompleteTask(n, t) ==
    /\ outstanding[t] > 0
    /\ outstanding' = [outstanding EXCEPT ![t] = @ - 1]
    /\ Go(Handler(n, "complete", t, "Complete", tasks[t].status, tasks[t].priority))
    /\ UNCHANGED <<tables, running, inbox, used, ghosts>>

(* The same from anybody else, or by the service once more. *)
CompleteTaskSpuriously(n, t) ==
    /\ tasks[t].status # Unset
    /\ Spend("spurious")
    /\ closed' = closed \cup {t}
    /\ Go(Handler(n, "complete", t, "Complete", tasks[t].status, tasks[t].priority))
    /\ UNCHANGED <<tables, running, inbox, outstanding, queued, called, deleted, abandoned>>

(* The client is told of the success and etcd of the change. *)
Executing(t) ==
    t \in called \/ \E s \in Slot : gor[s].kind = "exec" /\ gor[s].task = t

CreateSucceeds(s) ==
    /\ At(s, "create", "notify")
    /\ queued' = queued \cup {gor[s].task}
    /\ End(s)
    /\ UNCHANGED <<tables, running, inbox, outstanding, used, called, closed, deleted, abandoned>>

UpdateSucceeds(s) ==
    /\ At(s, "update", "notify")
    /\ End(s)
    /\ UNCHANGED <<tables, running, inbox, outstanding, used, ghosts>>

DeleteSucceeds(s) ==
    /\ At(s, "delete", "notify")
    /\ deleted' = IF Executing(gor[s].task) THEN deleted ELSE deleted \cup {gor[s].task}
    /\ End(s)
    /\ UNCHANGED <<tables, running, inbox, outstanding, used, queued, called, closed, abandoned>>

CompleteSucceeds(s) ==
    /\ At(s, "complete", "notify")
    /\ inbox' = [n \in Node |-> [inbox[n] EXCEPT ![gor[s].task] = @ + 1]]
    /\ End(s)
    /\ UNCHANGED <<tables, running, outstanding, used, ghosts>>

-----------------------------------------------------------------------------
(* The manager of a node receives a completion: it loads the task, executes *)
(* the promise if there is one, and continues if its queue is running.  It  *)
(* continues as well if the task cannot be loaded.                          *)
ReceiveCompletion(n, t) ==
    /\ ManagerFree(n)
    /\ inbox[n][t] > 0
    /\ inbox' = [inbox EXCEPT ![n][t] = @ - 1]
    /\ \/ /\ t \in Promised
          /\ Go([Handler(n, "promise", t, tasks[t].status, tasks[t].status, tasks[t].priority)
                    EXCEPT !.pc = "promise"])
          /\ UNCHANGED used
       \/ /\ \/ t \notin Promised /\ UNCHANGED used
             \/ t \in Promised /\ Spend("statement")
          /\ IF running[n] THEN Go(Executor(n)) ELSE UNCHANGED gor
    /\ UNCHANGED <<tables, running, outstanding, ghosts>>

(* The failure of the promise shows in the status of a complete task. *)
PromiseCall(s) ==
    /\ At(s, "promise", "promise")
    /\ \/ Continue(s, "write") /\ UNCHANGED used
       \/ /\ Spend("promise")
          /\ gor' = [gor EXCEPT ![s].pc = "write",
                        ![s].status = IF @ = "Complete" THEN "Partially Failed" ELSE @]
    /\ UNCHANGED <<tables, running, inbox, outstanding, ghosts>>

(* Mutant: the executor starts with the task of the promise in hand. *)
PromiseContinuesWithTask(s) ==
    /\ At(s, "promise", "continue")
    /\ gor' = [gor EXCEPT ![s].kind = "exec", ![s].pc = "query"]
    /\ UNCHANGED <<tables, running, inbox, outstanding, used, ghosts>>

PromiseContinues(s) ==
    /\ At(s, "promise", "continue")
    /\ gor' = [gor EXCEPT ![s] = IF running[gor[s].node] THEN Executor(gor[s].node) ELSE Idle]
    /\ UNCHANGED <<tables, running, inbox, outstanding, used, ghosts>>

(* The watch of a node misses an event: it has ended, or begins after it. *)
EventLost(n, t) ==
    /\ inbox[n][t] > 0
    /\ Spend("event")
    /\ inbox' = [inbox EXCEPT ![n][t] = @ - 1]
    /\ UNCHANGED <<tables, gor, running, outstanding, ghosts>>

(* The process of a node dies, with its goroutines, and is started again. *)
Crash(n) ==
    /\ Spend("crash")
    /\ gor' = [s \in Slot |-> IF gor[s].kind # "idle" /\ gor[s].node = n THEN Idle ELSE gor[s]]
    /\ running' = [running EXCEPT ![n] = FALSE]
    /\ inbox' = [inbox EXCEPT ![n] = [t \in Task |-> 0]]
    /\ abandoned' = abandoned \cup
          {t \in Task : \E s \in Slot : At(s, "exec", "call") /\ gor[s].node = n /\ gor[s].task = t}
    /\ UNCHANGED <<tables, outstanding, queued, called, closed, deleted>>

-----------------------------------------------------------------------------
(* What a goroutine does without waiting for anybody. *)
Step(s) ==
    \/ ExecBegins(s) \/ ExecQuery(s) \/ ExecLoad(s) \/ ExecFailsToLoad(s) \/ ExecCall(s)
    \/ SaveWrites(s) \/ SaveInserts(s) \/ SaveRemoves(s)
    \/ SaveSkipsRows(s) \/ SaveFails(s)
    \/ CreateSucceeds(s) \/ UpdateSucceeds(s) \/ DeleteSucceeds(s) \/ CompleteSucceeds(s)
    \/ PromiseCall(s) \/ PromiseContinues(s)

Client(n, t) ==
    \/ \E p \in Priority : CreateTask(n, t, p) \/ UpdateTask(n, t, p)
    \/ DeleteTask(n, t)
    \/ CompleteTask(n, t)
    \/ CompleteTaskSpuriously(n, t)

Next ==
    \/ \E s \in Slot : Step(s)
    \/ \E n \in Node, t \in Task : Client(n, t) \/ ReceiveCompletion(n, t) \/ EventLost(n, t)
    \/ \E n \in Node : StartWindow(n) \/ StopExecution(n) \/ Crash(n)

Spec == Init /\ [][Next]_vars

(* Goroutines are scheduled, the manager reads its channel, the window opens *)
(* by the timer of its manager.  A service reports what it has completed, as *)
(* the README demands of it; nothing obliges the other clients.              *)
Fairness ==
    /\ \A s \in Slot : WF_vars(Step(s))
    /\ \A n \in Node : WF_vars(StartWindow(n))
    /\ \A n \in Node, t \in Task : WF_vars(ReceiveCompletion(n, t))
    /\ \A t \in Task : WF_vars(\E n \in Node : CompleteTask(n, t))

FairSpec == Spec /\ Fairness

-----------------------------------------------------------------------------
(* A task whose creation was confirmed is never lost: it is pending, or its *)
(* executor is about to call the action, or the action was called, or       *)
(* somebody reported it complete.  The exceptions the code has are a process *)
(* that dies between marking the task as running and calling it, and a task *)
(* created while its queue cannot be read.  The order of the two statements *)
(* of createOrUpdateInSubTables, insert before delete, keeps it so whatever *)
(* else fails or dies in between.                                           *)
PendingRow(t) == \E r \in PendingRows : r.task = t

BeingCalled(t) == \E s \in Slot : At(s, "exec", "call") /\ gor[s].task = t

Accounted(t) ==
    \/ PendingRow(t)
    \/ BeingCalled(t)
    \/ t \in called \cup closed \cup abandoned

NoTaskLost == \A t \in queued : Accounted(t)

(* The executions not reported complete are never more than the openings of *)
(* the window and the completions that nobody waited for: one opening       *)
(* executes one task at a time, and a completion continues with one task.   *)
(* (The queue has one owner.)                                               *)
SerialPerOpening ==
    SumFunction(outstanding) <= used["start"] + used["spurious"]

(* Every task whose creation was confirmed is executed: the completion of   *)
(* each task makes the owner start the next one.                            *)
QueueAdvances == \A t \in Task : t \in queued ~> t \in called

(* README.md: tasks within a synchronous context must signal their          *)
(* completion before the next task may be executed.                         *)
Serial == SumFunction(outstanding) <= 1

(* README.md: an open queue means its tasks may be executed; once           *)
(* StopExecution has closed it, none is.                                    *)
ClosedMeansIdle == [][\A s \in Slot : ExecCall(s) => running[gor[s].node]]_vars

(* api_task.go: a deleted task is removed unless it is in execution.        *)
DeletedNotExecuted == [][\A s \in Slot : ExecCall(s) => gor[s].task \notin deleted]_vars

(* README.md: the promise is a callback executed on completion of the task: *)
(* no two managers are executing the promise of the same task.              *)
OnePromise ==
    \A s1, s2 \in Slot :
        (gor[s1].kind = "promise" /\ gor[s2].kind = "promise" /\ gor[s1].task = gor[s2].task)
            => s1 = s2

=============================================================================
