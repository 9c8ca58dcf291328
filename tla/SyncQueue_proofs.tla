-------------------------- MODULE SyncQueue_proofs --------------------------
(***************************************************************************)
(* No confirmed task of a synchronous queue is lost, and an opening of the *)
(* window executes one task at a time, for any tasks, nodes, goroutines    *)
(* and budgets.                                                            *)
(*                                                                         *)
(* NoTaskLost is not inductive.  What it rests on is kept in SaveInv, a    *)
(* fact about the local copy each goroutine is about to store:             *)
(*   - only an executor, or the handler of a completion whose task was     *)
(*     called or given up for complete, removes a row of status Pending;   *)
(*   - a creation passes through the insertion of a pending row.           *)
(* and in Settles: a service completes only what was called.               *)
(*                                                                         *)
(* SerialPerOpening is about executions the services have not reported; it *)
(* becomes inductive (CountInv) by counting with them everything that can  *)
(* still become one: goroutines and completions that are on their way.     *)
(***************************************************************************)
EXTENDS SyncQueue, FiniteSetTheorems, TLAPS

Removing(g) == g.kind # "idle" /\ g.pc \in {"insert", "remove"}

SaveOK(g) ==
    /\ g.kind = "complete" => g.task \in called \cup closed
    /\ g.kind \in {"create", "update", "delete"} => g.previous = Unset
    /\ g.kind = "create" => g.status = "Pending"
    /\ g.kind = "promise" => g.previous \in {g.status, "Complete"}
    /\ Removing(g) => g.status # g.previous
    /\ (g.kind = "create" /\ g.pc \in {"remove", "notify"}) => Accounted(g.task)

SaveInv == \A s \in Slot : SaveOK(gor[s])

Settles == \A t \in Task : outstanding[t] > 0 => t \in called

Inv == TypeOK /\ NoTaskLost /\ SaveInv /\ Settles

-----------------------------------------------------------------------------
(* The record of a goroutine. *)
LEMMA UnsetIsNotPending == Unset # "Pending" /\ Unset \in Status
BY DEF Unset, Status

LEMMA HoldingChanges ==
    ASSUME NEW g \in Holding, NEW pc \in {"load", "write", "insert", "remove", "call",
                                          "promise", "notify", "continue"}
    PROVE  [g EXCEPT !.pc = pc] \in Holding
BY DEF Holding

LEMMA Held ==
    ASSUME TypeOK, NEW s \in Slot, gor[s].kind # "idle", gor[s].pc \notin {"begin", "query"}
    PROVE  gor[s] \in Holding
BY DEF TypeOK, Asking, Holding, Idle

LEMMA ExecutorType ==
    ASSUME NEW n \in Node
    PROVE  Executor(n) \in Asking
BY PriorityAssumption DEF Executor, Asking, Kinds, Status

LEMMA HandlerType ==
    ASSUME NEW n \in Node, NEW kind \in Kinds, NEW t \in Task, NEW status \in Status,
           NEW previous \in Status, NEW p \in Priority
    PROVE  Handler(n, kind, t, status, previous, p) \in Holding
BY DEF Handler, Holding

(* A new goroutine takes a free slot. *)
LEMMA GoTakesFreeSlot ==
    ASSUME TypeOK, NEW g \in Asking \cup Holding, Go(g)
    PROVE  /\ gor' \in [Slot -> Asking \cup Holding \cup {Idle}]
           /\ \E s \in Slot : gor[s] = Idle /\ gor' = [gor EXCEPT ![s] = g]
<1> DEFINE f == CHOOSE s \in Free : TRUE
<1>1. f \in Slot /\ gor[f] = Idle
  <2>1. f \in Free
    BY DEF Go
  <2> QED  BY <2>1 DEF Free
<1>2. gor' = [gor EXCEPT ![f] = g]
  BY DEF Go
<1> HIDE DEF f
<1>3. QED
  BY <1>1, <1>2 DEF TypeOK

LEMMA ContinueType ==
    ASSUME TypeOK, NEW s \in Slot, gor[s] \in Holding, NEW pc, Continue(s, pc),
           pc \in {"load", "write", "insert", "remove", "call", "promise", "notify", "continue"}
    PROVE  gor' \in [Slot -> Asking \cup Holding \cup {Idle}]
<1>1. [gor[s] EXCEPT !.pc = pc] \in Holding
  BY HoldingChanges
<1>2. QED
  BY <1>1 DEF Continue, TypeOK

LEMMA SpendType ==
    ASSUME TypeOK, NEW b \in BudgetNames, Spend(b)
    PROVE  /\ used' \in [BudgetNames -> Nat]
           /\ \A c \in BudgetNames : used'[c] <= Budget[c]
<1> USE DEF TypeOK, Spend
<1>1. used[b] \in Nat /\ Budget[b] \in Nat /\ used[b] + 1 <= Budget[b]
  <2>1. used[b] \in Nat /\ used[b] < Budget[b]
    OBVIOUS
  <2>2. Budget[b] \in Nat
    BY BudgetAssumption
  <2> QED  BY <2>1, <2>2
<1>2. ASSUME NEW c \in BudgetNames PROVE used'[c] <= Budget[c]
  <2>1. CASE c = b
    BY <1>1, <2>1
  <2>2. CASE c # b
    BY <2>2
  <2> QED  BY <2>1, <2>2
<1>3. used' \in [BudgetNames -> Nat]
  BY <1>1
<1> QED  BY <1>2, <1>3

LEMMA EndType ==
    ASSUME TypeOK, NEW s \in Slot, End(s)
    PROVE  gor' \in [Slot -> Asking \cup Holding \cup {Idle}]
BY DEF TypeOK, End

-----------------------------------------------------------------------------
(* The variables keep their types. *)
LEMMA InitTypeOK == Init => TypeOK
<1> SUFFICES ASSUME Init PROVE TypeOK
  OBVIOUS
<1>1. tasks \in [Task -> [status : Status, priority : Priority]]
  BY PriorityAssumption DEF Init, Status
<1>2. used \in [BudgetNames -> Nat] /\ \A b \in BudgetNames : used[b] <= Budget[b]
  <2>1. used = [b \in BudgetNames |-> 0]
    BY DEF Init
  <2>2. ASSUME NEW b \in BudgetNames PROVE used[b] <= Budget[b]
    <3>1. used[b] = 0 /\ Budget[b] \in Nat
      BY <2>1, BudgetAssumption
    <3> QED  BY <3>1
  <2> QED  BY <2>1, <2>2
<1> QED  BY <1>1, <1>2 DEF Init, TypeOK

LEMMA ExecutorStepType ==
    ASSUME TypeOK, NEW s \in Slot,
           ExecBegins(s) \/ ExecQuery(s) \/ ExecLoad(s) \/ ExecFailsToLoad(s) \/ ExecCall(s)
    PROVE  TypeOK'
<1>1. CASE ExecBegins(s)
  <2>1. gor[s] \in Asking /\ gor[s].node \in Node
    BY <1>1 DEF TypeOK, ExecBegins, At, Asking, Holding, Idle
  <2>2. [gor[s] EXCEPT !.pc = "query"] \in Asking
    BY <2>1 DEF Asking
  <2>3. gor' \in [Slot -> Asking \cup Holding \cup {Idle}]
    BY <1>1, <2>2 DEF TypeOK, ExecBegins, Continue
  <2> QED  BY <1>1, <2>1, <2>3 DEF TypeOK, ExecBegins, ghosts, tables
<1>2. CASE ExecQuery(s)
  <2>0. At(s, "exec", "query")
    BY <1>2 DEF ExecQuery
  <2>1. gor[s] \in Asking
    BY <2>0 DEF TypeOK, At, Asking, Holding, Idle
  <2>2. PICK r \in PendingRows : gor' = [gor EXCEPT ![s].pc = "load", ![s].task = r.task]
    BY <1>2 DEF ExecQuery
  <2>3. r.task \in Task
    BY DEF TypeOK, PendingRows, Row
  <2>4. [gor[s] EXCEPT !.pc = "load", !.task = r.task] \in Holding
    BY <2>1, <2>3 DEF Asking, Holding
  <2>5. gor' \in [Slot -> Asking \cup Holding \cup {Idle}]
    BY <2>2, <2>4 DEF TypeOK
  <2> QED  BY <1>2, <2>5 DEF TypeOK, ExecQuery, ghosts, tables
<1>3. CASE ExecLoad(s)
  <2>1. gor[s] \in Holding
    BY <1>3, Held DEF ExecLoad, At
  <2>2. /\ gor[s].task \in Task
        /\ tasks[gor[s].task].status \in Status /\ tasks[gor[s].task].priority \in Priority
    BY <2>1 DEF TypeOK, Holding
  <2>3. [gor[s] EXCEPT !.pc = "write", !.status = "Running",
                       !.previous = tasks[gor[s].task].status,
                       !.priority = tasks[gor[s].task].priority] \in Holding
    BY <2>1, <2>2 DEF Holding, Status
  <2>4. gor' = [gor EXCEPT ![s] =
                  [gor[s] EXCEPT !.pc = "write", !.status = "Running",
                       !.previous = tasks[gor[s].task].status,
                       !.priority = tasks[gor[s].task].priority]]
    BY <1>3, <2>1 DEF ExecLoad, TypeOK, Holding
  <2>5. gor' \in [Slot -> Asking \cup Holding \cup {Idle}]
    BY <2>3, <2>4 DEF TypeOK
  <2> QED  BY <1>3, <2>5 DEF TypeOK, ExecLoad, ghosts, tables
<1>4. CASE ExecCall(s)
  <2>1. gor[s].task \in Task
    BY <1>4, Held DEF ExecCall, At, Holding
  <2>2. gor' \in [Slot -> Asking \cup Holding \cup {Idle}]
    BY <1>4, EndType DEF ExecCall
  <2>3. used' \in [BudgetNames -> Nat] /\ \A b \in BudgetNames : used'[b] <= Budget[b]
    BY <1>4, SpendType DEF ExecCall, BudgetNames, TypeOK
  <2>4. outstanding' \in [Task -> Nat]
    BY <1>4, <2>1 DEF ExecCall, TypeOK
  <2> QED  BY <1>4, <2>1, <2>2, <2>3, <2>4 DEF TypeOK, ExecCall, tables
<1>5. CASE ExecFailsToLoad(s)
  <2>1. gor[s] \in Holding
    BY <1>5, Held DEF ExecFailsToLoad, At
  <2>2. [gor[s] EXCEPT !.pc = "query", !.task = 0] \in Asking
    BY <2>1 DEF Holding, Asking
  <2>3. gor' = [gor EXCEPT ![s] = [gor[s] EXCEPT !.pc = "query", !.task = 0]]
    BY <1>5, <2>1 DEF ExecFailsToLoad, TypeOK, Holding
  <2>4. gor' \in [Slot -> Asking \cup Holding \cup {Idle}]
    BY <2>2, <2>3 DEF TypeOK
  <2>5. used' \in [BudgetNames -> Nat] /\ \A b \in BudgetNames : used'[b] <= Budget[b]
    BY <1>5, SpendType DEF ExecFailsToLoad, BudgetNames
  <2> QED  BY <1>5, <2>4, <2>5 DEF TypeOK, ExecFailsToLoad, ghosts, tables
<1> QED  BY <1>1, <1>2, <1>3, <1>4, <1>5

LEMMA AfterSaveType ==
    ASSUME NEW kind
    PROVE  AfterSave(kind) \in {"load", "write", "insert", "remove", "call",
                                "promise", "notify", "continue"}
BY DEF AfterSave

LEMMA SaveStepType ==
    ASSUME TypeOK, NEW s \in Slot,
           SaveWrites(s) \/ SaveInserts(s) \/ SaveRemoves(s) \/ SaveSkipsRows(s) \/ SaveFails(s)
    PROVE  TypeOK'
<1>1. gor[s] \in Holding
  BY Held DEF SaveWrites, SaveInserts, SaveRemoves, SaveSkipsRows, SaveFails
<1>2. gor' \in [Slot -> Asking \cup Holding \cup {Idle}]
  BY <1>1, ContinueType, EndType, AfterSaveType
     DEF SaveWrites, SaveInserts, SaveRemoves, SaveSkipsRows, SaveFails
<1>3. /\ gor[s].task \in Task /\ gor[s].status \in Status /\ gor[s].priority \in Priority
  BY <1>1 DEF Holding
<1>4. CASE SaveWrites(s)
  <2>1. tasks' \in [Task -> [status : Status, priority : Priority]]
    <3>1. tasks[gor[s].task].priority \in Priority
      BY <1>3 DEF TypeOK
    <3> QED  BY <1>3, <1>4, <3>1 DEF TypeOK, SaveWrites
  <2> QED  BY <1>2, <1>4, <2>1 DEF TypeOK, SaveWrites, ghosts
<1>5. CASE SaveInserts(s)
  <2>1. rows' \subseteq Row
    BY <1>3, <1>5 DEF TypeOK, SaveInserts, Row
  <2> QED  BY <1>2, <1>5, <2>1 DEF TypeOK, SaveInserts, ghosts
<1>6. CASE SaveRemoves(s)
  BY <1>2, <1>6 DEF TypeOK, SaveRemoves, ghosts
<1>7. CASE SaveFails(s)
  <2>1. used' \in [BudgetNames -> Nat] /\ \A b \in BudgetNames : used'[b] <= Budget[b]
    BY <1>7, SpendType DEF SaveFails, BudgetNames
  <2> QED  BY <1>2, <1>7, <2>1 DEF TypeOK, SaveFails, ghosts, tables
<1>8. CASE SaveSkipsRows(s)
  <2>1. used' \in [BudgetNames -> Nat] /\ \A b \in BudgetNames : used'[b] <= Budget[b]
    BY <1>8, SpendType DEF SaveSkipsRows, BudgetNames
  <2> QED  BY <1>2, <1>3, <1>8, <2>1 DEF TypeOK, SaveSkipsRows, tables
<1> QED  BY <1>4, <1>5, <1>6, <1>7, <1>8

LEMMA ClientStepType ==
    ASSUME TypeOK, NEW n \in Node, NEW t \in Task, Client(n, t)
    PROVE  TypeOK'
<1>1. /\ {"create", "update", "delete", "complete"} \subseteq Kinds
      /\ {Unset, "Pending", "Complete", "Deleted"} \subseteq Status
      /\ tasks[t].status \in Status /\ tasks[t].priority \in Priority
  BY DEF TypeOK, Kinds, Status
<1>2. ASSUME NEW p \in Priority, CreateTask(n, t, p) PROVE TypeOK'
  <2>1. gor' \in [Slot -> Asking \cup Holding \cup {Idle}]
    BY <1>1, <1>2, HandlerType, GoTakesFreeSlot DEF CreateTask
  <2> QED  BY <1>2, <2>1 DEF TypeOK, CreateTask, ghosts, tables
<1>3. ASSUME NEW p \in Priority, UpdateTask(n, t, p) PROVE TypeOK'
  <2>1. gor' \in [Slot -> Asking \cup Holding \cup {Idle}]
    BY <1>1, <1>3, HandlerType, GoTakesFreeSlot DEF UpdateTask
  <2>2. used' \in [BudgetNames -> Nat] /\ \A b \in BudgetNames : used'[b] <= Budget[b]
    BY <1>3, SpendType DEF UpdateTask, BudgetNames
  <2> QED  BY <1>3, <2>1, <2>2 DEF TypeOK, UpdateTask, ghosts, tables
<1>4. CASE DeleteTask(n, t)
  <2>1. gor' \in [Slot -> Asking \cup Holding \cup {Idle}]
    BY <1>1, <1>4, HandlerType, GoTakesFreeSlot DEF DeleteTask
  <2>2. used' \in [BudgetNames -> Nat] /\ \A b \in BudgetNames : used'[b] <= Budget[b]
    BY <1>4, SpendType DEF DeleteTask, BudgetNames
  <2> QED  BY <1>4, <2>1, <2>2 DEF TypeOK, DeleteTask, ghosts, tables
<1>5. CASE CompleteTask(n, t)
  <2>1. gor' \in [Slot -> Asking \cup Holding \cup {Idle}]
    BY <1>1, <1>5, HandlerType, GoTakesFreeSlot DEF CompleteTask
  <2>2. outstanding' \in [Task -> Nat]
    BY <1>5 DEF TypeOK, CompleteTask
  <2> QED  BY <1>5, <2>1, <2>2 DEF TypeOK, CompleteTask, ghosts, tables
<1>6. CASE CompleteTaskSpuriously(n, t)
  <2>1. gor' \in [Slot -> Asking \cup Holding \cup {Idle}]
    BY <1>1, <1>6, HandlerType, GoTakesFreeSlot DEF CompleteTaskSpuriously
  <2>2. used' \in [BudgetNames -> Nat] /\ \A b \in BudgetNames : used'[b] <= Budget[b]
    BY <1>6, SpendType DEF CompleteTaskSpuriously, BudgetNames
  <2> QED  BY <1>6, <2>1, <2>2 DEF TypeOK, CompleteTaskSpuriously, tables
<1> QED  BY <1>2, <1>3, <1>4, <1>5, <1>6 DEF Client

LEMMA NotifyStepType ==
    ASSUME TypeOK, NEW s \in Slot,
           CreateSucceeds(s) \/ UpdateSucceeds(s) \/ DeleteSucceeds(s) \/ CompleteSucceeds(s)
    PROVE  TypeOK'
<1>1. gor[s].task \in Task
  BY Held DEF CreateSucceeds, UpdateSucceeds, DeleteSucceeds, CompleteSucceeds, At, Holding
<1>2. gor' \in [Slot -> Asking \cup Holding \cup {Idle}]
  BY EndType DEF CreateSucceeds, UpdateSucceeds, DeleteSucceeds, CompleteSucceeds
<1>3. CASE CreateSucceeds(s)
  BY <1>1, <1>2, <1>3 DEF TypeOK, CreateSucceeds, tables
<1>4. CASE UpdateSucceeds(s)
  BY <1>1, <1>2, <1>4 DEF TypeOK, UpdateSucceeds, tables, ghosts
<1>5. CASE DeleteSucceeds(s)
  BY <1>1, <1>2, <1>5 DEF TypeOK, DeleteSucceeds, tables
<1>6. CASE CompleteSucceeds(s)
  <2>1. inbox' \in [Node -> [Task -> Nat]]
    BY <1>1, <1>6 DEF TypeOK, CompleteSucceeds
  <2> QED  BY <1>2, <1>6, <2>1 DEF TypeOK, CompleteSucceeds, tables, ghosts
<1> QED  BY <1>3, <1>4, <1>5, <1>6

LEMMA PromiseStepType ==
    ASSUME TypeOK, NEW s \in Slot, PromiseCall(s) \/ PromiseContinues(s)
    PROVE  TypeOK'
<1>1. gor[s] \in Holding
  BY Held DEF PromiseCall, PromiseContinues, At
<1>2. CASE PromiseCall(s)
  <2>1. ASSUME NEW status \in Status
        PROVE  [gor[s] EXCEPT !.pc = "write", !.status = status] \in Holding
    BY <1>1 DEF Holding
  <2>2. /\ gor[s].status \in Status /\ "Partially Failed" \in Status
        /\ [gor[s] EXCEPT !.pc = "write"] \in Holding
    BY <1>1, HoldingChanges DEF Holding, Status
  <2>3. gor' \in [Slot -> Asking \cup Holding \cup {Idle}]
    <3>1. CASE gor' = [gor EXCEPT ![s].pc = "write"]
      BY <2>2, <3>1 DEF TypeOK
    <3>2. CASE gor' = [gor EXCEPT ![s].pc = "write",
                  ![s].status = IF @ = "Complete" THEN "Partially Failed" ELSE @]
      <4> DEFINE status == IF gor[s].status = "Complete" THEN "Partially Failed"
                           ELSE gor[s].status
      <4>1. gor' = [gor EXCEPT ![s] = [gor[s] EXCEPT !.pc = "write", !.status = status]]
        BY <1>1, <3>2 DEF TypeOK, Holding
      <4>2. [gor[s] EXCEPT !.pc = "write", !.status = status] \in Holding
        BY <2>1, <2>2
      <4> QED  BY <4>1, <4>2 DEF TypeOK
    <3> QED  BY <1>2, <3>1, <3>2 DEF PromiseCall, Continue
  <2>4. used' \in [BudgetNames -> Nat] /\ \A b \in BudgetNames : used'[b] <= Budget[b]
    BY <1>2, SpendType DEF PromiseCall, BudgetNames, TypeOK
  <2> QED  BY <1>2, <2>3, <2>4 DEF TypeOK, PromiseCall, tables, ghosts
<1>3. CASE PromiseContinues(s)
  <2>1. Executor(gor[s].node) \in Asking
    BY <1>1, ExecutorType DEF Holding
  <2>2. gor' \in [Slot -> Asking \cup Holding \cup {Idle}]
    BY <1>3, <2>1 DEF TypeOK, PromiseContinues
  <2> QED  BY <1>3, <2>2 DEF TypeOK, PromiseContinues, tables, ghosts
<1> QED  BY <1>2, <1>3

LEMMA ManagerStepType ==
    ASSUME TypeOK, NEW n \in Node, NEW t \in Task,
           ReceiveCompletion(n, t) \/ EventLost(n, t)
    PROVE  TypeOK'
<1>1. CASE ReceiveCompletion(n, t)
  <2> DEFINE h == Handler(n, "promise", t, tasks[t].status, tasks[t].status, tasks[t].priority)
  <2>1. h \in Holding
    BY HandlerType DEF TypeOK, Kinds
  <2>2. [h EXCEPT !.pc = "promise"] \in Holding
    BY <2>1, HoldingChanges
  <2> HIDE DEF h
  <2>3. ASSUME Go([h EXCEPT !.pc = "promise"]) PROVE gor' \in [Slot -> Asking \cup Holding \cup {Idle}]
    BY <2>2, <2>3, GoTakesFreeSlot
  <2>4. ASSUME Go(Executor(n)) PROVE gor' \in [Slot -> Asking \cup Holding \cup {Idle}]
    BY <2>4, ExecutorType, GoTakesFreeSlot
  <2>5. gor' \in [Slot -> Asking \cup Holding \cup {Idle}]
    BY <1>1, <2>3, <2>4, GoTakesFreeSlot DEF ReceiveCompletion, TypeOK, h
  <2>6. inbox' \in [Node -> [Task -> Nat]]
    BY <1>1 DEF TypeOK, ReceiveCompletion
  <2>7. used' \in [BudgetNames -> Nat] /\ \A b \in BudgetNames : used'[b] <= Budget[b]
    BY <1>1, SpendType DEF ReceiveCompletion, BudgetNames, TypeOK
  <2> QED  BY <1>1, <2>5, <2>6, <2>7 DEF TypeOK, ReceiveCompletion, tables, ghosts
<1>2. CASE EventLost(n, t)
  <2>1. inbox' \in [Node -> [Task -> Nat]]
    BY <1>2 DEF TypeOK, EventLost
  <2>2. used' \in [BudgetNames -> Nat] /\ \A b \in BudgetNames : used'[b] <= Budget[b]
    BY <1>2, SpendType DEF EventLost, BudgetNames
  <2> QED  BY <1>2, <2>1, <2>2 DEF TypeOK, EventLost, tables, ghosts
<1> QED  BY <1>1, <1>2

LEMMA WindowStepType ==
    ASSUME TypeOK, NEW n \in Node, StartWindow(n) \/ StopExecution(n) \/ Crash(n)
    PROVE  TypeOK'
<1>1. CASE StartWindow(n)
  <2>1. gor' \in [Slot -> Asking \cup Holding \cup {Idle}]
    BY <1>1, ExecutorType, GoTakesFreeSlot DEF StartWindow
  <2>2. used' \in [BudgetNames -> Nat] /\ \A b \in BudgetNames : used'[b] <= Budget[b]
    BY <1>1, SpendType DEF StartWindow, BudgetNames
  <2> QED  BY <1>1, <2>1, <2>2 DEF TypeOK, StartWindow, tables, ghosts
<1>2. CASE StopExecution(n)
  <2>1. used' \in [BudgetNames -> Nat] /\ \A b \in BudgetNames : used'[b] <= Budget[b]
    BY <1>2, SpendType DEF StopExecution, BudgetNames
  <2> QED  BY <1>2, <2>1 DEF TypeOK, StopExecution, tables, ghosts
<1>3. CASE Crash(n)
  <2>1. used' \in [BudgetNames -> Nat] /\ \A b \in BudgetNames : used'[b] <= Budget[b]
    BY <1>3, SpendType DEF Crash, BudgetNames
  <2>2. inbox' \in [Node -> [Task -> Nat]] /\ running' \in [Node -> BOOLEAN]
    BY <1>3 DEF TypeOK, Crash
  <2>3. gor' \in [Slot -> Asking \cup Holding \cup {Idle}]
    BY <1>3 DEF TypeOK, Crash
  <2> QED  BY <1>3, <2>1, <2>2, <2>3 DEF TypeOK, Crash, tables
<1> QED  BY <1>1, <1>2, <1>3

LEMMA StepTypeOK == TypeOK /\ [Next]_vars => TypeOK'
<1> SUFFICES ASSUME TypeOK, [Next]_vars PROVE TypeOK'
  OBVIOUS
<1>1. CASE UNCHANGED vars
  BY <1>1 DEF TypeOK, vars, tables, ghosts
<1>2. ASSUME NEW s \in Slot, Step(s) PROVE TypeOK'
  BY <1>2, ExecutorStepType, SaveStepType, NotifyStepType, PromiseStepType DEF Step
<1>3. ASSUME NEW n \in Node, NEW t \in Task,
             Client(n, t) \/ ReceiveCompletion(n, t) \/ EventLost(n, t)
      PROVE  TypeOK'
  BY <1>3, ClientStepType, ManagerStepType
<1>4. ASSUME NEW n \in Node, StartWindow(n) \/ StopExecution(n) \/ Crash(n) PROVE TypeOK'
  BY <1>4, WindowStepType
<1> QED  BY <1>1, <1>2, <1>3, <1>4 DEF Next

(* Every variable of a synchronous queue keeps its type and no budget is   *)
(* exceeded.                                                               *)
THEOREM TypeCorrect == Spec => []TypeOK
BY InitTypeOK, StepTypeOK, PTL DEF Spec

-----------------------------------------------------------------------------
(* What is accounted for stays so. *)
LEMMA AccountedKept ==
    ASSUME rows \subseteq rows', called \subseteq called', closed \subseteq closed',
           abandoned \subseteq abandoned',
           \A s \in Slot : At(s, "exec", "call") => gor'[s] = gor[s],
           NEW t, Accounted(t)
    PROVE  Accounted(t)'
<1>1. CASE PendingRow(t)
  BY <1>1 DEF Accounted, PendingRow, PendingRows
<1>2. CASE BeingCalled(t)
  BY <1>2 DEF Accounted, BeingCalled, At
<1>3. CASE t \in called \cup closed \cup abandoned
  BY <1>3 DEF Accounted
<1> QED  BY <1>1, <1>2, <1>3 DEF Accounted

LEMMA GoKeeps ==
    ASSUME TypeOK, NEW g \in Asking \cup Holding, Go(g)
    PROVE  \A s \in Slot : gor'[s] = gor[s] \/ (gor[s] = Idle /\ gor'[s] = g)
BY GoTakesFreeSlot DEF TypeOK

LEMMA ContinueKeeps ==
    ASSUME TypeOK, NEW s \in Slot, NEW pc, Continue(s, pc)
    PROVE  /\ \A r \in Slot \ {s} : gor'[r] = gor[r]
           /\ gor'[s] = [gor[s] EXCEPT !.pc = pc]
BY DEF TypeOK, Continue

(* The deletion of a row: only an executor that goes on to call, and a *)
(* completion of a task called or closed, delete one that is pending.  *)
LEMMA AccountedSaveRemoves ==
    ASSUME TypeOK, SaveInv, NEW s \in Slot, SaveRemoves(s), NEW t, Accounted(t)
    PROVE  Accounted(t)'
<1> DEFINE g == gor[s]
<1>1. /\ g \in Holding /\ g.kind \in Kinds /\ Removing(g) /\ SaveOK(g)
  BY Held DEF SaveRemoves, SaveInv, Removing, Holding
<1>2. /\ \A r \in Slot \ {s} : gor'[r] = gor[r]
      /\ gor'[s] = [g EXCEPT !.pc = AfterSave(g.kind)]
  BY ContinueKeeps DEF SaveRemoves
<1>3. CASE g.previous = "Pending" /\ g.task = t
  <2>1. g.kind \in {"exec", "complete"}
    BY <1>1, <1>3, UnsetIsNotPending DEF SaveOK, Removing, Kinds
  <2>2. CASE g.kind = "exec"
    <3>1. gor'[s].kind = "exec" /\ gor'[s].pc = "call" /\ gor'[s].task = t
      BY <1>1, <1>2, <1>3, <2>2 DEF Holding, AfterSave
    <3> QED  BY <3>1 DEF Accounted, BeingCalled, At
  <2>3. CASE g.kind = "complete"
    BY <1>1, <1>3, <2>3 DEF SaveOK, Accounted, SaveRemoves, ghosts
  <2> QED  BY <2>1, <2>2, <2>3
<1>4. CASE g.previous # "Pending" \/ g.task # t
  <2>1. CASE PendingRow(t)
    BY <1>4, <2>1 DEF SaveRemoves, Accounted, PendingRow, PendingRows
  <2>2. CASE BeingCalled(t)
    BY <1>1, <1>2, <2>2 DEF Accounted, BeingCalled, At, Removing
  <2>3. CASE t \in called \cup closed \cup abandoned
    BY <2>3 DEF SaveRemoves, Accounted, ghosts
  <2> QED  BY <2>1, <2>2, <2>3 DEF Accounted
<1> QED  BY <1>3, <1>4

LEMMA AccountedStep ==
    ASSUME TypeOK, SaveInv, NEW s \in Slot, Step(s), NEW t, Accounted(t)
    PROVE  Accounted(t)'
<1>1. CASE ExecBegins(s)
  BY <1>1, ContinueKeeps, AccountedKept DEF ExecBegins, At, ghosts, tables
<1>2. CASE ExecQuery(s)
  <2>1. \A r \in Slot \ {s} : gor'[r] = gor[r]
    BY <1>2 DEF ExecQuery, TypeOK
  <2> QED  BY <1>2, <2>1, AccountedKept DEF ExecQuery, At, ghosts, tables
<1>3. CASE ExecLoad(s)
  <2>1. \A r \in Slot \ {s} : gor'[r] = gor[r]
    BY <1>3 DEF ExecLoad, TypeOK
  <2> QED  BY <1>3, <2>1, AccountedKept DEF ExecLoad, At, ghosts, tables
<1>4. CASE ExecCall(s)
  <2>1. \A r \in Slot \ {s} : gor'[r] = gor[r]
    BY <1>4 DEF ExecCall, End, TypeOK
  <2>2. CASE gor[s].task = t
    BY <1>4, <2>2 DEF ExecCall, Accounted
  <2>3. CASE gor[s].task # t
    <3>1. CASE BeingCalled(t)
      BY <2>1, <2>3, <3>1 DEF Accounted, BeingCalled, At
    <3>2. CASE PendingRow(t)
      BY <1>4, <3>2 DEF ExecCall, Accounted, PendingRow, PendingRows, tables
    <3>3. CASE t \in called \cup closed \cup abandoned
      BY <1>4, <3>3 DEF ExecCall, Accounted
    <3> QED  BY <3>1, <3>2, <3>3 DEF Accounted
  <2> QED  BY <2>2, <2>3
<1>5. CASE SaveWrites(s)
  BY <1>5, ContinueKeeps, AccountedKept DEF SaveWrites, At, ghosts
<1>6. CASE SaveInserts(s)
  BY <1>6, ContinueKeeps, AccountedKept DEF SaveInserts, At, ghosts
<1>7. CASE SaveRemoves(s)
  BY <1>7, AccountedSaveRemoves
<1>8. CASE SaveFails(s)
  <2>1. \A r \in Slot \ {s} : gor'[r] = gor[r]
    BY <1>8 DEF SaveFails, Continue, End, TypeOK
  <2> QED  BY <1>8, <2>1, AccountedKept DEF SaveFails, At, ghosts, tables
<1>9. CASE CreateSucceeds(s) \/ UpdateSucceeds(s) \/ DeleteSucceeds(s) \/ CompleteSucceeds(s)
  <2>1. \A r \in Slot \ {s} : gor'[r] = gor[r]
    BY <1>9 DEF CreateSucceeds, UpdateSucceeds, DeleteSucceeds, CompleteSucceeds, End, TypeOK
  <2>2. ~ At(s, "exec", "call") /\ UNCHANGED <<rows, called, closed, abandoned>>
    BY <1>9 DEF CreateSucceeds, UpdateSucceeds, DeleteSucceeds, CompleteSucceeds, At,
                tables, ghosts
  <2> QED  BY <2>1, <2>2, AccountedKept
<1>10. CASE PromiseCall(s) \/ PromiseContinues(s)
  <2>1. \A r \in Slot \ {s} : gor'[r] = gor[r]
    BY <1>10 DEF PromiseCall, PromiseContinues, Continue, TypeOK
  <2>2. ~ At(s, "exec", "call") /\ UNCHANGED <<rows, called, closed, abandoned>>
    BY <1>10 DEF PromiseCall, PromiseContinues, At, tables, ghosts
  <2> QED  BY <2>1, <2>2, AccountedKept
<1>11. CASE ExecFailsToLoad(s)
  <2>1. \A r \in Slot \ {s} : gor'[r] = gor[r]
    BY <1>11 DEF ExecFailsToLoad, TypeOK
  <2> QED  BY <1>11, <2>1, AccountedKept DEF ExecFailsToLoad, At, ghosts, tables
<1>12. CASE SaveSkipsRows(s)
  <2>1. \A r \in Slot \ {s} : gor'[r] = gor[r]
    BY <1>12, ContinueKeeps DEF SaveSkipsRows
  <2> QED  BY <1>12, <2>1, AccountedKept DEF SaveSkipsRows, At, tables
<1> QED
  BY <1>1, <1>2, <1>3, <1>4, <1>5, <1>6, <1>7, <1>8, <1>9, <1>10, <1>11, <1>12 DEF Step

LEMMA ClientKeeps ==
    ASSUME TypeOK, NEW n \in Node, NEW t \in Task, Client(n, t)
    PROVE  /\ \A s \in Slot : gor[s] # Idle => gor'[s] = gor[s]
           /\ rows' = rows /\ called' = called /\ closed \subseteq closed'
           /\ abandoned' = abandoned /\ queued' = queued
<1>1. /\ {"create", "update", "delete", "complete"} \subseteq Kinds
      /\ {Unset, "Pending", "Complete", "Deleted"} \subseteq Status
      /\ tasks[t].status \in Status /\ tasks[t].priority \in Priority
  BY DEF TypeOK, Kinds, Status
<1>2. ASSUME NEW g \in Holding, Go(g) PROVE \A s \in Slot : gor[s] # Idle => gor'[s] = gor[s]
  BY <1>2, GoKeeps
<1>3. \A s \in Slot : gor[s] # Idle => gor'[s] = gor[s]
  BY <1>1, <1>2, HandlerType
     DEF Client, CreateTask, UpdateTask, DeleteTask, CompleteTask, CompleteTaskSpuriously
<1> QED
  BY <1>3 DEF Client, CreateTask, UpdateTask, DeleteTask, CompleteTask,
              CompleteTaskSpuriously, tables, ghosts

LEMMA ReceiveType ==
    ASSUME TypeOK, NEW n \in Node, NEW t \in Task
    PROVE  [Handler(n, "promise", t, tasks[t].status, tasks[t].status, tasks[t].priority)
                EXCEPT !.pc = "promise"] \in Holding
<1> DEFINE h == Handler(n, "promise", t, tasks[t].status, tasks[t].status, tasks[t].priority)
<1>1. h \in Holding
  BY HandlerType DEF TypeOK, Kinds
<1> QED
  BY <1>1, HoldingChanges

LEMMA ManagerKeeps ==
    ASSUME TypeOK, NEW n \in Node, NEW t \in Task, ReceiveCompletion(n, t) \/ EventLost(n, t)
    PROVE  /\ \A s \in Slot : gor[s] # Idle => gor'[s] = gor[s]
           /\ UNCHANGED <<rows, queued, called, closed, abandoned, outstanding>>
<1>1. ASSUME NEW g \in Asking \cup Holding, Go(g)
      PROVE  \A s \in Slot : gor[s] # Idle => gor'[s] = gor[s]
  BY <1>1, GoKeeps
<1>2. \A s \in Slot : gor[s] # Idle => gor'[s] = gor[s]
  BY <1>1, ReceiveType, ExecutorType DEF ReceiveCompletion, EventLost
<1> QED
  BY <1>2 DEF ReceiveCompletion, EventLost, tables, ghosts

LEMMA WindowKeeps ==
    ASSUME TypeOK, NEW n \in Node, StartWindow(n) \/ StopExecution(n)
    PROVE  /\ \A s \in Slot : gor[s] # Idle => gor'[s] = gor[s]
           /\ UNCHANGED <<rows, queued, called, closed, abandoned, outstanding>>
BY GoKeeps, ExecutorType DEF StartWindow, StopExecution, tables, ghosts

LEMMA CallingIsNotIdle == \A s : At(s, "exec", "call") => gor[s] # Idle
BY DEF At, Idle

LEMMA AccountedCrash ==
    ASSUME TypeOK, NEW n \in Node, Crash(n), NEW t \in Task, Accounted(t)
    PROVE  Accounted(t)'
<1>1. CASE PendingRow(t)
  BY <1>1 DEF Crash, Accounted, PendingRow, PendingRows, tables
<1>2. CASE BeingCalled(t)
  <2>1. PICK s \in Slot : At(s, "exec", "call") /\ gor[s].task = t
    BY <1>2 DEF BeingCalled
  <2>2. CASE gor[s].node = n
    BY <2>1, <2>2 DEF Crash, Accounted
  <2>3. CASE gor[s].node # n
    <3>1. gor'[s] = gor[s]
      BY <2>1, <2>3 DEF Crash
    <3> QED  BY <2>1, <3>1 DEF Accounted, BeingCalled, At
  <2> QED  BY <2>2, <2>3
<1>3. CASE t \in called \cup closed \cup abandoned
  BY <1>3 DEF Crash, Accounted
<1> QED  BY <1>1, <1>2, <1>3 DEF Accounted

LEMMA AccountedStays ==
    ASSUME TypeOK, SaveInv, [Next]_vars, NEW t \in Task, Accounted(t)
    PROVE  Accounted(t)'
<1>1. CASE UNCHANGED vars
  BY <1>1 DEF Accounted, PendingRow, PendingRows, BeingCalled, At, vars, tables, ghosts
<1>2. ASSUME NEW s \in Slot, Step(s) PROVE Accounted(t)'
  BY <1>2, AccountedStep
<1>3. ASSUME NEW n \in Node, NEW u \in Task,
             Client(n, u) \/ ReceiveCompletion(n, u) \/ EventLost(n, u)
      PROVE  Accounted(t)'
  BY <1>3, ClientKeeps, ManagerKeeps, CallingIsNotIdle, AccountedKept
<1>4. ASSUME NEW n \in Node, StartWindow(n) \/ StopExecution(n) PROVE Accounted(t)'
  BY <1>4, WindowKeeps, CallingIsNotIdle, AccountedKept
<1>5. ASSUME NEW n \in Node, Crash(n) PROVE Accounted(t)'
  BY <1>5, AccountedCrash
<1> QED  BY <1>1, <1>2, <1>3, <1>4, <1>5 DEF Next

-----------------------------------------------------------------------------
(* A service completes only what was called. *)
LEMMA SettlesStep ==
    ASSUME TypeOK, Settles, [Next]_vars
    PROVE  Settles'
<1>1. CASE UNCHANGED vars
  BY <1>1 DEF Settles, vars, ghosts
<1>2. ASSUME NEW s \in Slot, Step(s) PROVE Settles'
  <2>1. CASE ExecCall(s)
    BY <2>1 DEF TypeOK, Settles, ExecCall
  <2>2. CASE ~ ExecCall(s)
    <3>1. outstanding' = outstanding /\ called' = called
      BY <1>2, <2>2 DEF Step, ExecBegins, ExecQuery, ExecLoad, ExecFailsToLoad, SaveWrites,
            SaveInserts, SaveRemoves, SaveSkipsRows, SaveFails, CreateSucceeds, UpdateSucceeds, DeleteSucceeds,
            CompleteSucceeds, PromiseCall, PromiseContinues, ghosts
    <3> QED  BY <3>1 DEF Settles
  <2> QED  BY <2>1, <2>2
<1>3. ASSUME NEW n \in Node, NEW t \in Task, Client(n, t) PROVE Settles'
  <2>1. called' = called
    BY <1>3, ClientKeeps
  <2>2. CASE CompleteTask(n, t)
    BY <2>1, <2>2 DEF TypeOK, Settles, CompleteTask
  <2>3. CASE outstanding' = outstanding
    BY <2>1, <2>3 DEF Settles
  <2> QED
    BY <1>3, <2>2, <2>3 DEF Client, CreateTask, UpdateTask, DeleteTask, CompleteTaskSpuriously
<1>4. ASSUME NEW n \in Node, NEW t \in Task, ReceiveCompletion(n, t) \/ EventLost(n, t)
      PROVE  Settles'
  BY <1>4, ManagerKeeps DEF Settles
<1>5. ASSUME NEW n \in Node, StartWindow(n) \/ StopExecution(n) PROVE Settles'
  BY <1>5, WindowKeeps DEF Settles
<1>6. ASSUME NEW n \in Node, Crash(n) PROVE Settles'
  BY <1>6 DEF Settles, Crash
<1> QED  BY <1>1, <1>2, <1>3, <1>4, <1>5, <1>6 DEF Next

-----------------------------------------------------------------------------
(* The copies the goroutines are about to store. *)
LEMMA SaveOKKept ==
    ASSUME TypeOK, SaveInv, called \subseteq called', closed \subseteq closed',
           \A t \in Task : Accounted(t) => Accounted(t)',
           NEW s \in Slot, gor'[s] = gor[s]
    PROVE  SaveOK(gor[s])'
<1> DEFINE g == gor[s]
<1>1. SaveOK(g)
  BY DEF SaveInv
<1>2. (g.kind = "create" /\ g.pc \in {"remove", "notify"}) => Accounted(g.task)'
  BY <1>1, Held DEF SaveOK, Holding
<1> QED
  BY <1>1, <1>2 DEF SaveOK, Removing

LEMMA SaveOKExecutor ==
    ASSUME NEW s \in Slot, gor'[s].kind = "exec", gor'[s].pc \notin {"insert", "remove"}
    PROVE  SaveOK(gor[s])'
BY DEF SaveOK, Removing

LEMMA ExecutorFields == \A n : Executor(n).kind = "exec" /\ Executor(n).pc = "begin"
BY DEF Executor

LEMMA SaveOKIdle ==
    ASSUME NEW s \in Slot, gor'[s] = Idle
    PROVE  SaveOK(gor[s])'
BY DEF SaveOK, Removing, Idle

LEMMA SaveInvExecutorStep ==
    ASSUME TypeOK, SaveInv, NEW s \in Slot,
           ExecBegins(s) \/ ExecQuery(s) \/ ExecLoad(s) \/ ExecFailsToLoad(s) \/ ExecCall(s)
    PROVE  SaveOK(gor[s])'
<1>1. CASE ExecBegins(s)
  <2>1. gor[s].kind = "exec" /\ gor'[s] = [gor[s] EXCEPT !.pc = "query"]
    BY <1>1, ContinueKeeps DEF ExecBegins, At
  <2>2. gor[s] \in Asking \cup Holding
    BY <2>1 DEF TypeOK, Idle
  <2>3. gor'[s].kind = "exec" /\ gor'[s].pc = "query"
    BY <2>1, <2>2 DEF Asking, Holding
  <2> QED  BY <2>3, SaveOKExecutor
<1>2. CASE ExecQuery(s)
  <2>1. gor[s].kind = "exec"
    BY <1>2 DEF ExecQuery, At
  <2>2. gor[s] \in Asking \cup Holding
    BY <2>1 DEF TypeOK, Idle
  <2>3. PICK r \in PendingRows : gor' = [gor EXCEPT ![s].pc = "load", ![s].task = r.task]
    BY <1>2 DEF ExecQuery
  <2>4. gor'[s].kind = "exec" /\ gor'[s].pc = "load"
    BY <2>1, <2>2, <2>3 DEF TypeOK, Asking, Holding
  <2> QED  BY <2>4, SaveOKExecutor
<1>3. CASE ExecLoad(s)
  <2>1. gor[s] \in Holding /\ gor[s].kind = "exec"
    BY <1>3, Held DEF ExecLoad, At
  <2>2. gor'[s].kind = "exec" /\ gor'[s].pc = "write"
    BY <1>3, <2>1 DEF TypeOK, Holding, ExecLoad
  <2> QED  BY <2>2, SaveOKExecutor
<1>4. CASE ExecCall(s)
  BY <1>4, SaveOKIdle DEF ExecCall, End, TypeOK
<1>5. CASE ExecFailsToLoad(s)
  <2>1. gor[s] \in Holding /\ gor[s].kind = "exec"
    BY <1>5, Held DEF ExecFailsToLoad, At
  <2>2. gor'[s].kind = "exec" /\ gor'[s].pc = "query"
    BY <1>5, <2>1 DEF TypeOK, Holding, ExecFailsToLoad
  <2> QED  BY <2>2, SaveOKExecutor
<1> QED  BY <1>1, <1>2, <1>3, <1>4, <1>5

LEMMA SaveInvSaveStep ==
    ASSUME TypeOK, SaveInv, NEW s \in Slot,
           SaveWrites(s) \/ SaveInserts(s) \/ SaveRemoves(s) \/ SaveSkipsRows(s) \/ SaveFails(s),
           \A t \in Task : Accounted(t) => Accounted(t)'
    PROVE  SaveOK(gor[s])'
<1> DEFINE g == gor[s]
<1>1. g \in Holding /\ SaveOK(g)
  BY Held DEF SaveWrites, SaveInserts, SaveRemoves, SaveSkipsRows, SaveFails, SaveInv
<1> PICK t \in Task : t = g.task
  BY <1>1 DEF Holding
<1>2. called' = called /\ closed' = closed
  BY DEF SaveWrites, SaveInserts, SaveRemoves, SaveSkipsRows, SaveFails, ghosts
<1>3. ASSUME NEW pc, Continue(s, pc), pc \in {"insert", "remove"} => g.status # g.previous,
             g.kind = "create" /\ pc \in {"remove", "notify"} => Accounted(t)'
      PROVE  SaveOK(gor[s])'
  <2>1. gor'[s] = [g EXCEPT !.pc = pc]
    BY <1>3, ContinueKeeps
  <2>2. /\ gor'[s].kind = g.kind /\ gor'[s].task = g.task /\ gor'[s].status = g.status
        /\ gor'[s].previous = g.previous /\ gor'[s].pc = pc
    BY <1>1, <2>1 DEF Holding
  <2>3. /\ gor'[s].kind = "complete" => gor'[s].task \in called' \cup closed'
        /\ gor'[s].kind \in {"create", "update", "delete"} => gor'[s].previous = Unset
        /\ gor'[s].kind = "create" => gor'[s].status = "Pending"
        /\ gor'[s].kind = "promise" => gor'[s].previous \in {gor'[s].status, "Complete"}
    BY <1>1, <1>2, <2>2 DEF SaveOK
  <2>4. (gor'[s].kind = "create" /\ gor'[s].pc \in {"remove", "notify"})
            => Accounted(t)'
    BY <1>3, <2>2
  <2>5. gor'[s].pc \in {"insert", "remove"} => gor'[s].status # gor'[s].previous
    BY <1>3, <2>2
  <2>6. gor'[s].task = t
    BY <2>2
  <2> QED  BY <2>3, <2>4, <2>5, <2>6 DEF SaveOK, Removing
<1>4. CASE SaveWrites(s)
  <2>1. g.kind = "create" => g.status # g.previous
    BY <1>1, UnsetIsNotPending DEF SaveOK
  <2> QED  BY <1>3, <1>4, <2>1 DEF SaveWrites, AfterSave
<1>5. CASE SaveInserts(s)
  <2>1. g.status # g.previous
    BY <1>1, <1>5 DEF SaveInserts, SaveOK, Removing
  <2>2. g.kind = "create" => Accounted(t)'
    <3>1. SUFFICES ASSUME g.kind = "create" PROVE Accounted(t)'
      OBVIOUS
    <3>2. g.status = "Pending"
      BY <1>1, <3>1 DEF SaveOK
    <3>3. [status |-> g.status, priority |-> g.priority, task |-> g.task] \in rows'
      BY <1>5 DEF SaveInserts
    <3>4. PICK q : q \in rows' /\ q.status = "Pending" /\ q.task = t
      BY <3>2, <3>3
    <3> QED  BY <3>4 DEF Accounted, PendingRow, PendingRows
  <2> QED  BY <1>3, <1>5, <2>1, <2>2 DEF SaveInserts
<1>6. CASE SaveRemoves(s)
  <2>1. g.kind = "create" => Accounted(t)'
    BY <1>1, <1>6 DEF SaveRemoves, SaveOK
  <2> QED  BY <1>3, <1>6, <2>1 DEF SaveRemoves, AfterSave
<1>7. CASE SaveFails(s)
  <2>1. CASE g.kind \in {"exec", "promise"}
    BY <1>3, <1>7, <2>1 DEF SaveFails, AfterSave
  <2>2. CASE g.kind \notin {"exec", "promise"}
    BY <1>7, <2>2, SaveOKIdle DEF SaveFails, End, TypeOK
  <2> QED  BY <2>1, <2>2
<1>8. CASE SaveSkipsRows(s)
  <2>1. g.kind = "create" => Accounted(t)'
    BY <1>8 DEF SaveSkipsRows, Accounted
  <2> QED  BY <1>3, <1>8, <2>1 DEF SaveSkipsRows, AfterSave
<1> QED  BY <1>4, <1>5, <1>6, <1>7, <1>8

LEMMA SaveInvPromiseStep ==
    ASSUME TypeOK, SaveInv, NEW s \in Slot, PromiseCall(s) \/ PromiseContinues(s)
    PROVE  SaveOK(gor[s])'
<1>1. gor[s] \in Holding /\ gor[s].kind = "promise" /\ SaveOK(gor[s])
  BY Held DEF PromiseCall, PromiseContinues, At, SaveInv
<1>2. CASE PromiseCall(s)
  <2>1. CASE gor' = [gor EXCEPT ![s].pc = "write"]
    BY <1>1, <2>1 DEF TypeOK, Holding, SaveOK, Removing
  <2>2. CASE gor' = [gor EXCEPT ![s].pc = "write",
                 ![s].status = IF @ = "Complete" THEN "Partially Failed" ELSE @]
    <3>1. /\ gor'[s].kind = "promise" /\ gor'[s].pc = "write"
          /\ gor'[s].previous = gor[s].previous
          /\ gor'[s].status = IF gor[s].status = "Complete" THEN "Partially Failed"
                              ELSE gor[s].status
      BY <1>1, <2>2 DEF TypeOK, Holding
    <3> QED  BY <1>1, <3>1 DEF SaveOK, Removing
  <2> QED  BY <1>2, <2>1, <2>2 DEF PromiseCall, Continue
<1>3. CASE PromiseContinues(s)
  <2>1. CASE gor'[s] = Executor(gor[s].node)
    <3>1. gor'[s].kind = "exec" /\ gor'[s].pc = "begin"
      BY <2>1, ExecutorFields
    <3> QED  BY <3>1, SaveOKExecutor
  <2>2. CASE gor'[s] = Idle
    BY <2>2, SaveOKIdle
  <2> QED  BY <1>3, <2>1, <2>2 DEF PromiseContinues, TypeOK
<1> QED  BY <1>2, <1>3

LEMMA HandlerFields ==
    ASSUME NEW n, NEW kind, NEW t, NEW status, NEW previous, NEW p
    PROVE  LET h == Handler(n, kind, t, status, previous, p) IN
           /\ h.kind = kind /\ h.pc = "write" /\ h.task = t /\ h.status = status
           /\ h.previous = previous
BY DEF Handler

LEMMA SaveInvClient ==
    ASSUME TypeOK, SaveInv, Settles, NEW n \in Node, NEW t \in Task, Client(n, t),
           NEW s \in Slot, gor[s] = Idle
    PROVE  gor'[s] = Idle \/ SaveOK(gor[s])'
<1>1. /\ {"create", "update", "delete", "complete"} \subseteq Kinds
      /\ {Unset, "Pending", "Complete", "Deleted"} \subseteq Status
      /\ tasks[t].status \in Status /\ tasks[t].priority \in Priority
  BY DEF TypeOK, Kinds, Status
<1>2. ASSUME NEW p \in Priority, CreateTask(n, t, p) PROVE gor'[s] = Idle \/ SaveOK(gor[s])'
  <2>1. gor'[s] = gor[s] \/ gor'[s] = Handler(n, "create", t, "Pending", Unset, p)
    BY <1>1, <1>2, HandlerType, GoKeeps DEF CreateTask
  <2>2. CASE gor'[s] # gor[s]
    <3>1. /\ gor'[s].kind = "create" /\ gor'[s].pc = "write"
          /\ gor'[s].previous = Unset /\ gor'[s].status = "Pending"
      BY <2>1, <2>2, HandlerFields
    <3> QED  BY <3>1 DEF SaveOK, Removing
  <2> QED  BY <2>2
<1>3. ASSUME NEW p \in Priority, UpdateTask(n, t, p) PROVE gor'[s] = Idle \/ SaveOK(gor[s])'
  <2>1. gor'[s] = gor[s] \/ gor'[s] = Handler(n, "update", t, tasks[t].status, Unset, p)
    BY <1>1, <1>3, HandlerType, GoKeeps DEF UpdateTask
  <2>2. CASE gor'[s] # gor[s]
    <3>1. gor'[s].kind = "update" /\ gor'[s].pc = "write" /\ gor'[s].previous = Unset
      BY <2>1, <2>2, HandlerFields
    <3> QED  BY <3>1 DEF SaveOK, Removing
  <2> QED  BY <2>2
<1>4. CASE DeleteTask(n, t)
  <2>1. gor'[s] = gor[s] \/ gor'[s] = Handler(n, "delete", t, "Deleted", Unset, tasks[t].priority)
    BY <1>1, <1>4, HandlerType, GoKeeps DEF DeleteTask
  <2>2. CASE gor'[s] # gor[s]
    <3>1. gor'[s].kind = "delete" /\ gor'[s].pc = "write" /\ gor'[s].previous = Unset
      BY <2>1, <2>2, HandlerFields
    <3> QED  BY <3>1 DEF SaveOK, Removing
  <2> QED  BY <2>2
<1>5. CASE CompleteTask(n, t) \/ CompleteTaskSpuriously(n, t)
  <2>1. \/ gor'[s] = gor[s]
        \/ gor'[s] = Handler(n, "complete", t, "Complete", tasks[t].status, tasks[t].priority)
    BY <1>1, <1>5, HandlerType, GoKeeps DEF CompleteTask, CompleteTaskSpuriously
  <2>2. t \in called' \cup closed'
    BY <1>5 DEF CompleteTask, CompleteTaskSpuriously, Settles, ghosts
  <2>3. CASE gor'[s] # gor[s]
    <3>1. gor'[s].kind = "complete" /\ gor'[s].pc = "write" /\ gor'[s].task = t
      BY <2>1, <2>3, HandlerFields
    <3> QED  BY <2>2, <3>1 DEF SaveOK, Removing
  <2> QED  BY <2>3
<1> QED  BY <1>2, <1>3, <1>4, <1>5 DEF Client

LEMMA SaveInvReceive ==
    ASSUME TypeOK, NEW n \in Node, NEW t \in Task, ReceiveCompletion(n, t) \/ EventLost(n, t),
           NEW s \in Slot, gor[s] = Idle
    PROVE  gor'[s] = Idle \/ SaveOK(gor[s])'
<1> DEFINE h == Handler(n, "promise", t, tasks[t].status, tasks[t].status, tasks[t].priority)
           g == [h EXCEPT !.pc = "promise"]
<1>1. g \in Holding
  BY ReceiveType
<1>2. g.kind = "promise" /\ g.pc = "promise" /\ g.previous = g.status
  BY DEF Handler
<1> HIDE DEF g
<1>3. gor'[s] = gor[s] \/ gor'[s] = g \/ gor'[s] = Executor(n)
  BY <1>1, GoKeeps, ExecutorType DEF ReceiveCompletion, EventLost, g
<1>4. CASE gor'[s] = g
  BY <1>2, <1>4 DEF SaveOK, Removing
<1>5. CASE gor'[s] = Executor(n)
  BY <1>5, ExecutorFields DEF SaveOK, Removing
<1> QED  BY <1>3, <1>4, <1>5

LEMMA SaveInvStep ==
    ASSUME TypeOK, SaveInv, Settles, [Next]_vars
    PROVE  SaveInv'
<1>1. \A t \in Task : Accounted(t) => Accounted(t)'
  BY AccountedStays
<1> SUFFICES ASSUME NEW r \in Slot PROVE SaveOK(gor[r])'
  BY DEF SaveInv
<1>2. CASE UNCHANGED vars
  BY <1>1, <1>2, SaveOKKept DEF vars, ghosts
<1>3. ASSUME NEW s \in Slot, Step(s) PROVE SaveOK(gor[r])'
  <2>1. called \subseteq called' /\ closed \subseteq closed'
    BY <1>3 DEF Step, ExecBegins, ExecQuery, ExecLoad, ExecFailsToLoad, ExecCall, SaveWrites,
          SaveInserts, SaveRemoves, SaveSkipsRows, SaveFails, CreateSucceeds, UpdateSucceeds, DeleteSucceeds,
          CompleteSucceeds, PromiseCall, PromiseContinues, ghosts
  <2>2. CASE r # s
    <3>1. gor'[r] = gor[r]
      BY <1>3, <2>2 DEF TypeOK, Step, ExecBegins, ExecQuery, ExecLoad, ExecFailsToLoad, ExecCall, SaveWrites,
            SaveInserts, SaveRemoves, SaveSkipsRows, SaveFails, CreateSucceeds, UpdateSucceeds,
            DeleteSucceeds, CompleteSucceeds, PromiseCall, PromiseContinues, Continue, End
    <3> QED  BY <1>1, <2>1, <3>1, SaveOKKept
  <2>3. CASE r = s
    <3>1. CASE CreateSucceeds(s) \/ UpdateSucceeds(s) \/ DeleteSucceeds(s) \/ CompleteSucceeds(s)
      BY <2>3, <3>1, SaveOKIdle
         DEF CreateSucceeds, UpdateSucceeds, DeleteSucceeds, CompleteSucceeds, End, TypeOK
    <3> QED
      BY <1>1, <1>3, <2>3, <3>1, SaveInvExecutorStep, SaveInvSaveStep, SaveInvPromiseStep DEF Step
  <2> QED  BY <2>2, <2>3
<1>4. ASSUME NEW n \in Node, NEW t \in Task, Client(n, t) PROVE SaveOK(gor[r])'
  <2>1. CASE gor[r] = Idle
    BY <1>4, <2>1, SaveInvClient, SaveOKIdle
  <2>2. CASE gor[r] # Idle
    BY <1>1, <1>4, <2>2, ClientKeeps, SaveOKKept
  <2> QED  BY <2>1, <2>2
<1>5. ASSUME NEW n \in Node, NEW t \in Task, ReceiveCompletion(n, t) \/ EventLost(n, t)
      PROVE  SaveOK(gor[r])'
  <2>1. CASE gor[r] = Idle
    BY <1>5, <2>1, SaveInvReceive, SaveOKIdle
  <2>2. CASE gor[r] # Idle
    BY <1>1, <1>5, <2>2, ManagerKeeps, SaveOKKept
  <2> QED  BY <2>1, <2>2
<1>6. ASSUME NEW n \in Node, StartWindow(n) \/ StopExecution(n) PROVE SaveOK(gor[r])'
  <2>1. CASE gor[r] = Idle
    <3>1. gor'[r] = Idle \/ gor'[r] = Executor(n)
      BY <1>6, <2>1, GoKeeps, ExecutorType DEF StartWindow, StopExecution
    <3>2. CASE gor'[r] = Executor(n)
      BY <3>2, ExecutorFields DEF SaveOK, Removing
    <3> QED  BY <3>1, <3>2, SaveOKIdle
  <2>2. CASE gor[r] # Idle
    BY <1>1, <1>6, <2>2, WindowKeeps, SaveOKKept
  <2> QED  BY <2>1, <2>2
<1>7. ASSUME NEW n \in Node, Crash(n) PROVE SaveOK(gor[r])'
  <2>1. /\ gor'[r] = gor[r] \/ gor'[r] = Idle
        /\ called' = called /\ closed' = closed
    BY <1>7 DEF Crash
  <2> QED  BY <1>1, <2>1, SaveOKKept, SaveOKIdle
<1> QED  BY <1>2, <1>3, <1>4, <1>5, <1>6, <1>7 DEF Next

-----------------------------------------------------------------------------
LEMMA InitInv == Init => Inv
<1> SUFFICES ASSUME Init PROVE Inv
  OBVIOUS
<1>1. SaveInv
  BY DEF Init, SaveInv, SaveOK, Removing, Idle
<1>2. NoTaskLost
  BY DEF Init, NoTaskLost
<1>3. Settles
  <2>1. \A t \in Task : outstanding[t] = 0
    BY DEF Init
  <2> QED  BY <2>1 DEF Settles
<1> QED  BY <1>1, <1>2, <1>3, InitTypeOK DEF Inv

LEMMA StepInv == Inv /\ [Next]_vars => Inv'
<1> SUFFICES ASSUME Inv, [Next]_vars PROVE Inv'
  OBVIOUS
<1> USE DEF Inv
<1>1. TypeOK' /\ SaveInv' /\ Settles'
  BY StepTypeOK, SaveInvStep, SettlesStep
<1>2. \A t \in Task : Accounted(t) => Accounted(t)'
  BY AccountedStays
<1>3. CASE queued' = queued
  BY <1>1, <1>2, <1>3 DEF NoTaskLost, TypeOK
<1>4. ASSUME NEW s \in Slot, CreateSucceeds(s) PROVE NoTaskLost'
  <2>1. gor[s].task \in Task /\ Accounted(gor[s].task)
    BY <1>4, Held DEF CreateSucceeds, At, SaveInv, SaveOK, Holding
  <2>2. queued' = queued \cup {gor[s].task}
    BY <1>4 DEF CreateSucceeds
  <2> QED  BY <1>2, <2>1, <2>2 DEF NoTaskLost, TypeOK
<1>5. queued' = queued \/ \E s \in Slot : CreateSucceeds(s)
  <2>1. ASSUME NEW s \in Slot, Step(s), ~ CreateSucceeds(s) PROVE queued' = queued
    BY <2>1 DEF Step, ExecBegins, ExecQuery, ExecLoad, ExecFailsToLoad, ExecCall, SaveWrites,
          SaveInserts, SaveRemoves, SaveSkipsRows, SaveFails, UpdateSucceeds, DeleteSucceeds, CompleteSucceeds,
          PromiseCall, PromiseContinues, ghosts
  <2>2. ASSUME NEW n \in Node, Crash(n) PROVE queued' = queued
    BY <2>2 DEF Crash
  <2> QED
    BY <2>1, <2>2, ClientKeeps, ManagerKeeps, WindowKeeps DEF Next, vars, ghosts
<1> QED  BY <1>1, <1>3, <1>4, <1>5

(* A task whose creation was confirmed is pending, being called, called, or *)
(* given up for complete, unless the process of its executor died between   *)
(* storing it as running and calling it, or its queue could not be read when *)
(* it was created; whatever else fails, whichever node dies, and however the *)
(* clients interfere.                                                       *)
THEOREM NeverLost == Spec => []NoTaskLost
<1>1. Inv => NoTaskLost
  BY DEF Inv
<1> QED  BY <1>1, InitInv, StepInv, PTL DEF Spec

-----------------------------------------------------------------------------
(* Sums.  SumFunction is a fold, that is a CHOOSE of a recursive function.  *)
(* The sum of a function with values in Nat is the number of its units, the *)
(* pairs of an x and one of the numbers up to f[x]: the numbers of units    *)
(* satisfy the equation of the fold, and by the least set on which they     *)
(* differ so does no other function.                                        *)
Chosen(s) == CHOOSE x \in s : TRUE

SumsOf(f, g) ==
  g = [s \in SUBSET DOMAIN f |->
      IF s = {} THEN 0 ELSE f[Chosen(s)] + g[s \ {Chosen(s)}]]

Units(f, s) == UNION {{x} \X (1 .. f[x]) : x \in s}

LEMMA SumIsChosen ==
  ASSUME NEW f
  PROVE  SumFunction(f) = (CHOOSE g : SumsOf(f, g))[DOMAIN f]
BY DEF SumFunction, SumFunctionOnSet, FoldFunctionOnSet, MapThenFoldSet, SumsOf, Chosen

LEMMA UnitsFinite ==
  ASSUME NEW f, NEW s, IsFiniteSet(s), \A x \in s : f[x] \in Nat
  PROVE  IsFiniteSet(Units(f, s)) /\ Cardinality(Units(f, s)) \in Nat
<1> DEFINE column(x) == {x} \X (1 .. f[x])
       h == [x \in s |-> column(x)]
       cols == {column(x) : x \in s}
<1>1. ASSUME NEW x \in s PROVE IsFiniteSet(column(x))
  <2>1. IsFiniteSet({x})
    BY FS_Singleton
  <2>2. 1 \in Int /\ f[x] \in Int
    OBVIOUS
  <2>3. IsFiniteSet(1 .. f[x])
    BY <2>2, FS_Interval
  <2> QED BY <2>1, <2>3, FS_Product
<1>2. h \in Surjection(s, cols)
  BY DEF Surjection
<1>3. IsFiniteSet(cols)
  BY <1>2, FS_Surjection
<1>4. IsFiniteSet(UNION cols)
  BY <1>1, <1>3, FS_UNION
<1> QED BY <1>4, FS_CardinalityType DEF Units

(* One column of the units is f[x] of them. *)
LEMMA UnitsStep ==
  ASSUME NEW f, NEW s, IsFiniteSet(s), \A x \in s : f[x] \in Nat, NEW x \in s
  PROVE  Cardinality(Units(f, s)) = f[x] + Cardinality(Units(f, s \ {x}))
<1> DEFINE column == {x} \X (1 .. f[x])
       rest == Units(f, s \ {x})
<1>1. IsFiniteSet(1 .. f[x]) /\ Cardinality(1 .. f[x]) = f[x]
  BY FS_Interval
<1>2. IsFiniteSet({x}) /\ Cardinality({x}) = 1
  BY FS_Singleton
<1>3. IsFiniteSet(column) /\ Cardinality(column) = f[x]
  <2>1. IsFiniteSet(column) /\ Cardinality(column) = Cardinality({x}) * Cardinality(1 .. f[x])
    BY <1>1, <1>2, FS_Product
  <2> QED BY <1>1, <1>2, <2>1
<1>4. IsFiniteSet(s \ {x})
  BY FS_RemoveElement
<1>5. IsFiniteSet(rest) /\ Cardinality(rest) \in Nat
  BY <1>4, UnitsFinite
<1>6. Units(f, s) = column \cup rest /\ column \cap rest = {}
  BY DEF Units
<1>7. Cardinality(column \cap rest) = 0
  BY <1>6, FS_EmptySet
<1>8. f[x] \in Nat
  OBVIOUS
<1>9. Cardinality(column \cup rest)
      = Cardinality(column) + Cardinality(rest) - Cardinality(column \cap rest)
  BY <1>3, <1>5, FS_Union
<1>10. Cardinality(Units(f, s)) = f[x] + Cardinality(rest)
  <2> HIDE DEF column, rest
  <2> QED BY <1>3, <1>5, <1>6, <1>7, <1>8, <1>9
<1> QED BY <1>10

LEMMA UnitsAreSums ==
  ASSUME NEW f, IsFiniteSet(DOMAIN f), \A x \in DOMAIN f : f[x] \in Nat
  PROVE  SumsOf(f, [s \in SUBSET DOMAIN f |-> Cardinality(Units(f, s))])
<1> DEFINE g == [s \in SUBSET DOMAIN f |-> Cardinality(Units(f, s))]
<1>1. ASSUME NEW s \in SUBSET DOMAIN f
    PROVE  g[s] = IF s = {} THEN 0 ELSE f[Chosen(s)] + g[s \ {Chosen(s)}]
  <2>1. CASE s = {}
    <3>1. Units(f, {}) = {}
      BY DEF Units
    <3> QED BY <2>1, <3>1, FS_EmptySet
  <2>2. CASE s # {}
    <3>1. Chosen(s) \in s
      BY <2>2 DEF Chosen
    <3>2. IsFiniteSet(s)
      BY FS_Subset
    <3>3. Cardinality(Units(f, s)) = f[Chosen(s)] + Cardinality(Units(f, s \ {Chosen(s)}))
      BY <3>1, <3>2, UnitsStep
    <3> QED BY <2>2, <3>1, <3>3
  <2> QED BY <2>1, <2>2
<1> QED BY <1>1 DEF SumsOf

LEMMA SumsUnique ==
  ASSUME NEW f, IsFiniteSet(DOMAIN f), NEW g, NEW h, SumsOf(f, g), SumsOf(f, h)
  PROVE  g[DOMAIN f] = h[DOMAIN f]
<1> DEFINE S == DOMAIN f
       Bad == {s \in SUBSET S : g[s] # h[s]}
       Smaller == StrictSubsetOrdering(S)
<1> SUFFICES ASSUME Bad # {} PROVE FALSE
  OBVIOUS
<1>1. Bad \subseteq FiniteSubsetsOf(S)
  BY FS_Subset DEF FiniteSubsetsOf
<1>2. PICK s \in Bad : \A t \in Bad : <<t, s>> \notin Smaller
  <2>1. IsWellFoundedOn(Smaller, FiniteSubsetsOf(S))
    BY FS_StrictSubsetOrderingWellFounded
  <2> HIDE DEF Smaller, Bad
  <2> QED BY <1>1, <2>1, WFMin
<1>3. g[s] # h[s] /\ s \in SUBSET S
  BY <1>2
<1>4. s # {}
  BY <1>3 DEF SumsOf
<1>5. Chosen(s) \in s
  BY <1>4 DEF Chosen
<1>6. s \ {Chosen(s)} \notin Bad
  BY <1>2, <1>3, <1>5 DEF StrictSubsetOrdering
<1>7. g[s \ {Chosen(s)}] = h[s \ {Chosen(s)}]
  BY <1>3, <1>6
<1> QED BY <1>3, <1>4, <1>7 DEF SumsOf

LEMMA SumIsUnits ==
  ASSUME NEW f, IsFiniteSet(DOMAIN f), \A x \in DOMAIN f : f[x] \in Nat
  PROVE  SumFunction(f) = Cardinality(Units(f, DOMAIN f))
<1> DEFINE g == [s \in SUBSET DOMAIN f |-> Cardinality(Units(f, s))]
<1>1. SumsOf(f, g)
  BY UnitsAreSums
<1>2. SumsOf(f, CHOOSE h : SumsOf(f, h))
  BY <1>1
<1>3. SumFunction(f) = g[DOMAIN f]
  BY <1>1, <1>2, SumsUnique, SumIsChosen
<1> QED BY <1>3

(* Summing up: the total changes by what one value changes. *)
LEMMA SumChanges ==
  ASSUME NEW S, IsFiniteSet(S), NEW f \in [S -> Nat], NEW x \in S, NEW v \in Nat
  PROVE  /\ SumFunction(f) \in Nat
       /\ SumFunction([f EXCEPT ![x] = v]) = SumFunction(f) - f[x] + v
<1> DEFINE g == [f EXCEPT ![x] = v]
<1>1. g \in [S -> Nat] /\ g[x] = v
  OBVIOUS
<1>2. /\ Cardinality(Units(f, S)) \in Nat /\ Cardinality(Units(f, S \ {x})) \in Nat
    /\ Cardinality(Units(f, S)) = f[x] + Cardinality(Units(f, S \ {x}))
  BY UnitsStep, UnitsFinite, FS_RemoveElement
<1>3. Cardinality(Units(g, S)) = v + Cardinality(Units(g, S \ {x}))
  BY <1>1, UnitsStep
<1>4. Units(g, S \ {x}) = Units(f, S \ {x})
  BY DEF Units
<1>5. SumFunction(f) = Cardinality(Units(f, S)) /\ SumFunction(g) = Cardinality(Units(g, S))
  BY <1>1, SumIsUnits
<1>6. f[x] \in Nat
  OBVIOUS
<1> HIDE DEF g
<1>7. SumFunction(f) \in Nat /\ SumFunction(g) = SumFunction(f) - f[x] + v
  BY <1>2, <1>3, <1>4, <1>5, <1>6
<1> QED BY <1>7 DEF g

LEMMA SumOfZeros ==
  ASSUME NEW S, IsFiniteSet(S), NEW f \in [S -> Nat], \A x \in S : f[x] = 0
  PROVE  SumFunction(f) = 0
<1>1. Units(f, S) = {}
  BY DEF Units
<1> QED BY <1>1, SumIsUnits, FS_EmptySet

-----------------------------------------------------------------------------
(* One execution at a time.  What may still become an execution is counted: *)
(* an execution the service has not reported, a goroutine that will start   *)
(* one or is reporting one, and a completion on its way to the manager of   *)
(* the owner o.  Only an opening of the window and a completion nobody      *)
(* waited for add to the count.                                             *)
Carries(o, g) == g.kind \in {"exec", "complete"} \/ (g.kind = "promise" /\ g.node = o)

Carriers(o) == {s \in Slot : Carries(o, gor[s])}

Openings == used["start"] + used["spurious"]

OnlyOwner(o) ==
  /\ \A s \in Slot : gor[s].kind = "exec" => gor[s].node = o
  /\ \A n \in Node : running[n] => n = o

Counted(o) ==
  SumFunction(outstanding) + Cardinality(Carriers(o)) + SumFunction(inbox[o]) <= Openings

CountInv(o) == TypeOK /\ OnlyOwner(o) /\ Counted(o)

One(b) == IF b THEN 1 ELSE 0

LEMMA CountsAreNat ==
  ASSUME TypeOK, NEW o \in Node
  PROVE  /\ SumFunction(outstanding) \in Nat
         /\ SumFunction(inbox[o]) \in Nat
         /\ IsFiniteSet(Carriers(o)) /\ Cardinality(Carriers(o)) \in Nat
         /\ Openings \in Nat
<1>1. ASSUME NEW f \in [Task -> Nat] PROVE SumFunction(f) \in Nat
  <2>1. IsFiniteSet(Units(f, Task)) /\ Cardinality(Units(f, Task)) \in Nat
    BY UnitsFinite, FiniteAssumption
  <2> QED  BY <2>1, SumIsUnits, FiniteAssumption
<1>2. IsFiniteSet(Carriers(o))
  BY FS_Subset, FiniteAssumption DEF Carriers
<1>3. Openings \in Nat
  BY DEF TypeOK, Openings, BudgetNames
<1> QED  BY <1>1, <1>2, <1>3, FS_CardinalityType DEF TypeOK

(* One goroutine changes. *)
LEMMA CarriersChange ==
  ASSUME TypeOK, NEW o \in Node, NEW s \in Slot, \A r \in Slot \ {s} : gor'[r] = gor[r]
  PROVE  Cardinality(Carriers(o)')
           = Cardinality(Carriers(o)) - One(Carries(o, gor[s])) + One(Carries(o, gor'[s]))
<1> DEFINE rest == {r \in Slot \ {s} : Carries(o, gor[r])}
<1>1. IsFiniteSet(rest) /\ Cardinality(rest) \in Nat /\ s \notin rest
  BY FS_Subset, FiniteAssumption, FS_CardinalityType
<1>2. Carriers(o) = IF Carries(o, gor[s]) THEN rest \cup {s} ELSE rest
  BY DEF Carriers
<1>3. Carriers(o)' = IF Carries(o, gor'[s]) THEN rest \cup {s} ELSE rest
  <2>1. \A r \in Slot \ {s} : Carries(o, gor'[r]) = Carries(o, gor[r])
    OBVIOUS
  <2> QED  BY <2>1 DEF Carriers
<1>4. Cardinality(rest \cup {s}) = Cardinality(rest) + 1
  BY <1>1, FS_AddElement
<1> HIDE DEF rest
<1> QED  BY <1>1, <1>2, <1>3, <1>4 DEF One

(* Goroutines only end. *)
LEMMA CarriersEnd ==
  ASSUME TypeOK, NEW o \in Node, \A s \in Slot : gor'[s] = gor[s] \/ gor'[s] = Idle
  PROVE  Cardinality(Carriers(o)') \in Nat /\ Cardinality(Carriers(o)') <= Cardinality(Carriers(o))
<1>1. Carriers(o)' \subseteq Carriers(o)
  BY DEF Carriers, Carries, Idle
<1> QED  BY <1>1, CountsAreNat, FS_Subset, FS_CardinalityType

LEMMA IdleCarries == \A o : One(Carries(o, Idle)) = 0
BY DEF One, Carries, Idle

LEMMA GoCounts ==
  ASSUME TypeOK, NEW o \in Node, NEW g \in Asking \cup Holding, Go(g)
  PROVE  /\ Cardinality(Carriers(o)') = Cardinality(Carriers(o)) + One(Carries(o, g))
         /\ OnlyOwner(o) /\ running' = running /\ (g.kind = "exec" => g.node = o)
              => OnlyOwner(o)'
<1>1. PICK s \in Slot : gor[s] = Idle /\ gor' = [gor EXCEPT ![s] = g]
  BY GoTakesFreeSlot
<1>2. gor'[s] = g /\ \A r \in Slot \ {s} : gor'[r] = gor[r]
  BY <1>1 DEF TypeOK
<1>3. Cardinality(Carriers(o)') = Cardinality(Carriers(o)) - 0 + One(Carries(o, g))
  BY <1>1, <1>2, CarriersChange, IdleCarries
<1>4. One(Carries(o, g)) \in Nat
  BY DEF One
<1>5. OnlyOwner(o) /\ running' = running /\ (g.kind = "exec" => g.node = o) => OnlyOwner(o)'
  BY <1>2 DEF OnlyOwner
<1> QED  BY <1>3, <1>4, <1>5, CountsAreNat

LEMMA SpendOpens ==
  ASSUME TypeOK, NEW b \in BudgetNames, Spend(b)
  PROVE  Openings' = Openings + One(b \in {"start", "spurious"})
BY DEF TypeOK, Spend, Openings, One, BudgetNames

-----------------------------------------------------------------------------
(* A goroutine that goes on, or ends, by itself. *)
Same(s) == gor'[s].kind = gor[s].kind /\ gor'[s].node = gor[s].node

LEMMA OthersStay ==
  ASSUME TypeOK, NEW s \in Slot, Step(s)
  PROVE  \A r \in Slot \ {s} : gor'[r] = gor[r]
BY DEF TypeOK, Step, ExecBegins, ExecQuery, ExecLoad, ExecFailsToLoad, ExecCall, SaveWrites,
       SaveInserts, SaveRemoves, SaveSkipsRows, SaveFails, CreateSucceeds, UpdateSucceeds,
       DeleteSucceeds, CompleteSucceeds, PromiseCall, PromiseContinues, Continue, End

LEMMA KeepsKind ==
  ASSUME TypeOK, NEW s \in Slot,
         \/ ExecBegins(s) \/ ExecQuery(s) \/ ExecLoad(s) \/ ExecFailsToLoad(s)
         \/ SaveWrites(s) \/ SaveInserts(s) \/ SaveRemoves(s) \/ SaveSkipsRows(s)
         \/ SaveFails(s) /\ gor[s].kind \in {"exec", "promise"}
         \/ PromiseCall(s)
  PROVE  Same(s)
<1>1. ASSUME NEW pc, Continue(s, pc), gor[s] \in Asking \cup Holding PROVE Same(s)
  <2>1. gor'[s] = [gor[s] EXCEPT !.pc = pc]
    BY <1>1, ContinueKeeps
  <2>2. CASE gor[s] \in Asking
    BY <2>1, <2>2 DEF Asking, Same
  <2>3. CASE gor[s] \in Holding
    BY <2>1, <2>3 DEF Holding, Same
  <2> QED  BY <1>1, <2>2, <2>3
<1>2. gor[s] \in Asking \cup Holding
  <2>1. gor[s].kind # "idle"
    BY DEF At, ExecBegins, ExecQuery, ExecLoad, ExecFailsToLoad, SaveWrites,
         SaveInserts, SaveRemoves, SaveSkipsRows, SaveFails, PromiseCall
  <2> QED  BY <2>1 DEF TypeOK, Idle
<1>3. CASE ExecBegins(s) \/ SaveWrites(s) \/ SaveInserts(s) \/ SaveRemoves(s) \/ SaveSkipsRows(s)
  BY <1>1, <1>2, <1>3 DEF ExecBegins, SaveWrites, SaveInserts, SaveRemoves, SaveSkipsRows
<1>4. CASE ExecQuery(s)
  <2>1. gor[s] \in Asking
    BY <1>2, <1>4 DEF ExecQuery, At, Holding
  <2>2. PICK r \in PendingRows : gor' = [gor EXCEPT ![s].pc = "load", ![s].task = r.task]
    BY <1>4 DEF ExecQuery
  <2> QED  BY <2>1, <2>2 DEF TypeOK, Asking, Same
<1>5. CASE ExecLoad(s)
  <2>1. gor[s] \in Holding
    BY <1>5, Held DEF ExecLoad, At
  <2> QED  BY <1>5, <2>1 DEF ExecLoad, TypeOK, Holding, Same
<1>6. CASE ExecFailsToLoad(s)
  <2>1. gor[s] \in Holding
    BY <1>6, Held DEF ExecFailsToLoad, At
  <2> QED  BY <1>6, <2>1 DEF ExecFailsToLoad, TypeOK, Holding, Same
<1>7. CASE PromiseCall(s)
  <2>1. gor[s] \in Holding
    BY <1>7, Held DEF PromiseCall, At
  <2>2. CASE gor' = [gor EXCEPT ![s].pc = "write"]
    BY <2>1, <2>2 DEF TypeOK, Holding, Same
  <2>3. CASE ~ (gor' = [gor EXCEPT ![s].pc = "write"])
    <3>1. gor' = [gor EXCEPT ![s].pc = "write",
                    ![s].status = IF @ = "Complete" THEN "Partially Failed" ELSE @]
      BY <1>7, <2>3 DEF PromiseCall, Continue
    <3> QED  BY <2>1, <3>1 DEF TypeOK, Holding, Same
  <2> QED  BY <2>2, <2>3
<1> HIDE DEF Same
<1>8. CASE ExecBegins(s) \/ ExecQuery(s) \/ ExecLoad(s) \/ ExecFailsToLoad(s)
  BY <1>8, <1>3, <1>4, <1>5, <1>6
<1>9. CASE SaveFails(s) /\ gor[s].kind \in {"exec", "promise"}
  BY <1>1, <1>2, <1>9 DEF SaveFails
<1> QED  BY <1>3, <1>7, <1>8, <1>9

(* Spending anything else than an opening leaves the count of openings. *)
LEMMA OpeningsKept ==
  ASSUME TypeOK, UNCHANGED used \/ \E b \in BudgetNames \ {"start", "spurious"} : Spend(b)
  PROVE  Openings' = Openings
<1>1. CASE UNCHANGED used
  BY <1>1 DEF Openings
<1>2. ASSUME NEW b \in BudgetNames \ {"start", "spurious"}, Spend(b) PROVE Openings' = Openings
  BY <1>2, SpendOpens, CountsAreNat DEF One, TypeOK, Openings, BudgetNames
<1> QED  BY <1>1, <1>2

(* What a step of a goroutine does to the count: it hands the token on. *)
LEMMA StepCounts ==
  ASSUME NEW o \in Node, CountInv(o), NEW s \in Slot, Step(s)
  PROVE  OnlyOwner(o)' /\ Counted(o)'
<1> USE DEF CountInv
<1>0. \A r \in Slot \ {s} : gor'[r] = gor[r]
  BY OthersStay
<1>1. Cardinality(Carriers(o)')
        = Cardinality(Carriers(o)) - One(Carries(o, gor[s])) + One(Carries(o, gor'[s]))
  BY <1>0, CarriersChange
<1>2. /\ SumFunction(outstanding) \in Nat /\ SumFunction(inbox[o]) \in Nat
      /\ Cardinality(Carriers(o)) \in Nat /\ Openings \in Nat
  BY CountsAreNat
<1>3. \A b : One(b) \in {0, 1}
  BY DEF One
<1>4. CASE \/ ExecQuery(s) \/ ExecLoad(s) \/ ExecFailsToLoad(s) \/ ExecBegins(s)
           \/ SaveWrites(s) \/ SaveInserts(s) \/ SaveRemoves(s) \/ SaveSkipsRows(s)
           \/ SaveFails(s) /\ gor[s].kind \in {"exec", "promise"}
           \/ PromiseCall(s)
  <2>1. Same(s)
    BY <1>4, KeepsKind
  <2>2. One(Carries(o, gor'[s])) = One(Carries(o, gor[s]))
    BY <2>1 DEF Same, Carries
  <2>3. UNCHANGED <<outstanding, inbox>>
    BY <1>4 DEF ExecBegins, ExecQuery, ExecLoad, ExecFailsToLoad, SaveWrites, SaveInserts,
         SaveRemoves, SaveSkipsRows, SaveFails, PromiseCall
  <2>4. Openings' = Openings
    <3>1. UNCHANGED used \/ \E b \in BudgetNames \ {"start", "spurious"} : Spend(b)
      BY <1>4 DEF ExecBegins, ExecQuery, ExecLoad, ExecFailsToLoad, SaveWrites, SaveInserts,
           SaveRemoves, SaveSkipsRows, SaveFails, PromiseCall, BudgetNames
    <3> QED  BY <3>1, OpeningsKept
  <2>5. Counted(o)'
    BY <1>1, <1>2, <1>3, <2>2, <2>3, <2>4 DEF Counted
  <2>6. running' = running \/ (ExecBegins(s) /\ running' = [running EXCEPT ![gor[s].node] = TRUE])
    BY <1>4 DEF ExecBegins, ExecQuery, ExecLoad, ExecFailsToLoad, SaveWrites, SaveInserts,
         SaveRemoves, SaveSkipsRows, SaveFails, PromiseCall
  <2>7. \A n \in Node : running'[n] => n = o
    BY <2>6 DEF OnlyOwner, ExecBegins, At, TypeOK
  <2>8. \A r \in Slot : gor'[r].kind = "exec" => gor'[r].node = o
    BY <1>0, <2>1 DEF Same, OnlyOwner
  <2> QED  BY <2>5, <2>7, <2>8 DEF OnlyOwner
<1>5. CASE ExecCall(s)
  <2>1. gor[s].kind = "exec" /\ gor[s].task \in Task /\ gor'[s] = Idle
    BY <1>5, Held DEF ExecCall, At, Holding, End, TypeOK
  <2>2. One(Carries(o, gor[s])) = 1 /\ One(Carries(o, gor'[s])) = 0
    BY <2>1, IdleCarries DEF One, Carries
  <2>3. SumFunction(outstanding') \in Nat
        /\ SumFunction(outstanding') <= SumFunction(outstanding) + 1
    <3>1. CASE UNCHANGED outstanding
      BY <1>2, <3>1
    <3>2. CASE outstanding' = [outstanding EXCEPT ![gor[s].task] = @ + 1]
      <4>1. outstanding[gor[s].task] \in Nat
        BY <2>1 DEF TypeOK
      <4>2. outstanding' = [outstanding EXCEPT ![gor[s].task] = outstanding[gor[s].task] + 1]
        BY <3>2
      <4>3. outstanding \in [Task -> Nat]
        BY DEF TypeOK
      <4>4. SumFunction(outstanding')
              = SumFunction(outstanding) - outstanding[gor[s].task] + (outstanding[gor[s].task] + 1)
        <5> DEFINE x == gor[s].task
                   v == outstanding[x] + 1
        <5>1. v \in Nat
          BY <4>1
        <5> HIDE DEF v
        <5>2. SumFunction([outstanding EXCEPT ![x] = v]) = SumFunction(outstanding) - outstanding[x] + v
          BY <2>1, <4>3, <5>1, SumChanges, FiniteAssumption
        <5> QED  BY <4>2, <5>2, Zenon DEF v
      <4> QED  BY <1>2, <4>1, <4>4
    <3> QED  BY <1>5, <3>1, <3>2 DEF ExecCall
  <2>4. inbox' = inbox /\ running' = running
    BY <1>5 DEF ExecCall
  <2>5. Openings' = Openings
    BY <1>5, OpeningsKept DEF ExecCall, BudgetNames
  <2>6. Counted(o)'
    BY <1>1, <1>2, <2>2, <2>3, <2>4, <2>5 DEF Counted
  <2> QED  BY <1>0, <2>1, <2>4, <2>6 DEF OnlyOwner, Idle
<1>6. CASE \/ CreateSucceeds(s) \/ UpdateSucceeds(s) \/ DeleteSucceeds(s)
           \/ SaveFails(s) /\ gor[s].kind \notin {"exec", "promise"}
  <2>1. gor'[s] = Idle /\ UNCHANGED <<outstanding, inbox, running>>
    BY <1>6 DEF CreateSucceeds, UpdateSucceeds, DeleteSucceeds, SaveFails, End, TypeOK
  <2>2. One(Carries(o, gor'[s])) = 0
    BY <2>1, IdleCarries
  <2>3. Openings' = Openings
    BY <1>6, OpeningsKept DEF CreateSucceeds, UpdateSucceeds, DeleteSucceeds, SaveFails, ghosts,
         BudgetNames
  <2>4. Counted(o)'
    BY <1>1, <1>2, <1>3, <2>1, <2>2, <2>3 DEF Counted
  <2> QED  BY <1>0, <2>1, <2>4 DEF OnlyOwner, Idle
<1>7. CASE CompleteSucceeds(s)
  <2>1. /\ gor[s].kind = "complete" /\ gor[s].task \in Task /\ gor'[s] = Idle
        /\ UNCHANGED <<outstanding, used, running>>
    BY <1>7, Held DEF CompleteSucceeds, At, Holding, End, TypeOK
  <2>2. One(Carries(o, gor[s])) = 1 /\ One(Carries(o, gor'[s])) = 0
    BY <2>1, IdleCarries DEF One, Carries
  <2>3. inbox'[o] = [inbox[o] EXCEPT ![gor[s].task] = @ + 1]
    BY <1>7 DEF CompleteSucceeds
  <2>4. SumFunction(inbox'[o]) = SumFunction(inbox[o]) + 1
    <3>1. inbox[o] \in [Task -> Nat] /\ inbox[o][gor[s].task] \in Nat
      BY <2>1 DEF TypeOK
    <3>2. SumFunction(inbox'[o])
            = SumFunction(inbox[o]) - inbox[o][gor[s].task] + (inbox[o][gor[s].task] + 1)
      BY <2>1, <2>3, <3>1, SumChanges, FiniteAssumption
    <3> QED  BY <1>2, <3>1, <3>2
  <2>5. Openings' = Openings
    BY <2>1, OpeningsKept
  <2>6. Counted(o)'
    BY <1>1, <1>2, <2>1, <2>2, <2>4, <2>5 DEF Counted
  <2> QED  BY <1>0, <2>1, <2>6 DEF OnlyOwner, Idle
<1>8. CASE PromiseContinues(s)
  <2>1. /\ gor[s].kind = "promise" /\ gor[s].node \in Node
        /\ UNCHANGED <<outstanding, used, running, inbox>>
        /\ gor'[s] = IF running[gor[s].node] THEN Executor(gor[s].node) ELSE Idle
    BY <1>8, Held DEF PromiseContinues, At, Holding, TypeOK
  <2>2. One(Carries(o, gor'[s])) <= One(Carries(o, gor[s]))
    BY <1>3, <2>1, IdleCarries DEF One, Carries, OnlyOwner
  <2>3. gor'[s].kind = "exec" => gor'[s].node = o
    BY <2>1 DEF OnlyOwner, Executor, Idle
  <2>4. Openings' = Openings
    BY <2>1, OpeningsKept
  <2>5. Counted(o)'
    BY <1>1, <1>2, <1>3, <2>1, <2>2, <2>4 DEF Counted
  <2> QED  BY <1>0, <2>1, <2>3, <2>5 DEF OnlyOwner
<1> QED  BY <1>4, <1>5, <1>6, <1>7, <1>8 DEF Step

(* What the clients do. *)
LEMMA ClientCounts ==
  ASSUME NEW o \in Node, CountInv(o), NEW n \in Node, NEW t \in Task, Client(n, t)
  PROVE  OnlyOwner(o)' /\ Counted(o)'
<1> USE DEF CountInv
<1>1. /\ SumFunction(outstanding) \in Nat /\ SumFunction(inbox[o]) \in Nat
      /\ Cardinality(Carriers(o)) \in Nat /\ Openings \in Nat
  BY CountsAreNat
<1>2. ASSUME NEW kind \in {"create", "update", "delete", "complete"}, NEW status \in Status,
             NEW previous \in Status, NEW p \in Priority,
             Go(Handler(n, kind, t, status, previous, p)), running' = running
      PROVE  /\ OnlyOwner(o)'
             /\ Cardinality(Carriers(o)') = Cardinality(Carriers(o)) + One(kind = "complete")
  <2> DEFINE h == Handler(n, kind, t, status, previous, p)
  <2>1. h \in Holding /\ h.kind = kind
    BY <1>2, HandlerType DEF Handler, Kinds
  <2>2. One(Carries(o, h)) = One(kind = "complete")
    BY <2>1 DEF One, Carries
  <2> HIDE DEF h
  <2> QED  BY <1>2, <2>1, <2>2, GoCounts DEF h
<1>3. /\ {Unset, "Pending", "Complete", "Deleted"} \subseteq Status
      /\ tasks[t].status \in Status /\ tasks[t].priority \in Priority
  BY DEF TypeOK, Status
<1>4. running' = running /\ inbox' = inbox
  BY DEF Client, CreateTask, UpdateTask, DeleteTask, CompleteTask, CompleteTaskSpuriously
<1>5. ASSUME NEW p \in Priority, CreateTask(n, t, p) PROVE OnlyOwner(o)' /\ Counted(o)'
  <2>1. OnlyOwner(o)' /\ Cardinality(Carriers(o)') = Cardinality(Carriers(o)) + 0
    BY <1>2, <1>3, <1>4, <1>5 DEF CreateTask, One
  <2>2. outstanding' = outstanding /\ Openings' = Openings
    BY <1>5, OpeningsKept DEF CreateTask
  <2> QED  BY <1>1, <1>4, <2>1, <2>2 DEF Counted
<1>6. ASSUME NEW p \in Priority, UpdateTask(n, t, p) PROVE OnlyOwner(o)' /\ Counted(o)'
  <2>1. OnlyOwner(o)' /\ Cardinality(Carriers(o)') = Cardinality(Carriers(o)) + 0
    BY <1>2, <1>3, <1>4, <1>6 DEF UpdateTask, One
  <2>2. outstanding' = outstanding /\ Openings' = Openings
    BY <1>6, OpeningsKept DEF UpdateTask, BudgetNames
  <2> QED  BY <1>1, <1>4, <2>1, <2>2 DEF Counted
<1>7. CASE DeleteTask(n, t)
  <2>1. OnlyOwner(o)' /\ Cardinality(Carriers(o)') = Cardinality(Carriers(o)) + 0
    BY <1>2, <1>3, <1>4, <1>7 DEF DeleteTask, One
  <2>2. outstanding' = outstanding /\ Openings' = Openings
    BY <1>7, OpeningsKept DEF DeleteTask, BudgetNames
  <2> QED  BY <1>1, <1>4, <2>1, <2>2 DEF Counted
<1>8. CASE CompleteTask(n, t)
  <2>1. OnlyOwner(o)' /\ Cardinality(Carriers(o)') = Cardinality(Carriers(o)) + 1
    BY <1>2, <1>3, <1>4, <1>8 DEF CompleteTask, One
  <2>2. Openings' = Openings
    BY <1>8, OpeningsKept DEF CompleteTask
  <2>3. SumFunction(outstanding') = SumFunction(outstanding) - 1
    <3>1. outstanding[t] \in Nat /\ outstanding[t] - 1 \in Nat
      BY <1>8 DEF CompleteTask, TypeOK
    <3>2. outstanding' = [outstanding EXCEPT ![t] = outstanding[t] - 1]
      BY <1>8 DEF CompleteTask
    <3>3. outstanding \in [Task -> Nat]
      BY DEF TypeOK
    <3>4. SumFunction(outstanding')
            = SumFunction(outstanding) - outstanding[t] + (outstanding[t] - 1)
      <4> DEFINE v == outstanding[t] - 1
      <4>1. v \in Nat
        BY <3>1
      <4> HIDE DEF v
      <4>2. SumFunction([outstanding EXCEPT ![t] = v]) = SumFunction(outstanding) - outstanding[t] + v
        BY <3>3, <4>1, SumChanges, FiniteAssumption
      <4> QED  BY <3>2, <4>2, Zenon DEF v
    <3> QED  BY <1>1, <3>1, <3>4
  <2> QED  BY <1>1, <1>4, <2>1, <2>2, <2>3 DEF Counted
<1>9. CASE CompleteTaskSpuriously(n, t)
  <2>1. OnlyOwner(o)' /\ Cardinality(Carriers(o)') = Cardinality(Carriers(o)) + 1
    BY <1>2, <1>3, <1>4, <1>9 DEF CompleteTaskSpuriously, One
  <2>2. outstanding' = outstanding /\ Openings' = Openings + 1
    BY <1>9, SpendOpens DEF CompleteTaskSpuriously, BudgetNames, One
  <2> QED  BY <1>1, <1>4, <2>1, <2>2 DEF Counted
<1> QED  BY <1>5, <1>6, <1>7, <1>8, <1>9 DEF Client

(* A completion that arrives, or is lost. *)
LEMMA ManagerCounts ==
  ASSUME NEW o \in Node, CountInv(o), NEW n \in Node, NEW t \in Task,
         ReceiveCompletion(n, t) \/ EventLost(n, t)
  PROVE  OnlyOwner(o)' /\ Counted(o)'
<1> USE DEF CountInv
<1>1. /\ SumFunction(outstanding) \in Nat /\ SumFunction(inbox[o]) \in Nat
      /\ Cardinality(Carriers(o)) \in Nat /\ Openings \in Nat
  BY CountsAreNat
<1>2. running' = running /\ outstanding' = outstanding /\ Openings' = Openings
  <2>1. UNCHANGED used \/ \E b \in BudgetNames \ {"start", "spurious"} : Spend(b)
    BY DEF ReceiveCompletion, EventLost, BudgetNames
  <2> QED  BY <2>1, OpeningsKept DEF ReceiveCompletion, EventLost
<1>3. SumFunction(inbox'[o]) = SumFunction(inbox[o]) - One(n = o)
  <2>1. inbox[n][t] > 0 /\ inbox' = [inbox EXCEPT ![n][t] = @ - 1]
    BY DEF ReceiveCompletion, EventLost
  <2>2. CASE n = o
    <3>1. inbox[o] \in [Task -> Nat] /\ inbox[o][t] \in Nat /\ inbox[o][t] - 1 \in Nat
      BY <2>1, <2>2 DEF TypeOK
    <3>2. inbox'[o] = [inbox[o] EXCEPT ![t] = inbox[o][t] - 1]
      BY <2>1, <2>2 DEF TypeOK
    <3>3. SumFunction(inbox'[o]) = SumFunction(inbox[o]) - inbox[o][t] + (inbox[o][t] - 1)
      BY <3>1, <3>2, SumChanges, FiniteAssumption
    <3> QED  BY <1>1, <2>2, <3>1, <3>3 DEF One
  <2>3. CASE n # o
    BY <1>1, <2>1, <2>3 DEF One, TypeOK
  <2> QED  BY <2>2, <2>3
<1>4. /\ OnlyOwner(o)' /\ Cardinality(Carriers(o)') \in Nat
      /\ Cardinality(Carriers(o)') <= Cardinality(Carriers(o)) + One(n = o)
  <2>1. CASE gor' = gor
    BY <1>1, <1>2, <2>1 DEF OnlyOwner, Carriers, One
  <2>2. CASE running[n] /\ Go(Executor(n))
    <3>1. n = o /\ Executor(n) \in Asking /\ Executor(n).kind = "exec" /\ Executor(n).node = n
      BY <2>2, ExecutorType DEF OnlyOwner, Executor
    <3>2. One(Carries(o, Executor(n))) = 1 /\ One(n = o) = 1
      BY <3>1 DEF One, Carries
    <3> HIDE DEF CountInv
    <3> QED  BY <1>1, <1>2, <2>2, <3>1, <3>2, GoCounts DEF CountInv
  <2> DEFINE h == [Handler(n, "promise", t, tasks[t].status, tasks[t].status, tasks[t].priority)
                     EXCEPT !.pc = "promise"]
  <2>3. CASE Go(h)
    <3>1. h \in Holding /\ h.kind = "promise" /\ h.node = n
      BY ReceiveType DEF Handler
    <3>2. One(Carries(o, h)) = One(n = o) /\ One(n = o) \in Nat
      BY <3>1 DEF One, Carries
    <3> HIDE DEF h
    <3> QED  BY <1>1, <1>2, <2>3, <3>1, <3>2, GoCounts
  <2> QED  BY <2>1, <2>2, <2>3 DEF ReceiveCompletion, EventLost
<1>5. One(n = o) \in Nat
  BY DEF One
<1> QED  BY <1>1, <1>2, <1>3, <1>4, <1>5 DEF Counted

(* The window opens or closes, and a process dies. *)
LEMMA WindowCounts ==
  ASSUME NEW o \in Node, CountInv(o), Executors \subseteq {o},
         NEW n \in Node, StartWindow(n) \/ StopExecution(n) \/ Crash(n)
  PROVE  OnlyOwner(o)' /\ Counted(o)'
<1> USE DEF CountInv
<1>1. /\ SumFunction(outstanding) \in Nat /\ SumFunction(inbox[o]) \in Nat
      /\ Cardinality(Carriers(o)) \in Nat /\ Openings \in Nat
  BY CountsAreNat
<1>2. CASE StartWindow(n)
  <2>1. n = o /\ Executor(n) \in Asking /\ Executor(n).kind = "exec" /\ Executor(n).node = n
    BY <1>2, ExecutorType DEF StartWindow, Executor
  <2>2. One(Carries(o, Executor(n))) = 1
    BY <2>1 DEF One, Carries
  <2>3. Openings' = Openings + 1
    BY <1>2, SpendOpens DEF StartWindow, BudgetNames, One
  <2>4. Go(Executor(n)) /\ UNCHANGED <<outstanding, inbox, running>>
    BY <1>2 DEF StartWindow
  <2>5. OnlyOwner(o)' /\ Cardinality(Carriers(o)') = Cardinality(Carriers(o)) + 1
    BY <2>1, <2>2, <2>4, GoCounts
  <2> QED  BY <1>1, <2>3, <2>4, <2>5 DEF Counted
<1>3. CASE StopExecution(n)
  <2>1. Openings' = Openings
    BY <1>3, OpeningsKept DEF StopExecution, BudgetNames
  <2> QED  BY <1>3, <2>1 DEF StopExecution, Counted, Carriers, OnlyOwner, TypeOK
<1>4. CASE Crash(n)
  <2>1. Openings' = Openings
    BY <1>4, OpeningsKept DEF Crash, BudgetNames
  <2>2. \A s \in Slot : gor'[s] = gor[s] \/ gor'[s] = Idle
    BY <1>4 DEF Crash
  <2>3. Cardinality(Carriers(o)') \in Nat /\ Cardinality(Carriers(o)') <= Cardinality(Carriers(o))
    BY <2>2, CarriersEnd
  <2>4. SumFunction(inbox'[o]) \in Nat /\ SumFunction(inbox'[o]) <= SumFunction(inbox[o])
    <3>1. CASE n = o
      <4>1. inbox'[o] = [t \in Task |-> 0]
        BY <1>4, <3>1 DEF Crash, TypeOK
      <4> QED  BY <1>1, <4>1, SumOfZeros, FiniteAssumption
    <3>2. CASE n # o
      BY <1>1, <1>4, <3>2 DEF Crash, TypeOK
    <3> QED  BY <3>1, <3>2
  <2>5. OnlyOwner(o)'
    BY <1>4, <2>2 DEF Crash, OnlyOwner, Idle, TypeOK
  <2> QED  BY <1>1, <1>4, <2>1, <2>3, <2>4, <2>5 DEF Crash, Counted
<1> QED  BY <1>2, <1>3, <1>4

LEMMA CountStep ==
  ASSUME NEW o \in Node, CountInv(o), Executors \subseteq {o}, [Next]_vars
  PROVE  CountInv(o)'
<1>1. TypeOK'
  BY StepTypeOK DEF CountInv
<1>2. CASE UNCHANGED vars
  BY <1>1, <1>2 DEF CountInv, OnlyOwner, Counted, Carriers, Openings, vars
<1>3. CASE Next
  <2>1. OnlyOwner(o)' /\ Counted(o)'
    BY <1>3, StepCounts, ClientCounts, ManagerCounts, WindowCounts DEF Next
  <2> QED  BY <1>1, <2>1 DEF CountInv
<1> QED  BY <1>2, <1>3

LEMMA CountInit ==
  ASSUME NEW o \in Node, Init
  PROVE  CountInv(o)
<1>1. TypeOK
  BY InitTypeOK
<1>2. OnlyOwner(o)
  BY DEF Init, OnlyOwner, Idle
<1>3. SumFunction(outstanding) = 0 /\ SumFunction(inbox[o]) = 0
  BY SumOfZeros, FiniteAssumption DEF Init
<1>4. Carriers(o) = {}
  BY DEF Init, Carriers, Carries, Idle
<1>5. Openings = 0
  BY DEF Init, Openings, BudgetNames
<1> QED  BY <1>1, <1>2, <1>3, <1>4, <1>5, FS_EmptySet DEF CountInv, Counted

(* A queue with one owner executes one task at a time for each opening of   *)
(* its window: the executions not reported are never more than the openings *)
(* and the completions nobody waited for, whatever fails or is lost and     *)
(* whichever node dies.                                                     *)
THEOREM SerialEachOpening ==
  ASSUME NEW o \in Node, Executors \subseteq {o}
  PROVE  Spec => []SerialPerOpening
<1>1. Init => CountInv(o)
  BY CountInit
<1>2. CountInv(o) /\ [Next]_vars => CountInv(o)'
  BY CountStep
<1>3. CountInv(o) => SerialPerOpening
  BY CountsAreNat DEF CountInv, Counted, SerialPerOpening, Openings
<1> QED  BY <1>1, <1>2, <1>3, PTL DEF Spec
=============================================================================
