-------------------------- MODULE AsyncQueue_proofs --------------------------
(***************************************************************************)
(* No task of an asynchronous queue is skipped while the queue is open,    *)
(* for any tasks, executors, timers, handlers, slices and windows, and     *)
(* whichever statements fail.                                              *)
(*                                                                         *)
(* NoTaskSkipped speaks of a task whose time has come.  What it rests on   *)
(* is kept for every pending task of the execution now open (Kept): it has *)
(* a timer, a request or a notice about it is on its way, or some executor *)
(* will find it in a scan that is yet to come.  The last is handed on from *)
(* one scan to the next because a scan reaches further than the sleep      *)
(* after it, and from a notice, handled or lost, to the scans because what *)
(* lies beyond the horizon of the last one is before some executor still   *)
(* (HorizonScanned).  A scan that finds a task sets a timer for it unless  *)
(* the map has one: that one is in time, or a notice will replace it       *)
(* (MapServes).                                                            *)
(***************************************************************************)
EXTENDS AsyncQueue, TLAPS, WellFoundedInduction

(* A timer in use is one of a task, for a time of the clock: one that has  *)
(* come if its callback has begun.                                         *)
TimersServe ==
    \A i \in Timer : timer[i].pc # "free" =>
        /\ timer[i].task \in Task /\ timer[i].due \in Times
        /\ timer[i].pc # "armed" => timer[i].due <= now

(* A handler in a request has a task and something to store. *)
CallsServe ==
    \A c \in Handler : call[c].pc # "free" =>
        /\ call[c].task \in Task /\ call[c].kind # "none" /\ call[c].status # "none"
        /\ call[c].kind = "delete" => call[c].status = "Deleted"

(* Nobody has heard of a task that is not stored, but the one who creates it. *)
Unknown ==
    \A t \in Task : tasks[t].status = "none" =>
        /\ \A i \in Timer : timer[i].pc # "free" => timer[i].task # t
        /\ \A r \in rows : r.task # t
        /\ \A l \in Loop : t \notin loop[l].found
        /\ \A kind \in {"create", "update", "delete"} : <<kind, t>> \notin notices
        /\ \A c \in Handler : call[c].pc # "free" /\ call[c].task = t =>
              /\ call[c].pc = "store" /\ call[c].kind = "create"
              /\ \A d \in Handler : call[d].pc # "free" /\ call[d].task = t => d = c

Creating ==
    \A c \in Handler : call[c].pc = "store" /\ call[c].kind = "create" =>
        tasks[call[c].task].status = "none"

(* The row of a pending task is there until its time, or being inserted. *)
Inserting(t) ==
    \E c \in Handler :
        /\ call[c].pc = "insert" /\ call[c].kind # "delete" /\ call[c].task = t
        /\ call[c].status = "Pending" /\ call[c].when = tasks[t].when

PendingHasRow ==
    \A t \in Task : tasks[t].status = "Pending" /\ t \notin dropped /\ now < tasks[t].when =>
        [when |-> tasks[t].when, task |-> t] \in rows \/ Inserting(t)

(* What the map has for a pending task is in time, or will be replaced. *)
Updating(t) ==
    \E c \in Handler :
        call[c].pc \in {"insert", "notify"} /\ call[c].kind = "update" /\ call[c].task = t

MapServes ==
    \A t \in Task : tasks[t].status = "Pending" /\ t \notin dropped /\ map[t] # NoTimer =>
        Serves(map[t], t) \/ <<"update", t>> \in notices \/ Updating(t)

AsleepAhead == \A l \in Loop : loop[l].pc = "asleep" => now <= loop[l].wake

(* Executor l has its next scan before w. *)
ScansBefore(l, w) ==
    \/ loop[l].pc = "launched" /\ now < w
    \/ loop[l].pc \in {"query", "add"} /\ now + Period < w
    \/ loop[l].pc = "asleep" /\ loop[l].wake < w

HorizonScanned ==
    since # Never =>
        \A w \in Times : since < w /\ w < Close => w < horizon \/ \E l \in Loop : ScansBefore(l, w)

(* Executor l sets a timer for t, in this scan or in a later one. *)
WillFind(l, t) ==
    \/ loop[l].pc \in {"launched", "query"} /\ now < tasks[t].when
    \/ loop[l].pc = "add" /\ t \in loop[l].found /\ now < tasks[t].when
    \/ ScansBefore(l, tasks[t].when)

Kept(t) == HasTimer(t) \/ Announced(t) \/ UnderWay(t) \/ \E l \in Loop : WillFind(l, t)

Concerns(t) ==
    /\ alive /\ since # Never
    /\ tasks[t].status = "Pending" /\ t \notin dropped
    /\ since < tasks[t].when /\ tasks[t].when < Close

PendingKept == \A t \in Task : Concerns(t) => Kept(t)

Facts == TypeOK /\ TimersServe /\ CallsServe /\ MapHoldsLive

IInv == /\ Facts /\ Unknown /\ Creating /\ PendingHasRow /\ MapServes
        /\ AsleepAhead /\ HorizonScanned /\ PendingKept

-----------------------------------------------------------------------------
(* The types, one by one. *)
TimerType == [pc : {"free", "armed", "called", "stored", "saved", "ended"},
              task : Task \cup {Never}, as : Status, due : Times \cup {Never}]
LoopType ==
    [pc : {"none", "launched", "query", "add", "asleep"}, wake : Int, found : SUBSET Task]
CallType == [pc : {"free", "store", "insert", "notify"},
             kind : {"none", "create", "update", "delete"},
             task : Task \cup {Never}, status : Status, when : Times]
RowType == [when : Times, task : Task]
TaskType == [status : Status, when : Times]
NoticeType == {"create", "update", "delete"} \X Task

LEMMA Types ==
    TypeOK <=> /\ now \in Times /\ horizon \in Int /\ since \in Times \cup {Never}
               /\ tasks \in [Task -> TaskType] /\ rows \subseteq RowType
               /\ map \in [Task -> Timer \cup {NoTimer}]
               /\ timer \in [Timer -> TimerType] /\ loop \in [Loop -> LoopType]
               /\ call \in [Handler -> CallType] /\ notices \subseteq NoticeType
               /\ alive \in BOOLEAN /\ used \in [Kinds -> Nat] /\ dropped \subseteq Task
BY DEF TypeOK, TimerType, LoopType, CallType, RowType, TaskType, NoticeType

(* Numbers the provers need to know of. *)
LEMMA Numbers ==
    /\ Times \subseteq Nat /\ 0 \in Times
    /\ NoTimer \notin Timer /\ Never \notin Nat /\ Never \in Int
    /\ Period \in Nat /\ Horizon \in Nat /\ 0 < Period /\ Period < Horizon
    /\ Close \in Nat /\ NextClose \in Nat /\ Close < NextClose
BY NamesAssumption, PeriodAssumption, CloseAssumption DEF Times, NoTimer, Never

LEMMA FreeType == Free \in TimerType /\ Free.pc = "free"
BY DEF Free, Status, TimerType

LEMMA NoCallType == NoCall \in CallType /\ NoCall.pc = "free"
BY Numbers DEF NoCall, Status, CallType

(* The least of the free timers. *)
LEMMA LeastExists ==
    ASSUME NEW T, T \subseteq Nat, T # {}
    PROVE  \E x \in T : \A y \in T : x <= y
<1> DEFINE Less == {ss \in Nat \X Nat : ss[1] < ss[2]}
<1>1. IsWellFoundedOn(Less, Nat)
  BY NatLessThanWellFounded DEF OpToRel
<1>2. PICK x \in T : \A y \in T : ~ (<<y, x>> \in Less)
  <2> HIDE DEF Less
  <2> QED
    BY <1>1, WFMin
<1>3. ASSUME NEW y \in T PROVE x <= y
  <2>1. x \in Nat /\ y \in Nat
    OBVIOUS
  <2>2. y < x => <<y, x>> \in Less
    BY <2>1
  <2>3. ~ (y < x)
    <3> HIDE DEF Less
    <3> QED
      BY <1>2, <2>2
  <2> QED
    BY <2>1, <2>3
<1> QED
  BY <1>3

LEMMA FirstFreeIsFree ==
    ASSUME FreeTimers # {}
    PROVE  FirstFree \in Timer /\ timer[FirstFree].pc = "free"
<1>1. FreeTimers \subseteq Nat
  BY NamesAssumption DEF FreeTimers
<1>2. \E i \in FreeTimers : \A j \in FreeTimers : i <= j
  BY <1>1, LeastExists
<1>3. FirstFree \in FreeTimers
  BY <1>2 DEF FirstFree
<1> QED
  BY <1>3 DEF FreeTimers

(* A scan reaches beyond the sleep that follows it, unless the window ends. *)
LEMMA HorizonOfAScan ==
    ASSUME now \in Times
    PROVE  /\ TimeForQuery \in Int
           /\ \A w \in Times : w < Close =>
                 w < TimeForQuery \/ (now < w /\ now + Period < w)
<1>1. now \in Nat /\ Times \subseteq Nat
  BY Numbers
<1> QED
  BY <1>1, Numbers DEF TimeForQuery, NextEndTime

-----------------------------------------------------------------------------
LEMMA InitIInv == Init => IInv
<1> SUFFICES ASSUME Init PROVE IInv
  OBVIOUS
<1>1. TypeOK
  <2>1. tasks \in [Task -> TaskType] /\ loop \in [Loop -> LoopType]
    BY Numbers DEF Init, Status, NotBegun, TaskType, LoopType
  <2>2. now \in Times /\ horizon \in Int /\ since \in Times \cup {Never}
    BY Numbers DEF Init
  <2>3. used \in [Kinds -> Nat]
    BY DEF Init
  <2>4. timer \in [Timer -> TimerType] /\ call \in [Handler -> CallType]
    BY FreeType, NoCallType DEF Init
  <2>5. rows \subseteq RowType /\ alive \in BOOLEAN /\ notices \subseteq NoticeType
        /\ map \in [Task -> Timer \cup {NoTimer}] /\ dropped \subseteq Task
    BY DEF Init
  <2> QED
    BY <2>1, <2>2, <2>3, <2>4, <2>5, Types
<1>2. TimersServe /\ CallsServe /\ MapHoldsLive /\ Unknown /\ Creating
  BY DEF Init, TimersServe, CallsServe, MapHoldsLive, Unknown, Creating, Free, NoCall, NotBegun
<1>3. PendingHasRow /\ MapServes /\ AsleepAhead
  BY DEF Init, PendingHasRow, MapServes, AsleepAhead, NotBegun
<1>4. HorizonScanned /\ PendingKept
  BY DEF Init, HorizonScanned, PendingKept, Concerns
<1> QED
  BY <1>1, <1>2, <1>3, <1>4 DEF IInv, Facts

-----------------------------------------------------------------------------
(***************************************************************************)
(* The steps by who takes them, failures among the others, and what each   *)
(* leaves alone.                                                           *)
(***************************************************************************)
Scans(l) == Begin(l) \/ Wake(l)
Finds(l) == Query(l) \/ QueryFails(l)
Takes(l, t) == Add(l, t) \/ AddFails(l, t)

ExecutorStep(l) == Scans(l) \/ Finds(l) \/ (\E t \in Task : Takes(l, t)) \/ Sleep(l)

CallbackStep(i) == Callback(i) \/ SaveFails(i)
HandlerStep(c) == Handle(c) \/ SkipRow(c) \/ HandlerFails(c)
ClientStep(c) == \E t \in Task : Client(c, t)
ManagerStep(t) ==
    Manage(t) \/ UpdatedFails(t) \/ \E kind \in {"create", "update", "delete"} : NoticeLost(kind, t)

LEMMA Steps ==
    Next => \/ \E l \in Loop : Launch(l) \/ ExecutorStep(l)
            \/ \E i \in Timer : CallbackStep(i)
            \/ \E c \in Handler : HandlerStep(c) \/ ClientStep(c)
            \/ \E t \in Task : ManagerStep(t)
            \/ StopExecution \/ Tick
BY DEF Next, Execute, Fails, ExecutorStep, Scans, Finds, Takes, CallbackStep, HandlerStep,
       ClientStep, ManagerStep

LEMMA LaunchLeaves ==
    ASSUME NEW l \in Loop, Launch(l)
    PROVE  UNCHANGED <<now, tasks, rows, map, timer, call, notices, alive, horizon, dropped>>
BY DEF Launch, tables, clients

LEMMA ExecutorLeaves ==
    ASSUME NEW l \in Loop, ExecutorStep(l)
    PROVE  /\ UNCHANGED <<now, tasks, rows, call, notices, alive, since>>
           /\ dropped \subseteq dropped'
           /\ ~Scans(l) => horizon' = horizon
<1>1. CASE Scans(l)
  BY <1>1 DEF Scans, Begin, Wake, tables, clients
<1>2. CASE Finds(l)
  BY <1>2 DEF Finds, Query, QueryFails, Miss, tables, clients
<1>3. CASE \E t \in Task : Takes(l, t)
  BY <1>3 DEF Takes, Add, AddFails, Miss, tables, clients
<1>4. CASE Sleep(l)
  BY <1>4 DEF Sleep, tables, clients
<1> QED
  BY <1>1, <1>2, <1>3, <1>4 DEF ExecutorStep

LEMMA CallbackLeaves ==
    ASSUME NEW i \in Timer, CallbackStep(i)
    PROVE  /\ UNCHANGED <<now, loop, horizon, call, notices, since, alive>>
           /\ dropped \subseteq dropped'
BY DEF CallbackStep, Callback, Fire, SaveTask, SaveFails, SaveRow, Promise, Forget, tables, clients

LEMMA HandlerLeaves ==
    ASSUME NEW c \in Handler, HandlerStep(c)
    PROVE  UNCHANGED <<now, map, timer, loop, horizon, since, alive>>
BY DEF HandlerStep, Handle, Store, InsertRow, SendNotice, SkipRow, HandlerFails, tables, clients

LEMMA ClientLeaves ==
    ASSUME NEW c \in Handler, ClientStep(c)
    PROVE  UNCHANGED <<now, tasks, rows, map, timer, loop, notices, horizon, since, alive, dropped>>
BY DEF ClientStep, Client, CreateTask, UpdateTask, DeleteTask, Ask, tables, clients

LEMMA ManagerLeaves ==
    ASSUME NEW t \in Task, ManagerStep(t)
    PROVE  /\ UNCHANGED <<now, tasks, rows, loop, call, horizon, since>>
           /\ dropped \subseteq dropped'
<1>1. \E kind \in {"create", "update", "delete"} : Receive(kind, t)
  BY DEF ManagerStep, Manage, Created, Updated, Deleted, UpdatedFails, NoticeLost
<1>2. UNCHANGED <<now, tasks, rows, loop, call, horizon, since>>
  BY <1>1 DEF Receive, tables
<1>3. dropped \subseteq dropped'
  BY DEF ManagerStep, Manage, Created, Updated, Deleted, UpdatedFails, NoticeLost, Remove, Untold
<1> QED
  BY <1>2, <1>3

LEMMA StopLeaves ==
    ASSUME StopExecution
    PROVE  UNCHANGED <<now, tasks, rows, loop, call, notices, horizon, dropped, alive>> /\ since' = Never
BY DEF StopExecution, tables, clients

LEMMA TickLeaves ==
    ASSUME Tick
    PROVE  /\ UNCHANGED <<tasks, rows, map, timer, loop, call, notices, horizon, since, dropped, alive, used>>
           /\ now' = now + 1
BY DEF Tick, tables, clients

(***************************************************************************)
(* The steps that move timers: each sets timer and map to one of these.    *)
(***************************************************************************)
ArmedFor(t) ==
    [pc |-> "armed", task |-> t, as |-> tasks[t].status, due |-> tasks[t].when]

LEMMA ArmedType ==
    ASSUME TypeOK, NEW t \in Task
    PROVE  /\ ArmedFor(t) \in TimerType
           /\ ArmedFor(t).pc = "armed" /\ ArmedFor(t).task = t
           /\ ArmedFor(t).due = tasks[t].when /\ ArmedFor(t).due \in Times
BY Types DEF ArmedFor, TimerType, TaskType

(* Arming a free timer for t and entering it in the map. *)
Arms(t) ==
    \E i \in Timer :
        /\ timer[i].pc = "free"
        /\ timer' = [timer EXCEPT ![i] = ArmedFor(t)]
        /\ map' = [map EXCEPT ![t] = i]

LEMMA AddArms ==
    ASSUME NEW t \in Task, AddToTimerMap(t)
    PROVE  Arms(t)
BY FirstFreeIsFree DEF AddToTimerMap, Arms, ArmedFor

(* Stopping the timer of t that the map holds, and arming another. *)
Rearms(t) ==
    LET moved == [timer EXCEPT ![map[t]] = Stopped(map[t])]
    IN  /\ map[t] # NoTimer
        /\ \E i \in Timer :
              /\ moved[i].pc = "free"
              /\ timer' = [moved EXCEPT ![i] = ArmedFor(t)]
              /\ map' = [map EXCEPT ![t] = i]

Moves(i, from, to) == timer[i].pc \in from /\ timer' = [timer EXCEPT ![i].pc = to] /\ UNCHANGED map

SameTimers == UNCHANGED <<timer, map>>

TimerSteps ==
    \/ SameTimers
    \/ map' = [t \in Task |-> NoTimer] /\ UNCHANGED timer
    \/ \E t \in Task : Arms(t) \/ Rearms(t) \/ Remove(t)
    \/ \E i \in Timer : \/ Moves(i, {"armed"}, "called") /\ timer[i].due <= now
                        \/ Moves(i, {"called"}, "stored")
                        \/ Moves(i, {"called", "stored"}, "saved")
                        \/ Moves(i, {"saved"}, "ended")
                        \/ Forget(i)
    \/ StopExecution

LEMMA StepMovesTimers == Next => TimerSteps
<1> SUFFICES ASSUME Next PROVE TimerSteps
  OBVIOUS
<1>1. ASSUME NEW l \in Loop, ExecutorStep(l) PROVE TimerSteps
  <2>1. ASSUME NEW t \in Task, Takes(l, t) PROVE TimerSteps
    BY <2>1, AddArms DEF Takes, Add, AddFails, TimerSteps, SameTimers
  <2>2. CASE Finds(l) \/ Sleep(l) \/ Wake(l)
    BY <2>2 DEF Finds, Query, QueryFails, Sleep, Wake, TimerSteps, SameTimers
  <2>3. CASE Begin(l)
    BY <2>3 DEF Begin, TimerSteps
  <2> QED
    BY <1>1, <2>1, <2>2, <2>3 DEF ExecutorStep, Scans
<1>2. ASSUME NEW t \in Task, ManagerStep(t) PROVE TimerSteps
  <2>1. CASE Created(t)
    BY <2>1, AddArms DEF Created, TimerSteps, SameTimers
  <2>2. CASE Updated(t)
    <3>1. CASE map[t] = NoTimer
      BY <2>2, <3>1 DEF Updated, TimerSteps, SameTimers
    <3>2. CASE map[t] # NoTimer
      <4>1. Rearms(t)
        BY <2>2, <3>2 DEF Updated, Rearms, ArmedFor
      <4> QED
        BY <4>1 DEF TimerSteps
    <3> QED
      BY <3>1, <3>2
  <2>3. CASE Deleted(t) \/ UpdatedFails(t)
    BY <2>3 DEF Deleted, UpdatedFails, TimerSteps
  <2>4. ASSUME NEW kind \in {"create", "update", "delete"}, NoticeLost(kind, t) PROVE TimerSteps
    BY <2>4 DEF NoticeLost, TimerSteps, SameTimers
  <2> QED
    BY <1>2, <2>1, <2>2, <2>3, <2>4 DEF ManagerStep, Manage
<1>3. ASSUME NEW i \in Timer, CallbackStep(i) PROVE TimerSteps
  BY <1>3 DEF CallbackStep, Callback, Fire, SaveTask, SaveFails, SaveRow, Promise, Moves, TimerSteps
<1>4. ASSUME NEW c \in Handler, HandlerStep(c) \/ ClientStep(c) PROVE SameTimers
  BY <1>4, HandlerLeaves, ClientLeaves DEF SameTimers
<1>5. ASSUME NEW l \in Loop, Launch(l) PROVE SameTimers
  BY <1>5, LaunchLeaves DEF SameTimers
<1>6. ASSUME Tick PROVE SameTimers
  BY <1>6, TickLeaves DEF SameTimers
<1> QED
  BY <1>1, <1>2, <1>3, <1>4, <1>5, <1>6, Steps DEF TimerSteps

(***************************************************************************)
(* Types, timers and the map.                                              *)
(***************************************************************************)
LEMMA StoppedType ==
    ASSUME TypeOK, NEW i \in Timer
    PROVE  /\ Stopped(i) \in TimerType
           /\ Stopped(i).pc # "free" => Stopped(i) = timer[i]
           /\ Stopped(i).pc # "armed"
           /\ timer[i].pc \notin {"free", "armed"} => Stopped(i) = timer[i]
BY FreeType, Types DEF Stopped, TimerType

LEMMA NowGrows ==
    ASSUME TypeOK, Next
    PROVE  now' \in Times /\ now <= now' /\ (Tick \/ now' = now)
<1>0. now \in Times /\ now \in Nat
  BY Types, Numbers
<1>1. Tick => now' \in Times /\ now <= now'
  BY <1>0, NamesAssumption DEF Tick, Times
<1>2. Tick \/ now' = now
  BY Steps, LaunchLeaves, ExecutorLeaves, CallbackLeaves, HandlerLeaves, ClientLeaves,
     ManagerLeaves, StopLeaves
<1> QED
  BY <1>0, <1>1, <1>2

(* The timer an event of one leaves behind: served before or armed for a task. *)
Held(i) ==
    /\ timer'[i].task \in Task /\ timer'[i].due \in Times
    /\ timer'[i].pc # "armed" => timer'[i].due <= now

LEMMA StepTimers ==
    ASSUME TypeOK, TimersServe, MapHoldsLive, TimerSteps
    PROVE  /\ timer' \in [Timer -> TimerType]
           /\ map' \in [Task -> Timer \cup {NoTimer}]
           /\ \A i \in Timer : timer'[i].pc # "free" => Held(i)
           /\ MapHoldsLive'
<1> DEFINE Goal == /\ timer' \in [Timer -> TimerType]
                   /\ map' \in [Task -> Timer \cup {NoTimer}]
                   /\ \A i \in Timer : timer'[i].pc # "free" => Held(i)
                   /\ MapHoldsLive'
<1>t. /\ timer \in [Timer -> TimerType] /\ map \in [Task -> Timer \cup {NoTimer}]
      /\ NoTimer \notin Timer
  BY Types, Numbers
<1> USE DEF TimersServe, MapHoldsLive, Held
<1>1. ASSUME SameTimers PROVE Goal
  BY <1>1, <1>t DEF SameTimers
<1>2. ASSUME NEW t \in Task, Arms(t) PROVE Goal
  <2>1. PICK i \in Timer : /\ timer[i].pc = "free"
                           /\ timer' = [timer EXCEPT ![i] = ArmedFor(t)]
                           /\ map' = [map EXCEPT ![t] = i]
    BY <1>2 DEF Arms
  <2> QED
    BY <1>t, <2>1, ArmedType
<1>3. ASSUME NEW t \in Task, Rearms(t) PROVE Goal
  <2> DEFINE moved == [timer EXCEPT ![map[t]] = Stopped(map[t])]
  <2>1. PICK i \in Timer : /\ moved[i].pc = "free"
                           /\ timer' = [moved EXCEPT ![i] = ArmedFor(t)]
                           /\ map' = [map EXCEPT ![t] = i]
    BY <1>3 DEF Rearms
  <2>2. map[t] \in Timer /\ timer[map[t]].task = t
    BY <1>3, <1>t DEF Rearms
  <2>3. moved \in [Timer -> TimerType]
    BY <1>t, <2>2, StoppedType
  <2>4. \A j \in Timer : moved[j].pc # "free" => moved[j] = timer[j]
    BY <1>t, <2>2, StoppedType
  <2>5. \A u \in Task : u # t /\ map[u] # NoTimer =>
          map[u] # map[t] /\ moved[map[u]] = timer[map[u]] /\ map[u] # i
    BY <1>t, <2>1, <2>2
  <2>6. timer' \in [Timer -> TimerType] /\ map' \in [Task -> Timer \cup {NoTimer}]
    <3> HIDE DEF moved
    <3> QED
      BY <1>t, <2>1, <2>3, ArmedType
  <2>7. \A j \in Timer : timer'[j].pc # "free" => Held(j)
    <3> HIDE DEF moved
    <3> QED
      BY <1>t, <2>1, <2>3, <2>4, ArmedType
  <2>8. MapHoldsLive'
    <3> HIDE DEF moved
    <3> QED
      BY <1>t, <2>1, <2>3, <2>5, ArmedType
  <2> QED
    BY <2>6, <2>7, <2>8
<1>4. ASSUME map' = [t \in Task |-> NoTimer], UNCHANGED timer PROVE Goal
  BY <1>4, <1>t
<1>5. ASSUME NEW i \in Timer,
             NEW from \in SUBSET {"armed", "called", "stored", "saved"},
             NEW to \in {"called", "stored", "saved", "ended"},
             Moves(i, from, to), timer[i].due <= now
      PROVE  Goal
  <2>1. timer' = [timer EXCEPT ![i].pc = to] /\ timer[i].pc # "free" /\ UNCHANGED map
    BY <1>5 DEF Moves
  <2> QED
    BY <1>t, <1>5, <2>1 DEF TimerType
<1>6. ASSUME NEW i \in Timer, Forget(i) PROVE Goal
  <2>1. /\ timer[i].pc \in {"saved", "ended"}
        /\ timer' = [timer EXCEPT ![i] = Free]
        /\ map' = [map EXCEPT ![timer[i].task] = NoTimer]
    BY <1>6 DEF Forget
  <2> QED
    BY <1>t, <2>1, FreeType
<1>7. ASSUME StopExecution PROVE Goal
  <2>1. \A i \in Timer : timer'[i] \in {timer[i], Stopped(i)}
    BY <1>7 DEF StopExecution
  <2>2. timer' \in [Timer -> TimerType]
    BY <1>7, <1>t, StoppedType DEF StopExecution
  <2>3. map' \in [Task -> Timer \cup {NoTimer}] /\ \A t \in Task : map'[t] = NoTimer
    BY <1>7 DEF StopExecution
  <2> QED
    BY <1>t, <2>1, <2>2, <2>3, StoppedType
<1>8. ASSUME NEW t \in Task, Remove(t) PROVE Goal
  <2>1. CASE map[t] = NoTimer
    BY <1>8, <1>t, <2>1 DEF Remove
  <2>2. CASE map[t] # NoTimer
    <3>1. /\ timer' = [timer EXCEPT ![map[t]] = Stopped(map[t])]
          /\ map' = [map EXCEPT ![t] = NoTimer]
      BY <1>8, <2>2 DEF Remove
    <3>2. map[t] \in Timer /\ timer[map[t]].task = t
      BY <1>t, <2>2
    <3>3. \A u \in Task : u # t /\ map[u] # NoTimer => map[u] # map[t]
      BY <1>t, <3>2
    <3> QED
      BY <1>t, <3>1, <3>2, <3>3, StoppedType
  <2> QED
    BY <2>1, <2>2
<1>9. ASSUME NEW i \in Timer, NEW from \in SUBSET {"called", "stored", "saved"},
             NEW to \in {"stored", "saved", "ended"}, Moves(i, from, to)
      PROVE  Goal
  <2>1. timer[i].due <= now
    BY <1>9, <1>t DEF Moves
  <2> QED
    BY <1>5, <1>9, <2>1
<1>10. Goal
  <2> HIDE DEF Goal
  <2> QED
    BY <1>1, <1>2, <1>3, <1>4, <1>5, <1>6, <1>7, <1>8, <1>9 DEF TimerSteps
<1> QED
  BY <1>10

(* The executors. *)
LEMMA MatchingTasks == TypeOK => Matching \subseteq Task
BY Types DEF Matching, RowType

LEMMA StepLoops ==
    ASSUME TypeOK, Next
    PROVE  loop' \in [Loop -> LoopType]
<1>t. loop \in [Loop -> LoopType] /\ now \in Nat /\ Period \in Nat
  BY Types, Numbers
<1>1. ASSUME NEW l \in Loop, Launch(l) \/ ExecutorStep(l) PROVE loop' \in [Loop -> LoopType]
  <2>1. CASE Launch(l) \/ Begin(l)
    BY <2>1, <1>t DEF Launch, Begin, LoopType
  <2>2. CASE Finds(l)
    <3>1. PICK found \in SUBSET Matching :
             loop' = [loop EXCEPT ![l].pc = "add", ![l].found = found]
      BY <2>2 DEF Finds, Query, QueryFails
    <3> QED
      BY <1>t, <3>1, MatchingTasks DEF LoopType
  <2>3. CASE \E t \in Task : Takes(l, t)
    BY <2>3, <1>t DEF Takes, Add, AddFails, LoopType
  <2>4. CASE Sleep(l)
    BY <2>4, <1>t DEF Sleep, Asleep, LoopType
  <2>5. CASE Wake(l)
    BY <2>5, <1>t, Numbers DEF Wake, Asleep, LoopType
  <2> QED
    BY <1>1, <2>1, <2>2, <2>3, <2>4, <2>5 DEF ExecutorStep, Scans
<1> QED
  BY <1>t, <1>1, Steps, CallbackLeaves, HandlerLeaves, ClientLeaves, ManagerLeaves,
     StopLeaves, TickLeaves

(* The rest of the state, each part at the steps that move it. *)
LEMMA RowOfType ==
    ASSUME NEW status, NEW w, NEW t
    PROVE  /\ RowOf(status, w, t) \subseteq {[when |-> w, task |-> t]}
           /\ status = "Pending" => RowOf(status, w, t) = {[when |-> w, task |-> t]}
BY DEF RowOf

LEMMA FinishStores ==
    ASSUME TypeOK, TimersServe, NEW i \in Timer, timer[i].pc # "free", Finish(i)
    PROVE  /\ tasks' \in [Task -> TaskType] /\ tasks'[timer[i].task].status = "Finished"
           /\ \A t \in Task : t # timer[i].task => tasks'[t] = tasks[t]
<1>1. timer[i].task \in Task /\ [status |-> "Finished", when |-> timer[i].due] \in TaskType
  BY DEF TimersServe, TaskType, Status
<1>2. tasks \in [Task -> TaskType]
  BY Types
<1> QED
  BY <1>1, <1>2 DEF Finish

LEMMA StoreStores ==
    ASSUME TypeOK, CallsServe, NEW c \in Handler, Store(c)
    PROVE  /\ call[c].task \in Task /\ call[c].pc = "store"
           /\ tasks' \in [Task -> TaskType] /\ tasks'[call[c].task].status = call[c].status
           /\ call[c].kind # "delete" => tasks'[call[c].task].when = call[c].when
           /\ \A t \in Task : t # call[c].task => tasks'[t] = tasks[t]
           /\ call' = [call EXCEPT ![c].pc = "insert"]
           /\ UNCHANGED <<rows, notices>>
           /\ call[c].kind # "delete" => dropped' = dropped \ {call[c].task}
           /\ call[c].kind = "delete" => dropped' = dropped
<1>1. call[c].pc = "store" /\ call[c].task \in Task /\ call[c].status \in Status /\ call[c].when \in Times
  BY Types DEF Store, CallsServe, CallType
<1>2. PICK w \in Times : /\ tasks' = [tasks EXCEPT ![call[c].task] = [status |-> call[c].status, when |-> w]]
                         /\ call[c].kind # "delete" => w = call[c].when
  <2>1. tasks[call[c].task].when \in Times
    BY <1>1, Types DEF TaskType
  <2> QED
    BY <1>1, <2>1, Types DEF Store, TaskType
<1>3. tasks' \in [Task -> TaskType]
  BY <1>1, <1>2, Types DEF TaskType
<1> QED
  BY <1>1, <1>2, <1>3, Types DEF Store

(* A handler that fails loses its task, at most. *)
LEMMA FailureDrops ==
    ASSUME TypeOK, NEW c \in Handler, HandlerFails(c)
    PROVE  /\ dropped \subseteq dropped' /\ dropped' \subseteq dropped \cup {call[c].task}
           /\ call[c].pc = "insert" => call[c].task \in dropped'
           /\ call[c].pc = "notify" => Untold(call[c].task)
<1>1. CASE call[c].pc = "store"
  BY <1>1 DEF HandlerFails
<1>2. CASE call[c].pc = "insert"
  BY <1>2 DEF HandlerFails
<1>3. CASE call[c].pc = "notify"
  BY <1>3 DEF HandlerFails, Untold
<1>4. call[c].pc \in {"store", "insert", "notify"}
  BY Types DEF HandlerFails, CallType
<1> QED
  BY <1>1, <1>2, <1>3, <1>4

LEMMA StepTables ==
    ASSUME TypeOK, TimersServe, CallsServe, Next
    PROVE  /\ tasks' \in [Task -> TaskType] /\ rows' \subseteq RowType
           /\ notices' \subseteq NoticeType /\ dropped' \subseteq Task
<1> DEFINE Goal == /\ tasks' \in [Task -> TaskType] /\ rows' \subseteq RowType
                   /\ notices' \subseteq NoticeType /\ dropped' \subseteq Task
<1>t. /\ tasks \in [Task -> TaskType] /\ rows \subseteq RowType
      /\ notices \subseteq NoticeType /\ dropped \subseteq Task
  BY Types
<1>1. ASSUME UNCHANGED <<tasks, rows, notices, dropped>> PROVE Goal
  BY <1>1, <1>t
<1>2. ASSUME NEW l \in Loop, ExecutorStep(l) PROVE Goal
  <2>1. UNCHANGED <<tasks, rows, notices>>
    BY <1>2, ExecutorLeaves
  <2>2. dropped' \subseteq Task
    <3>1. ASSUME NEW missed \in SUBSET Task, Miss(missed) PROVE dropped' \subseteq Task
      BY <1>t, <3>1 DEF Miss
    <3>2. CASE Finds(l)
      BY <1>t, <3>1, <3>2, MatchingTasks DEF Finds, Query, QueryFails
    <3>3. CASE \E t \in Task : Takes(l, t)
      BY <1>t, <3>1, <3>3 DEF Takes, Add, AddFails
    <3>4. CASE Scans(l) \/ Sleep(l)
      BY <1>t, <3>4 DEF Scans, Begin, Wake, Sleep
    <3> QED
      BY <1>2, <3>2, <3>3, <3>4 DEF ExecutorStep
  <2> QED
    BY <1>t, <2>1, <2>2
<1>3. ASSUME NEW i \in Timer, CallbackStep(i) PROVE Goal
  <2>0. timer[i].pc # "free" /\ timer[i].task \in Task /\ timer[i].due \in Times
    BY <1>3 DEF CallbackStep, Callback, Fire, SaveTask, SaveFails, SaveRow, Promise, Forget, TimersServe
  <2>4. UNCHANGED notices
    BY <1>3, CallbackLeaves
  <2>1. CASE SaveTask(i) \/ Promise(i)
    BY <1>t, <2>0, <2>1, <2>4, FinishStores DEF SaveTask, Promise
  <2>2. CASE SaveRow(i)
    BY <1>t, <2>2, <2>4 DEF SaveRow
  <2>3. CASE Fire(i) \/ Forget(i) \/ SaveFails(i)
    BY <1>t, <2>0, <2>3, <2>4 DEF Fire, Forget, SaveFails, tables
  <2> QED
    BY <1>3, <1>t, <2>1, <2>2, <2>3 DEF CallbackStep, Callback
<1>4. ASSUME NEW c \in Handler, HandlerStep(c) PROVE Goal
  <2>0. /\ call[c].task \in Task /\ call[c].when \in Times
        /\ call[c].kind \in {"create", "update", "delete"}
    <3>1. call[c].pc # "free" /\ call[c] \in CallType
      BY <1>4, Types DEF HandlerStep, Handle, Store, InsertRow, SendNotice, SkipRow, HandlerFails
    <3> QED
      BY <3>1 DEF CallsServe, CallType
  <2>1. CASE Store(c)
    BY <1>t, <2>1, StoreStores
  <2>2. CASE InsertRow(c)
    <3>1. [when |-> call[c].when, task |-> call[c].task] \in RowType
      BY <2>0 DEF RowType
    <3>2. rows' = rows \cup RowOf(call[c].status, call[c].when, call[c].task)
      BY <2>2 DEF InsertRow
    <3>3. rows' \subseteq RowType
      BY <1>t, <3>1, <3>2, RowOfType
    <3> QED
      BY <1>t, <2>2, <3>3 DEF InsertRow
  <2>3. CASE SendNotice(c)
    BY <1>t, <2>0, <2>3 DEF SendNotice, NoticeType, tables
  <2>4. CASE SkipRow(c) \/ HandlerFails(c)
    <3>1. dropped' \subseteq dropped \cup {call[c].task}
      BY <2>4, FailureDrops DEF SkipRow
    <3> QED
      BY <1>t, <2>0, <2>4, <3>1 DEF SkipRow, HandlerFails, tables
  <2> QED
    BY <1>4, <2>1, <2>2, <2>3, <2>4 DEF HandlerStep, Handle
<1>5. ASSUME NEW t \in Task, ManagerStep(t) PROVE Goal
  <2>1. UNCHANGED <<tasks, rows>> /\ notices' \subseteq notices
    BY <1>5, ManagerLeaves
       DEF ManagerStep, Manage, Created, Updated, Deleted, UpdatedFails, NoticeLost, Receive
  <2>2. dropped' \subseteq dropped \cup {t}
    BY <1>5 DEF ManagerStep, Manage, Created, Updated, Deleted, UpdatedFails, NoticeLost, Remove, Untold
  <2> QED
    BY <1>t, <2>1, <2>2
<1>6. Goal
  <2> HIDE DEF Goal
  <2> QED
    BY <1>1, <1>2, <1>3, <1>4, <1>5, Steps, LaunchLeaves, ClientLeaves, StopLeaves, TickLeaves
<1> QED
  BY <1>6

LEMMA StepCalls ==
    ASSUME TypeOK, CallsServe, Next
    PROVE  call' \in [Handler -> CallType] /\ CallsServe'
<1>t. call \in [Handler -> CallType] /\ tasks \in [Task -> TaskType]
  BY Types
<1>1. ASSUME UNCHANGED call PROVE call' \in [Handler -> CallType] /\ CallsServe'
  BY <1>1, <1>t DEF CallsServe
<1>2. ASSUME NEW c \in Handler, HandlerStep(c) PROVE call' \in [Handler -> CallType] /\ CallsServe'
  <2>1. \/ \E pc \in {"insert", "notify"} : call' = [call EXCEPT ![c].pc = pc]
        \/ call' = [call EXCEPT ![c] = NoCall]
    BY <1>2 DEF HandlerStep, Handle, Store, InsertRow, SendNotice, SkipRow, HandlerFails
  <2>2. call[c].pc # "free"
    BY <1>2 DEF HandlerStep, Handle, Store, InsertRow, SendNotice, SkipRow, HandlerFails
  <2> QED
    BY <1>t, <2>1, <2>2, NoCallType DEF CallsServe, CallType
<1>3. ASSUME NEW c \in Handler, ClientStep(c) PROVE call' \in [Handler -> CallType] /\ CallsServe'
  <2>1. PICK kind \in {"create", "update", "delete"}, t \in Task,
             status \in Status \ {"none"}, w \in Times :
           /\ call' = [call EXCEPT ![c] = [pc |-> "store", kind |-> kind, task |-> t,
                                           status |-> status, when |-> w]]
           /\ kind = "delete" => status = "Deleted"
    BY <1>3, <1>t, WrittenAssumption
       DEF ClientStep, Client, CreateTask, UpdateTask, DeleteTask, Ask, TaskType, Status
  <2> QED
    BY <1>t, <2>1 DEF CallsServe, CallType
<1> QED
  BY <1>1, <1>2, <1>3, Steps, LaunchLeaves, ExecutorLeaves, CallbackLeaves, ManagerLeaves,
     StopLeaves, TickLeaves

LEMMA StepScalars ==
    ASSUME TypeOK, Next
    PROVE  /\ horizon' \in Int /\ since' \in Times \cup {Never}
           /\ alive' \in BOOLEAN /\ used' \in [Kinds -> Nat]
<1>t. /\ now \in Times /\ horizon \in Int /\ since \in Times \cup {Never}
      /\ alive \in BOOLEAN /\ used \in [Kinds -> Nat]
  BY Types
<1>1. since' \in Times \cup {Never}
  <2>1. ASSUME NEW l \in Loop, Launch(l) PROVE since' = now
    BY <2>1 DEF Launch
  <2> QED
    BY <1>t, <2>1, Steps, ExecutorLeaves, CallbackLeaves, HandlerLeaves, ClientLeaves,
       ManagerLeaves, StopLeaves, TickLeaves
<1>2. horizon' \in Int
  <2>1. ASSUME NEW l \in Loop, Scans(l) PROVE horizon' = TimeForQuery
    BY <2>1 DEF Scans, Begin, Wake
  <2> QED
    BY <1>t, <2>1, HorizonOfAScan, Steps, LaunchLeaves, ExecutorLeaves, CallbackLeaves,
       HandlerLeaves, ClientLeaves, ManagerLeaves, StopLeaves, TickLeaves
<1>3. alive' \in BOOLEAN
  <2>1. ASSUME NEW t \in Task, ManagerStep(t) PROVE alive' \in BOOLEAN
    BY <1>t, <2>1 DEF ManagerStep, Manage, Created, Updated, Deleted, UpdatedFails, NoticeLost, Remove
  <2> QED
    BY <1>t, <2>1, Steps, LaunchLeaves, ExecutorLeaves, CallbackLeaves,
       HandlerLeaves, ClientLeaves, StopLeaves, TickLeaves
<1>4. used' \in [Kinds -> Nat]
  <2>k. \A k \in Kinds : Spend(k) => used' \in [Kinds -> Nat]
    BY <1>t DEF Spend
  <2>s. \A k \in {"launch", "stop", "change", "fail"} : Spend(k) => used' \in [Kinds -> Nat]
    BY <2>k DEF Kinds
  <2>0. ASSUME UNCHANGED used PROVE used' \in [Kinds -> Nat]
    BY <2>0, <1>t
  <2>1. ASSUME NEW l \in Loop, Launch(l) \/ ExecutorStep(l) PROVE used' \in [Kinds -> Nat]
    BY <2>s, <2>0, <2>1 DEF Launch, ExecutorStep, Scans, Begin, Wake, Finds, Query, QueryFails,
                            Takes, Add, AddFails, Sleep
  <2>2. ASSUME NEW i \in Timer, CallbackStep(i) PROVE used' \in [Kinds -> Nat]
    BY <2>s, <2>0, <2>2 DEF CallbackStep, Callback, Fire, SaveTask, SaveFails, SaveRow, Promise, Forget
  <2>3. ASSUME NEW c \in Handler, HandlerStep(c) PROVE used' \in [Kinds -> Nat]
    BY <2>s, <2>0, <2>3 DEF HandlerStep, Handle, Store, InsertRow, SendNotice, SkipRow, HandlerFails
  <2>4. ASSUME NEW c \in Handler, ClientStep(c) PROVE used' \in [Kinds -> Nat]
    BY <2>s, <2>0, <2>4 DEF ClientStep, Client, CreateTask, UpdateTask, DeleteTask
  <2>5. ASSUME NEW t \in Task, ManagerStep(t) PROVE used' \in [Kinds -> Nat]
    BY <2>s, <2>0, <2>5 DEF ManagerStep, Manage, Created, Updated, Deleted, UpdatedFails, NoticeLost
  <2>6. ASSUME StopExecution \/ Tick PROVE used' \in [Kinds -> Nat]
    BY <2>s, <2>0, <2>6, TickLeaves DEF StopExecution
  <2> QED
    BY <2>1, <2>2, <2>3, <2>4, <2>5, <2>6, Steps
<1> QED
  BY <1>1, <1>2, <1>3, <1>4

LEMMA StepFacts == ASSUME Facts, Next PROVE Facts'
<1>1. /\ timer' \in [Timer -> TimerType] /\ map' \in [Task -> Timer \cup {NoTimer}]
      /\ MapHoldsLive' /\ \A i \in Timer : timer'[i].pc # "free" => Held(i)
  BY StepMovesTimers, StepTimers DEF Facts
<1>2. now' \in Times /\ now \in Nat /\ now' \in Nat /\ now <= now' /\ Times \subseteq Nat
  BY NowGrows, Types, Numbers DEF Facts
<1>3. TimersServe'
  <2>1. ASSUME NEW i \in Timer, timer'[i].pc # "free", timer'[i].pc # "armed"
        PROVE  timer'[i].due <= now'
    <3>1. timer'[i].due \in Nat /\ timer'[i].due <= now
      BY <1>1, <1>2, <2>1 DEF Held
    <3> QED
      BY <1>2, <3>1
  <2> QED
    BY <1>1, <2>1 DEF TimersServe, Held
<1>4. call' \in [Handler -> CallType] /\ CallsServe'
  BY StepCalls DEF Facts
<1>5. TypeOK'
  <2>1. /\ horizon' \in Int /\ since' \in Times \cup {Never}
        /\ alive' \in BOOLEAN /\ used' \in [Kinds -> Nat]
    BY StepScalars DEF Facts
  <2>2. /\ tasks' \in [Task -> TaskType] /\ rows' \subseteq RowType
        /\ notices' \subseteq NoticeType /\ dropped' \subseteq Task
    BY StepTables DEF Facts
  <2>3. loop' \in [Loop -> LoopType]
    BY StepLoops DEF Facts
  <2> QED
    BY <1>1, <1>2, <1>4, <2>1, <2>2, <2>3
       DEF TypeOK, TimerType, LoopType, CallType, RowType, TaskType, NoticeType
<1> QED
  BY <1>1, <1>3, <1>4, <1>5 DEF Facts

-----------------------------------------------------------------------------
(***************************************************************************)
(* Tasks nobody has heard of.                                              *)
(***************************************************************************)
(* A task that is stored stays so, and only its own handler stores it first. *)
LEMMA StoredStays ==
    ASSUME TypeOK, TimersServe, CallsServe, Unknown, Next, NEW t \in Task, tasks'[t].status = "none"
    PROVE  tasks[t].status = "none" /\ \A c \in Handler : Store(c) => call[c].task # t
<1>1. ASSUME NEW c \in Handler, Store(c), call[c].task = t PROVE FALSE
  BY <1>1, StoreStores DEF Store, CallsServe
<1>2. ASSUME NEW i \in Timer, CallbackStep(i) PROVE tasks'[t] = tasks[t]
  <2>1. CASE SaveTask(i) \/ Promise(i)
    <3>1. timer[i].pc # "free" /\ Finish(i)
      BY <2>1 DEF SaveTask, Promise
    <3> QED
      BY <3>1, FinishStores
  <2>2. CASE ~SaveTask(i) /\ ~Promise(i)
    BY <1>2, <2>2 DEF CallbackStep, Callback, Fire, SaveFails, SaveRow, Forget, tables
  <2> QED
    BY <2>1, <2>2
<1>3. ASSUME NEW c \in Handler, HandlerStep(c) PROVE tasks'[t] = tasks[t]
  <2>1. CASE Store(c)
    BY <1>1, <2>1, StoreStores
  <2>2. CASE ~Store(c)
    BY <1>3, <2>2 DEF HandlerStep, Handle, InsertRow, SendNotice, SkipRow, HandlerFails, tables
  <2> QED
    BY <2>1, <2>2
<1>4. tasks'[t] = tasks[t]
  BY <1>2, <1>3, Steps, LaunchLeaves, ExecutorLeaves, ClientLeaves, ManagerLeaves,
     StopLeaves, TickLeaves
<1> QED
  BY <1>1, <1>4

(* The five parts of Unknown. *)
NoTimerOf(t) == \A i \in Timer : timer[i].pc # "free" => timer[i].task # t
NoRowOf(t) == \A r \in rows : r.task # t
NotFound(t) == \A l \in Loop : t \notin loop[l].found
NoNoticeOf(t) == \A kind \in {"create", "update", "delete"} : <<kind, t>> \notin notices
CreatedByOne(t) ==
    \A c \in Handler : call[c].pc # "free" /\ call[c].task = t =>
        /\ call[c].pc = "store" /\ call[c].kind = "create"
        /\ \A d \in Handler : call[d].pc # "free" /\ call[d].task = t => d = c

Unheard(t) == NoTimerOf(t) /\ NoRowOf(t) /\ NotFound(t) /\ NoNoticeOf(t) /\ CreatedByOne(t)

LEMMA UnknownParts == Unknown <=> \A t \in Task : tasks[t].status = "none" => Unheard(t)
BY DEF Unknown, Unheard, NoTimerOf, NoRowOf, NotFound, NoNoticeOf, CreatedByOne

LEMMA StepNoTimerOf ==
    ASSUME TypeOK, TimersServe, MapHoldsLive, Next, NEW t \in Task, tasks[t].status = "none", Unheard(t)
    PROVE  NoTimerOf(t)'
<1>t. /\ timer \in [Timer -> TimerType] /\ map \in [Task -> Timer \cup {NoTimer}]
      /\ NoTimerOf(t) /\ NotFound(t) /\ NoNoticeOf(t)
  BY Types DEF Unheard
<1>1. ASSUME \A i \in Timer : timer'[i].pc # "free" =>
                 timer[i].pc # "free" /\ timer'[i].task = timer[i].task
      PROVE  NoTimerOf(t)'
  BY <1>1, <1>t DEF NoTimerOf
<1>2. ASSUME NEW u \in Task, u # t, Arms(u) \/ Rearms(u) PROVE NoTimerOf(t)'
  <2>1. CASE Arms(u)
    BY <1>2, <1>t, <2>1, ArmedType DEF Arms, NoTimerOf
  <2>2. CASE Rearms(u)
    <3> DEFINE moved == [timer EXCEPT ![map[u]] = Stopped(map[u])]
    <3>1. PICK i \in Timer : moved[i].pc = "free" /\ timer' = [moved EXCEPT ![i] = ArmedFor(u)]
      BY <2>2 DEF Rearms
    <3>2. map[u] \in Timer
      BY <1>t, <2>2 DEF Rearms
    <3>3. \A j \in Timer : moved[j].pc # "free" => moved[j] = timer[j]
      BY <1>t, <3>2, StoppedType
    <3>4. DOMAIN moved = Timer
      BY <1>t
    <3> HIDE DEF moved
    <3> QED
      BY <1>2, <1>t, <3>1, <3>3, <3>4, ArmedType DEF NoTimerOf
  <2> QED
    BY <1>2, <2>1, <2>2
<1>3. ASSUME NEW i \in Timer, Forget(i) PROVE NoTimerOf(t)'
  BY <1>1, <1>t, <1>3, FreeType DEF Forget
<1>4. ASSUME NEW u \in Task, Remove(u) PROVE NoTimerOf(t)'
  <2>1. CASE map[u] = NoTimer
    BY <1>1, <1>4, <2>1 DEF Remove
  <2>2. CASE map[u] # NoTimer
    <3>1. map[u] \in Timer
      BY <1>t, <2>2
    <3> QED
      BY <1>1, <1>4, <1>t, <2>2, <3>1, StoppedType DEF Remove
  <2> QED
    BY <2>1, <2>2
<1>5. CASE StopExecution
  <2>1. \A i \in Timer : timer'[i] \in {timer[i], Stopped(i)}
    BY <1>5 DEF StopExecution
  <2> QED
    BY <1>1, <1>t, <2>1, StoppedType
<1>6. ASSUME NEW l \in Loop, ExecutorStep(l) PROVE NoTimerOf(t)'
  <2>1. ASSUME NEW v \in Task, Takes(l, v) PROVE NoTimerOf(t)'
    <3>1. v # t
      BY <1>t, <2>1 DEF Takes, Add, AddFails, NotFound
    <3>2. CASE AddToTimerMap(v)
      BY <1>2, <3>1, <3>2, AddArms
    <3>3. CASE UNCHANGED timer
      BY <1>1, <3>3
    <3> QED
      BY <2>1, <3>2, <3>3 DEF Takes, Add, AddFails
  <2>2. CASE Scans(l) \/ Finds(l) \/ Sleep(l)
    BY <1>1, <2>2 DEF Scans, Begin, Wake, Finds, Query, QueryFails, Sleep
  <2> QED
    BY <1>6, <2>1, <2>2 DEF ExecutorStep
<1>7. ASSUME NEW v \in Task, ManagerStep(v) PROVE NoTimerOf(t)'
  <2>1. v # t
    BY <1>t, <1>7 DEF ManagerStep, Manage, Created, Updated, Deleted, UpdatedFails, NoticeLost,
                      Receive, NoNoticeOf
  <2>2. CASE Created(v)
    <3>1. CASE AddToTimerMap(v)
      BY <1>2, <2>1, <3>1, AddArms
    <3>2. CASE UNCHANGED timer
      BY <1>1, <3>2
    <3> QED
      BY <2>2, <3>1, <3>2 DEF Created
  <2>3. CASE Updated(v)
    <3>1. CASE map[v] = NoTimer
      BY <1>1, <2>3, <3>1 DEF Updated
    <3>2. CASE map[v] # NoTimer
      <4>1. Rearms(v)
        BY <2>3, <3>2 DEF Updated, Rearms, ArmedFor
      <4> QED
        BY <1>2, <2>1, <4>1
    <3> QED
      BY <3>1, <3>2
  <2>4. CASE Deleted(v) \/ UpdatedFails(v)
    BY <1>4, <2>4 DEF Deleted, UpdatedFails
  <2>5. ASSUME NEW kind \in {"create", "update", "delete"}, NoticeLost(kind, v) PROVE NoTimerOf(t)'
    BY <1>1, <2>5 DEF NoticeLost
  <2> QED
    BY <1>7, <2>2, <2>3, <2>4, <2>5 DEF ManagerStep, Manage
<1>8. ASSUME NEW i \in Timer, CallbackStep(i) PROVE NoTimerOf(t)'
  <2>1. CASE Forget(i)
    BY <1>3, <2>1
  <2>2. CASE ~Forget(i)
    <3>1. /\ timer[i].pc # "free"
          /\ \E pc \in {"called", "stored", "saved", "ended"} : timer' = [timer EXCEPT ![i].pc = pc]
      BY <1>8, <2>2 DEF CallbackStep, Callback, Fire, SaveTask, SaveFails, SaveRow, Promise
    <3> QED
      BY <1>1, <1>t, <3>1
  <2> QED
    BY <2>1, <2>2
<1>9. ASSUME UNCHANGED timer PROVE NoTimerOf(t)'
  BY <1>1, <1>9
<1> QED
  BY <1>5, <1>6, <1>7, <1>8, <1>9, Steps, LaunchLeaves, HandlerLeaves, ClientLeaves, TickLeaves

LEMMA StepNoRowOf ==
    ASSUME TypeOK, Next, NEW t \in Task, Unheard(t)
    PROVE  NoRowOf(t)'
<1>t. NoRowOf(t) /\ CreatedByOne(t)
  BY DEF Unheard
<1>1. ASSUME rows' \subseteq rows PROVE NoRowOf(t)'
  BY <1>1, <1>t DEF NoRowOf
<1>2. ASSUME NEW i \in Timer, CallbackStep(i) PROVE rows' \subseteq rows
  BY <1>2 DEF CallbackStep, Callback, Fire, SaveTask, SaveFails, SaveRow, Promise, Forget, tables
<1>3. ASSUME NEW c \in Handler, HandlerStep(c) PROVE NoRowOf(t)'
  <2>1. CASE InsertRow(c)
    <3>1. call[c].task # t
      BY <1>t, <2>1 DEF InsertRow, CreatedByOne
    <3>2. rows' \subseteq rows \cup {[when |-> call[c].when, task |-> call[c].task]}
      BY <2>1, RowOfType DEF InsertRow
    <3> QED
      BY <1>t, <3>1, <3>2 DEF NoRowOf
  <2>2. CASE ~InsertRow(c)
    <3>1. UNCHANGED rows
      BY <1>3, <2>2 DEF HandlerStep, Handle, Store, SendNotice, SkipRow, HandlerFails, tables
    <3> QED
      BY <1>1, <3>1
  <2> QED
    BY <2>1, <2>2
<1> QED
  BY <1>1, <1>2, <1>3, Steps, LaunchLeaves, ExecutorLeaves, ClientLeaves, ManagerLeaves,
     StopLeaves, TickLeaves

LEMMA StepNotFound ==
    ASSUME TypeOK, Next, NEW t \in Task, Unheard(t)
    PROVE  NotFound(t)'
<1>t. loop \in [Loop -> LoopType] /\ NoRowOf(t) /\ NotFound(t)
  BY Types DEF Unheard
<1>0. ASSUME UNCHANGED loop PROVE NotFound(t)'
  BY <1>0, <1>t DEF NotFound
<1>1. ASSUME NEW l \in Loop, Launch(l) \/ ExecutorStep(l) PROVE NotFound(t)'
  <2>1. CASE Launch(l) \/ Begin(l)
    BY <2>1, <1>t DEF Launch, Begin, NotFound, LoopType
  <2>2. CASE Finds(l)
    <3>1. PICK found \in SUBSET Matching :
             loop' = [loop EXCEPT ![l].pc = "add", ![l].found = found]
      BY <2>2 DEF Finds, Query, QueryFails
    <3>2. t \notin Matching
      BY <1>t DEF NoRowOf, Matching
    <3> QED
      BY <1>t, <3>1, <3>2 DEF NotFound
  <2>3. CASE \E u \in Task : Takes(l, u)
    BY <2>3, <1>t DEF Takes, Add, AddFails, NotFound, LoopType
  <2>4. CASE Sleep(l)
    BY <2>4, <1>t DEF Sleep, Asleep, NotFound
  <2>5. CASE Wake(l)
    BY <2>5, <1>t DEF Wake, Asleep, NotFound
  <2> QED
    BY <1>1, <2>1, <2>2, <2>3, <2>4, <2>5 DEF ExecutorStep, Scans
<1> QED
  BY <1>0, <1>1, Steps, CallbackLeaves, HandlerLeaves, ClientLeaves, ManagerLeaves,
     StopLeaves, TickLeaves

LEMMA StepNoNoticeOf ==
    ASSUME Next, NEW t \in Task, Unheard(t)
    PROVE  NoNoticeOf(t)'
<1>t. NoNoticeOf(t) /\ CreatedByOne(t)
  BY DEF Unheard
<1>0. ASSUME notices' \subseteq notices PROVE NoNoticeOf(t)'
  BY <1>0, <1>t DEF NoNoticeOf
<1>1. ASSUME NEW c \in Handler, HandlerStep(c) PROVE NoNoticeOf(t)'
  <2>1. CASE SendNotice(c)
    BY <1>t, <2>1 DEF SendNotice, NoNoticeOf, CreatedByOne
  <2>2. CASE ~SendNotice(c)
    BY <1>0, <1>1, <2>2 DEF HandlerStep, Handle, Store, InsertRow, SkipRow, HandlerFails
  <2> QED
    BY <2>1, <2>2
<1>2. ASSUME NEW u \in Task, ManagerStep(u) PROVE notices' \subseteq notices
  BY <1>2 DEF ManagerStep, Manage, Created, Updated, Deleted, UpdatedFails, NoticeLost, Receive
<1> QED
  BY <1>0, <1>1, <1>2, Steps, LaunchLeaves, ExecutorLeaves, CallbackLeaves, ClientLeaves,
     StopLeaves, TickLeaves

(* What a client asks: of a task that is stored, or of one nobody knows. *)
Asks(c, kind, t) ==
    /\ call[c].pc = "free"
    /\ \E status \in Status, w \in Times :
          call' = [call EXCEPT ![c] = [pc |-> "store", kind |-> kind, task |-> t,
                                       status |-> status, when |-> w]]
    /\ kind = "create" => tasks[t].status = "none" /\ \A d \in Handler : call[d].task # t
    /\ kind # "create" => tasks[t].status # "none"

LEMMA ClientAsks ==
    ASSUME TypeOK, NEW c \in Handler, ClientStep(c)
    PROVE  \E kind \in {"create", "update", "delete"}, t \in Task : Asks(c, kind, t)
<1>t. tasks \in [Task -> TaskType] /\ Written \subseteq Status /\ "Deleted" \in Status
  BY Types, WrittenAssumption DEF Status
<1>1. ASSUME NEW t \in Task, NEW w \in Times, NEW status \in Written, CreateTask(c, t, status, w)
      PROVE  Asks(c, "create", t)
  BY <1>1, <1>t DEF CreateTask, Ask, Asks
<1>2. ASSUME NEW t \in Task, NEW w \in Times, NEW status \in Written, UpdateTask(c, t, status, w)
      PROVE  Asks(c, "update", t)
  BY <1>2, <1>t DEF UpdateTask, Ask, Asks
<1>3. ASSUME NEW t \in Task, DeleteTask(c, t)
      PROVE  Asks(c, "delete", t)
  BY <1>3, <1>t DEF DeleteTask, Ask, Asks, TaskType
<1> QED
  BY <1>1, <1>2, <1>3 DEF ClientStep, Client

(* A handler goes on with what it has, or ends. *)
LEMMA HandlerGoesOn ==
    ASSUME TypeOK, NEW c \in Handler, HandlerStep(c)
    PROVE  /\ call[c].pc # "free"
           /\ \A d \in Handler : d # c => call'[d] = call[d]
           /\ \/ call'[c] = NoCall
              \/ Store(c) /\ call'[c] = [call[c] EXCEPT !.pc = "insert"]
              \/ call[c].pc = "insert" /\ call'[c] = [call[c] EXCEPT !.pc = "notify"]
<1>t. call \in [Handler -> CallType]
  BY Types
<1>1. CASE Store(c)
  BY <1>t, <1>1 DEF Store
<1>2. CASE InsertRow(c) \/ SkipRow(c)
  BY <1>t, <1>2 DEF InsertRow, SkipRow
<1>3. CASE SendNotice(c) \/ HandlerFails(c)
  BY <1>t, <1>3 DEF SendNotice, HandlerFails
<1> QED
  BY <1>1, <1>2, <1>3 DEF HandlerStep, Handle

LEMMA StepCreatedByOne ==
    ASSUME TypeOK, Next, NEW t \in Task, tasks[t].status = "none", Unheard(t),
           \A c \in Handler : Store(c) => call[c].task # t
    PROVE  CreatedByOne(t)'
<1>t. call \in [Handler -> CallType] /\ CreatedByOne(t)
  BY Types DEF Unheard
<1>0. ASSUME UNCHANGED call PROVE CreatedByOne(t)'
  BY <1>0, <1>t DEF CreatedByOne
<1>1. ASSUME NEW c \in Handler, HandlerStep(c) PROVE CreatedByOne(t)'
  <2>1. call'[c].pc = "free" \/ call'[c].task # t
    <3>1. Store(c) => call[c].task # t
      OBVIOUS
    <3>2. call[c].pc = "insert" => call[c].task # t
      BY <1>t DEF CreatedByOne
    <3>3. call[c] \in CallType
      BY <1>t
    <3> QED
      BY <1>1, <3>1, <3>2, <3>3, HandlerGoesOn, NoCallType DEF CallType
  <2>2. \A d \in Handler : d # c => call'[d] = call[d]
    BY <1>1, HandlerGoesOn
  <2> QED
    BY <1>t, <2>1, <2>2 DEF CreatedByOne
<1>2. ASSUME NEW c \in Handler, ClientStep(c) PROVE CreatedByOne(t)'
  <2>1. PICK kind \in {"create", "update", "delete"}, u \in Task : Asks(c, kind, u)
    BY <1>2, ClientAsks
  <2>2. CASE u = t
    <3>1. kind = "create" /\ \A d \in Handler : call[d].task # t
      BY <2>1, <2>2 DEF Asks
    <3> QED
      BY <1>t, <2>1, <2>2, <3>1 DEF Asks, CreatedByOne
  <2>3. CASE u # t
    BY <1>t, <2>1, <2>3 DEF Asks, CreatedByOne
  <2> QED
    BY <2>2, <2>3
<1> QED
  BY <1>0, <1>1, <1>2, Steps, LaunchLeaves, ExecutorLeaves, CallbackLeaves, ManagerLeaves,
     StopLeaves, TickLeaves

LEMMA StepUnknown ==
    ASSUME Facts, Unknown, Next
    PROVE  Unknown'
<1> SUFFICES ASSUME NEW t \in Task, tasks'[t].status = "none" PROVE Unheard(t)'
  BY UnknownParts
     DEF Unknown, Unheard, NoTimerOf, NoRowOf, NotFound, NoNoticeOf, CreatedByOne
<1>1. tasks[t].status = "none" /\ \A c \in Handler : Store(c) => call[c].task # t
  BY StoredStays DEF Facts
<1>2. Unheard(t)
  BY <1>1, UnknownParts
<1> QED
  BY <1>1, <1>2, StepNoTimerOf, StepNoRowOf, StepNotFound, StepNoNoticeOf, StepCreatedByOne
     DEF Facts, Unheard

LEMMA StepCreating ==
    ASSUME Facts, Unknown, Creating, Next
    PROVE  Creating'
<1>t. /\ call \in [Handler -> CallType] /\ tasks \in [Task -> TaskType]
      /\ TypeOK /\ TimersServe /\ CallsServe
  BY Types DEF Facts
<1> SUFFICES ASSUME NEW c \in Handler, call'[c].pc = "store", call'[c].kind = "create"
             PROVE  tasks'[call'[c].task].status = "none"
  BY DEF Creating
<1>1. ASSUME NEW d \in Handler, ClientStep(d), d = c PROVE tasks'[call'[c].task].status = "none"
  <2>1. PICK kind \in {"create", "update", "delete"}, u \in Task : Asks(c, kind, u)
    BY <1>t, <1>1, ClientAsks
  <2> QED
    BY <1>t, <1>1, <2>1, ClientLeaves DEF Asks
<1>2. ASSUME call'[c] = call[c] PROVE tasks'[call'[c].task].status = "none"
  <2> DEFINE t == call[c].task
  <2>1. t \in Task /\ tasks[t].status = "none" /\ call[c].pc = "store"
    BY <1>t, <1>2 DEF Creating, CallsServe
  <2>2. Unheard(t)
    BY <2>1, UnknownParts
  <2>3. ASSUME NEW i \in Timer, CallbackStep(i) PROVE tasks'[t] = tasks[t]
    <3>1. timer[i].pc # "free"
      BY <2>3 DEF CallbackStep, Callback, Fire, SaveTask, SaveFails, SaveRow, Promise, Forget
    <3>2. timer[i].task # t
      BY <2>1, <2>2, <3>1 DEF Unheard, NoTimerOf
    <3>3. CASE SaveTask(i) \/ Promise(i)
      BY <1>t, <2>1, <3>1, <3>2, <3>3, FinishStores DEF SaveTask, Promise
    <3>4. CASE ~SaveTask(i) /\ ~Promise(i)
      BY <2>3, <3>4 DEF CallbackStep, Callback, Fire, SaveFails, SaveRow, Forget, tables
    <3> QED
      BY <3>3, <3>4
  <2>4. ASSUME NEW d \in Handler, HandlerStep(d) PROVE tasks'[t] = tasks[t]
    <3>1. CASE Store(d)
      <4>1. d # c
        BY <1>t, <1>2, <2>1, <3>1, StoreStores DEF CallType
      <4>2. call[d].task # t
        BY <1>t, <2>1, <2>2, <3>1, <4>1 DEF Unheard, CreatedByOne, Store
      <4> QED
        BY <1>t, <2>1, <3>1, <4>2, StoreStores
    <3>2. CASE ~Store(d)
      BY <2>4, <3>2 DEF HandlerStep, Handle, InsertRow, SendNotice, SkipRow, HandlerFails, tables
    <3> QED
      BY <3>1, <3>2
  <2>5. tasks'[t] = tasks[t]
    BY <2>3, <2>4, Steps, LaunchLeaves, ExecutorLeaves, ClientLeaves, ManagerLeaves,
       StopLeaves, TickLeaves
  <2> QED
    BY <1>2, <2>1, <2>5
<1>3. ASSUME NEW d \in Handler, ClientStep(d), d # c PROVE call'[c] = call[c]
  <2>1. PICK kind \in {"create", "update", "delete"}, u \in Task : Asks(d, kind, u)
    BY <1>t, <1>3, ClientAsks
  <2> QED
    BY <1>t, <1>3, <2>1 DEF Asks
<1>4. ASSUME NEW d \in Handler, HandlerStep(d) PROVE call'[c] = call[c]
  <2>1. d # c
    <3>1. call[c] \in CallType
      BY <1>t
    <3> QED
      BY <1>t, <1>4, <3>1, HandlerGoesOn, NoCallType DEF CallType
  <2> QED
    BY <1>t, <1>4, <2>1, HandlerGoesOn
<1> QED
  BY <1>1, <1>2, <1>3, <1>4, Steps, LaunchLeaves, ExecutorLeaves, CallbackLeaves, ManagerLeaves,
     StopLeaves, TickLeaves

-----------------------------------------------------------------------------
(***************************************************************************)
(* Rows and the map.                                                       *)
(***************************************************************************)
(* What a handler does to the task it has, and that it does it to no other. *)
LEMMA OthersUntouched ==
    ASSUME TypeOK, CallsServe, NEW c \in Handler, HandlerStep(c), NEW t \in Task, t # call[c].task
    PROVE  /\ tasks'[t] = tasks[t] /\ (t \in dropped' <=> t \in dropped)
           /\ \A w : [when |-> w, task |-> t] \in rows => [when |-> w, task |-> t] \in rows'
           /\ \A kind : <<kind, t>> \in notices => <<kind, t>> \in notices'
<1>1. CASE Store(c)
  BY <1>1, StoreStores
<1>2. CASE InsertRow(c)
  BY <1>2 DEF InsertRow
<1>3. CASE SendNotice(c)
  BY <1>3 DEF SendNotice, tables
<1>4. CASE SkipRow(c)
  BY <1>4 DEF SkipRow, tables
<1>5. CASE HandlerFails(c)
  BY <1>5, FailureDrops DEF HandlerFails, tables
<1> QED
  BY <1>1, <1>2, <1>3, <1>4, <1>5 DEF HandlerStep, Handle

(* A client's request changes none of the requests under way. *)
LEMMA RequestsStay ==
    ASSUME TypeOK, NEW c \in Handler, ClientStep(c), NEW d \in Handler, call[d].pc # "free"
    PROVE  call'[d] = call[d]
<1>1. PICK kind \in {"create", "update", "delete"}, u \in Task : Asks(c, kind, u)
  BY ClientAsks
<1> QED
  BY <1>1, Types DEF Asks

LEMMA StepPendingHasRow ==
    ASSUME Facts, PendingHasRow, Next
    PROVE  PendingHasRow'
<1>t. /\ tasks \in [Task -> TaskType] /\ timer \in [Timer -> TimerType]
      /\ call \in [Handler -> CallType] /\ now \in Nat /\ Times \subseteq Nat
      /\ TypeOK /\ TimersServe /\ CallsServe
  BY Types, Numbers DEF Facts
<1> DEFINE Row(w, t) == [when |-> w, task |-> t]
<1> SUFFICES ASSUME NEW t \in Task, tasks'[t].status = "Pending", t \notin dropped',
                    now' < tasks'[t].when
             PROVE  Row(tasks'[t].when, t) \in rows' \/ Inserting(t)'
  BY DEF PendingHasRow
<1>n. now' \in Nat /\ now <= now'
  BY <1>t, NowGrows
(* The task is as it was, and so are its row and its request. *)
<1>k. ASSUME tasks'[t] = tasks[t], dropped \subseteq dropped' \/ t \notin dropped,
             Row(tasks[t].when, t) \in rows => Row(tasks[t].when, t) \in rows',
             \A c \in Handler : call[c].pc = "insert" /\ call[c].task = t =>
                 call'[c] = call[c] \/ Row(call[c].when, t) \in rows' \/ call[c].status # "Pending"
      PROVE  Row(tasks'[t].when, t) \in rows' \/ Inserting(t)'
  <2>1. tasks[t].when \in Nat
    BY <1>t DEF TaskType
  <2>2. now < tasks[t].when
    BY <1>k, <1>n, <1>t, <2>1
  <2>3. Row(tasks[t].when, t) \in rows \/ Inserting(t)
    BY <1>k, <2>2 DEF PendingHasRow
  <2>4. CASE Row(tasks[t].when, t) \in rows
    BY <1>k, <2>4
  <2>5. CASE Inserting(t)
    <3>1. PICK c \in Handler :
             /\ call[c].pc = "insert" /\ call[c].kind # "delete" /\ call[c].task = t
             /\ call[c].status = "Pending" /\ call[c].when = tasks[t].when
      BY <2>5 DEF Inserting
    <3> QED
      BY <1>k, <3>1 DEF Inserting
  <2> QED
    BY <2>3, <2>4, <2>5
<1>1. ASSUME NEW c \in Handler, HandlerStep(c)
      PROVE  Row(tasks'[t].when, t) \in rows' \/ Inserting(t)'
  <2>1. CASE t # call[c].task
    <3>1. \A d \in Handler : call[d].task = t => call'[d] = call[d]
      BY <1>1, <1>t, <2>1, HandlerGoesOn
    <3> QED
      BY <1>1, <1>k, <1>t, <2>1, <3>1, OthersUntouched
  <2>2. CASE t = call[c].task /\ Store(c)
    <3>1. call[c].status = "Pending" /\ call[c].kind # "delete"
      BY <1>t, <2>2, StoreStores DEF CallsServe
    <3>2. call'[c] = [call[c] EXCEPT !.pc = "insert"] /\ tasks'[t].when = call[c].when
      BY <1>t, <2>2, <3>1, StoreStores
    <3>3. Inserting(t)'
      BY <1>t, <2>2, <3>1, <3>2 DEF Inserting, CallType
    <3> QED
      BY <3>3
  <2>3. CASE t = call[c].task /\ InsertRow(c)
    <3>1. /\ rows' = rows \cup RowOf(call[c].status, call[c].when, t)
          /\ UNCHANGED <<tasks, dropped>>
          /\ \A d \in Handler : d # c => call'[d] = call[d]
      BY <1>t, <2>3 DEF InsertRow
    <3>2. call[c].status = "Pending" => Row(call[c].when, t) \in rows'
      BY <3>1, RowOfType
    <3> QED
      BY <1>k, <3>1, <3>2
  <2>4. CASE t = call[c].task /\ SendNotice(c)
    <3>1. /\ call[c].pc = "notify" /\ UNCHANGED <<tasks, rows, dropped>>
          /\ \A d \in Handler : d # c => call'[d] = call[d]
      BY <1>t, <2>4 DEF SendNotice, tables
    <3> QED
      BY <1>k, <3>1
  <2>5. CASE t = call[c].task /\ SkipRow(c)
    BY <2>5 DEF SkipRow
  <2>6. CASE t = call[c].task /\ HandlerFails(c)
    <3>1. call[c].pc # "insert" /\ dropped \subseteq dropped'
      BY <1>t, <2>6, FailureDrops
    <3>2. UNCHANGED <<tasks, rows>> /\ \A d \in Handler : d # c => call'[d] = call[d]
      BY <1>t, <2>6 DEF HandlerFails, tables
    <3> QED
      BY <1>k, <3>1, <3>2
  <2> QED
    BY <1>1, <2>1, <2>2, <2>3, <2>4, <2>5, <2>6 DEF HandlerStep, Handle
<1>2. ASSUME NEW i \in Timer, CallbackStep(i)
      PROVE  Row(tasks'[t].when, t) \in rows' \/ Inserting(t)'
  <2>0. UNCHANGED call /\ dropped \subseteq dropped' /\ now' = now
    BY <1>2, CallbackLeaves
  <2>1. CASE SaveTask(i) \/ Promise(i)
    <3>1. timer[i].pc # "free" /\ Finish(i) /\ UNCHANGED rows
      BY <2>1 DEF SaveTask, Promise
    <3>2. tasks'[t] = tasks[t]
      BY <1>t, <3>1, FinishStores
    <3> QED
      BY <1>k, <2>0, <3>1, <3>2
  <2>2. CASE SaveRow(i)
    <3>1. /\ timer[i].due \in Nat /\ timer[i].due <= now /\ UNCHANGED tasks
      BY <1>t, <2>2 DEF SaveRow, TimersServe
    <3>2. tasks[t].when # timer[i].due
      BY <1>t, <2>0, <3>1 DEF TaskType
    <3>3. \A r \in rows : r # Row(timer[i].due, timer[i].task) => r \in rows'
      BY <2>2, RowOfType DEF SaveRow
    <3>4. Row(tasks[t].when, t) \in rows => Row(tasks[t].when, t) \in rows'
      BY <3>2, <3>3
    <3> QED
      BY <1>k, <2>0, <3>1, <3>4
  <2>3. CASE Fire(i) \/ Forget(i) \/ SaveFails(i)
    BY <1>k, <2>0, <2>3 DEF Fire, Forget, SaveFails, tables
  <2> QED
    BY <1>2, <2>1, <2>2, <2>3 DEF CallbackStep, Callback
<1>3. ASSUME NEW c \in Handler, ClientStep(c)
      PROVE  Row(tasks'[t].when, t) \in rows' \/ Inserting(t)'
  BY <1>k, <1>t, <1>3, ClientLeaves, RequestsStay
<1>4. ASSUME UNCHANGED <<tasks, rows, call>>, dropped \subseteq dropped'
      PROVE  Row(tasks'[t].when, t) \in rows' \/ Inserting(t)'
  BY <1>k, <1>4
<1> QED
  BY <1>1, <1>2, <1>3, <1>4, Steps, LaunchLeaves, ExecutorLeaves, ManagerLeaves,
     StopLeaves, TickLeaves

(* A timer that serves a task still does, or it has ended one way or other. *)
LEMMA TimerStays ==
    ASSUME Facts, Next, NEW t \in Task, NEW j \in Timer, Serves(j, t),
           tasks'[t] = tasks[t], tasks'[t].status = "Pending", t \notin dropped', ~StopExecution,
           \A u \in Task : map[u] = j => ~Updated(u)
    PROVE  Serves(j, t)'
<1>t. /\ timer \in [Timer -> TimerType] /\ map \in [Task -> Timer \cup {NoTimer}]
      /\ TypeOK /\ TimersServe /\ MapHoldsLive
  BY Types DEF Facts
<1>1. timer[j].pc \in {"armed", "called"} /\ timer[j].task = t
  BY DEF Serves
<1>2. ASSUME timer'[j] = timer[j] PROVE Serves(j, t)'
  BY <1>2 DEF Serves
<1>3. ASSUME NEW i \in Timer, CallbackStep(i) PROVE Serves(j, t)'
  <2>1. CASE i # j
    BY <1>2, <1>3, <1>t, <2>1
       DEF CallbackStep, Callback, Fire, SaveTask, SaveFails, SaveRow, Promise, Forget
  <2>2. CASE i = j /\ Fire(j)
    BY <1>1, <1>t, <2>2 DEF Fire, Serves, TimerType
  <2>3. CASE i = j /\ ~Fire(j)
    <3>1. ~SaveTask(j)
      <4>1. ASSUME SaveTask(j) PROVE tasks'[t].status = "Finished"
        BY <1>1, <1>t, <4>1, FinishStores DEF SaveTask
      <4> QED
        BY <4>1
    <3>2. ~SaveFails(j)
      BY <1>1 DEF SaveFails
    <3> QED
      BY <1>1, <1>3, <2>3, <3>1, <3>2 DEF CallbackStep, Callback, SaveRow, Promise, Forget
  <2> QED
    BY <2>1, <2>2, <2>3
<1>4. ASSUME NEW u \in Task, Arms(u) PROVE timer'[j] = timer[j]
  BY <1>1, <1>4, <1>t DEF Arms
<1>5. ASSUME NEW u \in Task, Rearms(u), map[u] # j PROVE timer'[j] = timer[j]
  <2> DEFINE moved == [timer EXCEPT ![map[u]] = Stopped(map[u])]
  <2>1. PICK i \in Timer : moved[i].pc = "free" /\ timer' = [moved EXCEPT ![i] = ArmedFor(u)]
    BY <1>5 DEF Rearms
  <2>2. map[u] \in Timer /\ map[u] # j
    BY <1>5, <1>t DEF Rearms
  <2>3. DOMAIN moved = Timer /\ moved[j] = timer[j]
    BY <1>t, <2>2
  <2> HIDE DEF moved
  <2> QED
    BY <1>1, <2>1, <2>3
<1>6. ASSUME NEW u \in Task, ManagerStep(u) PROVE Serves(j, t)'
  <2>1. CASE Created(u)
    BY <1>2, <1>4, <2>1, AddArms DEF Created
  <2>2. CASE Updated(u)
    <3>1. CASE map[u] = NoTimer
      BY <1>2, <2>2, <3>1 DEF Updated
    <3>2. CASE map[u] # NoTimer
      <4>1. Rearms(u)
        BY <2>2, <3>2 DEF Updated, Rearms, ArmedFor
      <4> QED
        BY <1>2, <1>5, <2>2, <4>1
    <3> QED
      BY <3>1, <3>2
  <2>3. ASSUME Remove(u) PROVE Serves(j, t)'
    <3>1. u # t
      BY <2>3 DEF Remove
    <3>2. map[u] # j \/ map[u] = NoTimer
      BY <1>1, <1>t, <3>1 DEF MapHoldsLive
    <3>3. timer'[j] = timer[j]
      BY <1>t, <2>3, <3>2 DEF Remove
    <3> QED
      BY <1>2, <3>3
  <2>4. ASSUME UNCHANGED timer PROVE Serves(j, t)'
    BY <1>2, <2>4
  <2> QED
    BY <1>6, <2>1, <2>2, <2>3, <2>4 DEF ManagerStep, Manage, Deleted, UpdatedFails, NoticeLost
<1>7. ASSUME NEW l \in Loop, ExecutorStep(l) PROVE timer'[j] = timer[j]
  <2>1. ASSUME NEW v \in Task, Takes(l, v) PROVE timer'[j] = timer[j]
    BY <1>4, <2>1, AddArms DEF Takes, Add, AddFails
  <2>2. CASE Scans(l) \/ Finds(l) \/ Sleep(l)
    BY <2>2 DEF Scans, Begin, Wake, Finds, Query, QueryFails, Sleep
  <2> QED
    BY <1>7, <2>1, <2>2 DEF ExecutorStep
<1> QED
  BY <1>2, <1>3, <1>6, <1>7, Steps, LaunchLeaves, HandlerLeaves, ClientLeaves, StopLeaves, TickLeaves

LEMMA ArmingServes ==
    ASSUME Facts, NEW t \in Task, Arms(t) \/ Rearms(t), UNCHANGED tasks
    PROVE  map'[t] \in Timer /\ Serves(map[t], t)'
<1>t. TypeOK /\ map \in [Task -> Timer \cup {NoTimer}] /\ MapHoldsLive /\ NoTimer \notin Timer
  BY Types, Numbers DEF Facts
<1> DEFINE moved == [timer EXCEPT ![map[t]] = Stopped(map[t])]
<1>1. PICK i \in Timer : /\ \/ timer' = [timer EXCEPT ![i] = ArmedFor(t)]
                            \/ timer' = [moved EXCEPT ![i] = ArmedFor(t)]
                         /\ map' = [map EXCEPT ![t] = i]
  BY DEF Arms, Rearms
<1>2. DOMAIN timer = Timer /\ DOMAIN moved = Timer
  BY Types, <1>t
<1>3. timer'[i] = ArmedFor(t) /\ map'[t] = i
  <2> HIDE DEF moved
  <2> QED
    BY <1>t, <1>1, <1>2
<1>4. tasks'[t].when = tasks[t].when /\ tasks[t].when \in Nat
  BY <1>t, Types, Numbers DEF TaskType
<1>5. ArmedFor(t).pc = "armed" /\ ArmedFor(t).task = t /\ ArmedFor(t).due = tasks[t].when
  BY <1>t, ArmedType
<1> QED
  BY <1>3, <1>4, <1>5 DEF Serves

LEMMA StepMapServes ==
    ASSUME Facts, Unknown, Creating, MapServes, Next
    PROVE  MapServes'
<1>t. /\ tasks \in [Task -> TaskType] /\ timer \in [Timer -> TimerType]
      /\ call \in [Handler -> CallType] /\ map \in [Task -> Timer \cup {NoTimer}]
      /\ TypeOK /\ TimersServe /\ CallsServe /\ MapHoldsLive
  BY Types DEF Facts
<1> DEFINE Goal(t) == Serves(map[t], t)' \/ <<"update", t>> \in notices' \/ Updating(t)'
<1> SUFFICES ASSUME NEW t \in Task, tasks'[t].status = "Pending", t \notin dropped',
                    map'[t] # NoTimer
             PROVE  Goal(t)
  BY DEF MapServes
<1>1. CASE Updated(t)
  <2>1. map[t] # NoTimer
    BY <1>1 DEF Updated
  <2>2. Rearms(t) /\ UNCHANGED tasks
    BY <1>1, <2>1 DEF Updated, Rearms, ArmedFor, Receive, tables
  <2> QED
    BY <2>2, ArmingServes
<1>2. ~StopExecution
  BY DEF StopExecution
(* The task is as it was, and so are its timer, its notice and its request. *)
<1>k. ASSUME ~Updated(t), tasks'[t] = tasks[t], dropped \subseteq dropped' \/ t \notin dropped,
             map'[t] = map[t], <<"update", t>> \in notices => <<"update", t>> \in notices',
             \A c \in Handler : call[c].pc \in {"insert", "notify"} /\ call[c].task = t
                                /\ call[c].kind = "update" =>
                 \/ call'[c] = call[c] \/ <<"update", t>> \in notices'
                 \/ call'[c] = [call[c] EXCEPT !.pc = "notify"]
      PROVE  Goal(t)
  <2>1. Serves(map[t], t) \/ <<"update", t>> \in notices \/ Updating(t)
    BY <1>k DEF MapServes
  <2>2. CASE Serves(map[t], t)
    <3>1. PICK j \in Timer : j = map[t]
      BY <1>k, <1>t
    <3>2. \A u \in Task : map[u] = j => ~Updated(u)
      BY <1>k, <1>t, <3>1 DEF MapHoldsLive
    <3>3. Serves(j, t)'
      BY <1>2, <1>k, <2>2, <3>1, <3>2, TimerStays
    <3>4. map'[t] = j
      BY <1>k, <3>1
    <3> QED
      BY <3>3, <3>4 DEF Serves
  <2>3. CASE Updating(t)
    <3>1. PICK c \in Handler :
             call[c].pc \in {"insert", "notify"} /\ call[c].kind = "update" /\ call[c].task = t
      BY <2>3 DEF Updating
    <3>2. call[c] \in CallType
      BY <1>t
    <3> QED
      BY <1>k, <3>1, <3>2 DEF Updating, CallType
  <2> QED
    BY <1>k, <2>1, <2>2, <2>3
<1>3. ASSUME ~Updated(t), NEW c \in Handler, HandlerStep(c) PROVE Goal(t)
  <2>0. UNCHANGED map /\ \A d \in Handler : d # c => call'[d] = call[d]
    BY <1>3, <1>t, HandlerLeaves, HandlerGoesOn
  <2>1. CASE t # call[c].task
    BY <1>3, <1>k, <1>t, <2>0, <2>1, OthersUntouched
  <2>2. CASE t = call[c].task /\ Store(c)
    <3>1. call'[c] = [call[c] EXCEPT !.pc = "insert"] /\ call[c].pc = "store" /\ call[c] \in CallType
      BY <1>t, <2>2, StoreStores
    <3>2. call[c].kind # "delete"
      BY <1>t, <2>2, <3>1, StoreStores DEF CallsServe
    <3>3. call[c].kind # "create"
      <4>1. ASSUME call[c].kind = "create" PROVE map[t] = NoTimer
        <5>1. tasks[t].status = "none"
          BY <2>2, <3>1, <4>1 DEF Creating
        <5>2. NoTimerOf(t)
          BY <5>1, UnknownParts DEF Unheard
        <5> QED
          BY <1>t, <5>2 DEF NoTimerOf, MapHoldsLive
      <4> QED
        BY <2>0, <4>1
    <3>4. call[c].kind = "update"
      BY <1>t, <3>1, <3>2, <3>3 DEF CallsServe, CallType
    <3>5. Updating(t)'
      BY <1>t, <2>2, <3>1, <3>4 DEF Updating, CallType
    <3> QED
      BY <3>5
  <2>3. CASE t = call[c].task /\ (InsertRow(c) \/ SkipRow(c))
    <3>1. /\ call' = [call EXCEPT ![c].pc = "notify"] /\ UNCHANGED <<tasks, notices>>
          /\ dropped \subseteq dropped'
      BY <2>3 DEF InsertRow, SkipRow, tables
    <3>2. call'[c] = [call[c] EXCEPT !.pc = "notify"]
      BY <1>t, <3>1
    <3> QED
      BY <1>3, <1>k, <2>0, <3>1, <3>2
  <2>4. CASE t = call[c].task /\ SendNotice(c)
    <3>1. /\ notices' = notices \cup {<<call[c].kind, t>>} /\ UNCHANGED <<tasks, dropped>>
      BY <2>4 DEF SendNotice, tables
    <3> QED
      BY <1>3, <1>k, <2>0, <3>1
  <2>5. CASE t = call[c].task /\ HandlerFails(c)
    <3>1. UNCHANGED <<tasks, notices>> /\ dropped \subseteq dropped'
      BY <1>t, <2>5, FailureDrops DEF HandlerFails, tables
    <3>2. call[c].pc \notin {"insert", "notify"}
      BY <1>t, <2>0, <2>5, FailureDrops DEF Untold
    <3> QED
      BY <1>3, <1>k, <2>0, <3>1, <3>2
  <2> QED
    BY <1>3, <2>1, <2>2, <2>3, <2>4, <2>5 DEF HandlerStep, Handle
<1>4. ASSUME ~Updated(t), NEW i \in Timer, CallbackStep(i) PROVE Goal(t)
  <2>0. UNCHANGED <<call, notices>> /\ dropped \subseteq dropped'
    BY <1>4, CallbackLeaves
  <2>1. map'[t] = map[t]
    <3>1. CASE Forget(i)
      BY <1>t, <3>1 DEF Forget
    <3>2. CASE ~Forget(i)
      BY <1>4, <3>2 DEF CallbackStep, Callback, Fire, SaveTask, SaveFails, SaveRow, Promise
    <3> QED
      BY <3>1, <3>2
  <2>2. tasks'[t] = tasks[t]
    <3>1. CASE SaveTask(i) \/ Promise(i)
      <4>1. timer[i].pc # "free" /\ Finish(i)
        BY <3>1 DEF SaveTask, Promise
      <4> QED
        BY <1>t, <4>1, FinishStores
    <3>2. CASE ~SaveTask(i) /\ ~Promise(i)
      BY <1>4, <3>2 DEF CallbackStep, Callback, Fire, SaveFails, SaveRow, Forget, tables
    <3> QED
      BY <3>1, <3>2
  <2> QED
    BY <1>4, <1>k, <2>0, <2>1, <2>2
<1>5. ASSUME ~Updated(t), NEW u \in Task, ManagerStep(u) PROVE Goal(t)
  <2>0. UNCHANGED <<tasks, call>> /\ dropped \subseteq dropped'
    BY <1>5, ManagerLeaves
  <2>1. CASE u # t
    <3>1. map'[t] = map[t]
      <4>1. CASE Created(u)
        BY <1>t, <2>1, <4>1 DEF Created, AddToTimerMap
      <4>2. CASE Updated(u)
        BY <1>t, <2>1, <4>2 DEF Updated
      <4>3. CASE ~Created(u) /\ ~Updated(u)
        BY <1>5, <1>t, <2>1, <4>3 DEF ManagerStep, Manage, Deleted, UpdatedFails, NoticeLost, Remove
      <4> QED
        BY <4>1, <4>2, <4>3
    <3>2. <<"update", t>> \in notices => <<"update", t>> \in notices'
      BY <1>5, <2>1 DEF ManagerStep, Manage, Created, Updated, Deleted, UpdatedFails, NoticeLost, Receive
    <3> QED
      BY <1>5, <1>k, <2>0, <3>1, <3>2
  <2>2. CASE u = t /\ Created(t)
    <3>1. CASE AddToTimerMap(t)
      BY <2>0, <3>1, AddArms, ArmingServes
    <3>2. CASE UNCHANGED <<timer, map>>
      <4>1. <<"update", t>> \in notices => <<"update", t>> \in notices'
        BY <2>2 DEF Created, Receive
      <4> QED
        BY <1>5, <1>k, <2>0, <3>2, <4>1
    <3> QED
      BY <2>2, <3>1, <3>2 DEF Created
  <2>3. ASSUME NEW kind \in {"create", "update", "delete"}, NoticeLost(kind, t) PROVE FALSE
    BY <2>3 DEF NoticeLost, Untold
  <2>4. ~Deleted(t) /\ ~UpdatedFails(t)
    BY DEF Deleted, UpdatedFails, Remove
  <2> QED
    BY <1>5, <2>1, <2>2, <2>3, <2>4 DEF ManagerStep, Manage
<1>6. ASSUME ~Updated(t), NEW l \in Loop, ExecutorStep(l) PROVE Goal(t)
  <2>0. UNCHANGED <<tasks, call, notices>> /\ dropped \subseteq dropped'
    BY <1>6, ExecutorLeaves
  <2>1. ASSUME UNCHANGED map PROVE Goal(t)
    BY <1>6, <1>k, <2>0, <2>1
  <2>2. ASSUME NEW v \in Task, Takes(l, v) PROVE Goal(t)
    <3>1. CASE AddToTimerMap(v) /\ v = t
      BY <2>0, <3>1, AddArms, ArmingServes
    <3>2. CASE AddToTimerMap(v) /\ v # t
      <4>1. map'[t] = map[t]
        BY <1>t, <3>2 DEF AddToTimerMap
      <4> QED
        BY <1>6, <1>k, <2>0, <4>1
    <3> QED
      BY <2>1, <2>2, <3>1, <3>2 DEF Takes, Add, AddFails
  <2>3. ~Begin(l)
    BY DEF Begin
  <2>4. CASE Wake(l) \/ Finds(l) \/ Sleep(l)
    BY <2>1, <2>4 DEF Wake, Finds, Query, QueryFails, Sleep
  <2> QED
    BY <1>6, <2>2, <2>3, <2>4 DEF ExecutorStep, Scans
<1>7. ASSUME ~Updated(t), NEW c \in Handler, ClientStep(c) PROVE Goal(t)
  BY <1>7, <1>k, <1>t, ClientLeaves, RequestsStay
<1>8. ASSUME ~Updated(t), UNCHANGED <<tasks, map, call, notices, dropped>> PROVE Goal(t)
  BY <1>8, <1>k
<1> QED
  BY <1>1, <1>2, <1>3, <1>4, <1>5, <1>6, <1>7, <1>8, Steps, LaunchLeaves, TickLeaves

-----------------------------------------------------------------------------
(***************************************************************************)
(* Sleeps and horizons.                                                    *)
(***************************************************************************)
LEMMA StepAsleepAhead ==
    ASSUME TypeOK, AsleepAhead, Next
    PROVE  AsleepAhead'
<1>t. loop \in [Loop -> LoopType] /\ now \in Nat /\ Period \in Nat
  BY Types, Numbers
<1>1. ASSUME UNCHANGED <<now, loop>> PROVE AsleepAhead'
  BY <1>1 DEF AsleepAhead
<1>2. ASSUME NEW l \in Loop, Launch(l) \/ ExecutorStep(l) PROVE AsleepAhead'
  <2>1. now' = now
    BY <1>2, LaunchLeaves, ExecutorLeaves
  <2>2. CASE Launch(l) \/ Begin(l)
    BY <1>t, <2>1, <2>2 DEF Launch, Begin, AsleepAhead, LoopType
  <2>3. CASE Finds(l) \/ \E t \in Task : Takes(l, t)
    BY <1>t, <2>1, <2>3 DEF Finds, Query, QueryFails, Takes, Add, AddFails, AsleepAhead, LoopType
  <2>4. CASE Sleep(l)
    BY <1>t, <2>1, <2>4 DEF Sleep, Asleep, AsleepAhead
  <2>5. CASE Wake(l)
    BY <1>t, <2>1, <2>5 DEF Wake, Asleep, AsleepAhead
  <2> QED
    BY <1>2, <2>2, <2>3, <2>4, <2>5 DEF ExecutorStep, Scans
<1>3. ASSUME Tick PROVE AsleepAhead'
  <2>1. \A l \in Loop : loop[l].pc = "asleep" => ~(loop[l].wake <= now)
    BY <1>3 DEF Tick, Due
  <2> QED
    BY <1>3, <1>t, <2>1, TickLeaves DEF AsleepAhead, LoopType
<1> QED
  BY <1>1, <1>2, <1>3, Steps, CallbackLeaves, HandlerLeaves, ClientLeaves, ManagerLeaves, StopLeaves

(***************************************************************************)
(* An executor that has its next scan before w goes on having it, unless   *)
(* it begins a scan: then w is within the slice or beyond the sleep.       *)
(***************************************************************************)
LEMMA StepScansBefore ==
    ASSUME TypeOK, Next, NEW l \in Loop, NEW w \in Times, ScansBefore(l, w), ~Scans(l)
    PROVE  ScansBefore(l, w)'
<1>t. loop \in [Loop -> LoopType] /\ now \in Nat /\ Period \in Nat /\ w \in Nat
  BY Types, Numbers
<1>1. ASSUME now' = now, loop'[l] = loop[l] PROVE ScansBefore(l, w)'
  BY <1>1 DEF ScansBefore
<1>2. ASSUME NEW k \in Loop, Launch(k) \/ ExecutorStep(k) PROVE ScansBefore(l, w)'
  <2>1. now' = now
    BY <1>2, LaunchLeaves, ExecutorLeaves
  <2>2. CASE k # l
    <3>1. loop'[l] = loop[l]
      BY <1>2, <1>t, <2>2 DEF Launch, ExecutorStep, Scans, Begin, Wake, Finds, Query, QueryFails,
                              Takes, Add, AddFails, Sleep
    <3> QED
      BY <1>1, <2>1, <3>1
  <2>3. CASE k = l
    <3>1. CASE Launch(l)
      BY <3>1 DEF Launch, ScansBefore
    <3>2. CASE Finds(l) \/ \E t \in Task : Takes(l, t)
      BY <1>t, <2>1, <3>2 DEF Finds, Query, QueryFails, Takes, Add, AddFails, ScansBefore, LoopType
    <3>3. CASE Sleep(l)
      BY <1>t, <2>1, <3>3 DEF Sleep, Asleep, ScansBefore
    <3> QED
      BY <1>2, <2>3, <3>1, <3>2, <3>3 DEF ExecutorStep
  <2> QED
    BY <2>2, <2>3
<1>3. ASSUME Tick PROVE ScansBefore(l, w)'
  BY <1>3, TickLeaves DEF Tick, Due, ScansBefore
<1> QED
  BY <1>1, <1>2, <1>3, Steps, CallbackLeaves, HandlerLeaves, ClientLeaves, ManagerLeaves, StopLeaves

LEMMA ScanCovers ==
    ASSUME TypeOK, NEW l \in Loop, Scans(l), NEW w \in Times, w < Close
    PROVE  w < horizon' \/ ScansBefore(l, w)'
<1>t. loop \in [Loop -> LoopType] /\ now \in Times
  BY Types
<1>1. horizon' = TimeForQuery /\ loop'[l].pc = "query" /\ now' = now
  BY <1>t DEF Scans, Begin, Wake, LoopType, Asleep
<1> QED
  BY <1>1, <1>t, HorizonOfAScan DEF ScansBefore

LEMMA StepHorizonScanned ==
    ASSUME TypeOK, HorizonScanned, Next
    PROVE  HorizonScanned'
<1>t. /\ loop \in [Loop -> LoopType] /\ now \in Nat /\ horizon \in Int
      /\ since \in Times \cup {Never} /\ Never \notin Nat /\ Times \subseteq Nat
  BY Types, Numbers
<1> SUFFICES ASSUME since' # Never, NEW w \in Times, since' < w, w < Close
             PROVE  w < horizon' \/ \E l \in Loop : ScansBefore(l, w)'
  BY DEF HorizonScanned
<1>1. ASSUME NEW l \in Loop, Scans(l)
      PROVE  w < horizon' \/ \E k \in Loop : ScansBefore(k, w)'
  BY <1>1, ScanCovers
<1>2. ASSUME NEW l \in Loop, Launch(l) PROVE ScansBefore(l, w)'
  <2>1. now' = now /\ since' = now /\ loop'[l].pc = "launched"
    BY <1>2, <1>t DEF Launch, LoopType
  <2> QED
    BY <2>1 DEF ScansBefore
<1>3. ASSUME \A l \in Loop : ~Scans(l) /\ ~Launch(l)
      PROVE  w < horizon' \/ \E l \in Loop : ScansBefore(l, w)'
  <2>1. UNCHANGED <<horizon, since>>
    BY <1>3, Steps, ExecutorLeaves, CallbackLeaves, HandlerLeaves, ClientLeaves, ManagerLeaves,
       StopLeaves, TickLeaves
  <2>2. w < horizon \/ \E l \in Loop : ScansBefore(l, w)
    BY <2>1 DEF HorizonScanned
  <2>3. ASSUME NEW l \in Loop, ScansBefore(l, w) PROVE ScansBefore(l, w)'
    BY <1>3, <2>3, StepScansBefore
  <2> QED
    BY <2>1, <2>2, <2>3
<1> QED
  BY <1>1, <1>2, <1>3

-----------------------------------------------------------------------------
(***************************************************************************)
(* A pending task keeps what will have it executed.                        *)
(***************************************************************************)
LEMMA StepHasTimer ==
    ASSUME Facts, Next, NEW t \in Task, HasTimer(t), tasks'[t] = tasks[t],
           tasks'[t].status = "Pending", t \notin dropped', since' # Never
    PROVE  HasTimer(t)'
<1>t. map \in [Task -> Timer \cup {NoTimer}] /\ MapHoldsLive /\ NoTimer \notin Timer
  BY Types, Numbers DEF Facts
<1>1. PICK j \in Timer : Serves(j, t)
  BY DEF HasTimer
<1>2. CASE \E u \in Task : map[u] = j /\ Updated(u)
  <2>1. map[t] = j /\ Updated(t) /\ map[t] # NoTimer
    BY <1>t, <1>1, <1>2 DEF MapHoldsLive, Serves
  <2>2. Rearms(t) /\ UNCHANGED tasks
    BY <2>1 DEF Updated, Rearms, ArmedFor, Receive, tables
  <2>3. map'[t] \in Timer /\ Serves(map[t], t)'
    BY <2>2, ArmingServes
  <2> QED
    BY <2>3 DEF HasTimer
<1>3. CASE \A u \in Task : map[u] = j => ~Updated(u)
  <2>1. ~StopExecution
    BY DEF StopExecution
  <2> QED
    BY <1>1, <1>3, <2>1, TimerStays DEF HasTimer
<1> QED
  BY <1>2, <1>3

(* Beyond the horizon of the last scan there is another. *)
LEMMA BeyondTheHorizon ==
    ASSUME TypeOK, HorizonScanned, NEW t \in Task, since # Never, since < tasks[t].when,
           tasks[t].when < Close, ~(tasks[t].when < horizon)
    PROVE  \E l \in Loop : WillFind(l, t)
<1>1. tasks[t].when \in Times
  BY Types DEF TaskType
<1> QED
  BY <1>1 DEF HorizonScanned, WillFind

(* What an executor was going to find, it or the timer it sets keeps. *)
LEMMA ExecutorKeeps ==
    ASSUME IInv, NEW l \in Loop, ExecutorStep(l), NEW t \in Task, Concerns(t)',
           NEW k \in Loop, WillFind(k, t)
    PROVE  HasTimer(t) \/ HasTimer(t)' \/ Announced(t) \/ UnderWay(t) \/ WillFind(k, t)'
<1>t. /\ loop \in [Loop -> LoopType] /\ now \in Nat /\ Period \in Nat /\ 0 < Period
      /\ tasks[t].when \in Times /\ tasks[t].when \in Nat /\ now \in Times
      /\ TypeOK /\ PendingHasRow /\ AsleepAhead /\ MapServes /\ Facts
      /\ map \in [Task -> Timer \cup {NoTimer}]
  BY Types, Numbers DEF TaskType, IInv, Facts
<1>u. UNCHANGED <<now, tasks, since>> /\ dropped \subseteq dropped'
  BY ExecutorLeaves
<1>c. tasks[t].status = "Pending" /\ tasks[t].when < Close /\ t \notin dropped /\ t \notin dropped'
  BY <1>u DEF Concerns
<1>1. CASE k # l
  <2>1. loop'[k] = loop[k]
    BY <1>1, <1>t DEF ExecutorStep, Scans, Begin, Wake, Finds, Query, QueryFails, Takes, Add,
                      AddFails, Sleep
  <2> QED
    BY <1>u, <2>1 DEF WillFind, ScansBefore
<1>2. CASE k = l /\ Begin(l)
  <2>1. loop'[l].pc = "query" /\ now < tasks[t].when
    BY <1>2, <1>t DEF Begin, WillFind, ScansBefore, LoopType
  <2> QED
    BY <1>2, <1>u, <2>1 DEF WillFind
<1>3. CASE k = l /\ Finds(l)
  <2>0. loop[l].pc = "query"
    BY <1>3 DEF Finds, Query, QueryFails
  <2>1. now < tasks[t].when
    BY <1>3, <1>t, <2>0 DEF WillFind, ScansBefore
  <2>2. PICK found \in SUBSET Matching :
           /\ loop' = [loop EXCEPT ![l].pc = "add", ![l].found = found]
           /\ t \in Matching \ found => ~(tasks[t].when <= now + Period)
    BY <1>3, <1>c DEF Finds, Query, QueryFails, Miss
  <2>3. loop'[l].pc = "add" /\ loop'[l].found = found
    BY <1>t, <2>2 DEF LoopType
  <2>4. CASE t \in found
    BY <1>3, <1>u, <2>1, <2>3, <2>4 DEF WillFind
  <2>5. CASE t \notin found /\ t \in Matching
    <3>1. now + Period < tasks[t].when
      BY <1>t, <2>2, <2>5
    <3> QED
      BY <1>3, <1>u, <2>3, <3>1 DEF WillFind, ScansBefore
  <2>6. CASE t \notin Matching /\ tasks[t].when < TimeForQuery
    <3> DEFINE row == [when |-> tasks[t].when, task |-> t]
    <3>1. row \notin rows
      <4>1. row.when = tasks[t].when /\ row.task = t
        OBVIOUS
      <4> HIDE DEF row
      <4> QED
        BY <2>1, <2>6, <4>1 DEF Matching
    <3>2. Inserting(t)
      BY <1>c, <1>t, <2>1, <3>1 DEF PendingHasRow
    <3> QED
      BY <3>2 DEF Inserting, UnderWay
  <2>7. CASE ~(tasks[t].when < TimeForQuery)
    <3>1. now + Period < tasks[t].when
      BY <1>c, <1>t, <2>7, HorizonOfAScan
    <3> QED
      BY <1>3, <1>u, <2>3, <3>1 DEF WillFind, ScansBefore
  <2> QED
    BY <2>4, <2>5, <2>6, <2>7
<1>4. ASSUME k = l, NEW u \in Task, Takes(l, u)
      PROVE  HasTimer(t) \/ HasTimer(t)' \/ Announced(t) \/ UnderWay(t) \/ WillFind(k, t)'
  <2>1. loop'[l].pc = "add" /\ loop'[l].found = loop[l].found \ {u} /\ loop[l].pc = "add"
    BY <1>4, <1>t DEF Takes, Add, AddFails, LoopType
  <2>2. CASE u = t /\ Add(l, u)
    <3>1. CASE map[t] = NoTimer
      <4>1. Arms(t)
        BY <2>2, <3>1, AddArms DEF Add
      <4> QED
        BY <1>t, <1>u, <4>1, ArmingServes DEF HasTimer
    <3>2. CASE map[t] # NoTimer
      <4>1. Serves(map[t], t) \/ <<"update", t>> \in notices \/ Updating(t)
        BY <1>c, <1>t, <3>2 DEF MapServes
      <4> QED
        BY <1>t, <3>2, <4>1 DEF HasTimer, Announced, UnderWay, Updating
    <3> QED
      BY <3>1, <3>2
  <2>3. CASE u = t /\ AddFails(l, u)
    <3>1. ~(tasks[t].when <= now + Period)
      BY <1>c, <2>3 DEF AddFails, Miss
    <3>2. now + Period < tasks[t].when
      BY <1>t, <3>1
    <3> QED
      BY <1>4, <1>u, <2>1, <3>2 DEF WillFind, ScansBefore
  <2>4. CASE u # t
    BY <1>4, <1>u, <2>1, <2>4 DEF WillFind, ScansBefore
  <2> QED
    BY <1>4, <2>2, <2>3, <2>4 DEF Takes
<1>5. CASE k = l /\ Sleep(l)
  <2>1. ScansBefore(l, tasks[t].when)
    BY <1>5 DEF Sleep, WillFind
  <2>2. loop'[l].pc = "asleep" /\ loop'[l].wake = now + Period
    BY <1>5, <1>t DEF Sleep, Asleep
  <2>3. now + Period < tasks[t].when
    BY <1>5, <2>1 DEF Sleep, ScansBefore
  <2> QED
    BY <1>5, <1>u, <2>2, <2>3 DEF WillFind, ScansBefore
<1>6. CASE k = l /\ Wake(l)
  <2>1. loop[l].wake < tasks[t].when /\ now = loop[l].wake
    BY <1>6, <1>t DEF Wake, WillFind, ScansBefore, AsleepAhead, LoopType
  <2>2. loop'[l].pc = "query"
    BY <1>6, <1>t DEF Wake, Asleep
  <2> QED
    BY <1>6, <1>u, <2>1, <2>2 DEF WillFind
<1> QED
  BY <1>1, <1>2, <1>3, <1>4, <1>5, <1>6 DEF ExecutorStep, Scans

LEMMA StepPendingKept ==
    ASSUME IInv, Next
    PROVE  PendingKept'
<1> SUFFICES ASSUME NEW t \in Task, Concerns(t)'
             PROVE  Kept(t)'
  BY DEF PendingKept
<1>t. /\ loop \in [Loop -> LoopType] /\ tasks \in [Task -> TaskType] /\ call \in [Handler -> CallType]
      /\ Facts /\ TypeOK /\ TimersServe /\ CallsServe /\ HorizonScanned /\ alive
      /\ since \in Times \cup {Never} /\ now \in Nat /\ Times \subseteq Nat
  BY Types, Numbers DEF IInv, Facts, Next
<1>p. tasks'[t].status = "Pending" /\ t \notin dropped' /\ since' # Never
  BY DEF Concerns
(* The task as it was, and an execution that goes on: it was kept before. *)
<1>k. ASSUME tasks'[t] = tasks[t], since' = since, t \notin dropped,
             Announced(t) => Kept(t)', UnderWay(t) => Kept(t)',
             \A l \in Loop : WillFind(l, t) =>
                 \/ HasTimer(t) \/ HasTimer(t)' \/ Announced(t) \/ UnderWay(t)
                 \/ \E k \in Loop : WillFind(k, t)'
      PROVE  Kept(t)'
  <2>1. Kept(t)
    BY <1>k, <1>t DEF IInv, PendingKept, Concerns
  <2>2. HasTimer(t) => HasTimer(t)'
    BY <1>k, <1>p, <1>t, StepHasTimer
  <2> QED
    BY <1>k, <2>1, <2>2 DEF Kept
<1>s. ASSUME UNCHANGED <<now, loop>>, tasks'[t] = tasks[t]
      PROVE  \A l \in Loop : WillFind(l, t) => WillFind(l, t)'
  BY <1>s DEF WillFind, ScansBefore
(* Nothing changes for the task in the scans, the notices and the requests. *)
<1>q. ASSUME UNCHANGED <<now, loop, since>>, tasks'[t] = tasks[t], t \notin dropped,
             Announced(t) => Announced(t)', UnderWay(t) => UnderWay(t)' \/ Announced(t)'
      PROVE  Kept(t)'
  BY <1>k, <1>q, <1>s DEF Kept
(* What a lost notice would have told, a scan will find. *)
<1>l. ASSUME Untold(t), UNCHANGED <<now, loop, since, tasks, horizon>> PROVE Kept(t)'
  <2>1. ~(tasks[t].when < horizon)
    BY <1>l, <1>p DEF Untold
  <2>2. since # Never /\ since < tasks[t].when /\ tasks[t].when < Close
    BY <1>l DEF Concerns
  <2>3. PICK l \in Loop : WillFind(l, t)
    BY <1>t, <2>1, <2>2, BeyondTheHorizon
  <2> QED
    BY <1>l, <1>s, <2>3 DEF Kept
<1>1. ASSUME NEW c \in Handler, HandlerStep(c) PROVE Kept(t)'
  <2>0. UNCHANGED <<now, loop, since, horizon>> /\ \A d \in Handler : d # c => call'[d] = call[d]
    BY <1>1, <1>t, HandlerLeaves, HandlerGoesOn
  <2>1. CASE t # call[c].task
    <3>1. \A d \in Handler : call[d].task = t => call'[d] = call[d]
      BY <2>0, <2>1
    <3>2. tasks'[t] = tasks[t] /\ t \notin dropped
      BY <1>1, <1>p, <1>t, <2>1, OthersUntouched
    <3>3. Announced(t) => Announced(t)'
      BY <1>1, <1>t, <2>1, OthersUntouched DEF Announced
    <3>4. UnderWay(t) => UnderWay(t)'
      BY <3>1 DEF UnderWay
    <3> QED
      BY <1>q, <2>0, <3>2, <3>3, <3>4
  <2>2. CASE t = call[c].task /\ Store(c)
    <3>1. call'[c] = [call[c] EXCEPT !.pc = "insert"] /\ call[c] \in CallType /\ call[c].pc = "store"
      BY <1>t, <2>2, StoreStores
    <3>2. call[c].kind # "delete"
      BY <1>p, <1>t, <2>2, <3>1, StoreStores DEF CallsServe
    <3> QED
      BY <2>2, <3>1, <3>2 DEF Kept, UnderWay, CallType
  <2>3. CASE t = call[c].task /\ (InsertRow(c) \/ SkipRow(c))
    <3>1. /\ call' = [call EXCEPT ![c].pc = "notify"] /\ UNCHANGED <<tasks, notices>>
          /\ t \notin dropped
      BY <1>p, <2>3 DEF InsertRow, SkipRow, tables
    <3>2. call'[c] = [call[c] EXCEPT !.pc = "notify"] /\ call[c] \in CallType
      BY <1>t, <3>1
    <3>3. UnderWay(t) => UnderWay(t)'
      BY <2>0, <3>2 DEF UnderWay, CallType
    <3>4. Announced(t) => Announced(t)'
      BY <3>1 DEF Announced
    <3> QED
      BY <1>q, <2>0, <3>1, <3>3, <3>4
  <2>4. CASE t = call[c].task /\ SendNotice(c)
    <3>1. notices' = notices \cup {<<call[c].kind, t>>} /\ UNCHANGED <<tasks, dropped>>
      BY <2>4 DEF SendNotice, tables
    <3>2. UnderWay(t) => UnderWay(t)' \/ Announced(t)'
      <4>1. ASSUME UnderWay(t) PROVE UnderWay(t)' \/ Announced(t)'
        <5>1. PICK d \in Handler :
                 call[d].task = t /\ call[d].pc \in {"insert", "notify"} /\ call[d].kind # "delete"
          BY <4>1 DEF UnderWay
        <5>2. CASE d = c
          <6>1. call[c].kind \in {"create", "update"}
            BY <1>t, <5>1, <5>2 DEF CallsServe, CallType
          <6> QED
            BY <3>1, <6>1 DEF Announced
        <5>3. CASE d # c
          BY <2>0, <5>1, <5>3 DEF UnderWay
        <5> QED
          BY <5>2, <5>3
      <4> QED
        BY <4>1
    <3>3. Announced(t) => Announced(t)'
      BY <3>1 DEF Announced
    <3> QED
      BY <1>p, <1>q, <2>0, <3>1, <3>2, <3>3
  <2>5. CASE t = call[c].task /\ HandlerFails(c)
    <3>1. UNCHANGED <<tasks, notices>> /\ call[c].pc # "insert" /\ dropped \subseteq dropped'
      BY <1>p, <1>t, <2>5, FailureDrops DEF HandlerFails, tables
    <3>2. CASE call[c].pc = "notify"
      <4>1. Untold(t)
        BY <1>t, <2>5, <3>2, FailureDrops
      <4> QED
        BY <1>l, <2>0, <3>1, <4>1
    <3>3. CASE call[c].pc # "notify"
      <4>1. UnderWay(t) => UnderWay(t)'
        BY <2>0, <3>1, <3>3 DEF UnderWay
      <4>2. Announced(t) => Announced(t)'
        BY <3>1 DEF Announced
      <4> QED
        BY <1>p, <1>q, <2>0, <3>1, <4>1, <4>2
    <3> QED
      BY <3>2, <3>3
  <2> QED
    BY <1>1, <2>1, <2>2, <2>3, <2>4, <2>5 DEF HandlerStep, Handle
<1>2. ASSUME NEW i \in Timer, CallbackStep(i) PROVE Kept(t)'
  <2>0. UNCHANGED <<now, loop, since, notices, call>> /\ t \notin dropped
    BY <1>2, <1>p, CallbackLeaves
  <2>1. tasks'[t] = tasks[t]
    <3>1. CASE SaveTask(i) \/ Promise(i)
      <4>1. timer[i].pc # "free" /\ Finish(i)
        BY <3>1 DEF SaveTask, Promise
      <4> QED
        BY <1>p, <1>t, <4>1, FinishStores
    <3>2. CASE ~SaveTask(i) /\ ~Promise(i)
      BY <1>2, <3>2 DEF CallbackStep, Callback, Fire, SaveFails, SaveRow, Forget, tables
    <3> QED
      BY <3>1, <3>2
  <2>2. (Announced(t) => Announced(t)') /\ (UnderWay(t) => UnderWay(t)')
    BY <2>0 DEF Announced, UnderWay
  <2> QED
    BY <1>q, <2>0, <2>1, <2>2
<1>3. ASSUME NEW u \in Task, ManagerStep(u) PROVE Kept(t)'
  <2>0. UNCHANGED <<now, loop, since, tasks, horizon, call>> /\ t \notin dropped
    BY <1>3, <1>p, ManagerLeaves
  <2>1. UnderWay(t) => UnderWay(t)'
    BY <2>0 DEF UnderWay
  <2>2. CASE Created(t)
    <3>1. CASE AddToTimerMap(t)
      BY <1>t, <2>0, <3>1, AddArms, ArmingServes DEF Kept, HasTimer
    <3>2. CASE ~(horizon # Never /\ tasks[t].when < horizon)
      <4>1. ~(tasks[t].when < horizon)
        <5>1. tasks[t].when \in Nat
          BY <1>t DEF TaskType
        <5> QED
          BY <3>2, <5>1 DEF Never
      <4>2. since # Never /\ since < tasks[t].when /\ tasks[t].when < Close
        BY <2>0 DEF Concerns
      <4>3. PICK l \in Loop : WillFind(l, t)
        BY <1>t, <4>1, <4>2, BeyondTheHorizon
      <4> QED
        BY <1>s, <2>0, <4>3 DEF Kept
    <3> QED
      BY <2>2, <3>1, <3>2 DEF Created
  <2>3. CASE Updated(t)
    <3>1. map[t] # NoTimer
      BY <2>3 DEF Updated, Concerns
    <3>2. Rearms(t)
      BY <2>3, <3>1 DEF Updated, Rearms, ArmedFor
    <3> QED
      BY <1>t, <2>0, <3>2, ArmingServes DEF Kept, HasTimer
  <2>4. ASSUME NEW kind \in {"create", "update", "delete"}, NoticeLost(kind, t) PROVE Kept(t)'
    BY <1>l, <2>0, <2>4 DEF NoticeLost
  <2>5. ~Deleted(t) /\ ~UpdatedFails(t)
    BY <1>p DEF Deleted, UpdatedFails, Remove
  <2>6. CASE u # t
    <3>1. Announced(t) => Announced(t)'
      BY <1>3, <2>6 DEF ManagerStep, Manage, Created, Updated, Deleted, UpdatedFails, NoticeLost,
                        Receive, Announced
    <3> QED
      BY <1>q, <2>0, <2>1, <3>1
  <2> QED
    BY <1>3, <2>2, <2>3, <2>4, <2>5, <2>6 DEF ManagerStep, Manage
<1>4. ~StopExecution
  BY <1>p, StopLeaves
<1>5. ASSUME Tick PROVE Kept(t)'
  <2>0. UNCHANGED <<loop, since, tasks, notices, call, dropped>>
    BY <1>5, TickLeaves
  <2>1. ASSUME NEW l \in Loop, WillFind(l, t) PROVE WillFind(l, t)'
    BY <1>5, <2>0, <2>1 DEF Tick, Due, WillFind, ScansBefore
  <2>2. (Announced(t) => Announced(t)') /\ (UnderWay(t) => UnderWay(t)')
    BY <2>0 DEF Announced, UnderWay
  <2> QED
    BY <1>k, <1>p, <2>0, <2>1, <2>2 DEF Kept
<1>6. ASSUME NEW l \in Loop, Launch(l) PROVE Kept(t)'
  <2>1. loop'[l].pc = "launched" /\ now' = now /\ since' = now
    BY <1>6, <1>t DEF Launch, LoopType
  <2>2. now' < tasks'[t].when
    BY <2>1 DEF Concerns
  <2> QED
    BY <2>1, <2>2 DEF Kept, WillFind
<1>7. ASSUME NEW l \in Loop, ExecutorStep(l) PROVE Kept(t)'
  <2>0. UNCHANGED <<tasks, since, notices, call>> /\ t \notin dropped
    BY <1>7, <1>p, ExecutorLeaves
  <2>1. \A k \in Loop : WillFind(k, t) =>
           HasTimer(t) \/ HasTimer(t)' \/ Announced(t) \/ UnderWay(t) \/ WillFind(k, t)'
    BY <1>7, ExecutorKeeps
  <2>2. (Announced(t) => Announced(t)') /\ (UnderWay(t) => UnderWay(t)')
    BY <2>0 DEF Announced, UnderWay
  <2> QED
    BY <1>k, <2>0, <2>1, <2>2 DEF Kept
<1>8. ASSUME NEW c \in Handler, ClientStep(c) PROVE Kept(t)'
  <2>0. UNCHANGED <<now, tasks, loop, since, notices, dropped>>
    BY <1>8, ClientLeaves
  <2>1. Announced(t) => Announced(t)'
    BY <2>0 DEF Announced
  <2>2. UnderWay(t) => UnderWay(t)'
    BY <1>8, <1>t, RequestsStay DEF UnderWay
  <2> QED
    BY <1>p, <1>q, <2>0, <2>1, <2>2
<1> QED
  BY <1>1, <1>2, <1>3, <1>4, <1>5, <1>6, <1>7, <1>8, Steps

LEMMA StepIInv == IInv /\ [Next]_vars => IInv'
<1> SUFFICES ASSUME IInv, [Next]_vars PROVE IInv'
  OBVIOUS
<1>1. CASE Next
  BY <1>1, StepFacts, StepUnknown, StepCreating, StepPendingHasRow, StepMapServes,
     StepAsleepAhead, StepHorizonScanned, StepPendingKept DEF IInv, Facts
<1>2. CASE UNCHANGED vars
  <2>0. UNCHANGED <<now, tasks, rows, map, horizon, timer, loop, call, notices, alive, used, since, dropped>>
    BY <1>2 DEF vars, tables, clients
  <2>1. Facts'
    BY <2>0 DEF IInv, Facts, TypeOK, TimersServe, CallsServe, MapHoldsLive
  <2>2. Unknown' /\ Creating'
    BY <2>0 DEF IInv, Unknown, Creating
  <2>3. PendingHasRow' /\ MapServes'
    BY <2>0 DEF IInv, PendingHasRow, Inserting, MapServes, Serves, Updating
  <2>4. AsleepAhead' /\ HorizonScanned'
    BY <2>0 DEF IInv, AsleepAhead, HorizonScanned, ScansBefore
  <2>5. PendingKept'
    BY <2>0 DEF IInv, PendingKept, Concerns, Kept, HasTimer, Serves, Announced, UnderWay,
                WillFind, ScansBefore
  <2> QED
    BY <2>1, <2>2, <2>3, <2>4, <2>5 DEF IInv
<1> QED
  BY <1>1, <1>2

-----------------------------------------------------------------------------
(***************************************************************************)
(* The variables of the queue keep their types.                            *)
(***************************************************************************)
THEOREM TypeCorrect == Spec => []TypeOK
<1>1. IInv => TypeOK
  BY DEF IInv, Facts
<1> QED
  BY <1>1, InitIInv, StepIInv, PTL DEF Spec

(***************************************************************************)
(* Whatever executors, callbacks and manager do to it at the same time,    *)
(* the map holds for a task a timer of that very task that has not ended.  *)
(***************************************************************************)
THEOREM MapIsLive == Spec => []MapHoldsLive
<1>1. IInv => MapHoldsLive
  BY DEF IInv, Facts
<1> QED
  BY <1>1, InitIInv, StepIInv, PTL DEF Spec

LEMMA IInvImpliesNoTaskSkipped == IInv => NoTaskSkipped
<1> SUFFICES ASSUME IInv, NEW t \in Task, alive, since # Never, tasks[t].status = "Pending",
                    t \notin dropped, since < tasks[t].when, tasks[t].when <= now,
                    tasks[t].when < Close
             PROVE  HasTimer(t) \/ Announced(t) \/ UnderWay(t)
  BY DEF NoTaskSkipped
<1>1. Kept(t)
  BY DEF IInv, PendingKept, Concerns
<1>2. /\ now \in Nat /\ tasks[t].when \in Nat /\ Period \in Nat
      /\ loop \in [Loop -> LoopType] /\ AsleepAhead
  BY Types, Numbers DEF IInv, Facts, TaskType
<1>3. \A l \in Loop : ~WillFind(l, t)
  BY <1>2 DEF WillFind, ScansBefore, AsleepAhead, LoopType
<1> QED
  BY <1>1, <1>3 DEF Kept

(***************************************************************************)
(* For slices that reach beyond the sleeps between them, any number of     *)
(* executors and handlers, any order of scans, statements, notices and     *)
(* callbacks, and any failures of them: a pending task whose time came     *)
(* while the queue was open has a timer, or a request or a notice about it *)
(* is still on its way, unless a failure of its own lost it.               *)
(***************************************************************************)
THEOREM NoneSkipped == Spec => []NoTaskSkipped
<1> QED
  BY InitIInv, StepIInv, IInvImpliesNoTaskSkipped, PTL DEF Spec
=============================================================================
