# Horae in TLA+

Horae is a scheduler for micro-services. Clients deposit *tasks* into *queues*
through an HTTP API; a queue has a *window of operation* and, while it is open,
one node of the cluster executes its tasks by calling the *actions* they refer
to. Nodes share a Cassandra keyspace (tasks, queues, actions, tags, paths) and
an etcd directory (who is there, who owns a queue, what has changed).

This directory specifies the parts of it where several nodes, goroutines and
statements meet, together with the libraries they meet in, model-checks them
with TLC on small instances and proves the central safety properties with TLAPS
for instances of any size.

## 1. The system

| part | code | state it keeps | operations |
|---|---|---|---|
| API election (Eunomia, Eirene) | `eunomia/master_election.go`, `find_master.go`, `update_node.go`, `eirene/eirene.go`, `masterslave.go` | a key with a TTL per node in etcd; the strategy of the HTTP middleware; the master's URI | create and renew the key, poll for the lowest creation index, change strategy, answer 503 / redirect / serve |
| requests and routes | `eirene/eirene.go`, vendored `negroni`, `gorilla/mux`, `gorilla/context` | the variables of requests in a shared map | logger, middleware, router, handlers |
| queue ownership (Dike, Eunomia) | `dike/queue_manager.go`, `eunomia/queue_monitor.go`, `update_node.go`, `update_worker.go` | per queue and node: the manager's state, timer and `queueMaster`; the monitor's timer and updater; a key per node in etcd | claim before the window opens, poll, become master or slave, release at the end, pass on changes made through the API |
| synchronous execution | `types/queue.go`, `types/task.go`, `eirene/api_task.go` | rows of `tasks` and `sync_tasks`; `queue.Running`; executor goroutines | pick and call a task, create, update, delete, complete, execute the promise |
| asynchronous execution | `types/queue.go` | a map of timers per queue, rows of `async_tasks` | scan, start, move and stop timers |
| queue store and list of queues | `types/queue.go`, `eirene/api_queue.go`, `dike/dike.go` | rows of `queues` and `paths`, `knownQueues` | create, update, delete, drain; start managers, cut deleted queues |
| windows of operation | `types/lexer.go`, `parser.go`, `window.go` | the parsed window and its cached next start and end | words to `Window`; next start, next end |
| window timers, containment | `dike/queue_manager.go` (`queueTime`), `dike.go` (`shouldRun`) | the timer of each manager | pre, start, running, end |
| etcd client and watches | vendored `go-etcd`, `eunomia/update_worker.go`, `queue_monitor.go` | the machine taken for the leader, the watch index | requests with retries and redirections, long polls, restart of watches |
| Cassandra driver | vendored `gocql`, `cqlr` | connections with their streams, a pool, the cache of prepared statements | prepare, execute, fill the pool; values and frames to bytes and back |
| objects, tags, lists | `types/task.go`, `action.go`, `common.go`, `eirene/api_*s.go` | rows of `tasks`, `actions`, `tags` | create, update, delete, list |

How they interact. `core.StartServer` starts Eirene; when Eirene has an address
it starts Eunomia and Dike. Eunomia tells Eirene over a channel whether this
node is the API master. Dike starts one `queueManager` per queue, which asks
Eunomia (over another channel) for a `monitorQueue` and then talks with it over
two unbuffered channels. The handlers of the API write to Cassandra and ask
Eunomia's workers to store a notice in etcd; the monitors of *every* node watch
those notices and hand them to their managers. The manager that owns the queue
launches executors; an executor calls one task and ends, and the completion the
called service reports comes back by way of the API and of etcd.

What is hard about it: verdicts of an election are acted upon after the
directory has changed; keys expire; two goroutines send to each other without
buffers; a queue changes hands while executors run; a change of an object is
several statements without a transaction, raced by other handlers and cut short
by crashes; a queue goes on only through messages that can be lost, repeated or
delivered to several nodes; timers and scans must leave no gap between them; and
the window arithmetic has edges at minutes, days, months and years.
`PROJECT.json` lists these hazards at their lines.

What makes each part correct:

- election: at most one registered master; a superseded master steps down; all
  others redirect to it, and a client is answered by the handler it asked for;
- ownership: no two owners with valid keys; claims and releases balance; whoever
  is first learns it; manager and monitor never wait for each other;
- execution: no confirmed task is lost; tasks run one at a time and in the
  window; the queue advances; no task falls between two scans; deleted tasks do
  not run; a promise runs once;
- queues: a created queue stays accounted for and gets a manager; deleting one
  takes no other away;
- windows: no opening is skipped, none is invented, an open window knows its
  end; a queue is open when it owns, is contained and in its window, and closed
  soon after one of these ends;
- etcd: what is reported as stored is stored; a watch has no gap;
- Cassandra: a reply goes to who asked; a query ends; what is listed is what was
  saved.

## 2. Modules

| module | models | |
|---|---|---|
| `EtcdDirectory` | a directory of keys with creation indexes, `findMaster` | constant operators, shared by `ApiElection` and `QueueOwnership` |
| `ApiElection` | the election and the middleware on every node | EXTENDS `EtcdDirectory` |
| `ApiRoutes` | the router: templates, matching, clean paths, variables | constant operators |
| `ApiRequests` | requests of clients to a cluster that elects its master | EXTENDS `ApiElection`, `ApiRoutes` |
| `Succession` | abstract specification: a waiting line whose head holds the office | implemented by `ApiElection` |
| `QueueOwnership` | manager, monitor, updaters, workers and keys of one queue on every node | EXTENDS `EtcdDirectory` |
| `SyncQueue` | the tables of one synchronous queue and every goroutine that changes them | |
| `AsyncQueue` | the executors, timers and notices of one asynchronous queue | |
| `QueueLifecycle` | the tables of queues and paths, their handlers, `StartDike` and its list | |
| `QueueWindow` | `window.go` as operators: the calendar, the recurrences, the cache | constant operators |
| `WindowLanguage` | the lexer and the parser of windows, state by state | EXTENDS `QueueWindow` |
| `WindowClock` | words read into a window that is asked at later and later instants | EXTENDS `WindowLanguage` |
| `WindowTimers` | the managers of nested queues on several nodes through a day | EXTENDS `QueueWindow` |
| `EtcdClient` | requests to etcd with retries and redirections, and the workers | |
| `QueueWatch` | the watches of a queue's monitor and their restart | EXTENDS `EtcdClient` |
| `CqlConn` | connections to Cassandra with their streams and the goroutine that reads | |
| `CqlSession` | the pool, the prepared statements and the queries | EXTENDS `CqlConn` |
| `CqlMarshal` | fields of structs to columns and back | constant operators |
| `CqlFrames` | the frames of the protocol and their decoding | EXTENDS `CqlMarshal` |
| `ObjectStore` | tasks, actions, their tags and lists, statement by statement | EXTENDS `CqlMarshal` |
| `X_proofs` | the theorems about `X` | EXTENDS `X`, `TLAPS` |
| `CassandraTables_proofs` | the theorems about `QueueLifecycle` and `ObjectStore` | EXTENDS both, `TLAPS` |
| `MCX` | values of the constants of `X` for TLC | EXTENDS `X` |

Definitions marked *Mutant* are variants of the code with a plausible mistake;
nothing uses them. They serve to see that each property notices such a mistake.

### ApiElection, ApiRoutes, ApiRequests

`dir[n]` is the creation index of the key of node `n` (or `Absent`), `lease`
whether its TTL is about to end. `proc`, `updater` and `elect` are the process
and its goroutines `updateNode` and `electMaster`; `verdict[n]` is what
`electMaster` is sending to Eirene over an unbuffered channel; `mw[n]` is the
`MasterSlave` middleware and `masterURI[n]` the URI the core keeps.
`UpdaterCreates`, `UpdaterRefreshes`, `LeaseAges` and `KeyExpires` move the key,
`PollFindsSelf`/`Other`/`Nobody` and `PollFails` are the branches of
`findMaster`, and `EireneChangesStrategy` is one turn of the loop of
`StartEirene`. The nodes' addresses and ports are constants: `-static-port`, which is the
default, gives every node port 8015, and without it ports are random. The run
has random ports, as with equal ones the election fails (section 3). An address is abstracted to
the number of `http://` put before a host.

`ApiRequests` adds clients. `MasterSlave.ServeHTTP` reads the four fields of the
middleware without a lock while `StartEirene` writes them one by one: `older[n]`
holds their values before a change that is being made, and a request sees any
mix of the two (`Views`). A client follows redirects and asks again after a
failure. The router is `ApiRoutes`: the routes of `startAPIInterface` in their
order, the path matcher of a template, `path.Clean`.

### QueueOwnership

One action per case of the two `select`s, with every call made in it. A send on
an unbuffered channel is a state of the sender (`"claim"`, `"release"`,
`"verdict"`, `"event"`, `"delete"`, `"kill"`), left in the very step in which
the receiver takes it: this is what lets manager and monitor block each other.
`updateNode` goroutines are counted by what they are about to do. The manager's
timer may fire at any time; so a run covers every window. Containment is taken
to hold (it is `WindowTimers`' matter). `seen`, `basis` and `resets` are ghosts
that record on which key a confirmation rests and how often a queue update sent
the manager back without a release.

### SyncQueue

A goroutine is a record in a slot: its kind, where it is, and its own copy of
the task it is about to store. `SaveWrites`, `SaveInserts` and `SaveRemoves` are
the three statements of `CreateOrUpdate` and `createOrUpdateInSubTables`, each a
step, followed by what the caller does next (`AfterSave`). `SaveFails` is a
statement that fails, `SaveSkipsRows` a queue that cannot be read when the rows
are to be written (the code then returns success). An executor begins, queries,
loads, stores `Running`, calls, and ends. A reported completion goes to the
`inbox` of every node. Statuses a client may write with a creation other than
"Pending", or with an update other than the one that was read, tasks that change
queue, and queues being deleted are left out. Ties between tasks of the same priority are resolved by UUID, which is time
ordered, and so by task number.

### AsyncQueue

`loop[l]` is a `StartOrContinueExecution` that never ends: it begins (and
forgets the map it finds), queries the pending rows of the next `Horizon`
minutes or up to the end of the window, adds timers for those the map does not
know, and sleeps `Period` minutes. `timer[i]` is a `time.Timer` with its
callback, `map` is `asyncTimerMap`, which executors, callbacks and the manager
share. `call[c]` is a handler with the task it has in memory: it writes the task
(`Store`), then the row of the task (`InsertRow`), then sends a notice
(`SendNotice`), and a callback saves what it executed in the same way. `notices`
are the changes on their way to `UpdatedTask`, and stopping the timer of a task
that is not in the map is a panic, as in the code.

Every statement is a step of its own and may fail: a scan of which the iterator
reports no error (`QueryFails`), the reading of a task (`AddFails`,
`UpdatedFails`), what a callback saves (`SaveFails`, `SaveRow`), each statement
of a handler (`HandlerFails`, `SkipRow`), a notice that expires or that no watch
hears (`NoticeLost`). The ghost `dropped` has the tasks which such a failure, or
a deletion, took from whatever would have found them; `NoTaskSkipped` excuses
these and no others. It says, for instance, that a task is not skipped if a scan
failed but another one follows before its time, if its notice was lost but the
next scan is yet to look that far, or if anything else failed than what concerns
this task. Two notices of a kind about one task that are under way at a time are
one, tasks do not change queue, and of the rows of `async_tasks` those of
statuses other than "Pending" are left out, as no scan reads them.

### QueueLifecycle

`rows` and `paths` are the two tables, with `(queue, status)` as the key of a
row: a queue may have a row for each of several statuses, and `GetQueue` takes
the first. `call[c]` is a handler between two of its statements, any of which
may fail or be the last of a node that crashes. `StartDike` lists the queues,
then watches: what is told in between is missed. `CutAll` is its loop over the
very slice it cuts, elements beyond the cut included. A manager's reaction to an
update (the window is not loaded, and the process panics), to a deletion and to
a drained queue are `ManagerReceives` and `Drained`.

### QueueWindow, WindowLanguage, WindowClock

`WindowLanguage` reads a window word by word: an `Item` is what the lexer emits,
and each state of the parser says which items may follow and what they put into
the window. A window is what the parser yields: hours, and a recurrence or a
date. Time is in seconds from the first of January 2015, so that a minute
boundary and the second added in `returnTime` are visible. The arithmetic of
days, months and years is that of `addDaysTodate` and its siblings, including
what they do in December; a day beyond the end of its month is normalised, as
`time.Parse` does in the version of Go the repository names. Local time is UTC
and zone abbreviations have no offset. `Keywords` are the words that the lexer's
`mapper` knows, one spelling of each. `WindowClock` asks a window at any
increasing sequence of instants, so that the cache is met in every state, and
compares its answers with what the words mean. Its variables and its
specification (`ClockSpec`) have names of their own: `WindowTimers_proofs`
extends it next to `WindowTimers`, as both rest on the same calendar. Its
properties are about windows that end on the day they begin and whose times are
all whole ("1.30" loses its minutes, so a sentence with a dotted time does not
mean what it says).

### WindowTimers

Every node runs a manager for every queue. Time jumps from one timer that is due
to the next; actions are the cases of the manager's timer (`PreTimer`,
`StartTimer`, `RunningTimer`, `EndTimer`), the monitor's look at the owner
(`CheckOwner`, every 30 seconds), the loss of a lease and the deletion of a
queue. `MayRun` is the walk of `shouldRun` up the paths over `known`, the queues
a node knows of, and over what runs *on this node*. `since` is history: since
when a queue is open without being contained, open without being owned, or idle
although it could be open.

### EtcdClient, QueueWatch

etcd is a log of what happened to keys, kept by a leader to which other machines
redirect. `req[c]` is a `SendRequest` with its attempts; `lead` is
`Cluster.Leader` of each client, which is all that a client remembers of a
failure. A notice can be stored and its answer lost. The long poll of a watch
waits at the leader for the first event from its index on; a poll without an
index, which is the first of a watch, is for what happens after it reached the
leader, also when it is sent again after a failure. The history of etcd is kept
whole (no index is outdated). `QueueWatch` adds the `Watch` goroutines of a
monitor, one for each key and each start of the watches (`Watcher`), the
channels they close, and `restartWatchers`, which sends a stop for either key
before it starts them again. A stop is received by the routine beside a request:
in time, and the request is cancelled (`Cancelled`), or too late, as the answer
or the failure of the request came first (`TakenLate`): the watch then goes on,
next to the one that is started.

### CqlConn, CqlSession

`exec` takes a stream, writes, waits for the channel of its stream and gives the
stream back; `serve` reads frames, hands them over, sends a ping at a timeout
and fails every active call when reading fails. `wire` is the requests under
way. The pool is filled by goroutines that hold its lock while a new connection
is told its keyspace; a connection that ends reports itself to the pool. A
statement is prepared by one of the goroutines that want it, and the others wait
for this *flight*.

### CqlMarshal, CqlFrames, ObjectStore

`CqlMarshal` is what `Bind` and `Scan` do with integers, UUIDs, strings, times
and null columns, at scaled-down widths: a byte has 4 values, a bigint 2 bytes.
`CqlFrames` puts values and rows into frames and decodes them as `recv`,
`parseFrame` and `decodeFrame` do, errors and short frames included.
`ObjectStore` has the handlers as goroutines of which each statement is a step;
`Decode` lays the JSON of a request over the struct that was loaded; `Refuse` is
`CreateOrUpdate` that finds the action, the queue or the time of a task wanting,
which the model does not look at and may happen to any. The module stores
values and leaves the frames out, which the assumption `RowsAreKept` of
`MCObjectStore` justifies: what a frame carries comes out as it went in. What a
request can say of a task is any part of it (`CanSay`), a priority too large for
a bigint included. The names of `ObjectStore` (`StoreSpec`, `StoreTypeOK`) are
its own, as `CassandraTables_proofs` is about it and about `QueueLifecycle`.

## 3. What the runs check

All runs set `CHECK_DEADLOCK FALSE`: their environments (faults, launches,
events, budgets, instants) are bounded and a system at rest is legitimate; the
blocking that is a fault in the code is the subject of `QueriesEnd` and
`RequestsEnd`, and of `ChangesReachManager`, `KillReachesUpdater` and
`WatchRestarts` below, which do not hold. (`FirstClaimantLearns` is about a
manager and a monitor that are not blocked: its `Responsive` says so.)

| run | bounds | shows |
|---|---|---|
| `ApiElection` | 2 nodes, random ports, 1 crash, late renewal or failed call; 1 client that asks for a task by a path that is not clean; fair | `OneRegisteredMaster`: masters that still hold their key are never two. `NoUsurper`: a verdict acted upon late never takes over from an earlier registered node. `ImplementsSuccession`: the directory refines `Succession`. `DemotedWhenSuperseded`: a master whose key expired steps down. `Converges`: in the end one node serves and the other redirects to it. `HandledAsAsked`, `AnsweredInTheEnd`: a request reaches its handler, and only that one, while strategies change under it |
| `QueueOwnershipSafety` | 2 nodes, 3 keys created, 1 fault | `OneKeyedOwner`: owners whose confirmation still holds are never two |
| `QueueOwnershipOneNode` | 1 node, 1 event of any kind, 3 keys, 2 faults, fair | `OneUpdaterPerClaim`: claims and releases balance. `FirstClaimantLearns`: who claims and stays first learns it |
| `SyncQueueCrash` | 1 task, 2 goroutines, 2 crashes and one of each failure | `NoTaskLost` |
| `SyncQueueAdvances` | 2 nodes, 2 tasks, 2 priorities, a promise, 3 goroutines, fair | `SerialPerOpening`: an opening has one task out at a time. `QueueAdvances`: every task is executed in the end |
| `AsyncQueueScans` | 1 task, 2 executors, 2 timers, 1 handler, an opening, a closing and an opening, 1 change, 1 failure of any kind, 3 minutes | `NoTaskSkipped`: a task that comes due has a timer, a notice or a request under way, whatever failed but for its own sake. `MapHoldsLive`: the map names live timers |
| `QueueLifecycle` | 2 queues, 2 overlapping calls, 4 managers, 1 crash or failed statement, fair | `QueueAccounted`: a created queue keeps a row. `OthersStayKnown`: when a deleted queue is cut, the list keeps every entry of the others, in their order. `CreatedIsManaged`: a created queue gets a manager |
| `Windows` | windows of up to 8 words from 5 times, 8 keywords and 13 recurrences; 6 days around turns of months, one of them in May and one before a turn of the year, 7 instants a day | `OpeningNotSkipped`, `KnowsClosing`, `ExceptionHolds` |
| `WindowTimers` | 2 nodes, a queue within another, windows daily, always and with an exception, 9 minutes, 1 lost lease or deletion | `ClosesAtEnd`, `UncontainedCloses`: a queue closes within a minute of its window's end or of its container's closing. `StrayCloses`: two nodes execute a queue for 30 seconds at most. `OwnerOpens`: an owner that may execute does within a minute |
| `QueueWatch` | 2 machines, 1 worker, 1 notice, 2 starts of the watches, 1 expiry, 1 fault, fair | `ReportedIsStored`. `NoGap`: between two events it delivers a watch passes over nothing. `RequestsEnd`. `LaterEventsHeard`: what happens to a key after an event that a watch delivered is heard, or a watch ends |
| `CqlSession` | 2 connections, 2 queries, 1 stream, 1 failure of a connection, of a dial or of the server's memory, fair | `ReplyIsMine`, `ReaderNeverBlocks`, `DeadLeavePool`, `QueriesEnd` |
| `ObjectStore` | 3 tasks, 1 action, 2 tags, 2 handlers and a list at a time, 3 requests, 1 failed call | `EntriesAreSaved`: a list shows of each object what one save wrote. `ListsAreWhole`. `TagsAsAsked`: the tags of a task are those asked for, if nobody interferes |

The runs also evaluate the assumptions of their modules: `RoutesAssumption`
(every documented operation is routed to its handler), and `FramesAreTold`,
`RowsAreKept`, `CutShortIsAnError` and `AnswersAreDecoded` (frames, over every
answer of up to two rows of two columns).

Why the bounds are enough to be of interest. Two nodes already show every order
of claim, expiry and poll. Three keys let a node lose its key and a second one
create and lose one too; on a single node they let it claim, release and claim
again. Two goroutines are what a race between a handler and an executor takes;
the crash run needs one task, since a task is lost or not on its own. Two
executors and two timers let one opening's timer live on into the next, with a
horizon of two minutes, a period of one and a window that closes at the third:
the horizon is cut by the closing, and the clock ends before `NextClose` could
matter. With one task the map of the run cannot name a timer of another task;
`MapIsLive` is about any number. A notice that is stored twice, its expiry and a
fault make three events, so that a watch delivers one, another happens between
two polls, and a third while a poll is repeated; two starts are what a restart
takes.
Two calls and four managers let a deletion overlap an update and a queue be
listed twice. Eight words are the longest sentence of the README's examples but
for its clarifications ("the", "of"); the days contain the end of a month of 31
and one of 28 days, a weekend, and the edges of each window to the second. One
stream makes goroutines wait for streams and reuse them; one fault can hit any
of its points in every interleaving. Three requests let two handlers work on an
object while a list is made. Next to them, 2-byte integers have a sign, an
overflow and a byte order.

### What does not hold

The modules also state what a document or a comment says, or a reader would take
for granted, and the code does not do. No run keeps these properties; each is
violated with the constants of the run of its module but for those given, and
the trace shows what the last column says. (`Spec` or `FairSpec`: that
specification instead of the run's.)

| property | constants | what happens |
|---|---|---|
| `DemotedWhenSuperseded` | `PortOf <- StaticPortOf` | with `-static-port`, the default, a superseded master serves for good: Eirene wants address *and* port to differ (`eirene.go:98`); README.md:99: "Only a single node within the cluster will be successful in becoming the API endpoint for the cluster" |
| `CallableMasterURI` | | a slave's completion URI begins with `http://http://` (`masterslave.go:60`) |
| `QueryKept` | | a redirect to the master drops the query (`masterslave.go:26`) |
| `RedirectsNameNodes` | | while the fields are being written, a slave redirects to an address of nobody (`masterslave.go:56`) |
| `AnsweredByTheLiving` | | when the key of the only node left has expired, nobody registers again, and clients are sent away for good (`update_node.go`) |
| `ChangesReachManager` | | the manager sends a claim, the monitor an event, and both wait forever (`queue_monitor.go:80`, although `:17`: "keeping QM in sync") |
| `NoPanic` (QueueOwnership) | one node, `Spec`, `Events = {"queue update"}` | a queue reloaded after an update has no window, and the process panics (`queue_manager.go:141`) |
| `KillReachesUpdater` | 2 nodes, `MaxLaunches = 1` | a poll due at the release makes the manager run and release again; the monitor waits for an updater that is gone (`queue_monitor.go:47`) |
| `OnlyMasterLaunches` | as above | a manager launches at an opening because it owned the queue at the last one (`queue_manager.go:47`) |
| `QueueAdvances` | `Budget <- Refused` | a refused action stops the queue: in synchronous mode `Execute` always returns true (`task.go:220`, `queue.go:316`) |
| `QueueAdvances` | `Budget <- Edited`, `Node = {1}` | after a change of priority one task is executed over and over, and so it is when an update races with its execution (`task.go:154`, `:158`) |
| `DeletedNotExecuted` (SyncQueue) | `Spec`, `Budget <- Deleting` | a deleted task is executed (`task.go:171`) |
| `ClosedMeansIdle` (SyncQueue) | `Spec`, `Budget <- Closing` | a task is executed after the window has closed (`queue.go:308`) |
| `Serial` | `Spec`, `Budget <- Reopening`, `MaxSpent = 3` | a reopened window executes a second task at a time (`queue_manager.go:60`) |
| `OnePromise` | `Spec`, `Task = {1}`, `MaxSpent = 3` | every node executes the promise (`queue_manager.go:172`) |
| `WaitingTasksRun` | `FairSpec`, `Budget <- Once` | a task that came due while the queue was closed is never executed (`queue.go:338`, although `api_queue.go` says it is in the next window) |
| `ExecutedOnce` | | a task is executed twice: its entry leaves the map after the call and before the scan, or a notice adds a second timer (`queue.go:287`) |
| `ClosedMeansIdle`, `DeletedNotExecuted` (AsyncQueue) | | a timer the map has lost fires after the closing, and after the deletion (`queue.go:330`) |
| `NoPanic` (AsyncQueue) | | an update of a task without a timer panics (`queue.go:294`) |
| `DeletedStaysDeleted` | `Spec` | a drained queue becomes active again (`queue_manager.go:110`: "set state to delete") |
| `OneManagerPerQueue` | `Spec` | a queue created between the listing and the notice has two managers (`dike.go:30`) |
| `OpensOnAskedDays` | | README.md:50, "1am to 2am every 1st of the month", is open on the 2nd too (`window.go:309`) |
| `AcceptedIsAnswered` | | a window without hours is accepted and panics when it is asked (`queue.go:144`) |
| `AcceptedIsWhole` | | "monthly" with a date or with a weekday is accepted and means nothing (`parser.go`) |
| `OpensInWindow` | | at the end of a short window the queue is opened by a late verdict (`queue_manager.go:94`; README.md:43: "Queues act as a window of operation") |
| `OpensUnderOpenQueues` | `Paths <- TwoPathsOf` | only the last path counts (`queue_manager.go:56`; README.md:59: "If *any* queue within the path is closed the queue will not open") |
| `OpensWhenContained` | | a queue whose container runs on another node does not open (`dike.go:52`) |
| `ReturnedIsClosed` | | the manager of a deleted queue leaves it running (`queue_manager.go:160`) |
| `StoredOnce` | `Spec` | a notice whose answer was lost is stored again (go-etcd `requests.go`) |
| `StoredInOrder` | `Spec`, `Worker = {"w1", "w2"}` | two workers store notices in the other order (`update_worker.go`) |
| `ClientRecovers` | | a client that was redirected to a machine that stops never leaves it: with one machine there is no second attempt |
| `WatchRestarts` | | the restart waits for a watch that has ended (`queue_monitor.go:96`, although `:61`: "long poll has expired. restart") |
| `HeldMeansHeard` | | what happens after a first poll was held is missed when the poll is sent again: it has no index (go-etcd `watch.go:86`) |
| `OneWatchPerKey` | | a stop that is received while an answer arrives ends no watch, and two watch the key after the restart (go-etcd `requests.go:154`, `:276`) |
| `UnpreparedIsRetried` | `Spec` | a statement the server forgot is not prepared again if another goroutine has taken it from the cache (gocql `conn.go`) |
| `PickFindsOpen` | `Spec` | a query is refused although a connection of the pool is open |
| `FailsWithItsConnection` | `Spec` | a query fails with the connection of another one, whose flight it shares |
| `PoolBounded` | `Spec`, 4 connections | two fillers add more than `NumConns` |
| `ListedHaveTag` | | a list by tag shows an object that lost the tag, or none at all |
| `AnswersAreWhole` | | a list whose query failed is answered with 200 and empty (`types/common.go`) |
| `TagsHaveObjects` | | tags are written before the row, which may fail |
| `DeletedTasksStayDeleted` | | an update that was under way writes the deleted task back (`api_task.go`) |
| `TagsOfOneRequest` | `Seed <- Untagged`, `Body <- OneTag`, `MaxFailures = 0`, `MaxRequests = 2` | two updates leave the tags of both |
| `EntriesAreSaved` | `Unscheduled <- Second` | a task whose time is null, as in the test data of `schema.cql`, is listed with the time of the one before |
| `EntriesAreSaved`, `TimesAreKept` | `Body <- FarAway` | a time beyond 2262 overflows `UnixNano` |

### Fairness

Liveness runs assume that goroutines which can go on do so (weak fairness of
each, launched executions included), that etcd removes the keys of dead
processes, and, where a `select` has several ready cases, that a case ready
again and again is taken in the end (strong fairness: Go picks among ready cases
at random). Machines of etcd and servers of Cassandra that run answer what they
can answer; read timeouts expire. In `SyncQueue` the window opens, and services
report what they have completed, as the README of the repository demands of
them. In `ApiRequests` a client that has asked goes on asking. Nothing is
assumed about failures, crashes or what clients ask for.

## 4. What is proved

The theorems below are checked by TLAPS for every value of the constants that
satisfies the named assumptions of the modules. Those that say more than a type
does about a constant are: `Period < Horizon` of `AsyncQueue` (an executor
sleeps less than it looks ahead, as the constants of `queue.go` do);
`CallersAssumption` of `EtcdClient` (workers and watches are different
goroutines); `FiniteAssumption` of `SyncQueue` (finitely many tasks and
goroutines, so that they can be counted); `StoredAssumption` of
`QueueLifecycle` (finitely many queues are in the tables when the process
starts); `WindowsAssumption` of `WindowTimers` (windows are what the parser
yields, `IsWindow`) and `TimeAssumption` (the modelled day ends before the
"never" of `window.go`); `WordsAssumption` of `WindowClock` (a word that the
lexer takes for a day, a month or a modifier is one that its `mapper` has) and
`BoundsAssumption` (what is looked at lies in the four years the calendar knows);
`ObjectsAssumption`, `BodyAssumption` and `SeedAssumption` of `ObjectStore`
(there are finitely many objects, the UUIDs of tasks are not those of actions,
what the JSON of a request leaves in a task has the types of its fields, and the
tasks that are there to begin with could be written).

Some theorems have a hypothesis of their own. `SerialEachOpening` is about an
opening on one node, `Executors \subseteq {o}`: two nodes may execute a queue
for the 30 seconds of `StrayCloses`. `CloseAtEnd` and `OwnersOpen` take windows
to be "always", or open or closed for hours of every day (`DailyWindows`), as
`ClosesAtEnd` and `OwnerOpens` are about one day. `NoOpeningSkipped`,
`ClosingKnown` and `ExceptionsHold` take no window to be asked in the last week
of December (`NeverAtYearsEnd`): there `addDaysTodate` (`window.go:352`), when
it counts past the end of the year, adds the days to the year as well, and what
it finds next is years ahead; so they are false without it. `EntriesSaved`
takes every time to be there and its nanoseconds to fit an int64 (`TimesFit`,
which TLC evaluates for the run as `RunTimesFit`); section 3 gives the constants
at which it is false without either. `HandlesAsAsked` and
`NothingIsLeft` take what the clients ask to be a way of writing the documented
path (`AskedByTheBook`; for the clients of the run TLC evaluates it, as
`BookAssumption`).

| module | theorems | argument |
|---|---|---|
| `ApiElection_proofs` | `TypeCorrect`, `OneMaster`, `NeverUsurped` | `IInv`: creation indexes grow and are never shared; a node that starts has neither key nor verdict; a node with the verdict "master", on its way or acted upon, is the first as long as its key is there. `OneRegisteredMaster` alone is not inductive: a verdict on its way could make a second master |
| | `HandlesAsAsked` | `RoutedInv`: the path of a request on its way is the one asked or its clean form, and clean once it is handled. `RouteHasNumber`: method, number of segments and noun tell the sixteen routes apart, so the first that matches is the only one |
| | `NothingIsLeft` | `AccountedInv` joins the types of the election with `RoutedInv`: an entry of gorilla's map comes and goes with the request, and a process that dies takes its entries along |
| | `Implements` | refinement of `Succession`. `SInv` adds that an updater runs only in a live process and that a key belongs to a node whose updater made its attempt. `UpdaterCreates` is Join, `KeyExpires` and a failed creation are Leave, `PollFindsSelf` is Confirm, the change of strategy and a crash are Dismiss, all other steps stutter |
| `QueueOwnership_proofs` | `TypeCorrect`, `OneOwner`, `OneUpdater` | `OInv`: a confirmation is remembered with the index it was given on, and an index is never handed out twice. `UInv` counts updaters: outside a release, a manager in "pre" has none but those left behind by queue updates |
| `SyncQueue_proofs` | `TypeCorrect`, `NeverLost` | `SaveInv`: only an executor, or the completion of a task that was called, takes a pending row away, and a creation is confirmed after a row was put in |
| | `SerialEachOpening` | `CountInv`: what is or can still become an execution (executions the service has not reported, goroutines that start or report one, completions on their way to the manager) is counted, and is never more than the openings and the completions nobody waited for |
| `AsyncQueue_proofs` | `TypeCorrect`, `MapIsLive`, `NoneSkipped` | `PendingKept`: a task that is not dropped is kept by a timer set for its time, by a notice or a request under way, or by an executor that will find it: one whose scan is before its time, with a row to be found and no other timer in the map. `HorizonScanned`: a task due before the horizon has been looked for by now, so only notices beyond it are left to a later scan. `PendingHasRow`, `MapServes` and `AsleepAhead` say of rows, of the map and of sleepers what that takes |
| `CassandraTables_proofs` | `Accounted` | a row is only taken out by the second statement of a deletion, and an insertion takes the place of a row of its own queue |
| | `DeletionCutsOnlyItsQueue` | `Registry`: the list of queues is a sequence. `CutAll` is a recursive function on the index of its loop (`Recursion`); `CutAtLeaves` follows it step by step: what is left of the slice is the list that was there without some entries of the deleted queue, whatever the loop skips or reads behind the cut. The witness is an increasing function from the new list into the old |
| | `ObjectsTyped` | `StoreShape`: the fields of handlers and lists. A row is what `Bind` makes of a struct of its object (`RowOfTask`, `RowOfAction`), and the scan of such a row succeeds column by column into any struct (`ScanOfRow`); a priority is written only if it comes back (`Encodable`) |
| | `TagsAreSet` | `TagsPlanned`: from the tags in the table, the statements a handler has left lead to those asked for (`OnTheWay`), as long as it is alone with its task; `Exclusive`: of several handlers of one task none is taken to be alone. `PlanChanges` follows the loop of `SetTagsForObject` from tag to tag: it inserts what is not there, and deletes what is there and not asked for |
| | `ListsComplete` | `OnTheList`: every object the list is to have is in its answer, in the struct that is about to join it, or among what is left to be read, and without a tag these three are counted. `StillThere`: a list by tag has tasks only, and the row of a task is never removed |
| | `EntriesSaved` | `SavedInv`: every row is that of a struct that was saved, also after "Deleted" was put into it; the rows a list has left are such rows, its struct and its entries are such structs as they come back (`ComesBack`: of a null, a UUID, a string and a time near enough nothing is left of what the struct held before). A struct that a handler is to write is near again (`RepairedIsNear`) |
| `WindowTimers_proofs` | `Timers` | `TimerInv`: time never passes a timer, and a manager in each of its states has the timer that state relies on (`StateInv`) |
| | `StraysClose`, `UncontainedClose` | `StrayInv`: the monitor's next look is at most 30 seconds after the loss and is not put off. `AloneInv`: once a queue above has closed, the timer of the manager is due within a minute and is not set again while the queue stays open, as the walk of `shouldRun` refuses. The walk is a recursive function over the path; its values are those of `Contained` for paths of any length |
| | `CloseAtEnd` | `CloseInv`, from `TimesInv`: what the window answers when it is asked for its end is no later than the next closing, through the arithmetic of days and minutes |
| | `OwnersOpen` | `PlanInv`: what the timer of each state of a manager is set for, by what the manager knows of its window: before an opening it is due no later than the window opens, or in a minute. `IdleInv`: an owner that could run and does not has such a timer, from within a minute of the change that let it. Unlike the closings it needs the exact opening of a daily window, to the minute |
| | `NoOpeningSkipped`, `ClosingKnown`, `ExceptionsHold` | `ClockInv` has two halves. `Parts` and `Hearing` say of the parser, state by state, that the recurrence it has put together consists of words that were said, and that its times are the first and the last that were said, with the modifiers that followed them. `AnswerHolds` says of the answers that no occurrence was skipped (`NotSkipped`) and that one that lasts is answered (`Answered`). Each of the six rules keeps `NotSkipped` from any earlier answer that has it: `DayKeeps`, `DayOfWeekKeeps`, `WeekKeeps`, `MonthKeeps`, `YearKeeps`, through the calendar (`DateFacts`, `LaterDate`, `DaysLater`) |
| `QueueWatch_proofs` | `Reported`, `NothingMissed` | `PollsFollow`: once a watch has delivered an event, its polls have an index, that of the next, whatever becomes of its requests; an answer is the first event of its key from there on |
| `CqlSession_proofs` | `TypeCorrect`, `RepliesMatch`, `NeverBlocked`, `DeadLeave` | a stream belongs to one call from its taking to its return, and the requests on a connection that is still read are those of calls that wait. The pool's lock is held while a connection is told its keyspace, and a connection that has ended takes no request, so the `USE` of a dead one fails |

Each invariant was checked by TLC on the constants of its run before it was
proved. Typing lemmas come first; then each action has a lemma of its own, with
a step per conjunct it can disturb, and the theorem combines them.

What stays with TLC, and why:

- all that is about fairness: `Converges`, `DemotedWhenSuperseded`,
  `AnsweredInTheEnd`, `FirstClaimantLearns`, `QueueAdvances`,
  `CreatedIsManaged`, `RequestsEnd`, `LaterEventsHeard`, `QueriesEnd`;
- windows that go past midnight, those with a date and those asked in the last
  week of a year: the properties do not speak of the first two, and the last are
  the hypothesis above;
- that `TypeOK` of `WindowTimers` holds of the list of owners (`keys`) and of
  `known`, from which elements are cut;
- the frames of `CqlFrames`, which are built and read back byte by byte at any
  length. The encodings of `CqlMarshal` are proved about at their widths: the
  digits of an integer and the columns of a row are recursive functions, whose
  values at the few arguments there are follow one from the other;
- `CleanPath`, a fold over the segments: what it does to a path is a hypothesis
  of `HandlesAsAsked`, not a lemma.

## 5. Not modelled, and why

What each module leaves out:

- `ApiRequests`: the access log, the bodies of requests, concurrent writes of
  the response;
- `AsyncQueue`: a queue object replaced by an update, the difference between the statuses after execution, the data race on
  the Go map itself (a concurrent write may kill the process);
- `QueueLifecycle`: tags of queues, an update that names another UUID, a notice
  of a queue nobody knows;
- `QueueOwnership`, `SyncQueue`: see their sections above;
- `WindowTimers`: days with a change to or from summer time, timers that fire
  late;
- `EtcdClient`: HTTP details, TLS, quorum reads, values of keys;
- `CqlSession`: batches, retry policies (horae sets none), eviction from the
  cache of statements, closing the session, discovery of hosts, paging, servers
  that are slow but alive;
- `CqlMarshal`, `CqlFrames`: types horae has no column of (collections,
  counters, floats, decimals, `inet`), compression, tracing, version 1 of the
  protocol;
- `ObjectStore`: the subtables of a task (in `SyncQueue` and `AsyncQueue`),
  notices, tags of queues, columns that are handled like those modelled.

Not modelled at all: configuration, command line and logging (no state that
changes); `CheckBackpressure` of a queue (`queue.go:233`: a single comparison,
which is the wrong way round); the placeholders in the URI of an action and its
HTTP client; type declarations; libraries for arbitrary-precision decimals,
compression, configuration files and the rendering of templates, of which horae
calls nothing that the modules above depend on; the API documentation and the
build files.
