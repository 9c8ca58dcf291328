---------------------------- MODULE QueueLifecycle ----------------------------
(***************************************************************************)
(* Queues from their creation through the API to their end.                *)
(*                                                                         *)
(* The handlers of the API write the tables of queues and paths, one       *)
(* statement after the other, and send a notice.  A node lists the queues  *)
(* of the table when it starts, runs a manager for each, and follows the   *)
(* notices.  What managers do with their windows is left to other modules. *)
(***************************************************************************)
EXTENDS Integers, Sequences, FiniteSets, SequencesExt

CONSTANTS
    Queue,       \* the queues clients may create
    Stored,      \* those of them that are in the table at the outset
    Path,        \* paths, as sequences of names; the empty one is "/"
    PathOrder,   \* the paths, in the order in which the table returns them
    Content,     \* what clients write of each queue: whether to drain, and paths
    Call,        \* names of the calls of the API
    Manager,     \* names of queueManager goroutines: 1, 2, ...
    Operation,   \* what clients do, and to which queues
    MaxFaults    \* bound on crashes and failing statements

Root == <<>>
RootQueue == "root"
AllQueues == Queue \cup {RootQueue}

ASSUME PathAssumption == Root \in Path /\ \A p \in Path : p # Root => Front(p) \in Path
ASSUME PathOrderAssumption == ToSet(PathOrder) = Path
ASSUME StoredAssumption == IsFiniteSet(Stored) /\ Stored \subseteq Queue
ASSUME OperationAssumption == Operation \subseteq {"create", "update", "delete"} \X AllQueues
ASSUME ManagerAssumption == IsFiniteSet(Manager) /\ Manager = 1 .. Cardinality(Manager)

VARIABLES
    rows,        \* table queues, whose key is (queue_uuid, status)
    paths,       \* table paths
    call,        \* the handlers of the API
    dike,        \* StartDike: off, listing the queues, or watching notices
    inbox,       \* the notices on their way to StartDike
    mgr,         \* the managers, each with its queue as it was read
    known,       \* knownQueues, by the names of their managers
    faults

store == <<rows, paths>>
node == <<dike, inbox, mgr, known>>
vars == <<store, call, node, faults>>

Status == {"Active", "Deleted", "Deleting"}
Row(q, s, drain) == [queue |-> q, status |-> s, drain |-> drain]
NoCall == [pc |-> "free", op |-> "none", queue |-> RootQueue, drain |-> FALSE, paths |-> <<>>,
           have |-> {}, ok |-> TRUE]
NoManager == [pc |-> "free", queue |-> RootQueue, status |-> "Deleted", drain |-> FALSE,
              paths |-> <<>>, inbox |-> <<>>]

Notices == {"create", "update", "delete"} \X AllQueues

TypeOK ==
    /\ rows \subseteq [queue : AllQueues, status : Status, drain : BOOLEAN]
    /\ \A r, s \in rows : r.queue = s.queue /\ r.status = s.status => r = s
    /\ paths \subseteq AllQueues \X Path
    /\ \A c \in Call :
          /\ call[c].pc \in {"free", "read paths", "write paths", "write row", "drop paths",
                             "drop row", "mark", "notify", "done"}
          /\ call[c].op \in {"none", "create", "update", "delete"}
          /\ call[c].queue \in AllQueues
    /\ dike \in {"off", "listed", "watching"}
    /\ inbox \in Seq(Notices)
    /\ \A m \in Manager :
          /\ mgr[m].pc \in {"free", "begun", "select", "returned"}
          /\ mgr[m].inbox \in Seq(Notices)
    /\ known \in Seq(Manager) /\ IsInjective(known)
    /\ faults \in 0 .. MaxFaults

Init ==
    /\ \E given \in {f \in [Stored -> UNION {Content[q] : q \in Queue}] :
                       \A q \in Stored : f[q] \in Content[q]} :
          /\ rows = {Row(RootQueue, "Active", FALSE)}
                       \cup {Row(q, "Active", given[q].drain) : q \in Stored}
          /\ paths = {<<RootQueue, Root>>}
                       \cup UNION {{q} \X ToSet(given[q].paths) : q \in Stored}
    /\ call = [c \in Call |-> NoCall]
    /\ dike = "off"
    /\ inbox = <<>>
    /\ mgr = [m \in Manager |-> NoManager]
    /\ known = <<>>
    /\ faults = 0

-----------------------------------------------------------------------------
(* The tables.  GetQueue takes the first row of the queue, by status. *)
RowsOf(q) == {r \in rows : r.queue = q}

GetQueue(q) ==
    LET with(s) == {r \in RowsOf(q) : r.status = s}
    IN  CHOOSE r \in RowsOf(q) :
            \/ r.status = "Active"
            \/ with("Active") = {} /\ r.status = "Deleted"
            \/ RowsOf(q) = with("Deleting")

PathsOf(q) == {p \in Path : <<q, p>> \in paths}
LoadPaths(q) == SelectSeq(PathOrder, LAMBDA p : p \in PathsOf(q))

Insert(r) == {s \in rows : s.queue # r.queue \/ s.status # r.status} \cup {r}

-----------------------------------------------------------------------------
(* The handlers. *)
Begin(c, op, q, pc, drain, given) ==
    /\ call[c].pc = "free"
    /\ <<op, q>> \in Operation
    /\ call' = [call EXCEPT ![c] =
          [pc |-> pc, op |-> op, queue |-> q, drain |-> drain, paths |-> given,
           have |-> {}, ok |-> TRUE]]
    /\ UNCHANGED <<store, node, faults>>

At(c, pc) == call[c].pc = pc
Goto(c, pc) == call' = [call EXCEPT ![c].pc = pc]
Ends(c, pc) == call' = [call EXCEPT ![c].pc = pc, ![c].ok = FALSE]

(* A queue gets a UUID of its own, so it is created once. *)
CreateQueue(c, q) ==
    /\ q \notin Stored /\ \A d \in Call : call[d].queue # q
    /\ \E x \in Content[q] : Begin(c, "create", q, "read paths", x.drain, x.paths)

(* Only an active queue is updated, as far as the row read tells. *)
UpdateQueue(c, q) ==
    /\ RowsOf(q) # {} /\ GetQueue(q).status = "Active"
    /\ \E x \in Content[q] : Begin(c, "update", q, "read paths", x.drain, x.paths)

DeleteQueue(c, q) ==
    /\ RowsOf(q) # {}
    /\ Begin(c, "delete", q, "drop paths", GetQueue(q).drain, <<>>)

(* CreateOrUpdate.  First it asks for the paths in the table. *)
ReadPaths(c) ==
    /\ At(c, "read paths")
    /\ call' = [call EXCEPT ![c].pc = "write paths", ![c].have = PathsOf(call[c].queue)]
    /\ UNCHANGED <<store, node, faults>>

(* What is given and not there is inserted, what is there and not given is  *)
(* deleted.  A path "/" ends the call with those before it inserted.        *)
Reconciled(q, have, given) ==
    (paths \cup {<<q, p>> : p \in given \ have}) \ {<<q, p>> : p \in have \ given}

WritePaths(c) ==
    /\ At(c, "write paths")
    /\ LET q == call[c].queue
           given == call[c].paths
           roots == {i \in DOMAIN given : given[i] = Root}
       IN  IF roots = {}
           THEN /\ paths' = Reconciled(q, call[c].have, ToSet(given))
                /\ Goto(c, "write row")
           ELSE /\ paths' = paths \cup
                      {<<q, given[i]>> : i \in {j \in DOMAIN given : \A k \in roots : j < k}}
                /\ Ends(c, "done")
    /\ UNCHANGED <<rows, node, faults>>

WriteRow(c) ==
    /\ At(c, "write row")
    /\ rows' = Insert(Row(call[c].queue, "Active", call[c].drain))
    /\ Goto(c, "notify")
    /\ UNCHANGED <<paths, node, faults>>

(* Delete: the paths, the active row, and a row that tells what became of it. *)
DropPaths(c) ==
    /\ At(c, "drop paths")
    /\ paths' = {e \in paths : e[1] # call[c].queue}
    /\ Goto(c, "drop row")
    /\ UNCHANGED <<rows, node, faults>>

DropRow(c) ==
    /\ At(c, "drop row")
    /\ rows' = rows \ {r \in RowsOf(call[c].queue) : r.status = "Active"}
    /\ Goto(c, "mark")
    /\ UNCHANGED <<paths, node, faults>>

(* Mutant: only a queue that is to be drained keeps a row. *)
MarkDraining(c) ==
    /\ At(c, "mark")
    /\ rows' = IF call[c].drain THEN Insert(Row(call[c].queue, "Deleting", TRUE)) ELSE rows
    /\ Goto(c, "notify")
    /\ UNCHANGED <<paths, node, faults>>

Mark(c) ==
    /\ At(c, "mark")
    /\ rows' = Insert(Row(call[c].queue, IF call[c].drain THEN "Deleting" ELSE "Deleted", call[c].drain))
    /\ Goto(c, "notify")
    /\ UNCHANGED <<paths, node, faults>>

(* A worker stores the notice, and whoever watches by then will see it. *)
Notify(c) ==
    /\ At(c, "notify")
    /\ LET n == <<call[c].op, call[c].queue>>
       IN  /\ inbox' = IF dike = "watching" THEN Append(inbox, n) ELSE inbox
           /\ mgr' = [m \in Manager |->
                 IF mgr[m].pc = "select" /\ mgr[m].queue = call[c].queue
                 THEN [mgr[m] EXCEPT !.inbox = Append(@, n)] ELSE mgr[m]]
    /\ Goto(c, "done")
    /\ UNCHANGED <<store, dike, known, faults>>

Handler(c) ==
    \/ \E q \in Queue : CreateQueue(c, q) \/ UpdateQueue(c, q)
    \/ \E q \in AllQueues : DeleteQueue(c, q)

Statement(c) ==
    \/ ReadPaths(c) \/ WritePaths(c) \/ WriteRow(c)
    \/ DropPaths(c) \/ DropRow(c) \/ Mark(c) \/ Notify(c)

(* A statement fails and the call is answered with an error; of a deletion *)
(* there is a notice all the same.  Or the node that serves it crashes.     *)
Fault == faults < MaxFaults /\ faults' = faults + 1

StatementFails(c) ==
    /\ call[c].pc \in {"write row", "drop row", "mark"}
    /\ Fault
    /\ Ends(c, IF call[c].op = "delete" THEN "notify" ELSE "done")
    /\ UNCHANGED <<store, node>>

HandlerCrashes(c) ==
    /\ call[c].pc \notin {"free", "done"}
    /\ Fault
    /\ Ends(c, "done")
    /\ UNCHANGED <<store, node>>

-----------------------------------------------------------------------------
(* StartDike: a manager for every queue that has not been deleted. *)
FreeManagers == {m \in Manager : mgr[m].pc = "free"}

Begun(r) == [NoManager EXCEPT !.pc = "begun", !.queue = r.queue, !.status = r.status,
                              !.drain = r.drain, !.paths = LoadPaths(r.queue)]

ListQueues ==
    /\ dike = "off"
    /\ LET found == SetToSeq({r \in rows : r.status # "Deleted"})
       IN  /\ Len(found) <= Cardinality(Manager)
           /\ mgr' = [m \in Manager |-> IF m <= Len(found) THEN Begun(found[m]) ELSE NoManager]
           /\ known' = [i \in DOMAIN found |-> i]
    /\ dike' = "listed"
    /\ UNCHANGED <<store, call, inbox, faults>>

(* The watch on all queues tells of what is stored once it has begun. *)
WatchQueues ==
    /\ dike = "listed"
    /\ dike' = "watching"
    /\ UNCHANGED <<store, call, inbox, mgr, known, faults>>

FirstNotice(op) == dike = "watching" /\ inbox # <<>> /\ Head(inbox)[1] = op

(* Mutant: a queue is not read but looked up in the list. *)
QueueCreatedIfKnown ==
    /\ FirstNotice("create")
    /\ inbox' = Tail(inbox)
    /\ UNCHANGED <<store, call, dike, mgr, known, faults>>

(* A queue was created: a manager for it, if there is any row of it. *)
QueueCreated ==
    /\ FirstNotice("create")
    /\ inbox' = Tail(inbox)
    /\ LET q == Head(inbox)[2]
       IN  IF RowsOf(q) = {} THEN UNCHANGED <<mgr, known>>
           ELSE \E m \in FreeManagers :
                   /\ \A n \in FreeManagers : m <= n
                   /\ mgr' = [mgr EXCEPT ![m] = Begun(GetQueue(q))]
                   /\ known' = Append(known, m)
    /\ UNCHANGED <<store, call, dike, faults>>

(* Mutant: the cut begins one element too early. *)
CutEarly(a, i, len) == [j \in DOMAIN a |-> IF i - 1 <= j /\ j < len THEN a[j + 1] ELSE a[j]]

(* A queue was deleted: it is cut from the list, in place, by a loop over   *)
(* the list as it was.  The loop goes on over what the cuts have moved, and *)
(* a cut beyond the new end of the list is a panic.                         *)
Cut(a, i, len) == [j \in DOMAIN a |-> IF i <= j /\ j < len THEN a[j + 1] ELSE a[j]]

CutAll(q) ==
    LET after[i \in 0 .. Len(known)] ==
            IF i = 0 THEN [list |-> known, len |-> Len(known), panics |-> FALSE]
            ELSE LET s == after[i - 1]
                 IN  IF s.panics \/ mgr[s.list[i]].queue # q THEN s
                     ELSE IF i > s.len THEN [s EXCEPT !.panics = TRUE]
                     ELSE [list |-> Cut(s.list, i, s.len), len |-> s.len - 1, panics |-> FALSE]
    IN  after[Len(known)]

(* Everything a node holds in memory is gone.  It may be started again. *)
NodeDies ==
    /\ dike' = "off"
    /\ inbox' = <<>>
    /\ mgr' = [m \in Manager |-> NoManager]
    /\ known' = <<>>

QueueDeleted ==
    /\ FirstNotice("delete")
    /\ LET after == CutAll(Head(inbox)[2])
       IN  IF after.panics THEN NodeDies
           ELSE /\ known' = SubSeq(after.list, 1, after.len)
                /\ inbox' = Tail(inbox)
                /\ UNCHANGED <<dike, mgr>>
    /\ UNCHANGED <<store, call, faults>>

QueueUpdated ==
    /\ FirstNotice("update")
    /\ inbox' = Tail(inbox)
    /\ UNCHANGED <<store, call, dike, mgr, known, faults>>

NodeCrashes ==
    /\ dike # "off"
    /\ Fault
    /\ NodeDies
    /\ UNCHANGED <<store, call>>

-----------------------------------------------------------------------------
(* queueManager.  Its watch begins after it has. *)
Set(m, r) == mgr' = [mgr EXCEPT ![m] = r]

ManagerListens(m) ==
    /\ mgr[m].pc = "begun"
    /\ Set(m, [mgr[m] EXCEPT !.pc = "select"])
    /\ UNCHANGED <<store, call, dike, inbox, known, faults>>

(* The end of a window.  A queue read as "Deleting" that has no task left   *)
(* is stored once more, which makes it active, and the manager returns.     *)
Drained(m) ==
    /\ mgr[m].pc = "select" /\ mgr[m].status = "Deleting"
    /\ Set(m, [mgr[m] EXCEPT !.pc = "returned"])
    /\ rows' = Insert(Row(mgr[m].queue, "Active", mgr[m].drain))
    /\ paths' = Reconciled(mgr[m].queue, PathsOf(mgr[m].queue), ToSet(mgr[m].paths))
    /\ UNCHANGED <<call, dike, inbox, known, faults>>

(* An update: the queue is read again, but its window is not, and asking a  *)
(* window without times for its next start panics.  A deletion: the manager *)
(* returns, unless the queue drains.                                        *)
ManagerReceives(m) ==
    /\ mgr[m].pc = "select" /\ mgr[m].inbox # <<>>
    /\ LET op == Head(mgr[m].inbox)[1]
           rest == [mgr[m] EXCEPT !.inbox = Tail(@)]
       IN  \/ /\ op = "update" /\ RowsOf(mgr[m].queue) # {}
              /\ NodeDies
           \/ /\ op = "delete"
              /\ Set(m, IF mgr[m].drain THEN rest ELSE [rest EXCEPT !.pc = "returned"])
              /\ UNCHANGED <<dike, inbox, known>>
           \/ /\ op = "create" \/ (op = "update" /\ RowsOf(mgr[m].queue) = {})
              /\ Set(m, rest)
              /\ UNCHANGED <<dike, inbox, known>>
    /\ UNCHANGED <<store, call, faults>>

-----------------------------------------------------------------------------
Dike == ListQueues \/ WatchQueues \/ QueueCreated \/ QueueDeleted \/ QueueUpdated

Next ==
    \/ \E c \in Call : Handler(c) \/ Statement(c) \/ StatementFails(c) \/ HandlerCrashes(c)
    \/ Dike \/ NodeCrashes
    \/ \E m \in Manager : ManagerListens(m) \/ ManagerReceives(m) \/ Drained(m)

Spec == Init /\ [][Next]_vars

(***************************************************************************)
(* Fairness: the handlers of a live node run on, and StartDike serves the  *)
(* notices that reach it.                                                  *)
(***************************************************************************)
Fairness == WF_vars(Dike) /\ \A c \in Call : WF_vars(Statement(c))

FairSpec == Spec /\ Fairness

-----------------------------------------------------------------------------
(* A queue whose creation was confirmed has a row, whatever calls overlap    *)
(* and fail afterwards; only a deletion that has taken the active row and    *)
(* not stored the other one leaves nothing (queue.go, Delete).               *)
Confirmed(c, op) == call[c].op = op /\ call[c].ok /\ call[c].pc \in {"notify", "done"}

QueueAccounted ==
    \A q \in Stored \cup {call[c].queue : c \in {d \in Call : Confirmed(d, "create")}} :
        \/ RowsOf(q) # {}
        \/ \E d \in Call : /\ call[d].op = "delete" /\ call[d].queue = q
                           /\ call[d].pc = "mark" \/ ~call[d].ok

(* The loop that cuts a deleted queue from the list, over the very list it  *)
(* cuts, takes nothing else away: what it leaves is the list without some   *)
(* entries, each of them of this queue, and in the order it had (dike.go,   *)
(* StartDike).                                                              *)
OthersStayKnown ==
    [][QueueDeleted /\ dike' = "watching" =>
          \E from \in [DOMAIN known' -> DOMAIN known] :
              /\ \A i, j \in DOMAIN known' : i < j => from[i] < from[j]
              /\ \A i \in DOMAIN known' : known'[i] = known[from[i]]
              /\ \A j \in DOMAIN known :
                    mgr[known[j]].queue # Head(inbox)[2] => j \in Range(from)]_vars

(* Once a node watches, it runs a manager for a queue whose creation is     *)
(* complete, unless the node stops or no row is left (dike.go, StartDike).  *)
Managed(q) == \E m \in Manager : mgr[m].pc # "free" /\ mgr[m].queue = q

CreatedIsManaged ==
    \A c \in Call :
        (call[c].op = "create" /\ call[c].pc = "notify" /\ dike = "watching")
            ~> (Managed(call[c].queue) \/ dike # "watching" \/ RowsOf(call[c].queue) = {} \/ ~call[c].ok)

(* What a reader of the code may expect, and does not hold.                 *)
(* A queue whose deletion was confirmed is not active again; the comment in *)
(* queue_manager.go on a drained queue says "set state to delete".          *)
DeletedStaysDeleted ==
    \A c \in Call :
        Confirmed(c, "delete") => \A r \in RowsOf(call[c].queue) : r.status # "Active"

(* A queue has one manager on a node. *)
OneManagerPerQueue ==
    \A m, n \in Manager :
        mgr[m].pc = "select" /\ mgr[n].pc = "select" /\ mgr[m].queue = mgr[n].queue => m = n
=============================================================================
