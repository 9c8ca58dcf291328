---------------------------- MODULE ObjectStore ----------------------------
(***************************************************************************)
(* Tasks, actions and their tags in Cassandra: the handlers of the API     *)
(* that create, update, delete and list them, and the execution of an      *)
(* action, which saves it.                                                 *)
(*                                                                         *)
(* Every handler is a goroutine of its own and each of its statements a    *)
(* call of its own, so whatever other handlers do comes in between.  A     *)
(* list is read through an iterator, which ends in silence when a call     *)
(* fails.  The sessions that horae makes do not page.                      *)
(***************************************************************************)
EXTENDS CqlMarshal, FiniteSets, TLC

CONSTANTS
    Task, Action,  \* the UUIDs of tasks and of actions
    Tag,
    Worker,        \* goroutines that change objects
    Lister,        \* goroutines that list them
    Body,          \* what the JSON of a request may say of a task
    Seed,          \* the tasks that are there to begin with
    Unscheduled,   \* those of them that have no time, as in schema.cql
    MaxRequests,   \* bound on requests
    MaxFailures    \* bound on failed calls

ASSUME ObjectsAssumption ==
    /\ Task \cap Action = {} /\ Task \cup Action \subseteq UUID /\ IsFiniteSet(Task \cup Action)
    /\ Unscheduled \subseteq DOMAIN Seed /\ DOMAIN Seed \subseteq Task
ASSUME CallsAssumption == MaxRequests \in Nat /\ MaxFailures \in Nat

VARIABLES
    tables,   \* the tables tasks and actions
    tags,     \* the table tags: object, type of object, and tag
    work,     \* the handler, or executor, that each worker runs
    list,     \* the list that each lister makes
    requests, \* requests so far
    failures, \* failed calls so far
    saved     \* the structs that have been saved so far

storeVars == <<tables, tags, work, list, requests, failures, saved>>

Object == Task \cup Action
KindOf(o) == IF o \in Task THEN "task" ELSE "action"

-----------------------------------------------------------------------------
(* The structs, their columns in the order of "select *", and new ones. *)
ZeroTime == -100
Epoch1975 == 2

TaskColumns == <<
    Column("task_uuid", "uuid", "uuid"),
    Column("priority", "bigint", "priority"),
    NullColumn("promise_action", "uuid", "promise"),
    Column("status", "varchar", "status"),
    Column("when", "timestamp", "when") >>

ActionColumns == << Column("action_uuid", "uuid", "uuid"), Column("status", "varchar", "status") >>

ColumnsOf(kind) == IF kind = "task" THEN TaskColumns ELSE ActionColumns

(* The status of an object. *)
None == <<>>
Pending == <<1>>
Complete == <<2>>
Failure == <<3>>
Deleted == <<4>>
ObjectStatus == {None, Pending, Complete, Failure, Deleted}

NewStruct(kind) ==
    IF kind = "task"
    THEN [uuid |-> ZeroUUID, priority |-> 0, promise |-> Null, status |-> None, when |-> ZeroTime]
    ELSE [uuid |-> ZeroUUID, status |-> None]

(* What can be said of a task; the UUID is that of the request. *)
CanSay(body) ==
    /\ DOMAIN body \subseteq {"priority", "promise", "status", "when", "tags"}
    /\ "priority" \in DOMAIN body => body.priority \in Nat
    /\ "promise" \in DOMAIN body => body.promise \in UUID \cup {Null}
    /\ "status" \in DOMAIN body => body.status \in ObjectStatus
    /\ "when" \in DOMAIN body => body.when \in Int
    /\ "tags" \in DOMAIN body => body.tags \in Seq(Tag)

ASSUME BodyAssumption == \A body \in Body : CanSay(body)

(* The tasks that are there have been written. *)
ASSUME SeedAssumption ==
    \A o \in DOMAIN Seed :
        /\ CanSay(Seed[o]) /\ "tags" \in DOMAIN Seed[o]
        /\ "priority" \in DOMAIN Seed[o] => Seed[o].priority <= MaxInt64

NoRow == <<>>
RowOf(o, struct) == Bind(ColumnsOf(KindOf(o)), struct)

(* What the JSON says replaces what is in the struct. *)
Decode(body, struct) ==
    [f \in DOMAIN struct |-> IF f \in DOMAIN body THEN body[f] ELSE struct[f]]

(* The repairs of CreateOrUpdate. *)
Repair(task) ==
    [task EXCEPT !.status = IF @ = None THEN Pending ELSE @,
                 !.when = IF @ = ZeroTime THEN Epoch1975 ELSE @]

SeedOf(o) == Decode(Seed[o], [NewStruct("task") EXCEPT !.uuid = o, !.status = Pending])

(* The column of the time of a task in schema.cql's test data may be null. *)
SeedRow(o) ==
    LET row == RowOf(o, SeedOf(o))
    IN  IF o \in Unscheduled THEN [row EXCEPT ![5] = Null] ELSE row

TagsOf(o) == {tag \in Tag : <<o, KindOf(o), tag>> \in tags}

Idle == [pc |-> "idle"]

StoreInit ==
    /\ tables = [o \in Object |-> IF o \in DOMAIN Seed THEN SeedRow(o) ELSE NoRow]
    /\ tags = UNION {{<<o, "task", tag>> : tag \in Range(Seed[o].tags)} : o \in DOMAIN Seed}
    /\ work = [w \in Worker |-> Idle]
    /\ list = [l \in Lister |-> Idle]
    /\ requests = 0
    /\ failures = 0
    /\ saved = {SeedOf(o) : o \in DOMAIN Seed}

-----------------------------------------------------------------------------
(* A call of Cassandra may fail. *)
Fails == failures < MaxFailures /\ failures' = failures + 1
Succeeds == UNCHANGED failures

Asks == requests < MaxRequests /\ requests' = requests + 1

(* Work of another goroutine on the same object is no longer its only one. *)
TakeOn(w, job) ==
    LET Shares(v) == v # w /\ work[v].pc # "idle" /\ work[v].object = job.object
        alone == \A v \in Worker : ~Shares(v)
    IN  /\ work[w].pc = "idle"
        /\ work' = [v \in Worker |->
              CASE v = w      -> [job EXCEPT !.alone = alone]
                [] Shares(v)  -> [work[v] EXCEPT !.alone = FALSE]
                [] OTHER      -> work[v]]

GoOn(w, pc) == work' = [work EXCEPT ![w].pc = pc]
End(w) == work' = [work EXCEPT ![w] = Idle]

(* A handler's variables: the struct, what is asked of it, the tags it is to *)
(* have and the statements that are left to give it those.                   *)
Job(pc, o, struct, body, asked) ==
    [pc |-> pc, object |-> o, struct |-> struct, body |-> body, asked |-> asked,
     todo |-> <<>>, alone |-> TRUE]

NoBody == <<>>
Asked(body, tagged) == IF "tags" \in DOMAIN body THEN body.tags ELSE tagged

Busy == {work[w].object : w \in {v \in Worker : work[v].pc # "idle"}}

(* gocql.TimeUUID: no object has it, or is about to. *)
Unused(o) == tables[o] = NoRow /\ o \notin Busy

(* createTask *)
CreateTask(w) ==
    /\ Asks
    /\ \E o \in Task, body \in Body :
          /\ Unused(o) /\ TagsOf(o) = {}
          /\ TakeOn(w, Job("plan", o, Repair(Decode(body, [NewStruct("task") EXCEPT !.uuid = o])),
                          body, Asked(body, <<>>)))
    /\ UNCHANGED <<tables, tags, list, failures, saved>>

(* createAction: its tags are not saved. *)
CreateAction(w) ==
    /\ Asks
    /\ \E o \in Action :
          /\ Unused(o)
          /\ TakeOn(w, Job("insert", o, [NewStruct("action") EXCEPT !.uuid = o], NoBody, <<>>))
    /\ UNCHANGED <<tables, tags, list, failures, saved>>

StructOf(o) == Scan(ColumnsOf(KindOf(o)), tables[o], NewStruct(KindOf(o))).struct

(* updateTask and updateAction: both look for a task.  An action is unknown, *)
(* and so is a task if the call fails: 400.                                  *)
Update(w) ==
    /\ Asks
    /\ \E o \in Object, body \in Body :
          \/ /\ o \in Task /\ tables[o] # NoRow
             /\ TakeOn(w, Job("load", o, StructOf(o), body, <<>>))
             /\ Succeeds
          \/ /\ o \in Action \/ tables[o] = NoRow
             /\ work[w].pc = "idle"
             /\ UNCHANGED <<work, failures>>
          \/ /\ work[w].pc = "idle"
             /\ Fails
             /\ UNCHANGED work
    /\ UNCHANGED <<tables, tags, list, saved>>

(* A query for the tags of an object: what it answers is a sequence, which   *)
(* is empty if it fails.                                                     *)
GetTagsForObject(o, answer) ==
    \/ Succeeds /\ answer = SetToSeq(TagsOf(o))
    \/ Fails /\ answer = <<>>

TagAnswers(o) == {SetToSeq(TagsOf(o)), <<>>}

(* LoadTags, before the JSON is decoded. *)
Load(w) ==
    /\ work[w].pc = "load"
    /\ \E loaded \in TagAnswers(work[w].object) :
          /\ GetTagsForObject(work[w].object, loaded)
          /\ work' = [work EXCEPT ![w].struct = Repair(Decode(work[w].body, @)),
                                  ![w].asked = Asked(work[w].body, loaded),
                                  ![w].pc = "plan"]
    /\ UNCHANGED <<tables, tags, list, requests, saved>>

(* CreateOrUpdate refuses a task without an action to execute, one of a queue *)
(* that cannot be read or was deleted, and one of an asynchronous queue that  *)
(* has no time.  Nothing of it is written.                                    *)
Refuse(w) ==
    /\ work[w].pc = "plan"
    /\ End(w)
    /\ UNCHANGED <<tables, tags, list, requests, failures, saved>>

-----------------------------------------------------------------------------
(* SetTagsForObject: the tags in the table are looked up, the tags that are  *)
(* asked for and not among them inserted, and the others deleted, one call   *)
(* after the other; whether a call fails is not looked at.                   *)
(* Mutant: a tag that was there already is not taken off the list. *)
PlanTagKeeps(plan, tag) ==
    IF Contains(plan.had, tag) THEN plan
    ELSE [plan EXCEPT !.todo = Append(@, [op |-> "insert", tag |-> tag])]

PlanTag(plan, tag) ==
    IF Contains(plan.had, tag)
    THEN [plan EXCEPT !.had = RemoveFirst(@, tag)]
    ELSE [plan EXCEPT !.todo = Append(@, [op |-> "insert", tag |-> tag])]

PlanOf(asked, had) ==
    LET plan[i \in 0 .. Len(asked)] ==
            IF i = 0 THEN [had |-> had, todo |-> <<>>] ELSE PlanTag(plan[i - 1], asked[i])
        left == plan[Len(asked)]
    IN  left.todo \o [i \in DOMAIN left.had |-> [op |-> "delete", tag |-> left.had[i]]]

Plan(w) ==
    /\ work[w].pc = "plan"
    /\ \E had \in TagAnswers(work[w].object) :
          /\ GetTagsForObject(work[w].object, had)
          /\ work' = [work EXCEPT ![w].pc = "insert", ![w].todo = PlanOf(work[w].asked, had),
                                  ![w].alone = @ /\ failures' = failures]
    /\ UNCHANGED <<tables, tags, list, requests, saved>>

(* A worker has statements on the tags of its object left. *)
Tagging(w) == work[w].pc = "insert" /\ work[w].todo # <<>>

TagStatement(w) ==
    /\ Tagging(w)
    /\ LET statement == Head(work[w].todo)
           row == {<<work[w].object, "task", statement.tag>>}
       IN  \/ /\ tags' = IF statement.op = "insert" THEN tags \cup row ELSE tags \ row
              /\ Succeeds
           \/ UNCHANGED tags /\ Fails
    /\ work' = [work EXCEPT ![w].todo = Tail(@), ![w].alone = @ /\ failures' = failures]
    /\ UNCHANGED <<tables, list, requests, saved>>

(* The row is written, as a whole, or an error answered: of an encoding, in  *)
(* which case Cassandra is not called, or of the call.                       *)
InsertObject(w) ==
    /\ work[w].pc = "insert" /\ ~Tagging(w)
    /\ LET row == RowOf(work[w].object, work[w].struct)
       IN  \/ /\ row # Failed
              /\ tables' = [tables EXCEPT ![work[w].object] = row]
              /\ saved' = saved \cup {work[w].struct}
              /\ Succeeds
           \/ /\ row = Failed
              /\ UNCHANGED <<tables, saved, failures>>
           \/ /\ row # Failed
              /\ Fails
              /\ UNCHANGED <<tables, saved>>
    /\ End(w)
    /\ UNCHANGED <<tags, list, requests>>

(* Action.Execute, with the action as it was when its task was loaded: its   *)
(* request is made, and the action is saved with the outcome.                *)
Execute(w) ==
    /\ Asks
    /\ \E o \in Action, outcome \in {Complete, Failure} :
          /\ tables[o] # NoRow
          /\ TakeOn(w, Job("insert", o, [StructOf(o) EXCEPT !.status = outcome], NoBody, <<>>))
    /\ UNCHANGED <<tables, tags, list, failures, saved>>

(* deleteTask and deleteAction: the object is looked up, its tags are        *)
(* deleted, whether or not the call succeeds, and a task gets the status     *)
(* "Deleted", while the row of an action is deleted.                         *)
Delete(w) ==
    /\ Asks
    /\ \E o \in Object :
          /\ tables[o] # NoRow
          /\ TakeOn(w, Job("untag", o, StructOf(o), NoBody, <<>>))
    /\ UNCHANGED <<tables, tags, list, failures, saved>>

DeleteTagsForObject(w) ==
    /\ work[w].pc = "untag"
    /\ \/ tags' = {t \in tags : t[1] # work[w].object} /\ Succeeds
       \/ UNCHANGED tags /\ Fails
    /\ GoOn(w, "delete")
    /\ UNCHANGED <<tables, list, requests, saved>>

DeleteRow(w) ==
    LET o == work[w].object
    IN  /\ work[w].pc = "delete"
        /\ \/ /\ Succeeds
              /\ tables' = [tables EXCEPT ![o] =
                     IF o \in Action THEN NoRow ELSE [@ EXCEPT ![4] = Deleted]]
              /\ saved' = saved \cup {[s EXCEPT !.status = Deleted] : s \in {t \in saved : t.uuid = o}}
           \/ /\ Fails
              /\ UNCHANGED <<tables, saved>>
        /\ End(w)
        /\ UNCHANGED <<tags, list, requests>>

-----------------------------------------------------------------------------
(* getTasks and getActions.  Without a tag the rows of the table are scanned *)
(* into one struct, and with one the UUIDs that have the tag.                *)
Listed(kind) == {o \in Object : KindOf(o) = kind /\ tables[o] # NoRow}
Tagged(kind, tag) == {o \in Object : <<o, kind, tag>> \in tags}

NewList(kind, tag, result, expect, fails) ==
    [pc |-> "scan", kind |-> kind, tag |-> tag, left |-> result, struct |-> NewStruct(kind),
     entries |-> <<>>, expect |-> expect, failed |-> fails]

All == "all"
ASSUME TagsAssumption == All \notin Tag

GetAll(l, kind) ==
    \/ /\ Succeeds
       /\ list' = [list EXCEPT ![l] = NewList(kind, All,
              LET order == SetToSeq(Listed(kind)) IN [i \in DOMAIN order |-> tables[order[i]]],
              Listed(kind), FALSE)]
    \/ /\ Fails
       /\ list' = [list EXCEPT ![l] = NewList(kind, All, <<>>, Listed(kind), TRUE)]

GetByTag(l, kind, tag) ==
    LET expect == Tagged(kind, tag) \cap Listed(kind)
    IN  \/ /\ Succeeds
           /\ list' = [list EXCEPT ![l] = NewList(kind, tag, SetToSeq(Tagged(kind, tag)), expect, FALSE)]
        \/ /\ Fails
           /\ list' = [list EXCEPT ![l] = NewList(kind, tag, <<>>, expect, TRUE)]

(* The table cannot be a value bound to the statement: it is always refused. *)
GetByQueue(l) ==
    /\ Succeeds
    /\ list' = [list EXCEPT ![l] = NewList("task", All, <<>>, Listed("task"), TRUE)]

Get(l) ==
    /\ Asks
    /\ list[l].pc = "idle"
    /\ \/ \E kind \in {"task", "action"} : GetAll(l, kind) \/ \E tag \in Tag : GetByTag(l, kind, tag)
       \/ GetByQueue(l)
    /\ UNCHANGED <<tables, tags, work, saved>>

(* The next row; the loop ends when it cannot be scanned. *)
ScanAll(l) ==
    /\ list[l].pc = "scan" /\ list[l].tag = All /\ list[l].left # <<>>
    /\ LET scanned == Scan(ColumnsOf(list[l].kind), Head(list[l].left), list[l].struct)
       IN  list' = [list EXCEPT ![l].left = IF scanned.ok THEN Tail(@) ELSE <<>>,
                                ![l].struct = scanned.struct,
                                ![l].pc = IF scanned.ok THEN "tags" ELSE "done"]
    /\ UNCHANGED <<tables, tags, work, requests, failures, saved>>

(* Mutant: the loop ends at a UUID without an object. *)
ScanTaggedUntilGone(l) ==
    /\ list[l].pc = "scan" /\ list[l].tag # All /\ list[l].left # <<>>
    /\ LET o == Head(list[l].left)
       IN  /\ Succeeds
           /\ list' = [list EXCEPT ![l].left = IF tables[o] = NoRow THEN <<>> ELSE Tail(@),
                  ![l].pc = IF tables[o] = NoRow THEN "done" ELSE "tags",
                  ![l].struct = IF tables[o] = NoRow THEN @
                                ELSE Scan(ColumnsOf(list[l].kind), tables[o], @).struct]
    /\ UNCHANGED <<tables, tags, work, requests, saved>>

(* The next UUID: its object is queried and scanned, and if there is none,   *)
(* or the call fails, the struct is what it was.                             *)
ScanTagged(l) ==
    /\ list[l].pc = "scan" /\ list[l].tag # All /\ list[l].left # <<>>
    /\ LET o == Head(list[l].left)
       IN  \/ /\ Succeeds
              /\ list' = [list EXCEPT ![l].left = Tail(@), ![l].pc = "tags",
                     ![l].struct = IF tables[o] = NoRow THEN @
                                   ELSE Scan(ColumnsOf(list[l].kind), tables[o], @).struct]
           \/ /\ Fails
              /\ list' = [list EXCEPT ![l].left = Tail(@), ![l].pc = "tags", ![l].failed = TRUE]
    /\ UNCHANGED <<tables, tags, work, requests, saved>>

(* LoadTags of the object in the struct, which joins the list. *)
LoadTags(l) ==
    /\ list[l].pc = "tags"
    /\ LET uuid == list[l].struct.uuid
       IN  \E loaded \in IF uuid \in Object THEN TagAnswers(uuid) ELSE {<<>>} :
              /\ IF uuid \in Object THEN GetTagsForObject(uuid, loaded) ELSE Succeeds
              /\ list' = [list EXCEPT ![l].pc = "scan",
                     ![l].entries = Append(@, [struct |-> list[l].struct, tags |-> Range(loaded)])]
    /\ UNCHANGED <<tables, tags, work, requests, saved>>

(* The loop is over, and the list is answered with 200. *)
Answer(l) ==
    /\ \/ list[l].pc = "scan" /\ list[l].left = <<>>
       \/ list[l].pc = "done"
    /\ list' = [list EXCEPT ![l] = Idle]
    /\ UNCHANGED <<tables, tags, work, requests, failures, saved>>

StoreNext ==
    \/ \E w \in Worker :
          \/ CreateTask(w) \/ CreateAction(w) \/ Update(w) \/ Load(w) \/ Refuse(w)
          \/ Plan(w) \/ TagStatement(w) \/ InsertObject(w) \/ Execute(w)
          \/ Delete(w) \/ DeleteTagsForObject(w) \/ DeleteRow(w)
    \/ \E l \in Lister : Get(l) \/ ScanAll(l) \/ ScanTagged(l) \/ LoadTags(l) \/ Answer(l)

StoreSpec == StoreInit /\ [][StoreNext]_storeVars

-----------------------------------------------------------------------------
(***************************************************************************)
(* The tables and the goroutines; and every row can be read back into a    *)
(* struct of its object, whatever numbers and times the requests gave it:  *)
(* what has no encoding is refused, not written.                           *)
(***************************************************************************)
StoreTypeOK ==
    /\ \A o \in Object : tables[o] # NoRow => Scan(ColumnsOf(KindOf(o)), tables[o], NewStruct(KindOf(o))).ok /\ StructOf(o).uuid = o
    /\ tags \subseteq Task \X {"task"} \X Tag
    /\ \A w \in Worker : work[w].pc \in {"idle", "load", "plan", "insert", "untag", "delete"}
    /\ \A l \in Lister : list[l].pc \in {"idle", "scan", "tags", "done"}
    /\ requests \in 0 .. MaxRequests /\ failures \in 0 .. MaxFailures

(* A struct as it is read back: times come in whole milliseconds. *)
AsStored(s) == IF "when" \in DOMAIN s THEN [s EXCEPT !.when = Quot(@, NanosPerMilli) * NanosPerMilli] ELSE s

(* Of times: none is missing, and an int64 can hold the nanoseconds of each. *)
Near == -(MaxInt64 + 1) .. MaxInt64

TimesFit ==
    /\ Unscheduled = {}
    /\ \A o \in DOMAIN Seed : SeedOf(o).when \in Near
    /\ \A body \in Body : "when" \in DOMAIN body => body.when \in Near

(***************************************************************************)
(* What a list says of an object is what one save put into its row: the    *)
(* rows are scanned into one struct one after the other, or around objects *)
(* that are gone, and nothing of one of them shows up in another, where    *)
(* the times fit.  (A struct nothing was scanned into is listed for a tag  *)
(* whose first object is gone.)                                            *)
(***************************************************************************)
EntriesAreSaved ==
    \A l \in Lister : list[l].pc # "idle" =>
        \A i \in DOMAIN list[l].entries :
            LET entry == list[l].entries[i].struct
            IN  \/ \E s \in saved : s.uuid = entry.uuid /\ AsStored(s) = entry
                \/ list[l].tag # All /\ entry = NewStruct(list[l].kind)

(***************************************************************************)
(* A list is whole: when no call failed, every object that was there (and  *)
(* had the tag) when the list was asked for is in the answer, even if      *)
(* others of the list are gone by now; and without a tag each is there     *)
(* once.                                                                   *)
(***************************************************************************)
ListsAreWhole ==
    \A l \in Lister : list[l].pc \in {"scan", "done"} =>
        LET r == list[l]
            uuids == {r.entries[i].struct.uuid : i \in DOMAIN r.entries}
        IN  (r.pc = "done" \/ r.left = <<>>) /\ ~r.failed =>
                /\ r.expect \subseteq uuids
                /\ r.tag = All => Len(r.entries) = Cardinality(r.expect)

(***************************************************************************)
(* The statements by which the tags of a task are changed leave exactly    *)
(* the tags that were asked for, if no other handler works on the task     *)
(* meanwhile and none of them fails, whatever tags it had and in whatever  *)
(* order they come.                                                        *)
(***************************************************************************)
TagsAsAsked ==
    \A w \in Worker :
        work[w].pc = "insert" /\ ~Tagging(w) /\ work[w].object \in Task /\ work[w].alone =>
            TagsOf(work[w].object) = Range(work[w].asked)

-----------------------------------------------------------------------------
(* What does not hold. *)

(* The objects of a list by tag have the tag. *)
ListedHaveTag ==
    \A l \in Lister : list[l].pc # "idle" /\ list[l].tag # All =>
        \A i \in DOMAIN list[l].entries : list[l].tag \in list[l].entries[i].tags

(* A list that could not be made is not answered as an empty or shorter one. *)
AnswersAreWhole ==
    \A l \in Lister : list[l].pc = "scan" /\ list[l].left = <<>> =>
        list[l].expect \subseteq {list[l].entries[i].struct.uuid : i \in DOMAIN list[l].entries}

(* Only tasks that are there have tags. *)
TagsHaveObjects ==
    \A o \in Object : TagsOf(o) # {} =>
        tables[o] # NoRow \/ o \in Busy

(* When nobody works on a task, its tags are those one handler asked for. *)
TagsOfOneRequest ==
    \A o \in Task : tables[o] # NoRow /\ o \notin Busy =>
        \E tagged \in {Seed[t].tags : t \in DOMAIN Seed}
                      \cup {body.tags : body \in {b \in Body : "tags" \in DOMAIN b}} \cup {<<>>} :
            TagsOf(o) = Range(tagged)

(* An object that was deleted is not there again. *)
DeletedTasksStayDeleted ==
    [][\A o \in Task : tables[o] # NoRow /\ tables[o][4] = Deleted => tables'[o][4] = Deleted]_storeVars

(* A task keeps the time that it was given, but for parts of milliseconds. *)
TimesAreKept ==
    \A o \in Task : tables[o] # NoRow =>
        \E s \in saved : s.uuid = o /\ AsStored(s).when = StructOf(o).when
=============================================================================
