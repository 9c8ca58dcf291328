------------------------ MODULE CassandraTables_proofs ------------------------
(***************************************************************************)
(* The tables in Cassandra, for any numbers of queues, tasks, actions,     *)
(* tags, calls, handlers and lists, and any contents and failures.         *)
(*                                                                         *)
(* Queues: a queue keeps a row, as long as no deletion of it was cut       *)
(* short, and the loop that cuts a deleted queue from the list of queues   *)
(* takes no other queue out of it.  A row is only taken out by the second  *)
(* statement of a deletion, and what is inserted takes the place of at     *)
(* most one row of the same queue.  Whatever the loop has moved, what it   *)
(* has left of the list at any time is the list it began with, in its      *)
(* order, without entries of its queue.                                    *)
(*                                                                         *)
(* Tasks and actions: every row can be read back, the tags of a task       *)
(* become those that were asked for, and lists are whole and say of an     *)
(* object what one save put into its row.  Each rests on StoreShape, and   *)
(* on what is between a handler, or list, and its end: the statements that *)
(* are left lead from the tags in the table to those asked for; every      *)
(* object that a list is to have is in its answer, in the struct that is   *)
(* about to join it, or among what is left to be read; and what is left to *)
(* be read, and is in the struct, was saved.                               *)
(***************************************************************************)
EXTENDS QueueLifecycle, ObjectStore, FiniteSetTheorems, SequenceTheorems, WellFoundedInduction, TLAPS

(* The fields of a call, whatever contents there are. *)
Calls(D) ==
    [Call -> [pc : {"free", "read paths", "write paths", "write row", "drop paths",
                    "drop row", "mark", "notify", "done"},
              op : {"none", "create", "update", "delete"}, queue : AllQueues,
              drain : D, paths : D, have : D, ok : BOOLEAN]]

Shape == \E D : call \in Calls(D)

(* Which calls are deletions, and which are nothing yet. *)
Deletions ==
    \A d \in Call :
        /\ call[d].pc = "free" => call[d].op = "none"
        /\ call[d].pc \in {"drop paths", "drop row", "mark"} => call[d].op = "delete"

Inv == Shape /\ Deletions /\ QueueAccounted

(* A deletion that may have left its queue without a row. *)
CutShort(d, q) ==
    /\ call[d].op = "delete" /\ call[d].queue = q
    /\ call[d].pc = "mark" \/ ~call[d].ok

(* A step that goes on with a call, or ends it, touches nothing else of it. *)
Continues(c, pc, ok) ==
    \A d \in Call :
        /\ call'[d].op = call[d].op /\ call'[d].queue = call[d].queue
        /\ call'[d].pc = IF d = c THEN pc ELSE call[d].pc
        /\ call'[d].ok = IF d = c THEN ok ELSE call[d].ok

LEMMA CallsGrow ==
    ASSUME NEW D, NEW E, D \subseteq E, call \in Calls(D)
    PROVE  call \in Calls(E)
BY DEF Calls

LEMMA GotoContinues ==
    ASSUME Shape, NEW c \in Call,
           NEW pc \in {"write row", "drop row", "mark", "notify", "done"}, Goto(c, pc)
    PROVE  Shape' /\ Continues(c, pc, call[c].ok)
<1>1. PICK D : call \in Calls(D)
    BY DEF Shape
<1>2. call' \in Calls(D) /\ Continues(c, pc, call[c].ok)
    BY <1>1 DEF Calls, Goto, Continues
<1> QED BY <1>2 DEF Shape

LEMMA EndsContinues ==
    ASSUME Shape, NEW c \in Call, NEW pc \in {"notify", "done"}, Ends(c, pc)
    PROVE  Shape' /\ Continues(c, pc, FALSE)
<1>1. PICK D : call \in Calls(D)
    BY DEF Shape
<1>2. call' \in Calls(D) /\ Continues(c, pc, FALSE)
    BY <1>1 DEF Calls, Ends, Continues
<1> QED BY <1>2 DEF Shape

LEMMA ReadContinues ==
    ASSUME Shape, NEW c \in Call, ReadPaths(c)
    PROVE  Shape' /\ Continues(c, "write paths", call[c].ok)
<1>1. PICK D : call \in Calls(D)
    BY DEF Shape
<1>2. PICK E : E = D \cup {PathsOf(call[c].queue)}
    OBVIOUS
<1>3. call \in Calls(E) /\ PathsOf(call[c].queue) \in E
    BY <1>1, <1>2, CallsGrow
<1>4. call' \in Calls(E) /\ Continues(c, "write paths", call[c].ok)
    BY <1>3 DEF Calls, ReadPaths, Continues
<1> QED BY <1>4 DEF Shape

LEMMA BeginShape ==
    ASSUME Shape, NEW c \in Call, NEW op \in {"create", "update", "delete"}, NEW q \in AllQueues,
           NEW pc \in {"read paths", "drop paths"}, NEW drain, NEW given,
           Begin(c, op, q, pc, drain, given)
    PROVE  /\ Shape'
           /\ call'[c].op = op /\ call'[c].pc = pc /\ call'[c].ok
           /\ \A d \in Call \ {c} : call'[d] = call[d]
<1>1. PICK D : call \in Calls(D)
    BY DEF Shape
<1>2. PICK E : E = D \cup {drain, given, {}}
    OBVIOUS
<1>3. call \in Calls(E) /\ drain \in E /\ given \in E /\ {} \in E
    BY <1>1, <1>2, CallsGrow
<1>4. /\ call' \in Calls(E)
      /\ call'[c].op = op /\ call'[c].pc = pc /\ call'[c].ok
      /\ \A d \in Call \ {c} : call'[d] = call[d]
    BY <1>3 DEF Calls, Begin
<1> QED BY <1>4 DEF Shape

(* What is inserted replaces a row of its own queue. *)
LEMMA InsertKeeps ==
    ASSUME NEW r, NEW q, RowsOf(q) # {}, rows' = Insert(r)
    PROVE  RowsOf(q)' # {}
<1>1. CASE r.queue = q
    BY <1>1 DEF Insert, RowsOf
<1>2. CASE r.queue # q
    BY <1>2 DEF Insert, RowsOf
<1> QED BY <1>1, <1>2

LEMMA InsertAdds ==
    ASSUME NEW r, rows' = Insert(r)
    PROVE  \A q : q = r.queue => RowsOf(q)' # {}
BY DEF Insert, RowsOf

(* What a step must keep, for the queues to stay accounted for. *)
LEMMA AccountKept ==
    ASSUME QueueAccounted,
           \A q : RowsOf(q) # {} \/ (\E d \in Call : CutShort(d, q))
                     => RowsOf(q)' # {} \/ (\E d \in Call : CutShort(d, q)'),
           \A c \in Call : Confirmed(c, "create")'
                     => /\ call'[c].queue = call[c].queue
                        /\ \/ Confirmed(c, "create")
                           \/ \A q : q = call[c].queue => RowsOf(q)' # {}
    PROVE  QueueAccounted'
<1> SUFFICES ASSUME NEW q \in Stored \cup {call'[c].queue : c \in {d \in Call : Confirmed(d, "create")'}}
             PROVE  RowsOf(q)' # {} \/ \E d \in Call : CutShort(d, q)'
    BY DEF QueueAccounted, CutShort
<1>1. CASE q \in Stored
    BY <1>1 DEF QueueAccounted, CutShort
<1>2. ASSUME NEW c \in Call, Confirmed(c, "create")', q = call'[c].queue
      PROVE  RowsOf(q)' # {} \/ \E d \in Call : CutShort(d, q)'
    <2>1. q = call[c].queue /\ (Confirmed(c, "create") \/ RowsOf(q)' # {})
        BY <1>2
    <2>2. CASE Confirmed(c, "create")
        <3>1. RowsOf(q) # {} \/ \E d \in Call : CutShort(d, q)
            BY <2>1, <2>2 DEF QueueAccounted, CutShort
        <3> QED BY <3>1
    <2> QED BY <2>1, <2>2
<1> QED BY <1>1, <1>2

(* A step that only goes on with a call, and does not confirm a creation. *)
LEMMA ContinuesKeeps ==
    ASSUME QueueAccounted, Deletions, NEW c \in Call, NEW pc, NEW ok, Continues(c, pc, ok),
           pc \in {"drop paths", "drop row", "mark"} => call[c].op = "delete",
           pc # "free",
           call[c].pc = "mark" => ~ok, call[c].ok \/ ~ok,
           ok /\ pc \in {"notify", "done"} => call[c].pc = "notify",
           ok /\ call[c].pc = "notify" => call[c].ok,
           UNCHANGED rows
    PROVE  Deletions' /\ QueueAccounted'
<1>1. Deletions'
    BY DEF Deletions, Continues
<1>2. \A q : RowsOf(q)' = RowsOf(q)
    BY DEF RowsOf
<1>3. \A q : \A d \in Call : CutShort(d, q) => CutShort(d, q)'
    BY DEF CutShort, Continues
<1>4. \A d \in Call : Confirmed(d, "create")' =>
                          call'[d].queue = call[d].queue /\ Confirmed(d, "create")
    BY DEF Confirmed, Continues
<1> QED BY <1>1, <1>2, <1>3, <1>4, AccountKept

LEMMA InitInv == Init => Inv
<1> SUFFICES ASSUME Init PROVE Inv
    OBVIOUS
<1>1. call \in Calls({FALSE, <<>>, {}})
    BY DEF Init, Calls, NoCall, AllQueues
<1>2. Deletions /\ \A c \in Call : ~Confirmed(c, "create")
    BY DEF Init, Deletions, NoCall, Confirmed
<1>3. ASSUME NEW q \in Stored PROVE RowsOf(q) # {}
    <2>0. PICK given : rows = {Row(RootQueue, "Active", FALSE)}
                                 \cup {Row(p, "Active", given[p].drain) : p \in Stored}
        BY DEF Init
    <2>1. Row(q, "Active", given[q].drain) \in rows
        BY <1>3, <2>0
    <2>2. PICK r \in rows : r.queue = q
        BY <2>1 DEF Row
    <2> QED BY <2>2 DEF RowsOf
<1> QED BY <1>1, <1>2, <1>3 DEF Inv, Shape, QueueAccounted

LEMMA HandlerInv ==
    ASSUME Inv, NEW c \in Call, Handler(c)
    PROVE  Inv'
<1>1. PICK op \in {"create", "update", "delete"}, q \in AllQueues, pc \in {"read paths", "drop paths"} :
          /\ \E drain, given : Begin(c, op, q, pc, drain, given)
          /\ pc = "drop paths" => op = "delete"
    BY DEF Handler, CreateQueue, UpdateQueue, DeleteQueue, AllQueues
<1>2. /\ Shape'
      /\ call'[c].op = op /\ call'[c].pc = pc /\ call'[c].ok
      /\ \A d \in Call \ {c} : call'[d] = call[d]
    BY <1>1, BeginShape DEF Inv
<1>3. call[c].op = "none" /\ rows' = rows
    BY <1>1 DEF Begin, Inv, Deletions, store
<1>4. Deletions'
    BY <1>1, <1>2 DEF Inv, Deletions
<1>5. \A r : RowsOf(r)' = RowsOf(r)
    BY <1>3 DEF RowsOf
<1>6. \A r : \A d \in Call : CutShort(d, r) => CutShort(d, r)'
    BY <1>2, <1>3 DEF CutShort
<1>7. \A d \in Call : Confirmed(d, "create")' =>
                          call'[d].queue = call[d].queue /\ Confirmed(d, "create")
    BY <1>1, <1>2 DEF Confirmed
<1> QED BY <1>2, <1>4, <1>5, <1>6, <1>7, AccountKept DEF Inv

LEMMA StatementInv ==
    ASSUME Inv, NEW c \in Call, Statement(c)
    PROVE  Inv'
<1> USE DEF Inv, At, store, node
<1>1. CASE ReadPaths(c)
    <2>1. Shape' /\ Continues(c, "write paths", call[c].ok)
        BY <1>1, ReadContinues
    <2> QED BY <1>1, <2>1, ContinuesKeeps DEF ReadPaths
<1>2. CASE WritePaths(c)
    <2>1. At(c, "write paths") /\ rows' = rows /\ (Goto(c, "write row") \/ Ends(c, "done"))
        BY <1>2 DEF WritePaths
    <2>2. CASE Goto(c, "write row")
        <3>1. Shape' /\ Continues(c, "write row", call[c].ok)
            BY <2>2, GotoContinues
        <3> QED BY <2>1, <3>1, ContinuesKeeps
    <2>3. CASE Ends(c, "done")
        <3>1. Shape' /\ Continues(c, "done", FALSE)
            BY <2>3, EndsContinues
        <3> QED BY <2>1, <3>1, ContinuesKeeps
    <2> QED BY <2>1, <2>2, <2>3
<1>3. CASE WriteRow(c)
    <2>1. PICK r : r = Row(call[c].queue, "Active", call[c].drain) /\ rows' = Insert(r)
        BY <1>3 DEF WriteRow
    <2>a. r.queue = call[c].queue
        BY <2>1 DEF Row
    <2>2. Shape' /\ Continues(c, "notify", call[c].ok)
        BY <1>3, GotoContinues DEF WriteRow
    <2>3. Deletions'
        BY <2>2, <1>3 DEF Deletions, Continues, WriteRow
    <2>4. \A q : \A d \in Call : CutShort(d, q) => CutShort(d, q)'
        BY <2>2, <1>3 DEF CutShort, Continues, WriteRow
    <2>5. \A d \in Call : Confirmed(d, "create")' =>
              /\ call'[d].queue = call[d].queue
              /\ \/ Confirmed(d, "create")
                 \/ \A q : q = call[d].queue => RowsOf(q)' # {}
        <3>1. \A q : q = call[c].queue => RowsOf(q)' # {}
            BY <2>1, <2>a, InsertAdds
        <3> QED BY <2>2, <3>1 DEF Confirmed, Continues
    <2>6. \A q : RowsOf(q) # {} => RowsOf(q)' # {}
        BY <2>1, InsertKeeps
    <2> QED BY <2>2, <2>3, <2>4, <2>5, <2>6, AccountKept
<1>4. CASE DropPaths(c)
    <2>1. Shape' /\ Continues(c, "drop row", call[c].ok)
        BY <1>4, GotoContinues DEF DropPaths
    <2> QED BY <1>4, <2>1, ContinuesKeeps DEF DropPaths, Deletions
<1>5. CASE DropRow(c)
    <2>1. Shape' /\ Continues(c, "mark", call[c].ok)
        BY <1>5, GotoContinues DEF DropRow
    <2>2. call[c].pc = "drop row" /\ call[c].op = "delete"
        BY <1>5 DEF DropRow, Deletions
    <2>3. Deletions'
        BY <2>1, <2>2 DEF Deletions, Continues
    <2>4. \A q : q = call[c].queue => CutShort(c, q)'
        BY <2>1, <2>2 DEF CutShort, Continues
    <2>5. \A q : \A d \in Call : CutShort(d, q) => CutShort(d, q)'
        BY <2>1, <2>2 DEF CutShort, Continues
    <2>6. \A q : q # call[c].queue /\ RowsOf(q) # {} => RowsOf(q)' # {}
        BY <1>5 DEF DropRow, RowsOf
    <2>7. \A d \in Call : Confirmed(d, "create")' =>
              call'[d].queue = call[d].queue /\ Confirmed(d, "create")
        BY <2>1, <2>2 DEF Confirmed, Continues
    <2> QED BY <2>1, <2>3, <2>4, <2>5, <2>6, <2>7, AccountKept
<1>6. CASE Mark(c)
    <2>1. PICK r : rows' = Insert(r) /\ r.queue = call[c].queue
        BY <1>6 DEF Mark, Row
    <2>2. Shape' /\ Continues(c, "notify", call[c].ok)
        BY <1>6, GotoContinues DEF Mark
    <2>3. call[c].pc = "mark" /\ call[c].op = "delete"
        BY <1>6 DEF Mark, Deletions
    <2>4. Deletions'
        BY <2>2, <2>3 DEF Deletions, Continues
    <2>5. \A q : q = call[c].queue => RowsOf(q)' # {}
        BY <2>1, InsertAdds
    <2>6. \A q : q # call[c].queue => \A d \in Call : CutShort(d, q) => CutShort(d, q)'
        BY <2>2 DEF CutShort, Continues
    <2>7. \A q : RowsOf(q) # {} => RowsOf(q)' # {}
        BY <2>1, InsertKeeps
    <2>8. \A d \in Call : Confirmed(d, "create")' =>
              call'[d].queue = call[d].queue /\ Confirmed(d, "create")
        BY <2>2, <2>3 DEF Confirmed, Continues
    <2> QED BY <2>2, <2>4, <2>5, <2>6, <2>7, <2>8, AccountKept
<1>7. CASE Notify(c)
    <2>1. Shape' /\ Continues(c, "done", call[c].ok)
        BY <1>7, GotoContinues DEF Notify
    <2> QED BY <1>7, <2>1, ContinuesKeeps DEF Notify
<1> QED BY <1>1, <1>2, <1>3, <1>4, <1>5, <1>6, <1>7 DEF Statement

LEMMA FaultInv ==
    ASSUME Inv, NEW c \in Call, StatementFails(c) \/ HandlerCrashes(c)
    PROVE  Inv'
<1>1. PICK pc \in {"notify", "done"} : Ends(c, pc) /\ rows' = rows
    BY DEF StatementFails, HandlerCrashes, store
<1>2. Shape' /\ Continues(c, pc, FALSE)
    BY <1>1, EndsContinues DEF Inv
<1> QED BY <1>1, <1>2, ContinuesKeeps DEF Inv

(* The node leaves the calls alone, and only a manager that has drained its *)
(* queue writes a row.                                                      *)
LEMMA NodeInv ==
    ASSUME Inv, UNCHANGED call,
           UNCHANGED rows \/ \E r : rows' = Insert(r)
    PROVE  Inv'
<1>1. \A q : RowsOf(q) # {} => RowsOf(q)' # {}
    BY InsertKeeps DEF RowsOf
<1>2. \A q : \A d \in Call : CutShort(d, q)' = CutShort(d, q)
    BY DEF CutShort
<1>3. \A d \in Call : Confirmed(d, "create")' = Confirmed(d, "create")
    BY DEF Confirmed
<1>4. QueueAccounted'
    BY <1>1, <1>2, <1>3, AccountKept DEF Inv
<1> QED BY <1>4 DEF Inv, Shape, Deletions

LEMMA NextInv == Inv /\ [Next]_vars => Inv'
<1> SUFFICES ASSUME Inv, [Next]_vars PROVE Inv'
    OBVIOUS
<1>1. ASSUME NEW c \in Call, Handler(c) PROVE Inv'
    BY <1>1, HandlerInv
<1>2. ASSUME NEW c \in Call, Statement(c) PROVE Inv'
    BY <1>2, StatementInv
<1>3. ASSUME NEW c \in Call, StatementFails(c) \/ HandlerCrashes(c) PROVE Inv'
    BY <1>3, FaultInv
<1>4. CASE Dike
    <2>1. UNCHANGED <<call, rows>>
        BY <1>4 DEF Dike, ListQueues, WatchQueues, QueueCreated, QueueDeleted, QueueUpdated, store
    <2> QED BY <2>1, NodeInv
<1>5. CASE NodeCrashes
    BY <1>5, NodeInv DEF NodeCrashes, store
<1>6. ASSUME NEW m \in Manager, ManagerListens(m) \/ ManagerReceives(m) PROVE Inv'
    <2>1. UNCHANGED <<call, rows>>
        BY <1>6 DEF ManagerListens, ManagerReceives, store
    <2> QED BY <2>1, NodeInv
<1>7. ASSUME NEW m \in Manager, Drained(m) PROVE Inv'
    <2>1. UNCHANGED call /\ \E r : rows' = Insert(r)
        BY <1>7 DEF Drained
    <2> QED BY <2>1, NodeInv
<1>8. CASE UNCHANGED vars
    BY <1>8, NodeInv DEF vars, store
<1> QED BY <1>1, <1>2, <1>3, <1>4, <1>5, <1>6, <1>7, <1>8 DEF Next

(* A queue whose creation was confirmed keeps a row, whatever calls overlap *)
(* and fail, unless a deletion was cut between its statements               *)
(* (CreateOrUpdate and Delete of queue.go).                                 *)
THEOREM Accounted == Spec => []QueueAccounted
<1>1. Inv => QueueAccounted
    BY DEF Inv
<1> QED BY InitInv, NextInv, <1>1, PTL DEF Spec

-----------------------------------------------------------------------------
(* The list of queues.  What a function computes from one number to the     *)
(* next is there, and has what each of its steps keeps.                     *)
LEMMA Along ==
    ASSUME NEW n \in Nat, NEW T, 0 \in T,
           \A i \in 1 .. n : i - 1 \in T => i \in T
    PROVE  \A i \in 0 .. n : i \in T
<1> DEFINE Less == {ss \in Nat \X Nat : ss[1] < ss[2]}
           Out == {i \in 0 .. n : i \notin T}
<1>1. IsWellFoundedOn(Less, Nat)
    BY NatLessThanWellFounded DEF OpToRel
<1>2. SUFFICES ASSUME Out # {} PROVE FALSE
    OBVIOUS
<1>3. PICK x \in Out : \A y \in Out : <<y, x>> \notin Less
    <2>1. Out \subseteq Nat
        OBVIOUS
    <2> HIDE DEF Less, Out
    <2> QED BY <1>1, <1>2, <2>1, WFMin
<1>4. x \in 1 .. n /\ x - 1 \in 0 .. n
    <2>1. x \in 0 .. n /\ x # 0
        BY <1>3
    <2> QED BY <2>1
<1>5. <<x - 1, x>> \in Less
    BY <1>4
<1>6. x - 1 \notin Out
    BY <1>3, <1>5
<1>7. x - 1 \in T
    BY <1>4, <1>6
<1>8. x \in T
    BY <1>4, <1>7
<1> QED BY <1>3, <1>8

Computed(F, S, n, a, step) ==
    F \in [0 .. n -> S] /\ F[0] = a /\ \A i \in 1 .. n : F[i] = step[i][F[i - 1]]

LEMMA Recursion ==
    ASSUME NEW S, NEW n \in Nat, NEW a \in S, NEW step \in [1 .. n -> [S -> S]]
    PROVE  \E F : Computed(F, S, n, a, step)
<1> DEFINE Is(k, F) == F[0] = a /\ \A i \in 1 .. k : F[i] = step[i][F[i - 1]]
           T == {k \in 0 .. n : \E F \in [0 .. k -> S] : Is(k, F)}
<1>1. 0 \in T
    <2>1. [i \in 0 .. 0 |-> a] \in [0 .. 0 -> S] /\ Is(0, [i \in 0 .. 0 |-> a])
        OBVIOUS
    <2> HIDE DEF Is
    <2> QED BY <2>1
<1>2. ASSUME NEW k \in 1 .. n, k - 1 \in T PROVE k \in T
    <2>1. PICK F \in [0 .. k - 1 -> S] : Is(k - 1, F)
        BY <1>2
    <2> DEFINE G == [i \in 0 .. k |-> IF i = k THEN step[k][F[k - 1]] ELSE F[i]]
    <2>2. F[k - 1] \in S
        OBVIOUS
    <2>3. G \in [0 .. k -> S]
        BY <2>2
    <2>4. G[0] = a /\ \A i \in 0 .. k - 1 : G[i] = F[i]
        BY <2>1
    <2>5. G[k] = step[k][G[k - 1]]
        OBVIOUS
    <2> HIDE DEF G
    <2>6. Is(k, G)
        <3>1. ASSUME NEW i \in 1 .. k, i # k PROVE G[i] = step[i][G[i - 1]]
            <4>1. i \in 1 .. k - 1 /\ i \in 0 .. k - 1 /\ i - 1 \in 0 .. k - 1
                BY <3>1
            <4> QED BY <2>1, <2>4, <4>1
        <3> QED BY <2>4, <2>5, <3>1
    <2> HIDE DEF Is
    <2> QED BY <2>3, <2>6
<1>3. n \in T
    <2>1. n \in 0 .. n
        OBVIOUS
    <2> HIDE DEF T
    <2> QED BY <1>1, <1>2, <2>1, Along
<1> QED BY <1>3 DEF Computed

(* How far the loop over the list is: the list, with the cuts in place.     *)
(* What is left of it is the list known without entries of queue q.         *)
Places == 1 .. Len(known)

Progress == [list : [Places -> Manager], len : 0 .. Len(known), panics : BOOLEAN]

From(s, q, from) ==
    /\ from \in [1 .. s.len -> Places]
    /\ \A i, j \in 1 .. s.len : i < j => from[i] < from[j]
    /\ \A i \in 1 .. s.len : s.list[i] = known[from[i]]
    /\ \A j \in Places : mgr[known[j]].queue # q => \E i \in 1 .. s.len : from[i] = j

Left(q) == {s \in Progress : \E from : From(s, q, from)}

CutAt(s, q, i) ==
    IF s.panics \/ mgr[s.list[i]].queue # q THEN s
    ELSE IF i > s.len THEN [s EXCEPT !.panics = TRUE]
    ELSE [list |-> Cut(s.list, i, s.len), len |-> s.len - 1, panics |-> FALSE]

LEMMA CutAtLeaves ==
    ASSUME known \in Seq(Manager), NEW q, NEW s \in Left(q), NEW i \in Places
    PROVE  CutAt(s, q, i) \in Left(q)
<1>0. Len(known) \in Nat
    OBVIOUS
<1>1. PICK from : From(s, q, from)
    BY DEF Left
<1>2. s \in Progress
    BY DEF Left
<1>3. CASE s.panics \/ mgr[s.list[i]].queue # q
    BY <1>3 DEF CutAt
<1>4. CASE ~(s.panics \/ mgr[s.list[i]].queue # q) /\ i > s.len
    <2> DEFINE t == [s EXCEPT !.panics = TRUE]
    <2>1. t \in Progress /\ t.list = s.list /\ t.len = s.len
        BY <1>2 DEF Progress
    <2>2. From(t, q, from)
        BY <1>1, <2>1 DEF From
    <2>3. CutAt(s, q, i) = t
        BY <1>4 DEF CutAt
    <2> QED BY <2>1, <2>2, <2>3 DEF Left
<1>5. CASE ~(s.panics \/ mgr[s.list[i]].queue # q) /\ ~(i > s.len)
    <2> DEFINE t == [list |-> Cut(s.list, i, s.len), len |-> s.len - 1, panics |-> FALSE]
               to == [j \in 1 .. s.len - 1 |-> IF j < i THEN from[j] ELSE from[j + 1]]
    <2>1. CutAt(s, q, i) = t
        BY <1>5 DEF CutAt
    <2>2. /\ s.len \in 0 .. Len(known) /\ s.list \in [Places -> Manager]
          /\ i \in Nat /\ 1 <= i /\ i <= s.len /\ s.len <= Len(known) /\ s.len \in Nat
        BY <1>0, <1>2, <1>5 DEF Progress, Places
    <2>3. t.len = s.len - 1 /\ t.list = Cut(s.list, i, s.len) /\ t.panics = FALSE
        OBVIOUS
    <2>4. /\ t.list \in [Places -> Manager]
          /\ \A j \in 1 .. s.len - 1 : t.list[j] = IF j < i THEN s.list[j] ELSE s.list[j + 1]
        BY <1>0, <2>2 DEF Cut, Places
    <2>5. t \in Progress
        BY <1>0, <2>2, <2>4 DEF Progress
    <2>6. /\ from \in [1 .. s.len -> Places]
          /\ \A k, j \in 1 .. s.len : k < j => from[k] < from[j]
          /\ \A k \in 1 .. s.len : s.list[k] = known[from[k]]
          /\ \A j \in Places : mgr[known[j]].queue # q => \E k \in 1 .. s.len : from[k] = j
        BY <1>1 DEF From
    <2>7. \A j \in 1 .. s.len - 1 : j \in 1 .. s.len /\ j + 1 \in 1 .. s.len
        BY <2>2
    <2>8. to \in [1 .. s.len - 1 -> Places]
        BY <2>6, <2>7
    <2>9. ASSUME NEW k \in 1 .. s.len - 1, NEW j \in 1 .. s.len - 1, k < j
          PROVE  to[k] < to[j]
        <3>1. k + 1 < j + 1 /\ k < j + 1 /\ (~(k < i) => ~(j < i))
            BY <2>2, <2>9
        <3> QED BY <2>6, <2>7, <2>9, <3>1
    <2>10. \A k \in 1 .. s.len - 1 : t.list[k] = known[to[k]]
        BY <2>4, <2>6, <2>7
    <2>11. ASSUME NEW j \in Places, mgr[known[j]].queue # q
           PROVE  \E k \in 1 .. s.len - 1 : to[k] = j
        <3>1. PICK k \in 1 .. s.len : from[k] = j
            BY <2>6, <2>11
        <3>2. k # i
            BY <1>5, <2>6, <2>11, <3>1
        <3>3. CASE k < i
            <4>1. k \in 1 .. s.len - 1
                BY <2>2, <3>3
            <4> QED BY <3>1, <3>3, <4>1
        <3>4. CASE k > i
            <4>1. k - 1 \in 1 .. s.len - 1 /\ ~(k - 1 < i) /\ (k - 1) + 1 = k
                BY <2>2, <3>4
            <4> QED BY <3>1, <4>1
        <3>5. k < i \/ k > i
            BY <2>2, <3>2
        <3> QED BY <3>3, <3>4, <3>5
    <2> HIDE DEF t, to
    <2>12. From(t, q, to)
        BY <2>3, <2>8, <2>9, <2>10, <2>11 DEF From
    <2> QED BY <2>1, <2>5, <2>12 DEF Left
<1> QED BY <1>3, <1>4, <1>5

LEMMA CutAllLeaves ==
    ASSUME known \in Seq(Manager), NEW q
    PROVE  CutAll(q) \in Left(q)
<1> DEFINE n == Len(known)
           a == [list |-> known, len |-> n, panics |-> FALSE]
           Loop(F) == F = [i \in 0 .. n |-> IF i = 0 THEN a ELSE CutAt(F[i - 1], q, i)]
           after == CHOOSE F : Loop(F)
<1>1. n \in Nat /\ known \in [1 .. n -> Manager]
    OBVIOUS
<1>2. a \in Left(q)
    <2>1. a \in Progress
        BY <1>1 DEF Progress, Places
    <2>2. From(a, q, [i \in 1 .. n |-> i])
        BY <1>1 DEF From, Places
    <2> QED BY <2>1, <2>2 DEF Left
<1>3. \A i \in 1 .. n : \A s \in Left(q) : CutAt(s, q, i) \in Left(q)
    BY CutAtLeaves DEF Places
<1>4. CutAll(q) = after[n]
    BY DEF CutAll, CutAt
<1> HIDE DEF a
<1>5. \E F : Loop(F)
    <2> DEFINE step == [i \in 1 .. n |-> [s \in Left(q) |-> CutAt(s, q, i)]]
    <2>1. step \in [1 .. n -> [Left(q) -> Left(q)]]
        BY <1>3
    <2>2. PICK F \in [0 .. n -> Left(q)] :
              F[0] = a /\ \A i \in 1 .. n : F[i] = step[i][F[i - 1]]
        <3> HIDE DEF step, n
        <3>1. \E F : Computed(F, Left(q), n, a, step)
            BY <1>1, <1>2, <2>1, Recursion
        <3> QED BY <3>1 DEF Computed
    <2>3. \A i \in 1 .. n : F[i] = CutAt(F[i - 1], q, i)
        <3>1. ASSUME NEW i \in 1 .. n PROVE F[i] = CutAt(F[i - 1], q, i)
            <4>1. i - 1 \in 0 .. n
                BY <1>1
            <4> QED BY <2>2, <4>1
        <3> QED BY <3>1
    <2>4. F = [i \in 0 .. n |-> F[i]]
        BY <2>2
    <2>5. \A i \in 0 .. n : F[i] = IF i = 0 THEN a ELSE CutAt(F[i - 1], q, i)
        BY <1>1, <2>2, <2>3
    <2>6. Loop(F)
        BY <2>4, <2>5
    <2> QED BY <2>6
<1>6. Loop(after)
    <2> HIDE DEF Loop
    <2> QED BY <1>5
<1> HIDE DEF after
<1>7. after[0] = a /\ \A i \in 1 .. n : after[i] = CutAt(after[i - 1], q, i)
    BY <1>1, <1>6
<1> HIDE DEF Loop
<1> DEFINE T == {i \in 0 .. n : after[i] \in Left(q)}
<1>8. 0 \in T
    BY <1>1, <1>2, <1>7
<1>9. \A i \in 1 .. n : i - 1 \in T => i \in T
    BY <1>1, <1>3, <1>7
<1>10. n \in T
    <2> HIDE DEF T, n
    <2> QED BY <1>1, <1>8, <1>9, Along
<1> QED BY <1>4, <1>10

(* The list holds managers, of which there are as many as rows were found.  *)
Registry == IsFiniteSet(rows) /\ known \in Seq(Manager)

LEMMA SequenceOfSet ==
    ASSUME NEW S, IsFiniteSet(S)
    PROVE  SetToSeq(S) \in [1 .. Cardinality(S) -> S] /\ Cardinality(S) \in Nat
<1>1. Cardinality(S) \in Nat /\ ExistsBijection(1 .. Cardinality(S), S)
    BY FS_CardinalityType
<1>2. PICK f \in [1 .. Cardinality(S) -> S] : IsInjective(f)
    BY <1>1 DEF ExistsBijection, Bijection, Injection, IsInjective
<1> QED BY <1>1, <1>2 DEF SetToSeq

LEMMA InsertFinite ==
    ASSUME IsFiniteSet(rows), NEW r
    PROVE  IsFiniteSet(Insert(r))
<1>1. IsFiniteSet({s \in rows : s.queue # r.queue \/ s.status # r.status})
    BY FS_Subset
<1> QED BY <1>1, FS_AddElement DEF Insert

LEMMA InitRegistry == Init => Registry
<1> SUFFICES ASSUME Init PROVE Registry
    OBVIOUS
<1>1. PICK given : rows = {Row(RootQueue, "Active", FALSE)}
                             \cup {Row(p, "Active", given[p].drain) : p \in Stored}
    BY DEF Init
<1> DEFINE R == {Row(p, "Active", given[p].drain) : p \in Stored}
           f == [p \in Stored |-> Row(p, "Active", given[p].drain)]
<1>2. f \in Surjection(Stored, R)
    BY DEF Surjection
<1>3. IsFiniteSet(R)
    <2> HIDE DEF f, R
    <2> QED BY <1>2, StoredAssumption, FS_Surjection DEF ExistsSurjection
<1>4. IsFiniteSet(R \cup {Row(RootQueue, "Active", FALSE)})
    <2> HIDE DEF R
    <2> QED BY <1>3, FS_AddElement
<1>5. rows = R \cup {Row(RootQueue, "Active", FALSE)}
    BY <1>1
<1>6. known = <<>>
    BY DEF Init
<1> QED BY <1>4, <1>5, <1>6 DEF Registry

LEMMA NextRegistry == Registry /\ [Next]_vars => Registry'
<1> SUFFICES ASSUME Registry, [Next]_vars PROVE Registry'
    OBVIOUS
<1> USE DEF store, node
<1>0. ASSUME UNCHANGED known, UNCHANGED rows \/ (\E r : rows' = Insert(r)) \/ rows' \subseteq rows
      PROVE  Registry'
    BY <1>0, InsertFinite, FS_Subset DEF Registry
<1>1. ASSUME NEW c \in Call, Handler(c) PROVE Registry'
    BY <1>0, <1>1 DEF Handler, CreateQueue, UpdateQueue, DeleteQueue, Begin
<1>2. ASSUME NEW c \in Call, Statement(c) PROVE Registry'
    <2>1. UNCHANGED known
        BY <1>2 DEF Statement, ReadPaths, WritePaths, WriteRow, DropPaths, DropRow, Mark, Notify
    <2>2. UNCHANGED rows \/ (\E r : rows' = Insert(r)) \/ rows' \subseteq rows
        BY <1>2 DEF Statement, ReadPaths, WritePaths, WriteRow, DropPaths, DropRow, Mark, Notify
    <2> QED BY <1>0, <2>1, <2>2
<1>3. ASSUME NEW c \in Call, StatementFails(c) \/ HandlerCrashes(c) PROVE Registry'
    BY <1>0, <1>3 DEF StatementFails, HandlerCrashes
<1>4. CASE ListQueues
    <2> DEFINE S == {r \in rows : r.status # "Deleted"}
               found == SetToSeq(S)
    <2>1. IsFiniteSet(S)
        BY FS_Subset DEF Registry
    <2>2. found \in [1 .. Cardinality(S) -> S] /\ Cardinality(S) \in Nat
        <3> HIDE DEF S
        <3> QED BY <2>1, SequenceOfSet
    <2>3. /\ Len(found) <= Cardinality(Manager)
          /\ known' = [i \in DOMAIN found |-> i] /\ rows' = rows
        BY <1>4 DEF ListQueues
    <2> HIDE DEF found
    <2>4. Len(found) = Cardinality(S) /\ DOMAIN found = 1 .. Cardinality(S)
        BY <2>2
    <2>5. Cardinality(Manager) \in Nat /\ Manager = 1 .. Cardinality(Manager)
        BY ManagerAssumption, FS_CardinalityType
    <2> HIDE DEF S
    <2>6. \A i \in 1 .. Cardinality(S) : i \in Manager
        BY <2>2, <2>3, <2>4, <2>5
    <2>7. known' \in [1 .. Cardinality(S) -> Manager]
        BY <2>3, <2>4, <2>6
    <2>8. known' \in Seq(Manager)
        BY <2>2, <2>7
    <2> QED BY <2>3, <2>8 DEF Registry
<1>5. CASE WatchQueues \/ QueueUpdated
    BY <1>0, <1>5 DEF WatchQueues, QueueUpdated
<1>6. CASE QueueCreated
    <2>1. UNCHANGED rows /\ (UNCHANGED known \/ \E m \in Manager : known' = Append(known, m))
        BY <1>6 DEF QueueCreated, FreeManagers
    <2> QED BY <1>0, <2>1, AppendProperties DEF Registry
<1>7. CASE QueueDeleted
    <2>1. UNCHANGED rows
        BY <1>7 DEF QueueDeleted
    <2>2. CASE known' = <<>>
        BY <2>1, <2>2 DEF Registry
    <2>3. ASSUME known' # <<>> PROVE known' \in Seq(Manager)
        <3>1. PICK s : s = CutAll(Head(inbox)[2])
            OBVIOUS
        <3>2. known' = SubSeq(s.list, 1, s.len)
            BY <1>7, <2>3, <3>1 DEF QueueDeleted, NodeDies
        <3>3. s \in Progress
            BY <3>1, CutAllLeaves DEF Registry, Left
        <3>4. /\ s.list \in [Places -> Manager] /\ s.len \in Nat /\ Len(known) \in Nat
              /\ \A i \in 1 .. s.len : s.list[i] \in Manager
            BY <3>3 DEF Progress, Places, Registry
        <3> QED BY <3>2, <3>4, SubSeqProperties
    <2> QED BY <2>1, <2>2, <2>3 DEF Registry
<1>8. CASE NodeCrashes
    BY <1>8 DEF NodeCrashes, NodeDies, Registry
<1>9. ASSUME NEW m \in Manager, ManagerListens(m) PROVE Registry'
    BY <1>0, <1>9 DEF ManagerListens
<1>10. ASSUME NEW m \in Manager, ManagerReceives(m) PROVE Registry'
    <2>1. UNCHANGED rows /\ (UNCHANGED known \/ known' = <<>>)
        BY <1>10 DEF ManagerReceives, NodeDies
    <2>2. CASE UNCHANGED known
        BY <1>0, <2>1, <2>2
    <2>3. CASE known' = <<>>
        BY <2>1, <2>3 DEF Registry
    <2> QED BY <2>1, <2>2, <2>3
<1>11. ASSUME NEW m \in Manager, Drained(m) PROVE Registry'
    <2>1. UNCHANGED known /\ \E r : rows' = Insert(r)
        BY <1>11 DEF Drained
    <2> QED BY <1>0, <2>1
<1>12. CASE UNCHANGED vars
    BY <1>0, <1>12 DEF vars
<1> QED BY <1>1, <1>2, <1>3, <1>4, <1>5, <1>6, <1>7, <1>8, <1>9, <1>10, <1>11, <1>12 DEF Next, Dike

(* What the loop leaves is what is known afterwards. *)
LEMMA DeletionKeepsOthers ==
    ASSUME Registry, QueueDeleted, dike' = "watching"
    PROVE  \E from \in [DOMAIN known' -> DOMAIN known] :
              /\ \A i, j \in DOMAIN known' : i < j => from[i] < from[j]
              /\ \A i \in DOMAIN known' : known'[i] = known[from[i]]
              /\ \A j \in DOMAIN known :
                    mgr[known[j]].queue # Head(inbox)[2] => j \in Range(from)
<1> DEFINE q == Head(inbox)[2]
<1>1. PICK s : s = CutAll(q)
    OBVIOUS
<1>2. known' = SubSeq(s.list, 1, s.len)
    BY <1>1 DEF QueueDeleted, NodeDies
<1> HIDE DEF q
<1>3. s \in Left(q)
    BY <1>1, CutAllLeaves DEF Registry
<1>4. PICK from : From(s, q, from)
    BY <1>3 DEF Left
<1>5. /\ s.list \in [Places -> Manager] /\ s.len \in Nat /\ Len(known) \in Nat
      /\ \A i \in 1 .. s.len : s.list[i] \in Manager
    BY <1>3 DEF Left, Progress, Places, Registry
<1>6. DOMAIN known' = 1 .. s.len /\ \A i \in 1 .. s.len : known'[i] = s.list[i]
    <2>1. /\ known' \in Seq(Manager)
          /\ Len(known') = IF 1 <= s.len THEN s.len - 1 + 1 ELSE 0
          /\ \A i \in 1 .. s.len - 1 + 1 : known'[i] = s.list[1 + i - 1]
        BY <1>2, <1>5, SubSeqProperties
    <2>2. Len(known') = s.len /\ \A i \in 1 .. s.len : i \in 1 .. s.len - 1 + 1 /\ 1 + i - 1 = i
        BY <1>5, <2>1
    <2> QED BY <2>1, <2>2, LenProperties
<1>7. DOMAIN known = Places
    BY LenProperties DEF Registry, Places
<1>8. \A j \in Places : mgr[known[j]].queue # q => j \in Range(from)
    BY <1>4 DEF From, Range
<1> QED BY <1>4, <1>6, <1>7, <1>8 DEF From, q

(* The loop of StartDike that cuts a deleted queue from the list takes no   *)
(* other queue out of it, and keeps the order, however many entries there   *)
(* are and wherever those of the queue stand (dike.go).                     *)
THEOREM DeletionCutsOnlyItsQueue == Spec => OthersStayKnown
<1>1. Registry /\ [Next]_vars => Registry'
    BY NextRegistry
<1>2. Registry /\ [Next]_vars =>
          [QueueDeleted /\ dike' = "watching" =>
              \E from \in [DOMAIN known' -> DOMAIN known] :
                  /\ \A i, j \in DOMAIN known' : i < j => from[i] < from[j]
                  /\ \A i \in DOMAIN known' : known'[i] = known[from[i]]
                  /\ \A j \in DOMAIN known :
                        mgr[known[j]].queue # Head(inbox)[2] => j \in Range(from)]_vars
    BY DeletionKeepsOthers
<1> QED BY InitRegistry, <1>1, <1>2, PTL DEF Spec, OthersStayKnown

-----------------------------------------------------------------------------
(* The encodings.  A row of an object, as it can be in the tables. *)
Data == [1 .. BigIntLen -> 0 .. ByteBase - 1]
Pointer == UUID \cup {Null}

TaskStructs ==
    [uuid : UUID, priority : Nat, promise : Pointer, status : ObjectStatus, when : Int]
ActionStructs == [uuid : UUID, status : ObjectStatus]
Structs(kind) == IF kind = "task" THEN TaskStructs ELSE ActionStructs

Positive == {d \in Data : decBigInt(d) >= 0}
TaskRows(o) ==
    {<<o, p, q, s, t>> : p \in Positive, q \in Pointer, s \in ObjectStatus, t \in Data \cup {Null}}
ActionRows(o) == {<<o, s>> : s \in ObjectStatus}
RowsOfObject(o) == IF o \in Task THEN TaskRows(o) ELSE ActionRows(o)

(* What such a row makes of a struct. *)
ReadTask(row, struct) ==
    [uuid |-> row[1], priority |-> decBigInt(row[2]), promise |-> row[3], status |-> row[4],
     when |-> unmarshalTimestamp(row[5], struct.when)]
ReadAction(row) == [uuid |-> row[1], status |-> row[2]]
ReadRow(kind, row, struct) == IF kind = "task" THEN ReadTask(row, struct) ELSE ReadAction(row)

LEMMA Widths ==
    /\ ByteBase = 4 /\ BigIntLen = 2 /\ UUIDLen = 2 /\ NanosPerMilli = 2
    /\ Values(0) = 1 /\ Values(1) = 4 /\ Values(2) = 16 /\ MaxInt64 = 7
<1>1. 4 ^ 0 = 1 /\ 4 ^ 1 = 4 /\ 4 ^ 2 = 16
    OBVIOUS
<1> QED BY <1>1 DEF ByteBase, BigIntLen, UUIDLen, NanosPerMilli, Values, MaxInt64

LEMMA FunctionIsSequence ==
    ASSUME NEW S, NEW n \in Nat, NEW f \in [1 .. n -> S]
    PROVE  f \in Seq(S) /\ Len(f) = n
<1> DEFINE g == SubSeq(f, 1, n)
<1>1. g \in Seq(S) /\ Len(g) = n /\ \A i \in 1 .. n : g[i] = f[i]
    <2>1. \A i \in 1 .. n : f[i] \in S
        OBVIOUS
    <2>2. /\ g \in Seq(S) /\ Len(g) = (IF 1 <= n THEN n - 1 + 1 ELSE 0)
          /\ \A i \in 1 .. n - 1 + 1 : g[i] = f[1 + i - 1]
        BY <2>1, SubSeqProperties
    <2> HIDE DEF g
    <2> QED BY <2>2
<1> HIDE DEF g
<1>2. g \in [1 .. n -> S]
    BY <1>1, LenProperties
<1>3. g = f
    BY <1>1, <1>2
<1> QED BY <1>1, <1>3

(* No data are mistaken for another: by their lengths. *)
LEMMA NotData ==
    /\ \A d \in Data \cup UUID : d # Null /\ d # Failed /\ d # <<>> /\ Len(d) = 2 /\ Length(d) = 2
    /\ \A s \in ObjectStatus : s # Null /\ s # Failed /\ Null # Failed
<1>1. ASSUME NEW d \in Data \cup UUID
      PROVE  d # Null /\ d # Failed /\ d # <<>> /\ Len(d) = 2 /\ Length(d) = 2
    <2>1. d \in [1 .. 2 -> 0 .. 3]
        BY <1>1, Widths DEF Data, UUID
    <2>2. d \in Seq(0 .. 3)
        BY <2>1, FunctionIsSequence
    <2>3. Len(d) = 2
        BY <2>1, <2>2
    <2>4. Len(Null) = 1 /\ Len(Failed) = 3 /\ Len(<<>>) = 0
        BY DEF Null, Failed
    <2>5. d # Null /\ d # Failed /\ d # <<>>
        BY <2>3, <2>4
    <2> QED BY <2>3, <2>5 DEF Length
<1>2. ASSUME NEW s \in ObjectStatus PROVE s # Null /\ s # Failed /\ Null # Failed
    <2>1. Len(Failed) = 3 /\ Len(Null) = 1 /\ Null[1] = -1
        BY DEF Failed, Null
    <2>2. s = <<>> \/ (Len(s) = 1 /\ s[1] \in 1 .. 4)
        <3>1. s \in {<<>>, <<1>>, <<2>>, <<3>>, <<4>>}
            BY <1>2 DEF ObjectStatus, None, Pending, Complete, Failure, Deleted
        <3>2. /\ Len(<<1>>) = 1 /\ Len(<<2>>) = 1 /\ Len(<<3>>) = 1 /\ Len(<<4>>) = 1
              /\ <<1>>[1] = 1 /\ <<2>>[1] = 2 /\ <<3>>[1] = 3 /\ <<4>>[1] = 4
            OBVIOUS
        <3>3. CASE s = <<>>
            BY <3>3
        <3>4. CASE s = <<1>>
            BY <3>2, <3>4
        <3>5. CASE s = <<2>>
            BY <3>2, <3>5
        <3>6. CASE s = <<3>>
            BY <3>2, <3>6
        <3>7. CASE s = <<4>>
            BY <3>2, <3>7
        <3> QED BY <3>1, <3>3, <3>4, <3>5, <3>6, <3>7
    <2>3. Len(<<>>) = 0
        OBVIOUS
    <2> QED BY <2>1, <2>2, <2>3
<1> QED BY <1>1, <1>2

LEMMA NumberOfTwo ==
    ASSUME NEW d \in Data
    PROVE  Number(d) = d[1] * 4 + d[2] /\ d[1] \in 0 .. 3 /\ d[2] \in 0 .. 3
<1>1. Len(d) = 2 /\ d[1] \in 0 .. 3 /\ d[2] \in 0 .. 3
    BY NotData, Widths DEF Data
<1> DEFINE F == [i \in 0 .. 2 |-> IF i = 0 THEN 0 ELSE IF i = 1 THEN d[1] ELSE d[1] * 4 + d[2]]
           Is(f) == f = [i \in 0 .. Len(d) |-> IF i = 0 THEN 0 ELSE f[i - 1] * ByteBase + d[i]]
<1>2. Is(F)
    BY <1>1, Widths
<1>3. PICK f : Is(f) /\ Number(d) = f[Len(d)]
    <2> DEFINE g == CHOOSE f : Is(f)
    <2>1. Is(g)
        BY <1>2
    <2>2. Number(d) = g[Len(d)]
        BY DEF Number
    <2> HIDE DEF g, Is
    <2> QED BY <2>1, <2>2
<1>4. f[0] = 0
    BY <1>1, <1>3
<1>5. f[1] = d[1]
    BY <1>1, <1>3, <1>4, Widths
<1>6. f[2] = d[1] * 4 + d[2]
    BY <1>1, <1>3, <1>5, Widths
<1> QED BY <1>1, <1>3, <1>6

LEMMA Encoded ==
    ASSUME NEW x \in Int
    PROVE  /\ encBigInt(x) \in Data
           /\ encBigInt(x)[1] = (x \div 4) % 4 /\ encBigInt(x)[2] = x % 4
<1>1. encBigInt(x) = [i \in 1 .. 2 |-> (x \div Values(2 - i)) % 4]
    BY Widths DEF encBigInt
<1>2. Values(2 - 1) = 4 /\ Values(2 - 2) = 1
    BY Widths
<1>3. (x \div 4) % 4 \in 0 .. 3 /\ x % 4 \in 0 .. 3 /\ x \div 1 = x
    OBVIOUS
<1>4. \A i \in 1 .. 2 : (x \div Values(2 - i)) % 4 \in 0 .. 3
    BY <1>2, <1>3
<1> QED BY <1>1, <1>2, <1>3, <1>4, Widths DEF Data

LEMMA Decoded ==
    ASSUME NEW d \in Data
    PROVE  decBigInt(d) \in -8 .. 7 /\ decBigInt(d) = Signed(d[1] * 4 + d[2])
<1>1. decBigInt(d) = Signed(Number(d))
    BY NotData, Widths DEF decBigInt
<1> QED BY <1>1, NumberOfTwo, Widths DEF Signed

LEMMA ThereAndBack ==
    ASSUME NEW x \in -8 .. 7
    PROVE  decBigInt(encBigInt(x)) = x /\ Wrap(x) = x
<1>1. decBigInt(encBigInt(x)) = Signed(((x \div 4) % 4) * 4 + (x % 4))
    <2>1. encBigInt(x) \in Data
        BY Encoded
    <2>2. decBigInt(encBigInt(x)) = Signed(encBigInt(x)[1] * 4 + encBigInt(x)[2])
        BY <2>1, Decoded
    <2>3. encBigInt(x)[1] = (x \div 4) % 4 /\ encBigInt(x)[2] = x % 4
        BY Encoded
    <2> QED BY <2>2, <2>3
<1>2. ((x \div 4) % 4) * 4 + (x % 4) = x % 16
    <2>1. \/ x = -8 \/ x = -7 \/ x = -6 \/ x = -5 \/ x = -4 \/ x = -3 \/ x = -2 \/ x = -1
          \/ x = 0 \/ x = 1 \/ x = 2 \/ x = 3 \/ x = 4 \/ x = 5 \/ x = 6 \/ x = 7
        OBVIOUS
    <2> QED BY <2>1
<1>3. Signed(x % 16) = x
    BY Widths DEF Signed
<1> QED BY <1>1, <1>2, <1>3, Widths DEF Wrap

LEMMA TimeThereAndBack ==
    ASSUME NEW x \in Int
    PROVE  /\ marshalTimestamp(x) \in Data
           /\ x \in Near => decBigInt(marshalTimestamp(x)) * NanosPerMilli
                                = Quot(x, NanosPerMilli) * NanosPerMilli
<1>1. Wrap(x) \in -8 .. 7
    BY Widths DEF Wrap, Signed
<1>2. Quot(Wrap(x), NanosPerMilli) \in -8 .. 7
    BY <1>1, Widths DEF Quot
<1>3. marshalTimestamp(x) \in Data
    BY <1>2, Encoded DEF marshalTimestamp
<1>4. ASSUME x \in Near
      PROVE  decBigInt(marshalTimestamp(x)) * NanosPerMilli = Quot(x, NanosPerMilli) * NanosPerMilli
    <2>1. Wrap(x) = x
        BY <1>4, ThereAndBack, Widths DEF Near
    <2> QED BY <1>2, <2>1, ThereAndBack DEF marshalTimestamp
<1> QED BY <1>3, <1>4

-----------------------------------------------------------------------------
(* A row and a struct, column after column. *)
IsColumn(column, type, field, pointer) ==
    column.type = type /\ column.field = field /\ column.pointer = pointer

LEMMA ColumnFacts ==
    /\ Len(TaskColumns) = 5 /\ DOMAIN TaskColumns = 1 .. 5
    /\ IsColumn(TaskColumns[1], "uuid", "uuid", FALSE)
    /\ IsColumn(TaskColumns[2], "bigint", "priority", FALSE)
    /\ IsColumn(TaskColumns[3], "uuid", "promise", TRUE)
    /\ IsColumn(TaskColumns[4], "varchar", "status", FALSE)
    /\ IsColumn(TaskColumns[5], "timestamp", "when", FALSE)
    /\ Len(ActionColumns) = 2 /\ DOMAIN ActionColumns = 1 .. 2
    /\ IsColumn(ActionColumns[1], "uuid", "uuid", FALSE)
    /\ IsColumn(ActionColumns[2], "varchar", "status", FALSE)
BY DEF TaskColumns, ActionColumns, Column, NullColumn, IsColumn

LEMMA ScanOfUUID ==
    ASSUME NEW u \in UUID, NEW old
    PROVE  /\ unmarshalUUID(u) = <<u>> /\ <<u>> # Failed
           /\ unmarshalNullable(u, old) = <<u>>
           /\ unmarshalNullable(Null, old) = <<Null>> /\ <<Null>> # Failed
<1>1. unmarshalUUID(u) = <<u>> /\ ~IsNullData(u)
    BY NotData, Widths DEF unmarshalUUID, IsNullData
<1>2. <<u>> # Failed /\ <<Null>> # Failed
    <2>1. Len(Failed) = 3 /\ Len(<<u>>) = 1 /\ Len(<<Null>>) = 1
        BY DEF Failed
    <2> QED BY <2>1
<1> QED BY <1>1, <1>2 DEF unmarshalNullable, IsNullData

(* One column: its field gets the value. *)
LEMMA ScanOfColumn ==
    ASSUME NEW st, NEW c, NEW d, NEW x, Unmarshal(c, d, st[c.field]) = <<x>>
    PROVE  ScanColumn([ok |-> TRUE, struct |-> st], c, d)
               = [ok |-> TRUE, struct |-> [st EXCEPT ![c.field] = x]]
<1>1. <<x>> # Failed /\ <<x>>[1] = x
    <2>1. Len(Failed) = 3 /\ Len(<<x>>) = 1 /\ <<x>>[1] = x
        BY DEF Failed
    <2> QED BY <2>1
<1> DEFINE done == [ok |-> TRUE, struct |-> st]
<1>2. done.ok = TRUE /\ done.struct = st
    OBVIOUS
<1>3. ASSUME NEW e PROVE [done EXCEPT !.struct = e] = [ok |-> TRUE, struct |-> e]
    <2>1. \A a, b : [[ok |-> a, struct |-> b] EXCEPT !.struct = e] = [ok |-> a, struct |-> e]
        OBVIOUS
    <2> QED BY <2>1, Zenon
<1> HIDE DEF done
<1>4. ScanColumn(done, c, d) = [done EXCEPT !.struct = [done.struct EXCEPT ![c.field] = x]]
    BY <1>1, <1>2 DEF ScanColumn
<1>5. ScanColumn(done, c, d) = [ok |-> TRUE, struct |-> [st EXCEPT ![c.field] = x]]
    BY <1>2, <1>3, <1>4
<1> QED BY <1>5 DEF done

LEMMA ScanOfTask ==
    ASSUME NEW o \in UUID, NEW row \in TaskRows(o), NEW struct \in TaskStructs
    PROVE  Scan(TaskColumns, row, struct) = [ok |-> TRUE, struct |-> ReadTask(row, struct)]
<1>1. PICK p \in Positive, q \in Pointer, s \in ObjectStatus, t \in Data \cup {Null} :
          row = <<o, p, q, s, t>>
    BY DEF TaskRows
<1>2. row[1] = o /\ row[2] = p /\ row[3] = q /\ row[4] = s /\ row[5] = t
    BY <1>1
<1> DEFINE R(u, x, y, z, v) ==
               [uuid |-> u, priority |-> x, promise |-> y, status |-> z, when |-> v]
           a0 == struct
           x == decBigInt(p)
           v == unmarshalTimestamp(t, struct.when)
           D(st) == [ok |-> TRUE, struct |-> st]
           a1 == R(o, struct.priority, struct.promise, struct.status, struct.when)
           a2 == R(o, x, struct.promise, struct.status, struct.when)
           a3 == R(o, x, q, struct.status, struct.when)
           a4 == R(o, x, q, s, struct.when)
           a5 == R(o, x, q, s, v)
<1>3. struct = R(struct.uuid, struct.priority, struct.promise, struct.status, struct.when)
    BY DEF TaskStructs
<1>9. ScanColumn(D(a0), TaskColumns[1], row[1]) = D(a1)
    <2>1. Unmarshal(TaskColumns[1], o, a0["uuid"]) = <<o>>
        BY ColumnFacts, ScanOfUUID DEF Unmarshal, IsColumn
    <2>2. [a0 EXCEPT !["uuid"] = o] = a1
        <3>1. [R(struct.uuid, struct.priority, struct.promise, struct.status, struct.when)
                   EXCEPT !["uuid"] = o] = a1
            OBVIOUS
        <3> HIDE DEF a1, R
        <3> QED BY <1>3, <3>1
    <2> HIDE DEF a0, a1, R
    <2> QED BY <1>2, <2>1, <2>2, ColumnFacts, ScanOfColumn DEF IsColumn
<1>10. ScanColumn(D(a1), TaskColumns[2], row[2]) = D(a2)
    <2>1. Unmarshal(TaskColumns[2], p, a1["priority"]) = <<x>>
        BY ColumnFacts, Decoded DEF Unmarshal, IsColumn, unmarshalIntlike, Positive
    <2>2. [a1 EXCEPT !["priority"] = x] = a2
        OBVIOUS
    <2> HIDE DEF a1, a2, R
    <2> QED BY <1>2, <2>1, <2>2, ColumnFacts, ScanOfColumn DEF IsColumn
<1>11. ScanColumn(D(a2), TaskColumns[3], row[3]) = D(a3)
    <2>1. Unmarshal(TaskColumns[3], q, a2["promise"]) = <<q>>
        BY ColumnFacts, ScanOfUUID DEF Unmarshal, IsColumn, Pointer
    <2>2. [a2 EXCEPT !["promise"] = q] = a3
        OBVIOUS
    <2> HIDE DEF a2, a3, R
    <2> QED BY <1>2, <2>1, <2>2, ColumnFacts, ScanOfColumn DEF IsColumn
<1>12. ScanColumn(D(a3), TaskColumns[4], row[4]) = D(a4)
    <2>1. Unmarshal(TaskColumns[4], s, a3["status"]) = <<s>>
        BY ColumnFacts, NotData DEF Unmarshal, IsColumn, unmarshalVarchar
    <2>2. [a3 EXCEPT !["status"] = s] = a4
        OBVIOUS
    <2> HIDE DEF a3, a4, R
    <2> QED BY <1>2, <2>1, <2>2, ColumnFacts, ScanOfColumn DEF IsColumn
<1>13. ScanColumn(D(a4), TaskColumns[5], row[5]) = D(a5)
    <2>1. Unmarshal(TaskColumns[5], t, a4["when"]) = <<v>>
        BY ColumnFacts DEF Unmarshal, IsColumn
    <2>2. [a4 EXCEPT !["when"] = v] = a5
        OBVIOUS
    <2> HIDE DEF a4, a5, R, v
    <2> QED BY <1>2, <2>1, <2>2, ColumnFacts, ScanOfColumn DEF IsColumn
<1>14. a5 = ReadTask(row, struct)
    BY <1>2 DEF ReadTask
<1> DEFINE Is(f) == f = [i \in 0 .. Len(TaskColumns) |->
               IF i = 0 THEN [ok |-> TRUE, struct |-> struct]
               ELSE ScanColumn(f[i - 1], TaskColumns[i], row[i])]
           F == [i \in 0 .. 5 |-> IF i = 0 THEN D(a0) ELSE IF i = 1 THEN D(a1)
                    ELSE IF i = 2 THEN D(a2) ELSE IF i = 3 THEN D(a3)
                    ELSE IF i = 4 THEN D(a4) ELSE D(a5)]
<1> HIDE DEF a1, a2, a3, a4, a5, x, v, R
<1>15. Is(F)
    BY <1>9, <1>10, <1>11, <1>12, <1>13, ColumnFacts
<1>16. PICK f : Is(f) /\ Scan(TaskColumns, row, struct) = f[Len(TaskColumns)]
    <2> DEFINE g == CHOOSE f : Is(f)
    <2>1. Is(g)
        BY <1>15
    <2>2. Scan(TaskColumns, row, struct) = g[Len(TaskColumns)]
        BY DEF Scan
    <2> HIDE DEF g, Is
    <2> QED BY <2>1, <2>2
<1> HIDE DEF F
<1>17. f[0] = D(a0) /\ \A i \in 1 .. 5 : f[i] = ScanColumn(f[i - 1], TaskColumns[i], row[i])
    <2>1. f[0] = D(a0)
        BY <1>16, ColumnFacts
    <2>2. ASSUME NEW i \in 1 .. 5 PROVE f[i] = ScanColumn(f[i - 1], TaskColumns[i], row[i])
        <3>1. i \in 0 .. Len(TaskColumns) /\ i # 0
            BY ColumnFacts
        <3> QED BY <1>16, <3>1
    <2> QED BY <2>1, <2>2
<1>18. f[1] = D(a1)
    BY <1>9, <1>17
<1>19. f[2] = D(a2)
    BY <1>10, <1>17, <1>18
<1>20. f[3] = D(a3)
    BY <1>11, <1>17, <1>19
<1>21. f[4] = D(a4)
    BY <1>12, <1>17, <1>20
<1>22. f[5] = D(a5)
    BY <1>13, <1>17, <1>21
<1> QED BY <1>14, <1>16, <1>22, ColumnFacts

LEMMA ScanOfAction ==
    ASSUME NEW o \in UUID, NEW row \in ActionRows(o), NEW struct \in ActionStructs
    PROVE  Scan(ActionColumns, row, struct) = [ok |-> TRUE, struct |-> ReadAction(row)]
<1>1. PICK s \in ObjectStatus : row = <<o, s>>
    BY DEF ActionRows
<1>2. row[1] = o /\ row[2] = s
    BY <1>1
<1> DEFINE R(u, z) == [uuid |-> u, status |-> z]
           a0 == struct
           D(st) == [ok |-> TRUE, struct |-> st]
           a1 == R(o, struct.status)
           a2 == R(o, s)
<1>3. struct = R(struct.uuid, struct.status)
    BY DEF ActionStructs
<1>4. ScanColumn(D(a0), ActionColumns[1], row[1]) = D(a1)
    <2>1. Unmarshal(ActionColumns[1], o, a0["uuid"]) = <<o>>
        BY ColumnFacts, ScanOfUUID DEF Unmarshal, IsColumn
    <2>2. [a0 EXCEPT !["uuid"] = o] = a1
        <3>1. [R(struct.uuid, struct.status) EXCEPT !["uuid"] = o] = a1
            OBVIOUS
        <3> HIDE DEF a1, R
        <3> QED BY <1>3, <3>1
    <2> HIDE DEF a0, a1, R
    <2> QED BY <1>2, <2>1, <2>2, ColumnFacts, ScanOfColumn DEF IsColumn
<1>5. ScanColumn(D(a1), ActionColumns[2], row[2]) = D(a2)
    <2>1. Unmarshal(ActionColumns[2], s, a1["status"]) = <<s>>
        BY ColumnFacts, NotData DEF Unmarshal, IsColumn, unmarshalVarchar
    <2>2. [a1 EXCEPT !["status"] = s] = a2
        OBVIOUS
    <2> HIDE DEF a1, a2, R
    <2> QED BY <1>2, <2>1, <2>2, ColumnFacts, ScanOfColumn DEF IsColumn
<1>6. a2 = ReadAction(row)
    BY <1>2 DEF ReadAction
<1> DEFINE Is(f) == f = [i \in 0 .. Len(ActionColumns) |->
               IF i = 0 THEN [ok |-> TRUE, struct |-> struct]
               ELSE ScanColumn(f[i - 1], ActionColumns[i], row[i])]
           F == [i \in 0 .. 2 |-> IF i = 0 THEN D(a0) ELSE IF i = 1 THEN D(a1) ELSE D(a2)]
<1> HIDE DEF a1, a2, R
<1>7. Is(F)
    BY <1>4, <1>5, ColumnFacts
<1>8. PICK f : Is(f) /\ Scan(ActionColumns, row, struct) = f[Len(ActionColumns)]
    <2> DEFINE g == CHOOSE f : Is(f)
    <2>1. Is(g)
        BY <1>7
    <2>2. Scan(ActionColumns, row, struct) = g[Len(ActionColumns)]
        BY DEF Scan
    <2> HIDE DEF g, Is
    <2> QED BY <2>1, <2>2
<1> HIDE DEF F
<1>9. f[0] = D(a0) /\ \A i \in 1 .. 2 : f[i] = ScanColumn(f[i - 1], ActionColumns[i], row[i])
    <2>1. f[0] = D(a0)
        BY <1>8, ColumnFacts
    <2>2. ASSUME NEW i \in 1 .. 2 PROVE f[i] = ScanColumn(f[i - 1], ActionColumns[i], row[i])
        <3>1. i \in 0 .. Len(ActionColumns) /\ i # 0
            BY ColumnFacts
        <3> QED BY <1>8, <3>1
    <2> QED BY <2>1, <2>2
<1>10. f[1] = D(a1)
    BY <1>4, <1>9
<1>11. f[2] = D(a2)
    BY <1>5, <1>9, <1>10
<1> QED BY <1>6, <1>8, <1>11, ColumnFacts

(* A row of an object can be read into any struct: that becomes one of its. *)
LEMMA ScanOfRow ==
    ASSUME NEW o \in Object, NEW row \in RowsOfObject(o), NEW struct \in Structs(KindOf(o))
    PROVE  /\ Scan(ColumnsOf(KindOf(o)), row, struct)
                  = [ok |-> TRUE, struct |-> ReadRow(KindOf(o), row, struct)]
           /\ ReadRow(KindOf(o), row, struct) \in Structs(KindOf(o))
           /\ ReadRow(KindOf(o), row, struct).uuid = o
           /\ row # NoRow
<1>0. o \in UUID
    BY ObjectsAssumption DEF Object
<1>1. CASE o \in Task
    <2>1. KindOf(o) = "task" /\ row \in TaskRows(o) /\ struct \in TaskStructs
        BY <1>1 DEF KindOf, RowsOfObject, Structs
    <2>2. PICK p \in Positive, q \in Pointer, s \in ObjectStatus, t \in Data \cup {Null} :
              row = <<o, p, q, s, t>>
        BY <2>1 DEF TaskRows
    <2>3. row[1] = o /\ row[2] = p /\ row[3] = q /\ row[4] = s /\ row[5] = t /\ row # NoRow
        BY <2>2 DEF NoRow
    <2>4. decBigInt(p) \in Nat
        BY Decoded DEF Positive
    <2>5. unmarshalTimestamp(t, struct.when) \in Int
        <3>1. struct.when \in Int /\ NanosPerMilli \in Int
            BY <2>1, Widths DEF TaskStructs
        <3>2. CASE t = Null
            BY <3>1, <3>2 DEF unmarshalTimestamp, IsNullData
        <3>3. CASE t \in Data
            <4>1. decBigInt(t) \in Int
                BY <3>3, Decoded
            <4> QED BY <3>1, <4>1 DEF unmarshalTimestamp
        <3> QED BY <3>2, <3>3
    <2>6. ReadTask(row, struct) \in TaskStructs /\ ReadTask(row, struct).uuid = o
        BY <1>0, <2>3, <2>4, <2>5 DEF ReadTask, TaskStructs
    <2> QED BY <1>0, <2>1, <2>3, <2>6, ScanOfTask DEF ColumnsOf, ReadRow, Structs
<1>2. CASE o \notin Task
    <2>1. KindOf(o) = "action" /\ row \in ActionRows(o) /\ struct \in ActionStructs
        BY <1>2 DEF KindOf, RowsOfObject, Structs
    <2>2. PICK s \in ObjectStatus : row = <<o, s>>
        BY <2>1 DEF ActionRows
    <2>3. row[1] = o /\ row[2] = s /\ row # NoRow
        BY <2>2 DEF NoRow
    <2>4. ReadAction(row) \in ActionStructs /\ ReadAction(row).uuid = o
        BY <1>0, <2>3 DEF ReadAction, ActionStructs
    <2> QED BY <1>0, <2>1, <2>3, <2>4, ScanOfAction DEF ColumnsOf, ReadRow, Structs
<1> QED BY <1>1, <1>2

-----------------------------------------------------------------------------
(* A struct can be written unless a number is too big, and what is written   *)
(* comes back, but for parts of milliseconds.                                *)
Encodable(kind, s) == kind = "task" => s.priority <= MaxInt64
IsNear(kind, s) == kind = "task" => s.when \in Near

LEMMA RowOfTask ==
    ASSUME NEW o \in Task, NEW s \in TaskStructs
    PROVE  /\ RowOf(o, s) # Failed => s.priority <= MaxInt64
           /\ s.priority <= MaxInt64 =>
                  /\ RowOf(o, s) # Failed
                  /\ RowOf(o, s) = <<s.uuid, encBigInt(s.priority), s.promise, s.status,
                                     marshalTimestamp(s.when)>>
<1>1. RowOf(o, s) = Bind(TaskColumns, s)
    BY DEF RowOf, ColumnsOf, KindOf
<1> DEFINE D(i) == Marshal(TaskColumns[i], s[TaskColumns[i].field])
<1>2. /\ s.uuid \in UUID /\ s.priority \in Nat /\ s.promise \in Pointer /\ s.status \in ObjectStatus
      /\ s.when \in Int
    BY DEF TaskStructs
<1>3. D(1) = s.uuid
    BY ColumnFacts DEF Marshal, IsColumn, marshalUUID
<1>4. D(2) = marshalBigInt(s.priority)
    BY ColumnFacts DEF Marshal, IsColumn
<1>5. D(3) = s.promise
    BY ColumnFacts DEF Marshal, IsColumn, marshalUUID
<1>6. D(4) = s.status
    BY ColumnFacts DEF Marshal, IsColumn, marshalVarchar
<1>7. D(5) = marshalTimestamp(s.when)
    BY ColumnFacts DEF Marshal, IsColumn
<1>8. Bind(TaskColumns, s) = IF \E i \in 1 .. 5 : D(i) = Failed THEN Failed
                             ELSE [i \in 1 .. 5 |-> D(i)]
    BY ColumnFacts DEF Bind
<1> HIDE DEF D
<1>9. D(1) # Failed /\ D(3) # Failed /\ D(4) # Failed /\ D(5) # Failed
    <2>1. marshalTimestamp(s.when) \in Data
        BY <1>2, TimeThereAndBack
    <2> QED BY <1>2, <1>3, <1>5, <1>6, <1>7, <2>1, NotData DEF Pointer
<1>10. ASSUME s.priority > MaxInt64 PROVE RowOf(o, s) = Failed
    <2>1. D(2) = Failed
        BY <1>4, <1>10 DEF marshalBigInt
    <2> QED BY <1>1, <1>8, <2>1
<1>11. ASSUME s.priority <= MaxInt64
       PROVE  /\ RowOf(o, s) # Failed
              /\ RowOf(o, s) = <<s.uuid, encBigInt(s.priority), s.promise, s.status,
                                 marshalTimestamp(s.when)>>
    <2>1. ~(s.priority > MaxInt64)
        BY <1>2, <1>11, Widths
    <2>2. D(2) = encBigInt(s.priority) /\ D(2) # Failed
        BY <1>2, <1>4, <2>1, Encoded, NotData DEF marshalBigInt
    <2>3. ~\E i \in 1 .. 5 : D(i) = Failed
        BY <1>9, <2>2
    <2>4. RowOf(o, s) = [i \in 1 .. 5 |-> D(i)]
        BY <1>1, <1>8, <2>3
    <2>5. RowOf(o, s) = <<D(1), D(2), D(3), D(4), D(5)>>
        BY <2>4
    <2>6. RowOf(o, s) # Failed
        <3>1. Len(Failed) = 3 /\ Len(<<D(1), D(2), D(3), D(4), D(5)>>) = 5
            BY DEF Failed
        <3> QED BY <2>5, <3>1
    <2> QED BY <1>3, <1>5, <1>6, <1>7, <2>2, <2>5, <2>6
<1> QED BY <1>2, <1>10, <1>11, Widths

LEMMA RowOfAction ==
    ASSUME NEW o \in Action, NEW s \in ActionStructs
    PROVE  RowOf(o, s) # Failed /\ RowOf(o, s) = <<s.uuid, s.status>>
<1>1. RowOf(o, s) = Bind(ActionColumns, s)
    BY ObjectsAssumption DEF RowOf, ColumnsOf, KindOf
<1> DEFINE D(i) == Marshal(ActionColumns[i], s[ActionColumns[i].field])
<1>2. s.uuid \in UUID /\ s.status \in ObjectStatus
    BY DEF ActionStructs
<1>3. D(1) = s.uuid
    BY ColumnFacts DEF Marshal, IsColumn, marshalUUID
<1>4. D(2) = s.status
    BY ColumnFacts DEF Marshal, IsColumn, marshalVarchar
<1>5. Bind(ActionColumns, s) = IF \E i \in 1 .. 2 : D(i) = Failed THEN Failed
                               ELSE [i \in 1 .. 2 |-> D(i)]
    BY ColumnFacts DEF Bind
<1> HIDE DEF D
<1>6. D(1) # Failed /\ D(2) # Failed
    BY <1>2, <1>3, <1>4, NotData
<1>7. RowOf(o, s) = [i \in 1 .. 2 |-> D(i)]
    BY <1>1, <1>5, <1>6
<1>8. RowOf(o, s) = <<D(1), D(2)>>
    BY <1>7
<1>9. RowOf(o, s) # Failed
    <2>1. Len(Failed) = 3 /\ Len(<<D(1), D(2)>>) = 2
        BY DEF Failed
    <2> QED BY <1>8, <2>1
<1> QED BY <1>3, <1>4, <1>8, <1>9

LEMMA RowOfStruct ==
    ASSUME NEW o \in Object, NEW s \in Structs(KindOf(o)), s.uuid = o
    PROVE  /\ RowOf(o, s) # Failed <=> Encodable(KindOf(o), s)
           /\ RowOf(o, s) # Failed => RowOf(o, s) \in RowsOfObject(o)
<1>1. CASE o \in Task
    <2>1. KindOf(o) = "task" /\ s \in TaskStructs
        BY <1>1 DEF KindOf, Structs
    <2>2. RowOf(o, s) # Failed <=> s.priority <= MaxInt64
        BY <1>1, <2>1, RowOfTask
    <2>3. ASSUME RowOf(o, s) # Failed PROVE RowOf(o, s) \in RowsOfObject(o)
        <3>1. s.priority \in -8 .. 7 /\ s.priority >= 0
            BY <2>1, <2>2, <2>3, Widths DEF TaskStructs
        <3>2. encBigInt(s.priority) \in Positive
            BY <3>1, Encoded, ThereAndBack DEF Positive
        <3>3. marshalTimestamp(s.when) \in Data /\ s.promise \in Pointer /\ s.status \in ObjectStatus
            BY <2>1, TimeThereAndBack DEF TaskStructs
        <3>4. RowOf(o, s) = <<o, encBigInt(s.priority), s.promise, s.status,
                              marshalTimestamp(s.when)>>
            BY <1>1, <2>1, <2>2, <2>3, RowOfTask
        <3>5. RowOf(o, s) \in TaskRows(o)
            BY <3>2, <3>3, <3>4 DEF TaskRows
        <3> QED BY <1>1, <3>5 DEF RowsOfObject
    <2> QED BY <2>1, <2>2, <2>3 DEF Encodable
<1>2. CASE o \notin Task
    <2>1. KindOf(o) = "action" /\ s \in ActionStructs /\ o \in Action
        BY <1>2 DEF KindOf, Structs, Object
    <2>2. RowOf(o, s) # Failed /\ RowOf(o, s) = <<o, s.status>>
        BY <2>1, RowOfAction
    <2>3. s.status \in ObjectStatus
        BY <2>1 DEF ActionStructs
    <2> QED BY <1>2, <2>1, <2>2, <2>3 DEF RowsOfObject, ActionRows, Encodable
<1> QED BY <1>1, <1>2

LEMMA ComesBack ==
    ASSUME NEW o \in Object, NEW s \in Structs(KindOf(o)), s.uuid = o,
           RowOf(o, s) # Failed, IsNear(KindOf(o), s), NEW struct
    PROVE  ReadRow(KindOf(o), RowOf(o, s), struct) = AsStored(s) /\ AsStored(s).uuid = o
<1>1. CASE o \in Task
    <2>1. KindOf(o) = "task" /\ s \in TaskStructs
        BY <1>1 DEF KindOf, Structs
    <2>2. s.priority \in -8 .. 7 /\ s.when \in Near /\ s.when \in Int
        BY <1>1, <2>1, RowOfTask, Widths DEF TaskStructs, IsNear
    <2> DEFINE row == RowOf(o, s)
    <2>3. row = <<o, encBigInt(s.priority), s.promise, s.status, marshalTimestamp(s.when)>>
        BY <1>1, <2>1, RowOfTask
    <2> HIDE DEF row
    <2>4. /\ row[1] = o /\ row[2] = encBigInt(s.priority) /\ row[3] = s.promise
          /\ row[4] = s.status /\ row[5] = marshalTimestamp(s.when)
        BY <2>3
    <2>5. decBigInt(row[2]) = s.priority
        BY <2>2, <2>4, ThereAndBack
    <2> DEFINE v == Quot(s.when, NanosPerMilli) * NanosPerMilli
    <2>6. unmarshalTimestamp(row[5], struct.when) = v
        <3>1. row[5] \in Data /\ decBigInt(row[5]) * NanosPerMilli = v
            BY <2>2, <2>4, TimeThereAndBack
        <3>2. ~IsNullData(row[5])
            BY <3>1, NotData DEF IsNullData
        <3> HIDE DEF v
        <3> QED BY <3>1, <3>2 DEF unmarshalTimestamp
    <2>7. s = [uuid |-> o, priority |-> s.priority, promise |-> s.promise, status |-> s.status,
               when |-> s.when] /\ "when" \in DOMAIN s
        BY <2>1 DEF TaskStructs
    <2>8. AsStored(s) = [s EXCEPT !.when = v]
        BY <2>7 DEF AsStored
    <2> HIDE DEF v
    <2>9. AsStored(s) = [uuid |-> o, priority |-> s.priority, promise |-> s.promise,
                         status |-> s.status, when |-> v]
        BY <2>7, <2>8
    <2>10. ReadTask(row, struct) = AsStored(s)
        BY <2>4, <2>5, <2>6, <2>9 DEF ReadTask
    <2> QED BY <2>1, <2>9, <2>10 DEF ReadRow, row
<1>2. CASE o \notin Task
    <2>1. KindOf(o) = "action" /\ s \in ActionStructs /\ o \in Action
        BY <1>2 DEF KindOf, Structs, Object
    <2>2. RowOf(o, s) = <<o, s.status>>
        BY <2>1, RowOfAction
    <2>3. s = [uuid |-> o, status |-> s.status] /\ "when" \notin DOMAIN s
        BY <2>1 DEF ActionStructs
    <2>4. AsStored(s) = s
        BY <2>3 DEF AsStored
    <2>5. ReadAction(RowOf(o, s)) = s
        BY <2>2, <2>3 DEF ReadAction
    <2> QED BY <2>1, <2>4, <2>5 DEF ReadRow
<1> QED BY <1>1, <1>2

-----------------------------------------------------------------------------
(* Sets as sequences, and what is taken out of a sequence. *)
Distinct(s) == \A i, j \in DOMAIN s : s[i] = s[j] => i = j

LEMMA AllOfSet ==
    ASSUME NEW S, IsFiniteSet(S)
    PROVE  /\ SetToSeq(S) \in Seq(S) /\ Len(SetToSeq(S)) = Cardinality(S)
           /\ DOMAIN SetToSeq(S) = 1 .. Cardinality(S) /\ Cardinality(S) \in Nat
           /\ Range(SetToSeq(S)) = S /\ Distinct(SetToSeq(S))
<1> DEFINE n == Cardinality(S)
           f == SetToSeq(S)
<1>1. n \in Nat /\ ExistsBijection(1 .. n, S)
    BY FS_CardinalityType
<1>2. f \in [1 .. n -> S] /\ IsInjective(f)
    <2>1. \E g \in [1 .. n -> S] : IsInjective(g)
        BY <1>1 DEF ExistsBijection, Bijection, Injection, IsInjective
    <2> QED BY <2>1 DEF SetToSeq
<1> HIDE DEF f
<1>3. f \in Injection(1 .. n, S)
    BY <1>2 DEF Injection, IsInjective
<1>4. IsFiniteSet(1 .. n) /\ Cardinality(1 .. n) = n
    <2>1. 1 \in Int /\ n \in Int
        BY <1>1
    <2>2. Cardinality(1 .. n) = (IF 1 > n THEN 0 ELSE n - 1 + 1) /\ IsFiniteSet(1 .. n)
        BY <2>1, FS_Interval
    <2> HIDE DEF n
    <2> QED BY <1>1, <2>2
<1>5. f \in Surjection(1 .. n, S)
    BY <1>3, <1>4, FS_Injection
<1> HIDE DEF n
<1>6. f \in Seq(S) /\ Len(f) = n
    BY <1>1, <1>2, FunctionIsSequence
<1>7. Range(f) = S
    BY <1>2, <1>5 DEF Surjection, Range
<1>8. Distinct(f)
    BY <1>2 DEF Distinct, IsInjective
<1> QED BY <1>1, <1>2, <1>6, <1>7, <1>8 DEF f, n

LEMMA OneTaken ==
    ASSUME NEW S, NEW s \in Seq(S), Distinct(s), NEW e, Contains(s, e)
    PROVE  /\ RemoveFirst(s, e) \in Seq(S) /\ Distinct(RemoveFirst(s, e))
           /\ Range(RemoveFirst(s, e)) = Range(s) \ {e}
<1> DEFINE I == {i \in 1 .. Len(s) : s[i] = e}
<1>0. Len(s) \in Nat /\ s \in [1 .. Len(s) -> S]
    OBVIOUS
<1>1. PICK k \in 1 .. Len(s) : s[k] = e
    BY DEF Contains
<1>2. I = {k}
    BY <1>0, <1>1 DEF Distinct
<1>3. Min(I) = k
    BY <1>0, <1>2 DEF Min
<1> DEFINE t == RemoveFirst(s, e)
           a == SubSeq(s, 1, k - 1)
           b == SubSeq(s, k + 1, Len(s))
<1>4. t = a \o b
    <2>1. SelectInSeq(s, LAMBDA v : v = e) = k
        BY <1>2, <1>3 DEF SelectInSeq
    <2> QED BY <1>1, <2>1 DEF RemoveFirst, RemoveAt
<1>5. a \in Seq(S) /\ Len(a) = k - 1 /\ \A i \in 1 .. k - 1 : a[i] = s[i]
    <2>1. /\ a \in Seq(S) /\ Len(a) = (IF 1 <= k - 1 THEN k - 1 - 1 + 1 ELSE 0)
          /\ \A i \in 1 .. k - 1 - 1 + 1 : a[i] = s[1 + i - 1]
        BY <1>0, SubSeqProperties
    <2> HIDE DEF a
    <2> QED BY <1>0, <2>1
<1>6. b \in Seq(S) /\ Len(b) = Len(s) - k /\ \A i \in 1 .. Len(s) - k : b[i] = s[k + i]
    <2>1. /\ b \in Seq(S) /\ Len(b) = (IF k + 1 <= Len(s) THEN Len(s) - (k + 1) + 1 ELSE 0)
          /\ \A i \in 1 .. Len(s) - (k + 1) + 1 : b[i] = s[(k + 1) + i - 1]
        BY <1>0, SubSeqProperties
    <2> HIDE DEF b
    <2>2. Len(b) = Len(s) - k
        <3>1. Len(b) = (IF k + 1 <= Len(s) THEN Len(s) - (k + 1) + 1 ELSE 0)
            BY <2>1
        <3>2. k \in Int /\ Len(s) \in Int /\ k <= Len(s)
            BY <1>0
        <3> QED BY ONLY <3>1, <3>2
    <2>3. ASSUME NEW i \in 1 .. Len(s) - k PROVE b[i] = s[k + i]
        <3>1. i \in 1 .. Len(s) - (k + 1) + 1 /\ (k + 1) + i - 1 = k + i
            BY <1>0
        <3> QED BY <2>1, <3>1
    <2> QED BY <2>1, <2>2, <2>3
<1> HIDE DEF a, b, I
<1>7. /\ t \in Seq(S) /\ Len(t) = Len(s) - 1 /\ DOMAIN t = 1 .. Len(s) - 1
      /\ \A i \in 1 .. Len(s) - 1 : t[i] = IF i < k THEN s[i] ELSE s[i + 1]
    <2>1. /\ a \o b \in Seq(S) /\ Len(a \o b) = Len(a) + Len(b)
          /\ \A i \in 1 .. Len(a) + Len(b) : (a \o b)[i] =
                     IF i <= Len(a) THEN a[i] ELSE b[i - Len(a)]
        BY <1>5, <1>6, ConcatProperties
    <2>2. t \in Seq(S) /\ Len(t) = Len(s) - 1 /\ DOMAIN t = 1 .. Len(s) - 1
        <3>1. Len(a) + Len(b) = Len(s) - 1
            BY <1>0, <1>5, <1>6
        <3>2. t \in Seq(S) /\ Len(t) = Len(s) - 1
            BY <1>4, <2>1, <3>1
        <3> QED BY <3>2, LenProperties
    <2>3. ASSUME NEW i \in 1 .. Len(s) - 1 PROVE t[i] = IF i < k THEN s[i] ELSE s[i + 1]
        <3>1. t[i] = IF i <= k - 1 THEN a[i] ELSE b[i - (k - 1)]
            BY <1>0, <1>4, <1>5, <1>6, <2>1
        <3>2. CASE i < k
            BY <1>5, <3>1, <3>2
        <3>3. CASE ~(i < k)
            <4>1. i - (k - 1) \in 1 .. Len(s) - k /\ k + (i - (k - 1)) = i + 1
                BY <1>0, <3>3
            <4> QED BY <1>0, <1>6, <3>1, <3>3, <4>1
        <3> QED BY <3>2, <3>3
    <2> QED BY <2>2, <2>3
<1> HIDE DEF t
<1>8. Distinct(t)
    <2>1. SUFFICES ASSUME NEW i \in DOMAIN t, NEW j \in DOMAIN t, t[i] = t[j] PROVE i = j
        BY DEF Distinct
    <2> DEFINE at(m) == IF m < k THEN m ELSE m + 1
    <2>2. at(i) \in DOMAIN s /\ at(j) \in DOMAIN s /\ s[at(i)] = s[at(j)]
        BY <1>0, <1>7, <2>1
    <2>3. at(i) = at(j)
        <3> HIDE DEF at
        <3> QED BY <2>2 DEF Distinct
    <2> QED BY <1>0, <1>7, <2>3
<1>9. Range(t) = Range(s) \ {e}
    <2>1. ASSUME NEW x \in Range(t) PROVE x \in Range(s) \ {e}
        <3>1. PICK i \in 1 .. Len(s) - 1 : x = t[i]
            BY <1>7, <2>1 DEF Range
        <3>2. CASE i < k
            <4>1. i \in DOMAIN s /\ x = s[i] /\ k \in DOMAIN s /\ i # k
                BY <1>0, <1>7, <3>1, <3>2
            <4> QED BY <1>1, <4>1 DEF Range, Distinct
        <3>3. CASE ~(i < k)
            <4>1. i + 1 \in DOMAIN s /\ x = s[i + 1] /\ k \in DOMAIN s /\ i + 1 # k
                BY <1>0, <1>7, <3>1, <3>3
            <4> QED BY <1>1, <4>1 DEF Range, Distinct
        <3> QED BY <3>2, <3>3
    <2>2. ASSUME NEW x \in Range(s) \ {e} PROVE x \in Range(t)
        <3>1. PICK i \in 1 .. Len(s) : x = s[i]
            BY <1>0, <2>2 DEF Range
        <3>2. i # k
            BY <1>1, <2>2, <3>1
        <3>3. CASE i < k
            <4>1. i \in DOMAIN t /\ x = t[i]
                BY <1>0, <1>7, <3>1, <3>3
            <4> QED BY <4>1 DEF Range
        <3>4. CASE i > k
            <4>1. i - 1 \in DOMAIN t /\ x = t[i - 1]
                BY <1>0, <1>7, <3>1, <3>4
            <4> QED BY <4>1 DEF Range
        <3> QED BY <1>0, <3>2, <3>3, <3>4
    <2> QED BY <2>1, <2>2
<1> QED BY <1>7, <1>8, <1>9 DEF t

-----------------------------------------------------------------------------
(* The plan of SetTagsForObject: how far its loop is after i tags.           *)
Statements == [op : {"insert", "delete"}, tag : Tag]
Plans == [had : Seq(Tag), todo : Seq(Statements)]

Inserts(todo, tag) == \E k \in DOMAIN todo : todo[k].op = "insert" /\ todo[k].tag = tag
Deletes(todo, tag) == \E k \in DOMAIN todo : todo[k].op = "delete" /\ todo[k].tag = tag

PlanUpTo(plan, asked, had, i) ==
    /\ Distinct(plan.had)
    /\ Range(plan.had) = Range(had) \ {asked[k] : k \in 1 .. i}
    /\ \A k \in DOMAIN plan.todo : plan.todo[k].op = "insert" /\ plan.todo[k].tag \in Range(asked)
    /\ \A k \in 1 .. i : asked[k] \in Range(had) \/ Inserts(plan.todo, asked[k])

LEMMA PlanTagTyped ==
    ASSUME NEW plan \in Plans, NEW tag \in Tag, Distinct(plan.had)
    PROVE  PlanTag(plan, tag) \in Plans
<1>1. plan.had \in Seq(Tag) /\ plan.todo \in Seq(Statements)
    BY DEF Plans
<1>2. CASE Contains(plan.had, tag)
    <2>1. RemoveFirst(plan.had, tag) \in Seq(Tag)
        BY <1>1, <1>2, OneTaken
    <2> QED BY <1>2, <2>1 DEF PlanTag, Plans
<1>3. CASE ~Contains(plan.had, tag)
    <2> DEFINE statement == [op |-> "insert", tag |-> tag]
    <2>1. statement \in Statements
        BY DEF Statements
    <2>2. PlanTag(plan, tag) = [plan EXCEPT !.todo = Append(plan.todo, statement)]
        BY <1>3 DEF PlanTag
    <2> HIDE DEF statement
    <2>3. Append(plan.todo, statement) \in Seq(Statements)
        BY <1>1, <2>1, AppendProperties
    <2> QED BY <2>2, <2>3 DEF Plans
<1> QED BY <1>2, <1>3

LEMMA PlanTagPlans ==
    ASSUME NEW asked \in Seq(Tag), NEW had \in Seq(Tag), NEW i \in 1 .. Len(asked),
           NEW plan \in Plans, PlanUpTo(plan, asked, had, i - 1)
    PROVE  PlanUpTo(PlanTag(plan, asked[i]), asked, had, i)
<1> DEFINE tag == asked[i]
           next == PlanTag(plan, tag)
           before == {asked[k] : k \in 1 .. i - 1}
<1>0. plan.had \in Seq(Tag) /\ plan.todo \in Seq(Statements) /\ tag \in Tag /\ tag \in Range(asked)
    BY DEF Plans, Range
<1>1. {asked[k] : k \in 1 .. i} = before \cup {tag}
    <2>1. ASSUME NEW k \in 1 .. i PROVE k = i \/ k \in 1 .. i - 1
        OBVIOUS
    <2>2. ASSUME NEW k \in 1 .. i - 1 PROVE k \in 1 .. i
        OBVIOUS
    <2> QED BY <2>1, <2>2
<1>2. /\ Distinct(plan.had) /\ Range(plan.had) = Range(had) \ before
      /\ \A k \in DOMAIN plan.todo : plan.todo[k].op = "insert" /\ plan.todo[k].tag \in Range(asked)
      /\ \A k \in 1 .. i - 1 : asked[k] \in Range(had) \/ Inserts(plan.todo, asked[k])
    BY DEF PlanUpTo
<1>3. Contains(plan.had, tag) <=> tag \in Range(plan.had)
    <2>1. DOMAIN plan.had = 1 .. Len(plan.had)
        BY <1>0, LenProperties
    <2> HIDE DEF tag
    <2> QED BY <2>1 DEF Contains, Range
<1> HIDE DEF before
<1>4. CASE Contains(plan.had, tag)
    <2>1. next = [plan EXCEPT !.had = RemoveFirst(plan.had, tag)]
        BY <1>4 DEF PlanTag
    <2>2. next.had = RemoveFirst(plan.had, tag) /\ next.todo = plan.todo
        BY <2>1 DEF Plans
    <2>3. Distinct(next.had) /\ Range(next.had) = Range(plan.had) \ {tag}
        BY <1>0, <1>2, <1>4, <2>2, OneTaken
    <2> HIDE DEF next
    <2>4. Range(next.had) = Range(had) \ (before \cup {tag})
        BY <1>2, <2>3
    <2>5. \A k \in 1 .. i : asked[k] \in Range(had) \/ Inserts(next.todo, asked[k])
        <3>1. tag \in Range(had)
            BY <1>2, <1>3, <1>4
        <3>2. ASSUME NEW k \in 1 .. i PROVE k = i \/ k \in 1 .. i - 1
            OBVIOUS
        <3> QED BY <1>2, <2>2, <3>1, <3>2
    <2>6. PlanUpTo(next, asked, had, i)
        BY <1>1, <1>2, <2>2, <2>3, <2>4, <2>5 DEF PlanUpTo
    <2> QED BY <2>6 DEF next
<1>5. CASE ~Contains(plan.had, tag)
    <2> DEFINE statement == [op |-> "insert", tag |-> tag]
    <2>0. statement \in Statements /\ statement.op = "insert" /\ statement.tag = tag
        BY <1>0 DEF Statements
    <2>1. next = [plan EXCEPT !.todo = Append(plan.todo, statement)]
        BY <1>5 DEF PlanTag
    <2> HIDE DEF statement
    <2>2. next.had = plan.had /\ next.todo = Append(plan.todo, statement)
        BY <2>1 DEF Plans
    <2> DEFINE m == Len(plan.todo)
    <2>3. /\ m \in Nat /\ DOMAIN plan.todo = 1 .. m /\ DOMAIN next.todo = 1 .. m + 1
          /\ \A k \in 1 .. m : next.todo[k] = plan.todo[k]
          /\ next.todo[m + 1] = statement
        BY <1>0, <2>0, <2>2, AppendProperties, LenProperties
    <2> HIDE DEF next, m
    <2>4. \A k \in DOMAIN next.todo : next.todo[k].op = "insert" /\ next.todo[k].tag \in Range(asked)
        <3>1. ASSUME NEW k \in 1 .. m + 1
              PROVE  next.todo[k].op = "insert" /\ next.todo[k].tag \in Range(asked)
            <4>1. CASE k = m + 1
                <5>1. next.todo[k] = statement /\ tag \in Range(asked)
                    BY <1>0, <2>3, <4>1
                <5> QED BY <2>0, <5>1
            <4>2. CASE k \in 1 .. m
                <5>1. next.todo[k] = plan.todo[k] /\ k \in DOMAIN plan.todo
                    BY <2>3, <4>2
                <5> QED BY <1>2, <5>1
            <4> QED BY <2>3, <4>1, <4>2
        <3> QED BY <2>3, <3>1
    <2>5. \A k \in 1 .. i : asked[k] \in Range(had) \/ Inserts(next.todo, asked[k])
        <3>1. Inserts(next.todo, tag)
            <4>1. m + 1 \in DOMAIN next.todo /\ next.todo[m + 1] = statement
                BY <2>3
            <4> QED BY <2>0, <4>1, Zenon DEF Inserts
        <3>2. ASSUME NEW k \in 1 .. i - 1, Inserts(plan.todo, asked[k])
              PROVE  Inserts(next.todo, asked[k])
            <4>1. PICK n \in DOMAIN plan.todo : plan.todo[n].op = "insert" /\ plan.todo[n].tag = asked[k]
                BY <3>2, Zenon DEF Inserts
            <4>2. n \in DOMAIN next.todo /\ next.todo[n] = plan.todo[n]
                BY <2>3
            <4> QED BY <4>1, <4>2, Zenon DEF Inserts
        <3>3. ASSUME NEW k \in 1 .. i PROVE k = i \/ k \in 1 .. i - 1
            OBVIOUS
        <3> QED BY <1>2, <3>1, <3>2, <3>3
    <2>6. Range(next.had) = Range(had) \ (before \cup {tag})
        BY <1>2, <1>3, <1>5, <2>2
    <2>7. PlanUpTo(next, asked, had, i)
        BY <1>1, <1>2, <2>2, <2>4, <2>5, <2>6 DEF PlanUpTo
    <2> QED BY <2>7 DEF next
<1> QED BY <1>4, <1>5

(* The tags that are asked for and were not there are inserted, and those    *)
(* that were there and are not asked for deleted.                            *)
LEMMA PlanChanges ==
    ASSUME NEW asked \in Seq(Tag), NEW had \in Seq(Tag), Distinct(had)
    PROVE  LET todo == PlanOf(asked, had)
           IN  /\ todo \in Seq(Statements)
               /\ \A k \in DOMAIN todo :
                     \/ todo[k].op = "insert" /\ todo[k].tag \in Range(asked)
                     \/ todo[k].op = "delete" /\ todo[k].tag \in Range(had) \ Range(asked)
               /\ \A t \in Range(asked) : t \in Range(had) \/ Inserts(todo, t)
               /\ \A t \in Range(had) \ Range(asked) : Deletes(todo, t)
<1> DEFINE n == Len(asked)
           a == [had |-> had, todo |-> <<>>]
           Good(i) == {p \in Plans : PlanUpTo(p, asked, had, i)}
           Loop(F) == F = [i \in 0 .. n |-> IF i = 0 THEN a ELSE PlanTag(F[i - 1], asked[i])]
           after == CHOOSE F : Loop(F)
           left == after[n]
<1>1. n \in Nat /\ \A i \in 1 .. n : asked[i] \in Tag
    OBVIOUS
<1>2. a \in Good(0)
    <2>1. a \in Plans
        BY DEF Plans
    <2>2. PlanUpTo(a, asked, had, 0)
        BY DEF PlanUpTo
    <2> HIDE DEF a
    <2> QED BY <2>1, <2>2
<1>3. \A i \in 1 .. n : \A p \in Good(i - 1) : PlanTag(p, asked[i]) \in Good(i)
    <2>1. SUFFICES ASSUME NEW i \in 1 .. n, NEW p \in Plans, PlanUpTo(p, asked, had, i - 1)
                   PROVE  PlanTag(p, asked[i]) \in Good(i)
        OBVIOUS
    <2>2. PlanUpTo(PlanTag(p, asked[i]), asked, had, i)
        BY <2>1, PlanTagPlans
    <2>3. PlanTag(p, asked[i]) \in Plans
        BY <1>1, <2>1, PlanTagTyped DEF PlanUpTo
    <2> QED BY <2>2, <2>3
<1>4. PlanOf(asked, had)
          = left.todo \o [i \in DOMAIN left.had |-> [op |-> "delete", tag |-> left.had[i]]]
    BY DEF PlanOf
<1> HIDE DEF a
<1>5. \E F : Loop(F)
    <2> DEFINE S == {p \in Plans : Distinct(p.had)}
               step == [i \in 1 .. n |-> [p \in S |-> PlanTag(p, asked[i])]]
    <2>1. a \in S
        BY <1>2 DEF PlanUpTo
    <2>2. step \in [1 .. n -> [S -> S]]
        <3>1. ASSUME NEW i \in 1 .. n, NEW p \in S PROVE PlanTag(p, asked[i]) \in S
            <4>1. PlanTag(p, asked[i]) \in Plans
                BY <1>1, PlanTagTyped
            <4>2. p.had \in Seq(Tag) /\ Distinct(p.had)
                BY DEF Plans
            <4>3. Distinct(PlanTag(p, asked[i]).had)
                <5>1. CASE Contains(p.had, asked[i])
                    <6>1. PlanTag(p, asked[i]).had = RemoveFirst(p.had, asked[i])
                        BY <5>1 DEF PlanTag, Plans
                    <6> QED BY <4>2, <5>1, <6>1, OneTaken
                <5>2. CASE ~Contains(p.had, asked[i])
                    <6>1. PlanTag(p, asked[i]).had = p.had
                        BY <5>2 DEF PlanTag, Plans
                    <6> QED BY <4>2, <6>1
                <5> QED BY <5>1, <5>2
            <4> QED BY <4>1, <4>3
        <3> HIDE DEF S
        <3> QED BY <3>1
    <2> HIDE DEF S
    <2>3. PICK F \in [0 .. n -> S] : F[0] = a /\ \A i \in 1 .. n : F[i] = step[i][F[i - 1]]
        <3> HIDE DEF step, n
        <3>1. \E F : Computed(F, S, n, a, step)
            BY <1>1, <2>1, <2>2, Recursion
        <3> QED BY <3>1 DEF Computed
    <2>4. \A i \in 1 .. n : F[i] = PlanTag(F[i - 1], asked[i])
        <3>1. ASSUME NEW i \in 1 .. n PROVE F[i] = PlanTag(F[i - 1], asked[i])
            <4>1. i - 1 \in 0 .. n
                BY <1>1
            <4> QED BY <2>3, <4>1
        <3> QED BY <3>1
    <2>5. F = [i \in 0 .. n |-> F[i]]
        BY <2>3
    <2>6. \A i \in 0 .. n : F[i] = IF i = 0 THEN a ELSE PlanTag(F[i - 1], asked[i])
        BY <1>1, <2>3, <2>4
    <2>7. Loop(F)
        BY <2>5, <2>6
    <2> QED BY <2>7
<1>6. Loop(after)
    <2> HIDE DEF Loop
    <2> QED BY <1>5
<1> HIDE DEF after
<1>7. after[0] = a /\ \A i \in 1 .. n : after[i] = PlanTag(after[i - 1], asked[i])
    BY <1>1, <1>6
<1> HIDE DEF Loop
<1> DEFINE T == {i \in 0 .. n : after[i] \in Good(i)}
<1>8. 0 \in T
    <2> HIDE DEF Good
    <2> QED BY <1>1, <1>2, <1>7
<1>9. \A i \in 1 .. n : i - 1 \in T => i \in T
    <2> HIDE DEF Good
    <2> QED BY <1>1, <1>3, <1>7
<1>10. n \in T
    <2>1. n \in Nat
        BY <1>1
    <2> HIDE DEF T, n
    <2>2. \A i \in 0 .. n : i \in T
        BY <1>8, <1>9, <2>1, Along
    <2> QED BY <2>1, <2>2
<1>11. left \in Plans /\ PlanUpTo(left, asked, had, n)
    BY <1>10
<1> HIDE DEF left, T, Good
<1>12. Range(asked) = {asked[k] : k \in 1 .. n}
    BY <1>1 DEF Range
<1>13. /\ left.todo \in Seq(Statements) /\ left.had \in Seq(Tag)
       /\ Range(left.had) = Range(had) \ Range(asked)
       /\ \A k \in DOMAIN left.todo : left.todo[k].op = "insert" /\ left.todo[k].tag \in Range(asked)
       /\ \A t \in Range(asked) : t \in Range(had) \/ Inserts(left.todo, t)
    BY <1>11, <1>12 DEF PlanUpTo, Plans
<1> DEFINE b == [i \in DOMAIN left.had |-> [op |-> "delete", tag |-> left.had[i]]]
           todo == left.todo \o b
           l == Len(left.todo)
           r == Len(left.had)
<1>14. /\ l \in Nat /\ r \in Nat /\ DOMAIN left.todo = 1 .. l /\ DOMAIN left.had = 1 .. r
       /\ b \in Seq(Statements) /\ Len(b) = r
       /\ \A i \in 1 .. r : b[i].op = "delete" /\ b[i].tag = left.had[i]
    <2>1. l \in Nat /\ r \in Nat /\ DOMAIN left.todo = 1 .. l /\ DOMAIN left.had = 1 .. r
        BY <1>13, LenProperties
    <2>2. \A i \in 1 .. r : b[i] \in Statements /\ b[i].op = "delete" /\ b[i].tag = left.had[i]
        BY <1>13, <2>1 DEF Statements
    <2>3. b \in [1 .. r -> Statements]
        BY <2>1, <2>2
    <2> HIDE DEF b, r
    <2>4. b \in Seq(Statements) /\ Len(b) = r
        BY <2>1, <2>3, FunctionIsSequence
    <2> QED BY <2>1, <2>2, <2>4
<1> HIDE DEF b
<1>15. /\ todo \in Seq(Statements) /\ DOMAIN todo = 1 .. l + r
       /\ \A k \in 1 .. l + r : todo[k] = IF k <= l THEN left.todo[k] ELSE b[k - l]
    <2>1. /\ todo \in Seq(Statements) /\ Len(todo) = l + r
          /\ \A k \in 1 .. l + r : todo[k] = IF k <= l THEN left.todo[k] ELSE b[k - l]
        <3> DEFINE c == left.todo
        <3>1. c \in Seq(Statements) /\ b \in Seq(Statements) /\ Len(c) = l /\ Len(b) = r
            BY <1>13, <1>14
        <3> HIDE DEF c, l, r
        <3>2. /\ c \o b \in Seq(Statements) /\ Len(c \o b) = l + r
              /\ \A k \in 1 .. l + r : (c \o b)[k] = IF k <= l THEN c[k] ELSE b[k - l]
            BY <3>1, ConcatProperties
        <3> QED BY <3>2 DEF c
    <2> QED BY <2>1, LenProperties
<1> HIDE DEF todo, l, r
<1>16. ASSUME NEW k \in DOMAIN todo
       PROVE  \/ todo[k].op = "insert" /\ todo[k].tag \in Range(asked)
              \/ todo[k].op = "delete" /\ todo[k].tag \in Range(had) \ Range(asked)
    <2>1. CASE k <= l
        <3>1. k \in DOMAIN left.todo /\ todo[k] = left.todo[k]
            BY <1>14, <1>15, <2>1
        <3> QED BY <1>13, <3>1
    <2>2. CASE ~(k <= l)
        <3>1. k - l \in 1 .. r /\ todo[k] = b[k - l]
            BY <1>14, <1>15, <2>2
        <3>2. left.had[k - l] \in Range(left.had)
            BY <1>14, <3>1 DEF Range
        <3> QED BY <1>13, <1>14, <3>1, <3>2
    <2> QED BY <2>1, <2>2
<1>17. ASSUME NEW t \in Range(asked) PROVE t \in Range(had) \/ Inserts(todo, t)
    <2>1. ASSUME Inserts(left.todo, t) PROVE Inserts(todo, t)
        <3>1. PICK k \in DOMAIN left.todo : left.todo[k].op = "insert" /\ left.todo[k].tag = t
            BY <2>1 DEF Inserts
        <3>2. k \in DOMAIN todo /\ todo[k] = left.todo[k]
            BY <1>14, <1>15
        <3> QED BY <3>1, <3>2 DEF Inserts
    <2> QED BY <1>13, <2>1
<1>18. ASSUME NEW t \in Range(had) \ Range(asked) PROVE Deletes(todo, t)
    <2>1. PICK i \in 1 .. r : left.had[i] = t
        BY <1>13, <1>14 DEF Range
    <2>2. l + i \in DOMAIN todo /\ todo[l + i] = b[i]
        BY <1>14, <1>15
    <2> QED BY <1>14, <2>1, <2>2 DEF Deletes
<1> QED BY <1>4, <1>15, <1>16, <1>17, <1>18 DEF todo, b

-----------------------------------------------------------------------------
(* What handlers and lists hold. *)
AnyStruct == TaskStructs \cup ActionStructs

Jobs ==
    [pc : {"load", "plan", "insert", "untag", "delete"}, object : Object, struct : AnyStruct,
     body : Body \cup {NoBody}, asked : Seq(Tag), todo : Seq(Statements), alone : BOOLEAN]

JobFits(j) ==
    /\ j.struct \in Structs(KindOf(j.object)) /\ j.struct.uuid = j.object
    /\ j.pc \in {"load", "plan"} => j.object \in Task
    /\ j.pc = "load" => j.body \in Body
    /\ j.pc # "insert" => j.todo = <<>>
    /\ j.todo # <<>> => j.object \in Task

Working == {j \in Jobs : JobFits(j)}

Kinds == {"task", "action"}
ObjectsOf(kind) == {o \in Object : KindOf(o) = kind}
RowsOfKind(kind) == UNION {RowsOfObject(o) : o \in ObjectsOf(kind)}
LeftOf(kind, tag) == IF tag = All THEN RowsOfKind(kind) ELSE Task \cap ObjectsOf(kind)
EntriesOf(kind) == [struct : Structs(kind), tags : SUBSET Tag]

Lists ==
    [pc : {"scan", "tags"}, kind : Kinds, tag : Tag \cup {All},
     left : UNION {Seq(LeftOf(kind, tag)) : kind \in Kinds, tag \in Tag \cup {All}},
     struct : AnyStruct, entries : UNION {Seq(EntriesOf(kind)) : kind \in Kinds},
     expect : SUBSET Object, failed : BOOLEAN]

ListFits(r) ==
    /\ r.left \in Seq(LeftOf(r.kind, r.tag))
    /\ r.struct \in Structs(r.kind)
    /\ r.entries \in Seq(EntriesOf(r.kind))
    /\ r.expect \subseteq ObjectsOf(r.kind)

Listing == {r \in Lists : ListFits(r)}

TablesShape ==
    /\ tables = [o \in Object |-> tables[o]]
    /\ \A o \in Object : tables[o] = NoRow \/ tables[o] \in RowsOfObject(o)
TagsShape == tags \subseteq Task \X {"task"} \X Tag /\ IsFiniteSet(tags)
CountsShape == requests \in 0 .. MaxRequests /\ failures \in 0 .. MaxFailures

StoreShape ==
    /\ TablesShape /\ TagsShape /\ CountsShape
    /\ work \in [Worker -> {Idle} \cup Working]
    /\ list \in [Lister -> {Idle} \cup Listing]

LEMMA NewStructTyped ==
    ASSUME NEW kind \in Kinds
    PROVE  NewStruct(kind) \in Structs(kind)
<1>1. ZeroUUID \in UUID
    BY Widths DEF ZeroUUID, UUID
<1>2. None \in ObjectStatus /\ Null \in Pointer /\ ZeroTime \in Int
    BY DEF ObjectStatus, Pointer, ZeroTime
<1>3. CASE kind = "task"
    BY <1>1, <1>2, <1>3 DEF NewStruct, Structs, TaskStructs
<1>4. CASE kind = "action"
    BY <1>1, <1>2, <1>4 DEF NewStruct, Structs, ActionStructs
<1> QED BY <1>3, <1>4 DEF Kinds

LEMMA DecodeTyped ==
    ASSUME NEW body, CanSay(body), NEW s \in TaskStructs
    PROVE  /\ Decode(body, s) \in TaskStructs /\ Decode(body, s).uuid = s.uuid
           /\ Decode(body, s).priority = IF "priority" \in DOMAIN body THEN body.priority ELSE s.priority
           /\ Decode(body, s).when = IF "when" \in DOMAIN body THEN body.when ELSE s.when
<1> DEFINE V(f) == IF f \in DOMAIN body THEN body[f] ELSE s[f]
<1>1. DOMAIN s = {"uuid", "priority", "promise", "status", "when"}
    BY DEF TaskStructs
<1>2. Decode(body, s) = [f \in {"uuid", "priority", "promise", "status", "when"} |-> V(f)]
    BY <1>1 DEF Decode
<1>3. /\ s.uuid \in UUID /\ s.priority \in Nat /\ s.promise \in Pointer /\ s.status \in ObjectStatus
      /\ s.when \in Int
    BY DEF TaskStructs
<1>4. /\ V("uuid") = s.uuid /\ V("priority") \in Nat /\ V("promise") \in Pointer
      /\ V("status") \in ObjectStatus /\ V("when") \in Int
    BY <1>3 DEF CanSay, Pointer
<1>5. /\ V("priority") = IF "priority" \in DOMAIN body THEN body.priority ELSE s.priority
      /\ V("when") = IF "when" \in DOMAIN body THEN body.when ELSE s.when
    OBVIOUS
<1> HIDE DEF V
<1> QED BY <1>2, <1>3, <1>4, <1>5 DEF TaskStructs

LEMMA RepairTyped ==
    ASSUME NEW s \in TaskStructs
    PROVE  /\ Repair(s) \in TaskStructs /\ Repair(s).uuid = s.uuid /\ Repair(s).priority = s.priority
           /\ Repair(s).when = IF s.when = ZeroTime THEN Epoch1975 ELSE s.when
<1> DEFINE a == IF s.status = None THEN Pending ELSE s.status
           b == IF s.when = ZeroTime THEN Epoch1975 ELSE s.when
<1>1. Repair(s) = [s EXCEPT !.status = a, !.when = b]
    BY DEF Repair, TaskStructs
<1>2. a \in ObjectStatus
    BY DEF TaskStructs, ObjectStatus
<1>3. b \in Int
    BY DEF TaskStructs, Epoch1975
<1> HIDE DEF a, b
<1>4. /\ Repair(s) \in TaskStructs /\ Repair(s).uuid = s.uuid /\ Repair(s).priority = s.priority
      /\ Repair(s).when = b
    BY <1>1, <1>2, <1>3 DEF TaskStructs
<1> QED BY <1>4 DEF b

LEMMA StructOfTyped ==
    ASSUME TablesShape, NEW o \in Object, tables[o] # NoRow
    PROVE  /\ StructOf(o) \in Structs(KindOf(o)) /\ StructOf(o).uuid = o
           /\ StructOf(o) = ReadRow(KindOf(o), tables[o], NewStruct(KindOf(o)))
           /\ Scan(ColumnsOf(KindOf(o)), tables[o], NewStruct(KindOf(o))).ok
<1>1. tables[o] \in RowsOfObject(o)
    BY DEF TablesShape
<1>2. NewStruct(KindOf(o)) \in Structs(KindOf(o))
    BY NewStructTyped DEF KindOf, Kinds
<1>3. Scan(ColumnsOf(KindOf(o)), tables[o], NewStruct(KindOf(o)))
          = [ok |-> TRUE, struct |-> ReadRow(KindOf(o), tables[o], NewStruct(KindOf(o)))]
    BY <1>1, <1>2, ScanOfRow
<1>4. /\ ReadRow(KindOf(o), tables[o], NewStruct(KindOf(o))) \in Structs(KindOf(o))
      /\ ReadRow(KindOf(o), tables[o], NewStruct(KindOf(o))).uuid = o
    BY <1>1, <1>2, ScanOfRow
<1> QED BY <1>3, <1>4 DEF StructOf

LEMMA TagsOfTyped ==
    ASSUME TagsShape, NEW o \in Object
    PROVE  /\ TagsOf(o) \subseteq Tag /\ IsFiniteSet(TagsOf(o))
           /\ \A a \in TagAnswers(o) : a \in Seq(Tag) /\ Range(a) \subseteq Tag /\ Distinct(a)
           /\ Range(SetToSeq(TagsOf(o))) = TagsOf(o)
<1> DEFINE T == {t \in tags : t[1] = o /\ t[2] = KindOf(o) /\ t[3] \in Tag}
           f == [t \in T |-> t[3]]
<1>1. IsFiniteSet(T)
    BY FS_Subset DEF TagsShape
<1>2. f \in Surjection(T, TagsOf(o))
    <2>1. ASSUME NEW t \in T PROVE t[3] \in TagsOf(o)
        <3>1. t = <<o, KindOf(o), t[3]>> /\ t[3] \in Tag
            BY DEF TagsShape
        <3> QED BY <3>1 DEF TagsOf
    <2>2. ASSUME NEW g \in TagsOf(o) PROVE \E t \in T : f[t] = g
        <3>1. <<o, KindOf(o), g>> \in T
            BY DEF TagsOf
        <3> QED BY <3>1
    <2> QED BY <2>1, <2>2 DEF Surjection
<1>3. IsFiniteSet(TagsOf(o))
    <2> HIDE DEF T, f
    <2> QED BY <1>1, <1>2, FS_Surjection
<1>4. TagsOf(o) \subseteq Tag
    BY DEF TagsOf
<1> DEFINE s == SetToSeq(TagsOf(o))
<1>5. s \in Seq(TagsOf(o)) /\ Range(s) = TagsOf(o) /\ Distinct(s)
    BY <1>3, AllOfSet
<1> HIDE DEF s
<1>6. s \in Seq(Tag)
    BY <1>4, <1>5
<1>7. <<>> \in Seq(Tag) /\ Range(<<>>) = {} /\ Distinct(<<>>)
    BY DEF Range, Distinct
<1> QED BY <1>3, <1>4, <1>5, <1>6, <1>7 DEF TagAnswers, s

LEMMA CallCounted ==
    ASSUME CountsShape, Fails \/ Succeeds, UNCHANGED requests \/ Asks
    PROVE  CountsShape'
BY CallsAssumption DEF CountsShape, Fails, Succeeds, Asks

-----------------------------------------------------------------------------
LEMMA InitShape == StoreInit => StoreShape
<1> SUFFICES ASSUME StoreInit PROVE StoreShape
    OBVIOUS
<1>1. TablesShape
    <2>1. tables = [o \in Object |-> IF o \in DOMAIN Seed THEN SeedRow(o) ELSE NoRow]
        BY DEF StoreInit
    <2>2. ASSUME NEW o \in DOMAIN Seed PROVE SeedRow(o) \in RowsOfObject(o)
        <3>1. o \in Task /\ o \in Object /\ KindOf(o) = "task" /\ o \in UUID
            BY ObjectsAssumption DEF Object, KindOf
        <3> DEFINE s == [NewStruct("task") EXCEPT !.uuid = o, !.status = Pending]
        <3>2. s \in TaskStructs /\ s.uuid = o /\ s.priority = 0
            BY <3>1, NewStructTyped DEF NewStruct, Kinds, Structs, TaskStructs, ObjectStatus
        <3>3. SeedOf(o) = Decode(Seed[o], s)
            BY DEF SeedOf
        <3> HIDE DEF s
        <3>4. SeedOf(o) \in Structs(KindOf(o)) /\ SeedOf(o).uuid = o /\ SeedOf(o).priority <= MaxInt64
            BY <3>1, <3>2, <3>3, DecodeTyped, SeedAssumption, Widths DEF Structs
        <3>5. RowOf(o, SeedOf(o)) \in RowsOfObject(o)
            BY <3>1, <3>4, RowOfStruct DEF Encodable
        <3>6. ASSUME NEW row \in TaskRows(o) PROVE [row EXCEPT ![5] = Null] \in TaskRows(o)
            <4>1. PICK p \in Positive, q \in Pointer, t \in ObjectStatus, d \in Data \cup {Null} :
                      row = <<o, p, q, t, d>>
                BY <3>6 DEF TaskRows
            <4>2. [row EXCEPT ![5] = Null] = <<o, p, q, t, Null>>
                BY <4>1
            <4> QED BY <4>2 DEF TaskRows
        <3> QED BY <3>1, <3>5, <3>6 DEF SeedRow, RowsOfObject
    <2> QED BY <2>1, <2>2 DEF TablesShape
<1>2. TagsShape
    <2> DEFINE T(o) == {<<o, "task", tag>> : tag \in Range(Seed[o].tags)}
               D == DOMAIN Seed
               U == {T(o) : o \in D}
    <2>1. tags = UNION U
        BY DEF StoreInit
    <2>2. ASSUME NEW o \in D
          PROVE  T(o) \subseteq Task \X {"task"} \X Tag /\ IsFiniteSet(T(o))
        <3> DEFINE s == Seed[o].tags
        <3>1. s \in Seq(Tag) /\ o \in Task
            BY SeedAssumption, ObjectsAssumption DEF CanSay
        <3> HIDE DEF s
        <3>2. DOMAIN s = 1 .. Len(s) /\ Len(s) \in Nat /\ Range(s) \subseteq Tag
            BY <3>1, LenProperties DEF Range
        <3> DEFINE f == [i \in 1 .. Len(s) |-> <<o, "task", s[i]>>]
                   W == {<<o, "task", tag>> : tag \in Range(s)}
        <3>3. f \in Surjection(1 .. Len(s), W)
            <4>1. f \in [1 .. Len(s) -> W]
                BY <3>2 DEF Range
            <4>2. ASSUME NEW w \in W PROVE \E i \in 1 .. Len(s) : f[i] = w
                <5>1. PICK i \in 1 .. Len(s) : w = <<o, "task", s[i]>>
                    BY <3>2, <4>2 DEF Range
                <5> QED BY <5>1
            <4> HIDE DEF f, W
            <4> QED BY <4>1, <4>2 DEF Surjection
        <3>4. W \subseteq Task \X {"task"} \X Tag
            BY <3>1, <3>2
        <3> HIDE DEF f, W
        <3>5. IsFiniteSet(W)
            <4>1. IsFiniteSet(1 .. Len(s))
                BY <3>2, FS_Interval
            <4> QED BY <3>3, <4>1, FS_Surjection
        <3> QED BY <3>4, <3>5 DEF s, W
    <2>3. IsFiniteSet(D)
        BY ObjectsAssumption, FS_Subset
    <2> HIDE DEF T
    <2>4. IsFiniteSet(U)
        <3> DEFINE f == [o \in D |-> T(o)]
        <3>1. f \in Surjection(D, U)
            BY DEF Surjection
        <3> HIDE DEF f, D, U
        <3> QED BY <2>3, <3>1, FS_Surjection
    <2>5. IsFiniteSet(UNION U)
        <3>1. \A t \in U : IsFiniteSet(t)
            BY <2>2
        <3> HIDE DEF U
        <3> QED BY <2>4, <3>1, FS_UNION
    <2> QED BY <2>1, <2>2, <2>5 DEF TagsShape
<1>3. CountsShape
    BY CallsAssumption DEF StoreInit, CountsShape
<1> QED BY <1>1, <1>2, <1>3 DEF StoreInit, StoreShape

-----------------------------------------------------------------------------
LEMMA IdleOrWorking ==
    ASSUME StoreShape, NEW w \in Worker
    PROVE  /\ work[w] = Idle \/ work[w] \in Working
           /\ work[w].pc = "idle" <=> work[w] = Idle
           /\ work[w] # Idle <=> work[w] \in Working
<1>1. work[w] \in {Idle} \cup Working
    BY DEF StoreShape
<1>2. Idle.pc = "idle"
    BY DEF Idle
<1>3. ASSUME NEW j \in Working PROVE j.pc # "idle"
    BY <1>3 DEF Working, Jobs
<1> QED BY <1>1, <1>2, <1>3

LEMMA AnyAlone ==
    ASSUME NEW j \in Working, NEW b \in BOOLEAN
    PROVE  /\ [j EXCEPT !.alone = b] \in Working
           /\ [j EXCEPT !.alone = b].alone = b
           /\ [j EXCEPT !.alone = b].pc = j.pc /\ [j EXCEPT !.alone = b].object = j.object
           /\ [j EXCEPT !.alone = b].struct = j.struct /\ [j EXCEPT !.alone = b].asked = j.asked
           /\ [j EXCEPT !.alone = b].todo = j.todo
BY DEF Working, Jobs, JobFits

(* What a goroutine that begins with an object is to the others.            *)
SharedBy(v, o) == work[v] # Idle /\ work[v].object = o

Joins(w, job) ==
    /\ work[w] = Idle
    /\ work'[w] = [job EXCEPT !.alone = \A v \in Worker : ~(v # w /\ SharedBy(v, job.object))]
    /\ \A v \in Worker : v # w =>
          work'[v] = IF SharedBy(v, job.object) THEN [work[v] EXCEPT !.alone = FALSE] ELSE work[v]

LEMMA TakeOnJoins ==
    ASSUME StoreShape, NEW w \in Worker, NEW job \in Working, TakeOn(w, job)
    PROVE  Joins(w, job) /\ work' \in [Worker -> {Idle} \cup Working]
<1> DEFINE S(v) == v # w /\ work[v].pc # "idle" /\ work[v].object = job.object
           b == \A v \in Worker : ~S(v)
<1>1. /\ work[w].pc = "idle"
      /\ work' = [v \in Worker |->
             CASE v = w -> [job EXCEPT !.alone = b]
               [] S(v)  -> [work[v] EXCEPT !.alone = FALSE]
               [] OTHER -> work[v]]
    BY DEF TakeOn
<1>2. ASSUME NEW v \in Worker PROVE S(v) <=> (v # w /\ SharedBy(v, job.object))
    BY IdleOrWorking DEF SharedBy
<1>3. b = \A v \in Worker : ~(v # w /\ SharedBy(v, job.object))
    BY <1>2
<1>4. b \in BOOLEAN
    OBVIOUS
<1> HIDE DEF b
<1>5. work'[w] = [job EXCEPT !.alone = b] /\ work[w] = Idle
    BY <1>1, IdleOrWorking
<1>6. ASSUME NEW v \in Worker, v # w
      PROVE  work'[v] = IF SharedBy(v, job.object) THEN [work[v] EXCEPT !.alone = FALSE] ELSE work[v]
    <2>1. work'[v] = IF S(v) THEN [work[v] EXCEPT !.alone = FALSE] ELSE work[v]
        BY <1>1, <1>6
    <2> HIDE DEF S
    <2> QED BY <1>2, <1>6, <2>1
<1> HIDE DEF S
<1>7. Joins(w, job)
    BY <1>3, <1>5, <1>6 DEF Joins
<1>8. ASSUME NEW v \in Worker PROVE work'[v] \in {Idle} \cup Working
    <2>1. CASE v = w
        BY <1>4, <1>5, <2>1, AnyAlone
    <2>2. CASE v # w /\ SharedBy(v, job.object)
        <3>1. work[v] \in Working
            BY <2>2, IdleOrWorking DEF SharedBy
        <3>2. [work[v] EXCEPT !.alone = FALSE] \in Working
            BY <3>1, AnyAlone
        <3>3. work'[v] = [work[v] EXCEPT !.alone = FALSE]
            BY <1>6, <2>2
        <3> QED BY <3>2, <3>3
    <2>3. CASE v # w /\ ~SharedBy(v, job.object)
        <3>1. work'[v] = work[v]
            BY <1>6, <2>3
        <3> QED BY <3>1 DEF StoreShape
    <2> QED BY <2>1, <2>2, <2>3
<1>9. work' = [v \in Worker |-> work'[v]]
    BY <1>1
<1> QED BY <1>7, <1>8, <1>9

LEMMA JobWorks ==
    ASSUME NEW pc \in {"load", "plan", "insert", "untag"}, NEW o \in Object,
           NEW struct \in Structs(KindOf(o)), struct.uuid = o, NEW body \in Body \cup {NoBody},
           NEW asked \in Seq(Tag), pc \in {"load", "plan"} => o \in Task, pc = "load" => body \in Body
    PROVE  /\ Job(pc, o, struct, body, asked) \in Working
           /\ Job(pc, o, struct, body, asked).pc = pc /\ Job(pc, o, struct, body, asked).object = o
           /\ Job(pc, o, struct, body, asked).struct = struct
           /\ Job(pc, o, struct, body, asked).asked = asked
           /\ Job(pc, o, struct, body, asked).todo = <<>>
<1>1. struct \in AnyStruct
    BY DEF Structs, AnyStruct
<1> DEFINE j == Job(pc, o, struct, body, asked)
<1>2. /\ j.pc = pc /\ j.object = o /\ j.struct = struct /\ j.body = body /\ j.asked = asked
      /\ j.todo = <<>> /\ j.alone = TRUE
    BY DEF Job
<1>3. j \in Jobs
    BY <1>1 DEF Job, Jobs
<1> HIDE DEF j
<1>4. JobFits(j)
    BY <1>2 DEF JobFits
<1> QED BY <1>2, <1>3, <1>4 DEF Working, j

LEMMA AskedTyped ==
    ASSUME NEW body \in Body, NEW tagged \in Seq(Tag)
    PROVE  Asked(body, tagged) \in Seq(Tag) /\ CanSay(body)
BY BodyAssumption DEF Asked, CanSay

(* A new task, and a new action. *)
LEMMA FirstStructs ==
    /\ \A o \in Task, body \in Body :
          LET s == Repair(Decode(body, [NewStruct("task") EXCEPT !.uuid = o]))
          IN  s \in TaskStructs /\ s.uuid = o
    /\ \A o \in Action : LET s == [NewStruct("action") EXCEPT !.uuid = o]
                         IN  s \in ActionStructs /\ s.uuid = o
<1>1. ASSUME NEW o \in Task, NEW body \in Body
      PROVE  LET s == Repair(Decode(body, [NewStruct("task") EXCEPT !.uuid = o]))
             IN  s \in TaskStructs /\ s.uuid = o
    <2> DEFINE a == [NewStruct("task") EXCEPT !.uuid = o]
    <2>1. o \in UUID
        BY ObjectsAssumption
    <2>2. a \in TaskStructs /\ a.uuid = o
        BY <2>1, NewStructTyped DEF Kinds, Structs, TaskStructs
    <2> HIDE DEF a
    <2>3. Decode(body, a) \in TaskStructs /\ Decode(body, a).uuid = o
        BY <2>2, DecodeTyped, BodyAssumption
    <2>4. Repair(Decode(body, a)) \in TaskStructs /\ Repair(Decode(body, a)).uuid = o
        BY <2>3, RepairTyped
    <2> QED BY <2>4 DEF a
<1>2. ASSUME NEW o \in Action
      PROVE  LET s == [NewStruct("action") EXCEPT !.uuid = o]
             IN  s \in ActionStructs /\ s.uuid = o
    <2>1. o \in UUID
        BY ObjectsAssumption
    <2> QED BY <2>1, NewStructTyped DEF Kinds, Structs, ActionStructs
<1> QED BY <1>1, <1>2

(* The steps that begin a handler. *)
LEMMA BeginningShape ==
    ASSUME StoreShape, NEW w \in Worker,
           CreateTask(w) \/ CreateAction(w) \/ Update(w) \/ Execute(w) \/ Delete(w)
    PROVE  StoreShape' /\ (UNCHANGED work \/ \E job \in Working : Joins(w, job) /\ job.todo = <<>>
                                                 /\ (job.object \in Task => job.pc # "insert"))
<1> DEFINE New(job) == job.todo = <<>> /\ (job.object \in Task => job.pc # "insert")
<1>0. /\ TablesShape /\ TagsShape /\ CountsShape /\ list \in [Lister -> {Idle} \cup Listing]
      /\ work \in [Worker -> {Idle} \cup Working]
    BY DEF StoreShape
<1>1. UNCHANGED <<tables, tags, list>> /\ TablesShape' /\ TagsShape' /\ list' \in [Lister -> {Idle} \cup Listing]
    BY <1>0 DEF CreateTask, CreateAction, Update, Execute, Delete, TablesShape, TagsShape
<1>2. CountsShape'
    <2>1. Asks /\ (Fails \/ Succeeds)
        BY DEF CreateTask, CreateAction, Update, Execute, Delete, Succeeds
    <2> QED BY <1>0, <2>1, CallCounted
<1> DEFINE none == <<>>
<1>3. none \in Seq(Tag) /\ NoBody \in Body \cup {NoBody}
    OBVIOUS
<1> HIDE DEF none
<1>4. SUFFICES UNCHANGED work \/ \E job \in Working : TakeOn(w, job) /\ New(job)
    <2>1. ASSUME UNCHANGED work PROVE StoreShape'
        BY <1>0, <1>1, <1>2, <2>1 DEF StoreShape
    <2>2. ASSUME NEW job \in Working, TakeOn(w, job), New(job) PROVE StoreShape' /\ Joins(w, job)
        BY <1>1, <1>2, <2>2, TakeOnJoins DEF StoreShape
    <2> QED BY <2>1, <2>2
<1>5. CASE CreateTask(w)
    <2>1. PICK o \in Task, body \in Body :
              TakeOn(w, Job("plan", o, Repair(Decode(body, [NewStruct("task") EXCEPT !.uuid = o])),
                            body, Asked(body, <<>>)))
        BY <1>5 DEF CreateTask
    <2> DEFINE s == Repair(Decode(body, [NewStruct("task") EXCEPT !.uuid = o]))
    <2>2. s \in TaskStructs /\ s.uuid = o
        BY FirstStructs
    <2>3. o \in Object /\ KindOf(o) = "task" /\ Structs(KindOf(o)) = TaskStructs
        BY DEF Object, KindOf, Structs
    <2>4. Asked(body, <<>>) \in Seq(Tag)
        BY <1>3, AskedTyped DEF none
    <2> HIDE DEF s
    <2> DEFINE job == Job("plan", o, s, body, Asked(body, <<>>))
    <2>5. job \in Working /\ job.pc = "plan" /\ job.todo = <<>>
        BY <2>2, <2>3, <2>4, JobWorks
    <2> QED BY <2>1, <2>5 DEF s
<1>6. CASE CreateAction(w)
    <2>1. PICK o \in Action :
              TakeOn(w, Job("insert", o, [NewStruct("action") EXCEPT !.uuid = o], NoBody, <<>>))
        BY <1>6 DEF CreateAction
    <2> DEFINE s == [NewStruct("action") EXCEPT !.uuid = o]
    <2>2. s \in ActionStructs /\ s.uuid = o
        BY FirstStructs
    <2>3. o \in Object /\ o \notin Task /\ KindOf(o) = "action" /\ Structs(KindOf(o)) = ActionStructs
        BY ObjectsAssumption DEF Object, KindOf, Structs
    <2> HIDE DEF s
    <2> DEFINE job == Job("insert", o, s, NoBody, none)
    <2>4. job \in Working /\ job.object = o /\ job.todo = <<>>
        BY <1>3, <2>2, <2>3, JobWorks
    <2> QED BY <2>1, <2>3, <2>4 DEF s, none
<1>7. CASE Update(w)
    <2>1. PICK o \in Object, body \in Body :
              \/ /\ o \in Task /\ tables[o] # NoRow
                 /\ TakeOn(w, Job("load", o, StructOf(o), body, <<>>))
              \/ UNCHANGED work
        BY <1>7 DEF Update
    <2>2. CASE UNCHANGED work
        BY <2>2
    <2>3. CASE o \in Task /\ tables[o] # NoRow /\ TakeOn(w, Job("load", o, StructOf(o), body, <<>>))
        <3> DEFINE job == Job("load", o, StructOf(o), body, none)
        <3>1. StructOf(o) \in Structs(KindOf(o)) /\ StructOf(o).uuid = o
            BY <1>0, <2>3, StructOfTyped
        <3>2. job \in Working /\ job.pc = "load" /\ job.todo = <<>>
            BY <1>3, <2>3, <3>1, JobWorks
        <3> QED BY <2>3, <3>2 DEF none
    <2> QED BY <2>1, <2>2, <2>3
<1>8. CASE Execute(w)
    <2>1. PICK o \in Action, outcome \in {Complete, Failure} :
              /\ tables[o] # NoRow
              /\ TakeOn(w, Job("insert", o, [StructOf(o) EXCEPT !.status = outcome], NoBody, <<>>))
        BY <1>8 DEF Execute
    <2>2. o \in Object /\ o \notin Task /\ KindOf(o) = "action" /\ Structs(KindOf(o)) = ActionStructs
        BY ObjectsAssumption DEF Object, KindOf, Structs
    <2> DEFINE s == [StructOf(o) EXCEPT !.status = outcome]
    <2>3. StructOf(o) \in ActionStructs /\ StructOf(o).uuid = o
        BY <1>0, <2>1, <2>2, StructOfTyped
    <2>4. s \in ActionStructs /\ s.uuid = o
        BY <2>3 DEF ActionStructs, ObjectStatus
    <2> HIDE DEF s
    <2> DEFINE job == Job("insert", o, s, NoBody, none)
    <2>5. job \in Working /\ job.object = o /\ job.todo = <<>>
        BY <1>3, <2>2, <2>4, JobWorks
    <2> QED BY <2>1, <2>2, <2>5 DEF s, none
<1>9. CASE Delete(w)
    <2>1. PICK o \in Object :
              tables[o] # NoRow /\ TakeOn(w, Job("untag", o, StructOf(o), NoBody, <<>>))
        BY <1>9 DEF Delete
    <2> DEFINE job == Job("untag", o, StructOf(o), NoBody, none)
    <2>2. StructOf(o) \in Structs(KindOf(o)) /\ StructOf(o).uuid = o
        BY <1>0, <2>1, StructOfTyped
    <2>3. job \in Working /\ job.pc = "untag" /\ job.todo = <<>>
        BY <1>3, <2>2, JobWorks
    <2> QED BY <2>1, <2>3 DEF none
<1> QED BY <1>5, <1>6, <1>7, <1>8, <1>9

-----------------------------------------------------------------------------
(* The steps in the middle of a handler, and what they make of its job.     *)
OtherTags(o) == \A v \in Object : v # o => TagsOf(v)' = TagsOf(v)

JobGoesOn(w, j) ==
    /\ work[w] \in Working /\ j \in {Idle} \cup Working
    /\ work' = [work EXCEPT ![w] = j]
    /\ j # Idle => j.object = work[w].object /\ (j.alone => work[w].alone)

LEMMA JobGoesOnTyped ==
    ASSUME StoreShape, NEW w \in Worker, NEW j, JobGoesOn(w, j)
    PROVE  work' \in [Worker -> {Idle} \cup Working]
BY DEF StoreShape, JobGoesOn

(* Load: the struct and the tags that are asked for. *)
LEMMA LoadContinues ==
    ASSUME StoreShape, NEW w \in Worker, Load(w)
    PROVE  \E j \in Working :
               /\ JobGoesOn(w, j) /\ j.pc = "plan"
               /\ work[w].body \in Body
               /\ j.struct = Repair(Decode(work[w].body, work[w].struct))
<1> DEFINE r == work[w]
           s == Repair(Decode(r.body, r.struct))
<1>1. r.pc = "load" /\ r \in Working /\ r \in Jobs /\ JobFits(r)
    <2>1. r.pc # "idle"
        BY DEF Load
    <2> QED BY <2>1, IdleOrWorking DEF Working, Load
<1>2. PICK loaded \in TagAnswers(r.object) :
          work' = [work EXCEPT ![w].struct = Repair(Decode(r.body, @)),
                               ![w].asked = Asked(r.body, loaded), ![w].pc = "plan"]
    BY DEF Load
<1> DEFINE a == Asked(r.body, loaded)
           j == [r EXCEPT !.struct = s, !.asked = a, !.pc = "plan"]
<1>3. r.object \in Task /\ r.object \in Object /\ r.body \in Body /\ r.struct \in Structs(KindOf(r.object))
    BY <1>1 DEF JobFits, Object
<1>4. KindOf(r.object) = "task" /\ Structs(KindOf(r.object)) = TaskStructs /\ r.struct \in TaskStructs
    BY <1>3 DEF KindOf, Structs
<1>5. s \in TaskStructs /\ s.uuid = r.object
    <2>1. /\ Decode(r.body, r.struct) \in TaskStructs
          /\ Decode(r.body, r.struct).uuid = r.struct.uuid
        BY <1>3, <1>4, DecodeTyped, BodyAssumption
    <2> QED BY <1>1, <2>1, RepairTyped DEF JobFits
<1>6. a \in Seq(Tag)
    <2>1. loaded \in Seq(Tag)
        BY <1>3, TagsOfTyped DEF StoreShape
    <2> QED BY <1>3, <2>1, AskedTyped
<1>7. work' = [work EXCEPT ![w] = j]
    BY <1>2
<1> HIDE DEF s, a
<1>8. /\ j \in Jobs /\ j.pc = "plan" /\ j.object = r.object /\ j.struct = s /\ j.alone = r.alone
      /\ j.todo = r.todo
    BY <1>1, <1>5, <1>6 DEF Jobs, AnyStruct
<1> HIDE DEF j
<1>9. JobFits(j)
    BY <1>1, <1>3, <1>4, <1>5, <1>8 DEF JobFits
<1>10. j \in Working
    BY <1>8, <1>9 DEF Working
<1>11. JobGoesOn(w, j)
    BY <1>1, <1>7, <1>8, <1>10 DEF JobGoesOn
<1> QED BY <1>3, <1>8, <1>10, <1>11 DEF s

(* Plan: the statements that are to change the tags. *)
LEMMA PlanContinues ==
    ASSUME StoreShape, NEW w \in Worker, Plan(w)
    PROVE  \E j \in Working :
               /\ JobGoesOn(w, j) /\ work[w].object \in Task
               /\ j.pc = "insert" /\ j.struct = work[w].struct /\ j.asked = work[w].asked
               /\ \E had \in TagAnswers(work[w].object) :
                     /\ j.todo = PlanOf(work[w].asked, had)
                     /\ j.alone => had = SetToSeq(TagsOf(work[w].object))
<1> DEFINE r == work[w]
<1>1. r.pc = "plan" /\ r \in Working /\ r \in Jobs /\ JobFits(r)
    <2>1. r.pc # "idle"
        BY DEF Plan
    <2> QED BY <2>1, IdleOrWorking DEF Working, Plan
<1>2. PICK had \in TagAnswers(r.object) :
          /\ GetTagsForObject(r.object, had)
          /\ work' = [work EXCEPT ![w].pc = "insert", ![w].todo = PlanOf(work[w].asked, had),
                                  ![w].alone = @ /\ failures' = failures]
    BY DEF Plan
<1> DEFINE todo == PlanOf(r.asked, had)
           b == r.alone /\ failures' = failures
           j == [r EXCEPT !.pc = "insert", !.todo = todo, !.alone = b]
<1>3. r.object \in Task /\ r.object \in Object /\ r.asked \in Seq(Tag)
    BY <1>1 DEF JobFits, Object, Jobs
<1>4. todo \in Seq(Statements)
    <2>1. had \in Seq(Tag) /\ Distinct(had)
        BY <1>3, TagsOfTyped DEF StoreShape
    <2> QED BY <1>3, <2>1, PlanChanges
<1>5. b => had = SetToSeq(TagsOf(r.object))
    <2>1. failures \in Nat
        BY CallsAssumption DEF StoreShape, CountsShape
    <2>2. Fails => failures' # failures
        BY <2>1 DEF Fails
    <2> QED BY <1>2, <2>2 DEF GetTagsForObject
<1>6. b \in BOOLEAN /\ (b => r.alone)
    BY <1>1 DEF Jobs
<1>7. work' = [work EXCEPT ![w] = j]
    BY <1>2
<1> HIDE DEF todo, b
<1>8. /\ j \in Jobs /\ j.pc = "insert" /\ j.object = r.object /\ j.struct = r.struct
      /\ j.alone = b /\ j.todo = todo /\ j.asked = r.asked
    BY <1>1, <1>4, <1>6 DEF Jobs
<1> HIDE DEF j
<1>9. JobFits(j)
    BY <1>1, <1>3, <1>8 DEF JobFits
<1>10. j \in Working
    BY <1>8, <1>9 DEF Working
<1>11. JobGoesOn(w, j)
    BY <1>1, <1>6, <1>7, <1>8, <1>10 DEF JobGoesOn
<1> QED BY <1>2, <1>3, <1>5, <1>8, <1>10, <1>11 DEF todo

LEMMA TagStatementContinues ==
    ASSUME StoreShape, NEW w \in Worker, TagStatement(w)
    PROVE  \E j \in Working :
               /\ JobGoesOn(w, j) /\ work[w].object \in Task /\ work[w].pc = "insert"
               /\ j.pc = "insert" /\ j.struct = work[w].struct /\ j.asked = work[w].asked
               /\ work[w].todo \in Seq(Statements) /\ work[w].todo # <<>>
               /\ j.todo = Tail(work[w].todo)
               /\ j.alone => LET statement == Head(work[w].todo)
                                 row == {<<work[w].object, "task", statement.tag>>}
                             IN  tags' = IF statement.op = "insert" THEN tags \cup row ELSE tags \ row
<1> DEFINE r == work[w]
<1>1. r.pc = "insert" /\ r.todo # <<>> /\ r \in Working /\ r \in Jobs /\ JobFits(r)
    <2>1. r.pc = "insert" /\ r.todo # <<>>
        BY DEF TagStatement, Tagging
    <2> QED BY <2>1, IdleOrWorking DEF Working
<1>2. work' = [work EXCEPT ![w].todo = Tail(@), ![w].alone = @ /\ failures' = failures]
    BY DEF TagStatement
<1> DEFINE todo == Tail(r.todo)
           b == r.alone /\ failures' = failures
           j == [r EXCEPT !.todo = todo, !.alone = b]
           statement == Head(r.todo)
           row == {<<r.object, "task", statement.tag>>}
<1>3. r.object \in Task /\ r.todo \in Seq(Statements)
    BY <1>1 DEF JobFits, Jobs
<1>4. todo \in Seq(Statements)
    BY <1>1, <1>3
<1>5. b => tags' = IF statement.op = "insert" THEN tags \cup row ELSE tags \ row
    <2>1. failures \in Nat
        BY CallsAssumption DEF StoreShape, CountsShape
    <2>2. Fails => failures' # failures
        BY <2>1 DEF Fails
    <2>3. \/ tags' = IF statement.op = "insert" THEN tags \cup row ELSE tags \ row
          \/ Fails
        BY DEF TagStatement
    <2> QED BY <2>2, <2>3
<1>6. b \in BOOLEAN /\ (b => r.alone)
    BY <1>1 DEF Jobs
<1>7. work' = [work EXCEPT ![w] = j]
    BY <1>2
<1> HIDE DEF todo, b, statement, row
<1>8. /\ j \in Jobs /\ j.pc = "insert" /\ j.object = r.object /\ j.struct = r.struct
      /\ j.alone = b /\ j.todo = todo /\ j.asked = r.asked
    BY <1>1, <1>4, <1>6 DEF Jobs
<1> HIDE DEF j
<1>9. JobFits(j)
    BY <1>1, <1>3, <1>8 DEF JobFits
<1>10. j \in Working
    BY <1>8, <1>9 DEF Working
<1>11. JobGoesOn(w, j)
    BY <1>1, <1>6, <1>7, <1>8, <1>10 DEF JobGoesOn
<1> QED BY <1>1, <1>3, <1>5, <1>8, <1>10, <1>11 DEF todo, statement, row

(* The others only go on, or end. *)
LEMMA RestContinues ==
    ASSUME StoreShape, NEW w \in Worker
    PROVE  /\ InsertObject(w) => JobGoesOn(w, Idle) /\ work[w].pc = "insert"
           /\ DeleteRow(w) => JobGoesOn(w, Idle) /\ work[w].pc = "delete"
           /\ Refuse(w) => JobGoesOn(w, Idle)
           /\ DeleteTagsForObject(w) =>
                  /\ work[w].pc = "untag"
                  /\ \E j \in Working : JobGoesOn(w, j) /\ j.pc = "delete" /\ j.struct = work[w].struct
<1>1. ASSUME InsertObject(w) PROVE JobGoesOn(w, Idle) /\ work[w].pc = "insert"
    BY <1>1, IdleOrWorking DEF InsertObject, End, JobGoesOn
<1>2. ASSUME DeleteRow(w) PROVE JobGoesOn(w, Idle) /\ work[w].pc = "delete"
    BY <1>2, IdleOrWorking DEF DeleteRow, End, JobGoesOn
<1>3. ASSUME DeleteTagsForObject(w)
      PROVE  /\ work[w].pc = "untag"
             /\ \E j \in Working : JobGoesOn(w, j) /\ j.pc = "delete" /\ j.struct = work[w].struct
    <2> DEFINE r == work[w]
               j == [r EXCEPT !.pc = "delete"]
    <2>1. r.pc = "untag" /\ work' = [work EXCEPT ![w] = j]
        BY <1>3 DEF DeleteTagsForObject, GoOn
    <2>2. r \in Working /\ r \in Jobs /\ JobFits(r)
        BY <2>1, IdleOrWorking DEF Working
    <2>3. /\ j \in Jobs /\ j.pc = "delete" /\ j.object = r.object /\ j.struct = r.struct
          /\ j.alone = r.alone /\ j.todo = r.todo
        BY <2>2 DEF Jobs
    <2> HIDE DEF j
    <2>4. j \in Working
        BY <2>1, <2>2, <2>3 DEF JobFits, Working
    <2> QED BY <2>1, <2>2, <2>3, <2>4 DEF JobGoesOn
<1>4. ASSUME Refuse(w) PROVE JobGoesOn(w, Idle)
    BY <1>4, IdleOrWorking DEF Refuse, End, JobGoesOn
<1> QED BY <1>1, <1>2, <1>3, <1>4

(* What is written into a row. *)
LEMMA NoRowStays == [NoRow EXCEPT ![4] = Deleted] = NoRow
<1>1. ASSUME NEW f \in [{} -> {}] PROVE [f EXCEPT ![4] = Deleted] = f
    OBVIOUS
<1> DEFINE none == NoRow
<1>2. none \in Seq({}) /\ Len(none) = 0
    BY DEF NoRow
<1>3. none \in [{} -> {}]
    <2> HIDE DEF none
    <2>1. DOMAIN none = {}
        BY <1>2
    <2> QED BY <1>2, <2>1
<1> HIDE DEF none
<1>4. [none EXCEPT ![4] = Deleted] = none
    BY <1>1, <1>3
<1> QED BY <1>4 DEF none

RowFits(o, row) == row = NoRow \/ row \in RowsOfObject(o)

(* A handler writes into the row of its object; a task's is never removed. *)
LEMMA RowsWritten ==
    ASSUME StoreShape, NEW w \in Worker, InsertObject(w) \/ DeleteRow(w)
    PROVE  /\ TablesShape'
           /\ \A o \in Object : o # work[w].object => tables'[o] = tables[o]
           /\ \A o \in Task : tables[o] # NoRow => tables'[o] # NoRow
<1> DEFINE r == work[w]
           o == r.object
           Kept(row) == RowFits(o, row) /\ (o \in Task /\ tables[o] # NoRow => row # NoRow)
<1>1. r \in Jobs /\ JobFits(r) /\ o \in Object
    <2>1. r \in Working
        BY RestContinues DEF JobGoesOn
    <2> QED BY <2>1 DEF Working, Jobs
<1>2. TablesShape /\ \A p \in Object : RowFits(p, tables[p])
    BY DEF StoreShape, TablesShape, RowFits
<1>3. UNCHANGED tables \/ \E row : tables' = [tables EXCEPT ![o] = row] /\ Kept(row)
    <2>1. CASE InsertObject(w)
        <3> DEFINE row == RowOf(o, r.struct)
        <3>1. UNCHANGED tables \/ (row # Failed /\ tables' = [tables EXCEPT ![o] = row])
            BY <2>1 DEF InsertObject
        <3>2. row # Failed => row \in RowsOfObject(o)
            BY <1>1, RowOfStruct DEF JobFits
        <3>3. row \in RowsOfObject(o) => row # NoRow
            BY <1>1, ScanOfRow DEF JobFits
        <3> HIDE DEF row, o
        <3> QED BY <3>1, <3>2, <3>3 DEF RowFits
    <2>2. CASE DeleteRow(w)
        <3> DEFINE d == [tables[o] EXCEPT ![4] = Deleted]
                   row == IF o \in Action THEN NoRow ELSE d
        <3>1. UNCHANGED tables \/ tables' = [tables EXCEPT ![o] =
                 IF o \in Action THEN NoRow ELSE [@ EXCEPT ![4] = Deleted]]
            BY <2>2 DEF DeleteRow
        <3>2. UNCHANGED tables \/ tables' = [tables EXCEPT ![o] = row]
            BY <3>1
        <3>3. CASE o \in Action
            BY <3>2, <3>3, ObjectsAssumption DEF RowFits
        <3>4. CASE o \notin Action /\ tables[o] = NoRow
            <4>1. row = NoRow
                BY <3>4, NoRowStays
            <4> HIDE DEF row
            <4> QED BY <3>2, <3>4, <4>1 DEF RowFits
        <3>5. CASE o \notin Action /\ tables[o] # NoRow
            <4>1. o \in Task /\ tables[o] \in TaskRows(o)
                BY <1>1, <1>2, <3>5 DEF Object, RowFits, RowsOfObject
            <4>2. d \in TaskRows(o)
                <5>1. PICK p \in Positive, q \in Pointer, s \in ObjectStatus, t \in Data \cup {Null} :
                          tables[o] = <<o, p, q, s, t>>
                    BY <4>1 DEF TaskRows
                <5>2. d = <<o, p, q, Deleted, t>>
                    BY <5>1
                <5>3. Deleted \in ObjectStatus
                    BY DEF ObjectStatus
                <5> HIDE DEF d
                <5> QED BY <5>2, <5>3 DEF TaskRows
            <4> HIDE DEF d
            <4>3. row \in RowsOfObject(o)
                BY <3>5, <4>1, <4>2 DEF RowsOfObject
            <4>4. row # NoRow
                <5> HIDE DEF row, o
                <5>1. Structs(KindOf(o)) # {}
                    <6>1. NewStruct(KindOf(o)) \in Structs(KindOf(o))
                        BY NewStructTyped DEF KindOf, Kinds
                    <6> QED BY <6>1
                <5> QED BY <1>1, <4>3, <5>1, ScanOfRow
            <4> HIDE DEF row, o
            <4> QED BY <3>2, <4>3, <4>4 DEF RowFits
        <3> QED BY <3>3, <3>4, <3>5
    <2> QED BY <2>1, <2>2
<1>4. ASSUME UNCHANGED tables
      PROVE  /\ TablesShape'
             /\ \A p \in Object : p # o => tables'[p] = tables[p]
             /\ \A p \in Task : tables[p] # NoRow => tables'[p] # NoRow
    BY <1>2, <1>4 DEF TablesShape
<1>5. ASSUME NEW row, tables' = [tables EXCEPT ![o] = row], Kept(row)
      PROVE  /\ TablesShape'
             /\ \A p \in Object : p # o => tables'[p] = tables[p]
             /\ \A p \in Task : tables[p] # NoRow => tables'[p] # NoRow
    <2>1. \A p \in Object : tables'[p] = IF p = o THEN row ELSE tables[p]
        BY <1>2, <1>5 DEF TablesShape
    <2>2. tables' = [p \in Object |-> tables'[p]]
        BY <1>2, <1>5 DEF TablesShape
    <2>3. Task \subseteq Object
        BY DEF Object
    <2> HIDE DEF o
    <2> QED BY <1>2, <1>5, <2>1, <2>2, <2>3 DEF TablesShape, RowFits
<1> HIDE DEF o, Kept
<1> QED BY <1>3, <1>4, <1>5 DEF o

LEMMA WorkShape ==
    ASSUME StoreShape, NEW w \in Worker,
           Load(w) \/ Refuse(w) \/ Plan(w) \/ TagStatement(w) \/ InsertObject(w)
           \/ DeleteTagsForObject(w) \/ DeleteRow(w)
    PROVE  /\ StoreShape' /\ UNCHANGED list
           /\ \A o \in Task : tables[o] # NoRow => tables'[o] # NoRow
           /\ \E j : JobGoesOn(w, j)
<1>0. /\ TablesShape /\ TagsShape /\ CountsShape /\ list \in [Lister -> {Idle} \cup Listing]
      /\ work \in [Worker -> {Idle} \cup Working]
    BY DEF StoreShape
<1>1. UNCHANGED <<list, requests>> /\ (Fails \/ Succeeds)
    BY DEF Load, Refuse, Plan, TagStatement, InsertObject, DeleteTagsForObject, DeleteRow,
           GetTagsForObject, Succeeds
<1>2. CountsShape' /\ list' \in [Lister -> {Idle} \cup Listing]
    BY <1>0, <1>1, CallCounted
<1>3. \E j : JobGoesOn(w, j)
    BY LoadContinues, PlanContinues, TagStatementContinues, RestContinues
<1>4. work' \in [Worker -> {Idle} \cup Working]
    BY <1>3, JobGoesOnTyped
<1>5. TagsShape'
    <2>1. CASE UNCHANGED tags
        BY <1>0, <2>1 DEF TagsShape
    <2>2. CASE TagStatement(w)
        <3> DEFINE row == <<work[w].object, "task", Head(work[w].todo).tag>>
        <3>1. row \in Task \X {"task"} \X Tag
            <4>1. /\ work[w].object \in Task /\ work[w].todo \in Seq(Statements)
                  /\ work[w].todo # <<>>
                BY <2>2, TagStatementContinues
            <4>2. Head(work[w].todo) \in Statements
                BY <4>1
            <4> QED BY <4>1, <4>2 DEF Statements
        <3>2. tags' = tags \cup {row} \/ tags' = tags \ {row} \/ UNCHANGED tags
            BY <2>2 DEF TagStatement
        <3> HIDE DEF row
        <3>3. IsFiniteSet(tags \cup {row}) /\ IsFiniteSet(tags \ {row})
            BY <1>0, FS_AddElement, FS_RemoveElement DEF TagsShape
        <3> QED BY <1>0, <3>1, <3>2, <3>3 DEF TagsShape
    <2>3. CASE DeleteTagsForObject(w)
        <3>1. tags' \subseteq tags
            BY <2>3 DEF DeleteTagsForObject
        <3> QED BY <1>0, <3>1, FS_Subset DEF TagsShape
    <2> QED BY <2>1, <2>2, <2>3 DEF Load, Refuse, Plan, InsertObject, DeleteRow
<1>6. TablesShape' /\ \A o \in Task : tables[o] # NoRow => tables'[o] # NoRow
    <2>1. CASE UNCHANGED tables
        BY <1>0, <2>1 DEF TablesShape
    <2>2. CASE InsertObject(w) \/ DeleteRow(w)
        BY <2>2, RowsWritten
    <2> QED BY <2>1, <2>2 DEF Load, Refuse, Plan, TagStatement, DeleteTagsForObject
<1> QED BY <1>1, <1>2, <1>3, <1>4, <1>5, <1>6 DEF StoreShape

-----------------------------------------------------------------------------
(* Lists, step after step. *)
LEMMA IdleOrListing ==
    ASSUME StoreShape, NEW l \in Lister
    PROVE  /\ list[l] = Idle \/ list[l] \in Listing
           /\ list[l].pc = "idle" <=> list[l] = Idle
           /\ list[l] # Idle <=> list[l] \in Listing
<1>1. list[l] \in {Idle} \cup Listing
    BY DEF StoreShape
<1>2. Idle.pc = "idle"
    BY DEF Idle
<1>3. ASSUME NEW r \in Listing PROVE r.pc # "idle"
    BY <1>3 DEF Listing, Lists
<1> QED BY <1>1, <1>2, <1>3

ListRecord(pc, kind, tag, left, struct, entries, expect, failed) ==
    [pc |-> pc, kind |-> kind, tag |-> tag, left |-> left, struct |-> struct,
     entries |-> entries, expect |-> expect, failed |-> failed]

LEMMA ListingFacts ==
    ASSUME NEW r \in Listing
    PROVE  /\ r = ListRecord(r.pc, r.kind, r.tag, r.left, r.struct, r.entries, r.expect, r.failed)
           /\ r.pc \in {"scan", "tags"} /\ r.kind \in Kinds /\ r.tag \in Tag \cup {All}
           /\ r.left \in Seq(LeftOf(r.kind, r.tag)) /\ r.struct \in Structs(r.kind)
           /\ r.entries \in Seq(EntriesOf(r.kind)) /\ r.expect \subseteq ObjectsOf(r.kind)
           /\ r.failed \in BOOLEAN
BY DEF Listing, Lists, ListFits, ListRecord

LEMMA ListingOf ==
    ASSUME NEW pc \in {"scan", "tags"}, NEW kind \in Kinds, NEW tag \in Tag \cup {All},
           NEW left \in Seq(LeftOf(kind, tag)), NEW struct \in Structs(kind),
           NEW entries \in Seq(EntriesOf(kind)), NEW expect \in SUBSET ObjectsOf(kind),
           NEW failed \in BOOLEAN
    PROVE  ListRecord(pc, kind, tag, left, struct, entries, expect, failed) \in Listing
<1> DEFINE r == ListRecord(pc, kind, tag, left, struct, entries, expect, failed)
<1>1. /\ r.pc = pc /\ r.kind = kind /\ r.tag = tag /\ r.left = left /\ r.struct = struct
      /\ r.entries = entries /\ r.expect = expect /\ r.failed = failed
    BY DEF ListRecord
<1>2. struct \in AnyStruct /\ expect \subseteq Object
    BY DEF Structs, AnyStruct, ObjectsOf
<1>3. left \in UNION {Seq(LeftOf(k, t)) : k \in Kinds, t \in Tag \cup {All}}
    OBVIOUS
<1>4. entries \in UNION {Seq(EntriesOf(k)) : k \in Kinds}
    OBVIOUS
<1>5. r \in Lists
    <2> DEFINE U == UNION {Seq(LeftOf(k, t)) : k \in Kinds, t \in Tag \cup {All}}
               V == UNION {Seq(EntriesOf(k)) : k \in Kinds}
    <2>1. left \in U /\ entries \in V
        BY <1>3, <1>4
    <2>2. Lists = [pc : {"scan", "tags"}, kind : Kinds, tag : Tag \cup {All}, left : U,
                   struct : AnyStruct, entries : V, expect : SUBSET Object, failed : BOOLEAN]
        BY DEF Lists
    <2> HIDE DEF U, V
    <2> QED BY <1>2, <2>1, <2>2 DEF ListRecord
<1> HIDE DEF r
<1>6. ListFits(r)
    BY <1>1 DEF ListFits
<1> QED BY <1>5, <1>6 DEF Listing, r

(* The lists that are asked for: all rows, the UUIDs with a tag, or nothing. *)
RowsListed(kind) ==
    LET order == SetToSeq(Listed(kind)) IN [i \in DOMAIN order |-> tables[order[i]]]

Asking(r) ==
    \/ \E kind \in Kinds : r = NewList(kind, All, RowsListed(kind), Listed(kind), FALSE)
    \/ \E kind \in Kinds, tag \in Tag :
          r = NewList(kind, tag, SetToSeq(Tagged(kind, tag)), Tagged(kind, tag) \cap Listed(kind), FALSE)
    \/ \E kind \in Kinds, tag \in Tag \cup {All} : \E expect \in SUBSET ObjectsOf(kind) :
          r = NewList(kind, tag, <<>>, expect, TRUE)

LEMMA RowsListedTyped ==
    ASSUME StoreShape, NEW kind \in Kinds
    PROVE  /\ RowsListed(kind) \in Seq(RowsOfKind(kind))
           /\ Len(RowsListed(kind)) = Cardinality(Listed(kind)) /\ IsFiniteSet(Listed(kind))
           /\ Cardinality(Listed(kind)) \in Nat
           /\ \A i \in DOMAIN RowsListed(kind) : \E o \in Listed(kind) : RowsListed(kind)[i] = tables[o]
           /\ \A o \in Listed(kind) : \E i \in DOMAIN RowsListed(kind) : RowsListed(kind)[i] = tables[o]
<1> DEFINE S == Listed(kind)
           n == Cardinality(S)
           order == SetToSeq(S)
           result == RowsListed(kind)
<1>1. S \subseteq ObjectsOf(kind) /\ S \subseteq Object /\ \A o \in S : tables[o] # NoRow
    BY DEF Listed, ObjectsOf
<1>2. IsFiniteSet(S)
    BY <1>1, ObjectsAssumption, FS_Subset DEF Object
<1> HIDE DEF S
<1>3. order \in Seq(S) /\ DOMAIN order = 1 .. n /\ Range(order) = S /\ n \in Nat
    BY <1>2, AllOfSet
<1>4. result = [i \in DOMAIN order |-> tables[order[i]]]
    BY DEF RowsListed, S
<1> HIDE DEF order, n, result
<1>5. \A i \in 1 .. n : order[i] \in S
    BY <1>3
<1>6. \A i \in 1 .. n : result[i] = tables[order[i]]
    BY <1>3, <1>4
<1>7. \A o \in S : tables[o] \in RowsOfKind(kind)
    <2>1. ASSUME NEW o \in S PROVE tables[o] \in RowsOfObject(o)
        BY <1>1 DEF StoreShape, TablesShape
    <2> QED BY <1>1, <2>1 DEF RowsOfKind
<1>8. result \in [1 .. n -> RowsOfKind(kind)]
    BY <1>3, <1>4, <1>5, <1>7
<1>9. result \in Seq(RowsOfKind(kind)) /\ Len(result) = n /\ DOMAIN result = 1 .. n
    BY <1>3, <1>8, FunctionIsSequence
<1>10. \A o \in S : \E i \in 1 .. n : order[i] = o
    BY <1>3 DEF Range
<1> QED BY <1>2, <1>3, <1>5, <1>6, <1>9, <1>10 DEF result, n, S

LEMMA TaggedTyped ==
    ASSUME StoreShape, NEW kind \in Kinds, NEW tag \in Tag
    PROVE  /\ SetToSeq(Tagged(kind, tag)) \in Seq(LeftOf(kind, tag))
           /\ Range(SetToSeq(Tagged(kind, tag))) = Tagged(kind, tag)
<1> DEFINE S == Tagged(kind, tag)
<1>1. S \subseteq Task \cap ObjectsOf(kind) /\ S \subseteq Object
    <2>1. S \subseteq Object
        BY DEF Tagged
    <2>2. ASSUME NEW o \in S PROVE o \in Task /\ KindOf(o) = kind
        <3>1. <<o, kind, tag>> \in Task \X {"task"} \X Tag
            BY DEF Tagged, StoreShape, TagsShape
        <3> QED BY <3>1 DEF KindOf
    <2> QED BY <2>1, <2>2 DEF ObjectsOf
<1>2. IsFiniteSet(S)
    BY <1>1, ObjectsAssumption, FS_Subset DEF Object
<1> HIDE DEF S
<1>3. SetToSeq(S) \in Seq(S) /\ Range(SetToSeq(S)) = S
    BY <1>2, AllOfSet
<1>4. LeftOf(kind, tag) = Task \cap ObjectsOf(kind)
    BY TagsAssumption DEF LeftOf
<1>5. SetToSeq(S) \in Seq(LeftOf(kind, tag))
    BY <1>1, <1>3, <1>4
<1> QED BY <1>3, <1>5 DEF S

LEMMA AskingTyped ==
    ASSUME StoreShape, NEW r, Asking(r)
    PROVE  r \in Listing
<1>1. ASSUME NEW kind \in Kinds, NEW tag \in Tag \cup {All}, NEW result \in Seq(LeftOf(kind, tag)),
             NEW expect \in SUBSET ObjectsOf(kind), NEW fails \in BOOLEAN
      PROVE  NewList(kind, tag, result, expect, fails) \in Listing
    <2> DEFINE none == <<>>
    <2>1. none \in Seq(EntriesOf(kind))
        OBVIOUS
    <2>2. NewStruct(kind) \in Structs(kind)
        BY NewStructTyped
    <2>3. NewList(kind, tag, result, expect, fails)
              = ListRecord("scan", kind, tag, result, NewStruct(kind), none, expect, fails)
        BY DEF NewList, ListRecord
    <2> HIDE DEF none
    <2> QED BY <2>1, <2>2, <2>3, ListingOf
<1>2. ASSUME NEW kind \in Kinds, r = NewList(kind, All, RowsListed(kind), Listed(kind), FALSE)
      PROVE  r \in Listing
    <2>1. RowsListed(kind) \in Seq(LeftOf(kind, All))
        BY RowsListedTyped DEF LeftOf
    <2>2. Listed(kind) \in SUBSET ObjectsOf(kind)
        BY DEF Listed, ObjectsOf
    <2> QED BY <1>1, <1>2, <2>1, <2>2
<1>3. ASSUME NEW kind \in Kinds, NEW tag \in Tag,
             r = NewList(kind, tag, SetToSeq(Tagged(kind, tag)), Tagged(kind, tag) \cap Listed(kind), FALSE)
      PROVE  r \in Listing
    <2>1. SetToSeq(Tagged(kind, tag)) \in Seq(LeftOf(kind, tag))
        BY TaggedTyped
    <2>2. Tagged(kind, tag) \cap Listed(kind) \in SUBSET ObjectsOf(kind)
        BY DEF Listed, ObjectsOf
    <2> QED BY <1>1, <1>3, <2>1, <2>2
<1>4. ASSUME NEW kind \in Kinds, NEW tag \in Tag \cup {All}, NEW expect \in SUBSET ObjectsOf(kind),
             r = NewList(kind, tag, <<>>, expect, TRUE)
      PROVE  r \in Listing
    <2> DEFINE none == <<>>
    <2>1. none \in Seq(LeftOf(kind, tag))
        OBVIOUS
    <2>2. r = NewList(kind, tag, none, expect, TRUE)
        BY <1>4
    <2> HIDE DEF none
    <2> QED BY <1>1, <2>1, <2>2
<1> QED BY <1>2, <1>3, <1>4 DEF Asking

LEMMA GetAsks ==
    ASSUME StoreShape, NEW l \in Lister, Get(l)
    PROVE  list[l] = Idle /\ \E r : Asking(r) /\ list' = [list EXCEPT ![l] = r]
<1>1. list[l] = Idle
    BY IdleOrListing DEF Get
<1>2. ASSUME NEW kind \in {"task", "action"}, GetAll(l, kind)
      PROVE  \E r : Asking(r) /\ list' = [list EXCEPT ![l] = r]
    <2>1. kind \in Kinds /\ Listed(kind) \in SUBSET ObjectsOf(kind)
        BY DEF Kinds, Listed, ObjectsOf
    <2> DEFINE a == NewList(kind, All, RowsListed(kind), Listed(kind), FALSE)
               b == NewList(kind, All, <<>>, Listed(kind), TRUE)
    <2>2. list' = [list EXCEPT ![l] = a] \/ list' = [list EXCEPT ![l] = b]
        BY <1>2 DEF GetAll, RowsListed
    <2>3. Asking(a) /\ Asking(b)
        BY <2>1 DEF Asking
    <2> HIDE DEF a, b
    <2> QED BY <2>2, <2>3
<1>3. ASSUME NEW kind \in {"task", "action"}, NEW tag \in Tag, GetByTag(l, kind, tag)
      PROVE  \E r : Asking(r) /\ list' = [list EXCEPT ![l] = r]
    <2> DEFINE expect == Tagged(kind, tag) \cap Listed(kind)
    <2>1. kind \in Kinds /\ expect \in SUBSET ObjectsOf(kind)
        BY DEF Kinds, Listed, ObjectsOf
    <2> DEFINE a == NewList(kind, tag, SetToSeq(Tagged(kind, tag)), expect, FALSE)
               b == NewList(kind, tag, <<>>, expect, TRUE)
    <2>2. list' = [list EXCEPT ![l] = a] \/ list' = [list EXCEPT ![l] = b]
        BY <1>3 DEF GetByTag
    <2>3. Asking(a) /\ Asking(b)
        BY <2>1 DEF Asking
    <2> HIDE DEF a, b
    <2> QED BY <2>2, <2>3
<1>4. ASSUME GetByQueue(l)
      PROVE  \E r : Asking(r) /\ list' = [list EXCEPT ![l] = r]
    <2>1. "task" \in Kinds /\ Listed("task") \in SUBSET ObjectsOf("task")
        BY DEF Kinds, Listed, ObjectsOf
    <2> DEFINE a == NewList("task", All, <<>>, Listed("task"), TRUE)
    <2>2. list' = [list EXCEPT ![l] = a]
        BY <1>4 DEF GetByQueue
    <2>3. Asking(a)
        BY <2>1 DEF Asking
    <2> HIDE DEF a
    <2> QED BY <2>2, <2>3
<1> QED BY <1>1, <1>2, <1>3, <1>4 DEF Get

(* What the loop makes of a list: one row, or one UUID, less is left.       *)
Read(r, struct, failed) ==
    ListRecord("tags", r.kind, r.tag, Tail(r.left), struct, r.entries, r.expect, failed)

LEMMA ReadChanges ==
    ASSUME NEW r \in Listing, NEW x
    PROVE  /\ [r EXCEPT !.left = Tail(r.left), !.struct = x, !.pc = "tags"] = Read(r, x, r.failed)
           /\ [r EXCEPT !.left = Tail(r.left), !.pc = "tags", !.struct = x] = Read(r, x, r.failed)
           /\ [r EXCEPT !.left = Tail(r.left), !.pc = "tags", !.failed = x] = Read(r, r.struct, x)
           /\ [r EXCEPT !.pc = "scan", !.entries = x]
                  = ListRecord("scan", r.kind, r.tag, r.left, r.struct, x, r.expect, r.failed)
<1> DEFINE t == Tail(r.left)
<1>1. PICK a, b, c, d, e, f, g, h : r = ListRecord(a, b, c, d, e, f, g, h)
    BY ListingFacts
<1>2. /\ r.pc = a /\ r.kind = b /\ r.tag = c /\ r.left = d /\ r.struct = e /\ r.entries = f
      /\ r.expect = g /\ r.failed = h
    BY <1>1 DEF ListRecord
<1> HIDE DEF t
<1> DEFINE read == [r EXCEPT !.left = t]
           scan == [r EXCEPT !.pc = "scan"]
           structed == [read EXCEPT !.struct = x]
           tagging == [read EXCEPT !.pc = "tags"]
<1>3. /\ [r EXCEPT !.left = t, !.struct = x, !.pc = "tags"] = [structed EXCEPT !.pc = "tags"]
      /\ [r EXCEPT !.left = t, !.pc = "tags", !.struct = x] = [tagging EXCEPT !.struct = x]
      /\ [r EXCEPT !.left = t, !.pc = "tags", !.failed = x] = [tagging EXCEPT !.failed = x]
      /\ [r EXCEPT !.pc = "scan", !.entries = x] = [scan EXCEPT !.entries = x]
    OBVIOUS
<1>4. /\ read = ListRecord(a, b, c, t, e, f, g, h)
      /\ scan = ListRecord("scan", b, c, d, e, f, g, h)
    BY <1>1 DEF ListRecord
<1> HIDE DEF read, scan
<1>5. structed = ListRecord(a, b, c, t, x, f, g, h)
    BY <1>4 DEF ListRecord
<1>6. tagging = ListRecord("tags", b, c, t, e, f, g, h)
    BY <1>4 DEF ListRecord
<1> HIDE DEF structed, tagging
<1>7. [structed EXCEPT !.pc = "tags"] = ListRecord("tags", b, c, t, x, f, g, h)
    BY <1>5 DEF ListRecord
<1>8. [tagging EXCEPT !.struct = x] = ListRecord("tags", b, c, t, x, f, g, h)
    BY <1>6 DEF ListRecord
<1>9. [tagging EXCEPT !.failed = x] = ListRecord("tags", b, c, t, e, f, g, x)
    BY <1>6 DEF ListRecord
<1>10. [scan EXCEPT !.entries = x] = ListRecord("scan", b, c, d, e, x, g, h)
    BY <1>4 DEF ListRecord
<1>11. /\ Read(r, x, r.failed) = ListRecord("tags", b, c, t, x, f, g, h)
       /\ Read(r, r.struct, x) = ListRecord("tags", b, c, t, e, f, g, x)
       /\ ListRecord("scan", r.kind, r.tag, r.left, r.struct, x, r.expect, r.failed)
             = ListRecord("scan", b, c, d, e, x, g, h)
    BY <1>2, Zenon DEF Read, t
<1> QED BY <1>3, <1>7, <1>8, <1>9, <1>10, <1>11, Zenon DEF t

LEMMA HeadAndTail ==
    ASSUME NEW S, NEW s \in Seq(S), s # <<>>
    PROVE  Head(s) \in S /\ Tail(s) \in Seq(S) /\ Head(s) = s[1] /\ 1 \in DOMAIN s
OBVIOUS

LEMMA ScanAllReads ==
    ASSUME StoreShape, NEW l \in Lister, ScanAll(l)
    PROVE  /\ list[l] \in Listing /\ list[l].pc = "scan" /\ list[l].tag = All /\ list[l].left # <<>>
           /\ \E o \in ObjectsOf(list[l].kind) :
                  LET struct == ReadRow(list[l].kind, Head(list[l].left), list[l].struct)
                  IN  /\ Head(list[l].left) \in RowsOfObject(o) /\ Head(list[l].left)[1] = o
                      /\ struct \in Structs(list[l].kind) /\ struct.uuid = o
                      /\ list' = [list EXCEPT ![l] = Read(list[l], struct, list[l].failed)]
<1> DEFINE r == list[l]
           row == Head(r.left)
           struct == ReadRow(r.kind, row, r.struct)
           scanned == Scan(ColumnsOf(r.kind), row, r.struct)
           f == [r EXCEPT !.left = Tail(r.left), !.struct = struct, !.pc = "tags"]
<1>1. r.pc = "scan" /\ r.tag = All /\ r.left # <<>>
    BY DEF ScanAll
<1>2. r \in Listing
    BY <1>1, IdleOrListing
<1>3. row \in RowsOfKind(r.kind) /\ r.struct \in Structs(r.kind) /\ r.kind \in Kinds
    <2>1. r.left \in Seq(RowsOfKind(r.kind))
        BY <1>1, <1>2, ListingFacts DEF LeftOf
    <2> QED BY <1>1, <1>2, <2>1, ListingFacts, HeadAndTail
<1>4. PICK o \in ObjectsOf(r.kind) : row \in RowsOfObject(o)
    BY <1>3 DEF RowsOfKind
<1>5. o \in Object /\ KindOf(o) = r.kind
    BY DEF ObjectsOf
<1>6. scanned = [ok |-> TRUE, struct |-> struct] /\ struct \in Structs(r.kind) /\ struct.uuid = o
    <2> HIDE DEF row, r
    <2>1. r.struct \in Structs(KindOf(o))
        BY <1>3, <1>5
    <2>2. /\ Scan(ColumnsOf(KindOf(o)), row, r.struct)
                 = [ok |-> TRUE, struct |-> ReadRow(KindOf(o), row, r.struct)]
          /\ ReadRow(KindOf(o), row, r.struct) \in Structs(KindOf(o))
          /\ ReadRow(KindOf(o), row, r.struct).uuid = o
        <3>1. o \in Object
            BY <1>5
        <3> QED BY <1>4, <2>1, <3>1, ScanOfRow
    <2> QED BY <1>5, <2>2, Zenon
<1>7. row[1] = o
    <2> HIDE DEF row, r
    <2> QED BY <1>6 DEF ReadRow, ReadTask, ReadAction
<1>8. list' = [list EXCEPT ![l].left = IF scanned.ok THEN Tail(@) ELSE <<>>,
                           ![l].struct = scanned.struct,
                           ![l].pc = IF scanned.ok THEN "tags" ELSE "done"]
    BY DEF ScanAll
<1>9. scanned.ok = TRUE /\ scanned.struct = struct
    <2> HIDE DEF scanned, struct
    <2> QED BY <1>6
<1> HIDE DEF scanned, struct, row
<1>10. list' = [list EXCEPT ![l] = f]
    BY <1>8, <1>9
<1>11. f = Read(r, struct, r.failed)
    <2> HIDE DEF r
    <2> QED BY <1>2, ReadChanges
<1> HIDE DEF f
<1> QED BY <1>1, <1>2, <1>4, <1>6, <1>7, <1>10, <1>11 DEF struct, row

LEMMA ScanTaggedReads ==
    ASSUME StoreShape, NEW l \in Lister, ScanTagged(l)
    PROVE  /\ list[l] \in Listing /\ list[l].pc = "scan" /\ list[l].tag # All /\ list[l].left # <<>>
           /\ Head(list[l].left) \in Task \cap ObjectsOf(list[l].kind)
           /\ \E failed \in BOOLEAN :
                  LET o == Head(list[l].left)
                      struct == IF failed \/ tables[o] = NoRow THEN list[l].struct
                                ELSE ReadRow(list[l].kind, tables[o], list[l].struct)
                  IN  /\ struct \in Structs(list[l].kind)
                      /\ ~failed /\ tables[o] # NoRow => struct.uuid = o
                      /\ list' = [list EXCEPT ![l] = Read(list[l], struct, failed \/ list[l].failed)]
<1> DEFINE r == list[l]
           o == Head(r.left)
           read == IF tables[o] = NoRow THEN r.struct ELSE ReadRow(r.kind, tables[o], r.struct)
           scanned == Scan(ColumnsOf(r.kind), tables[o], r.struct).struct
           f == [r EXCEPT !.left = Tail(r.left), !.pc = "tags", !.struct = read]
           e == [r EXCEPT !.left = Tail(r.left), !.pc = "tags", !.failed = TRUE]
<1>1. r.pc = "scan" /\ r.tag # All /\ r.left # <<>>
    BY DEF ScanTagged
<1>2. r \in Listing
    BY <1>1, IdleOrListing
<1>3. o \in Task \cap ObjectsOf(r.kind) /\ r.struct \in Structs(r.kind) /\ r.kind \in Kinds
    <2>1. r.left \in Seq(Task \cap ObjectsOf(r.kind))
        BY <1>1, <1>2, ListingFacts DEF LeftOf
    <2> QED BY <1>1, <1>2, <2>1, ListingFacts, HeadAndTail
<1>4. o \in Object /\ KindOf(o) = r.kind
    BY <1>3 DEF ObjectsOf
<1>5. ASSUME tables[o] # NoRow
      PROVE  scanned = read /\ read \in Structs(r.kind) /\ read.uuid = o
    <2>1. tables[o] \in RowsOfObject(o)
        BY <1>4, <1>5 DEF StoreShape, TablesShape
    <2> DEFINE x == ReadRow(r.kind, tables[o], r.struct)
               y == Scan(ColumnsOf(r.kind), tables[o], r.struct)
    <2>2. y = [ok |-> TRUE, struct |-> x] /\ x \in Structs(r.kind) /\ x.uuid = o
        <3> HIDE DEF o, r
        <3>1. r.struct \in Structs(KindOf(o))
            BY <1>3, <1>4
        <3>2. /\ Scan(ColumnsOf(KindOf(o)), tables[o], r.struct)
                     = [ok |-> TRUE, struct |-> ReadRow(KindOf(o), tables[o], r.struct)]
              /\ ReadRow(KindOf(o), tables[o], r.struct) \in Structs(KindOf(o))
              /\ ReadRow(KindOf(o), tables[o], r.struct).uuid = o
            <4>1. o \in Object
                BY <1>4
            <4> QED BY <2>1, <3>1, <4>1, ScanOfRow
        <3> QED BY <1>4, <3>2, Zenon
    <2>3. read = x /\ scanned = y.struct
        BY <1>5
    <2> HIDE DEF x, y, read, scanned
    <2> QED BY <2>2, <2>3
<1>6. ASSUME tables[o] = NoRow PROVE read = r.struct
    BY <1>6
<1>7. \/ list' = [list EXCEPT ![l].left = Tail(@), ![l].pc = "tags",
                     ![l].struct = IF tables[o] = NoRow THEN @
                                   ELSE Scan(ColumnsOf(list[l].kind), tables[o], @).struct]
      \/ list' = [list EXCEPT ![l].left = Tail(@), ![l].pc = "tags", ![l].failed = TRUE]
    BY DEF ScanTagged
<1> DEFINE h == [r EXCEPT !.left = Tail(r.left), !.pc = "tags",
                          !.struct = IF tables[o] = NoRow THEN r.struct ELSE scanned]
<1>8. list' = [list EXCEPT ![l] = h] \/ list' = [list EXCEPT ![l] = e]
    BY <1>7
<1>9. h = f
    <2>1. (IF tables[o] = NoRow THEN r.struct ELSE scanned) = read
        <3> HIDE DEF read, scanned, o, r
        <3> QED BY <1>5, <1>6
    <2> HIDE DEF read, scanned, o, r
    <2> QED BY <2>1
<1> HIDE DEF h, read, o
<1>10. f = Read(r, read, r.failed) /\ e = Read(r, r.struct, TRUE)
    <2> HIDE DEF r
    <2> QED BY <1>2, ReadChanges
<1> HIDE DEF f, e
<1>11. CASE list' = [list EXCEPT ![l] = f]
    <2> DEFINE struct == IF FALSE \/ tables[o] = NoRow THEN r.struct
                         ELSE ReadRow(r.kind, tables[o], r.struct)
    <2>1. struct = read
        BY DEF read
    <2>2. read \in Structs(r.kind) /\ (tables[o] # NoRow => read.uuid = o)
        <3> HIDE DEF r
        <3> QED BY <1>3, <1>5, <1>6
    <2>3. r.failed = (FALSE \/ r.failed)
        BY <1>2, ListingFacts
    <2>4. list' = [list EXCEPT ![l] = Read(r, read, FALSE \/ r.failed)]
        BY <1>10, <1>11, <2>3, Zenon
    <2> HIDE DEF struct
    <2>5. /\ struct \in Structs(r.kind) /\ (~FALSE /\ tables[o] # NoRow => struct.uuid = o)
          /\ list' = [list EXCEPT ![l] = Read(r, struct, FALSE \/ r.failed)]
        BY <2>1, <2>2, <2>4
    <2> QED BY <1>1, <1>2, <1>3, <2>5 DEF struct, o
<1>12. CASE list' = [list EXCEPT ![l] = e]
    <2> DEFINE struct == IF TRUE \/ tables[o] = NoRow THEN r.struct
                         ELSE ReadRow(r.kind, tables[o], r.struct)
    <2>1. struct = r.struct /\ (TRUE \/ r.failed) = TRUE
        OBVIOUS
    <2>2. list' = [list EXCEPT ![l] = Read(r, r.struct, TRUE \/ r.failed)]
        BY <1>10, <1>12, <2>1, Zenon
    <2> HIDE DEF struct
    <2>3. /\ struct \in Structs(r.kind) /\ (~TRUE /\ tables[o] # NoRow => struct.uuid = o)
          /\ list' = [list EXCEPT ![l] = Read(r, struct, TRUE \/ r.failed)]
        BY <1>3, <2>1, <2>2
    <2> QED BY <1>1, <1>2, <1>3, <2>3 DEF struct, o
<1> QED BY <1>8, <1>9, <1>11, <1>12

(* LoadTags: the struct joins the list. *)
Entry(struct, had) == [struct |-> struct, tags |-> had]

LEMMA LoadTagsJoins ==
    ASSUME StoreShape, NEW l \in Lister, LoadTags(l)
    PROVE  /\ list[l] \in Listing /\ list[l].pc = "tags"
           /\ \E had \in SUBSET Tag :
                  list' = [list EXCEPT ![l] =
                      ListRecord("scan", list[l].kind, list[l].tag, list[l].left, list[l].struct,
                                 Append(list[l].entries, Entry(list[l].struct, had)),
                                 list[l].expect, list[l].failed)]
<1> DEFINE r == list[l]
           uuid == r.struct.uuid
<1>1. r.pc = "tags" /\ r \in Listing
    BY IdleOrListing DEF LoadTags
<1>2. PICK loaded \in IF uuid \in Object THEN TagAnswers(uuid) ELSE {<<>>} :
          list' = [list EXCEPT ![l].pc = "scan",
                 ![l].entries = Append(@, [struct |-> list[l].struct, tags |-> Range(loaded)])]
    BY DEF LoadTags
<1>3. Range(loaded) \in SUBSET Tag
    <2>1. CASE uuid \in Object
        BY <1>2, <2>1, TagsOfTyped DEF StoreShape
    <2>2. CASE uuid \notin Object
        BY <1>2, <2>2 DEF Range
    <2> QED BY <2>1, <2>2
<1> DEFINE had == Range(loaded)
           entries == Append(r.entries, Entry(r.struct, had))
<1>4. list' = [list EXCEPT ![l] = [r EXCEPT !.pc = "scan", !.entries = entries]]
    BY <1>2 DEF Entry
<1> HIDE DEF entries, had, r
<1>5. [r EXCEPT !.pc = "scan", !.entries = entries]
          = ListRecord("scan", r.kind, r.tag, r.left, r.struct, entries, r.expect, r.failed)
    BY <1>1, ReadChanges
<1>6. had \in SUBSET Tag
    BY <1>3 DEF had
<1>7. list' = [list EXCEPT ![l] =
          ListRecord("scan", r.kind, r.tag, r.left, r.struct, entries, r.expect, r.failed)]
    BY <1>4, <1>5, Zenon
<1> QED BY <1>1, <1>6, <1>7 DEF entries, r

LEMMA ListShape ==
    ASSUME StoreShape, NEW l \in Lister,
           Get(l) \/ ScanAll(l) \/ ScanTagged(l) \/ LoadTags(l) \/ Answer(l)
    PROVE  StoreShape' /\ UNCHANGED <<tables, tags, work, saved>>
           /\ \E r \in {Idle} \cup Listing : list' = [list EXCEPT ![l] = r]
<1>0. /\ TablesShape /\ TagsShape /\ CountsShape /\ list \in [Lister -> {Idle} \cup Listing]
      /\ work \in [Worker -> {Idle} \cup Working]
    BY DEF StoreShape
<1>1. UNCHANGED <<tables, tags, work, saved>>
    BY DEF Get, ScanAll, ScanTagged, LoadTags, Answer
<1>2. CountsShape'
    <2>1. CASE Get(l)
        <3>1. Asks /\ (Fails \/ Succeeds)
            BY <2>1 DEF Get, GetAll, GetByTag, GetByQueue
        <3> QED BY <1>0, <3>1, CallCounted
    <2>2. CASE ~Get(l)
        <3>1. UNCHANGED requests /\ (Fails \/ Succeeds)
            BY <2>2 DEF ScanAll, ScanTagged, LoadTags, Answer, GetTagsForObject, Succeeds
        <3> QED BY <1>0, <3>1, CallCounted
    <2> QED BY <2>1, <2>2
<1>3. \E r \in {Idle} \cup Listing : list' = [list EXCEPT ![l] = r]
    <2>1. CASE Get(l)
        BY <2>1, GetAsks, AskingTyped
    <2> DEFINE a == list[l]
    <2>2. ASSUME a \in Listing, a.left # <<>>, NEW struct \in Structs(a.kind), NEW failed \in BOOLEAN
          PROVE  Read(a, struct, failed) \in Listing
        <3> HIDE DEF a
        <3>1. Tail(a.left) \in Seq(LeftOf(a.kind, a.tag))
            BY <2>2, ListingFacts, HeadAndTail
        <3>2. /\ a.kind \in Kinds /\ a.tag \in Tag \cup {All} /\ a.entries \in Seq(EntriesOf(a.kind))
              /\ a.expect \in SUBSET ObjectsOf(a.kind)
            BY <2>2, ListingFacts
        <3> QED BY <3>1, <3>2, ListingOf DEF Read
    <2>3. CASE ScanAll(l)
        <3>1. a \in Listing /\ a.left # <<>>
            BY <2>3, ScanAllReads
        <3>2. a.failed \in BOOLEAN
            BY <3>1, ListingFacts
        <3> QED BY <2>2, <2>3, <3>1, <3>2, ScanAllReads
    <2>4. CASE ScanTagged(l)
        <3>1. a \in Listing /\ a.left # <<>>
            BY <2>4, ScanTaggedReads
        <3>2. \A f \in BOOLEAN : (f \/ a.failed) \in BOOLEAN
            BY <3>1, ListingFacts
        <3>3. PICK struct \in Structs(a.kind), f \in BOOLEAN :
                  list' = [list EXCEPT ![l] = Read(a, struct, f \/ a.failed)]
            BY <2>4, ScanTaggedReads
        <3> HIDE DEF a
        <3> QED BY <2>2, <3>1, <3>2, <3>3
    <2>5. CASE LoadTags(l)
        <3>1. a \in Listing
            BY <2>5, LoadTagsJoins
        <3>2. PICK had \in SUBSET Tag :
                  list' = [list EXCEPT ![l] = ListRecord("scan", a.kind, a.tag, a.left, a.struct,
                               Append(a.entries, Entry(a.struct, had)), a.expect, a.failed)]
            BY <2>5, LoadTagsJoins
        <3> HIDE DEF a
        <3>3. /\ a.kind \in Kinds /\ a.tag \in Tag \cup {All} /\ a.left \in Seq(LeftOf(a.kind, a.tag))
              /\ a.struct \in Structs(a.kind) /\ a.entries \in Seq(EntriesOf(a.kind))
              /\ a.expect \in SUBSET ObjectsOf(a.kind) /\ a.failed \in BOOLEAN
            BY <3>1, ListingFacts
        <3>4. Entry(a.struct, had) \in EntriesOf(a.kind)
            BY <3>3 DEF Entry, EntriesOf
        <3>5. Append(a.entries, Entry(a.struct, had)) \in Seq(EntriesOf(a.kind))
            BY <3>3, <3>4, AppendProperties
        <3> QED BY <3>2, <3>3, <3>5, ListingOf
    <2>6. CASE Answer(l)
        BY <2>6 DEF Answer
    <2> QED BY <2>1, <2>3, <2>4, <2>5, <2>6
<1>4. list' \in [Lister -> {Idle} \cup Listing]
    BY <1>0, <1>3
<1>5. TablesShape' /\ TagsShape' /\ work' \in [Worker -> {Idle} \cup Working]
    BY <1>0, <1>1 DEF TablesShape, TagsShape
<1> QED BY <1>1, <1>2, <1>3, <1>4, <1>5 DEF StoreShape

(* Who makes a step. *)
WorkerBegins(w) == CreateTask(w) \/ CreateAction(w) \/ Update(w) \/ Execute(w) \/ Delete(w)
WorkerGoesOn(w) ==
    \/ Load(w) \/ Refuse(w) \/ Plan(w) \/ TagStatement(w) \/ InsertObject(w)
    \/ DeleteTagsForObject(w) \/ DeleteRow(w)
ListerSteps(l) == Get(l) \/ ScanAll(l) \/ ScanTagged(l) \/ LoadTags(l) \/ Answer(l)

LEMMA StoreSteps ==
    ASSUME StoreNext
    PROVE  \/ \E w \in Worker : WorkerBegins(w) \/ WorkerGoesOn(w)
           \/ \E l \in Lister : ListerSteps(l)
BY DEF StoreNext, WorkerBegins, WorkerGoesOn, ListerSteps

LEMMA NextShape == StoreShape /\ [StoreNext]_storeVars => StoreShape'
<1> SUFFICES ASSUME StoreShape, [StoreNext]_storeVars PROVE StoreShape'
    OBVIOUS
<1>1. CASE UNCHANGED storeVars
    BY <1>1 DEF storeVars, StoreShape, TablesShape, TagsShape, CountsShape
<1>2. ASSUME NEW w \in Worker, WorkerBegins(w) PROVE StoreShape'
    BY <1>2, BeginningShape DEF WorkerBegins
<1>3. ASSUME NEW w \in Worker, WorkerGoesOn(w) PROVE StoreShape'
    BY <1>3, WorkShape DEF WorkerGoesOn
<1>4. ASSUME NEW l \in Lister, ListerSteps(l) PROVE StoreShape'
    BY <1>4, ListShape DEF ListerSteps
<1> QED BY <1>1, <1>2, <1>3, <1>4, StoreSteps

(* The tables, the handlers and the lists keep their shape at every step.   *)
THEOREM ObjectsShape == StoreSpec => []StoreShape
BY InitShape, NextShape, PTL DEF StoreSpec

(* The tables, the handlers and the lists stay what they are, and every row  *)
(* that is written can be read back into a struct of its own object: a       *)
(* number without an encoding is refused before Cassandra is called.         *)
THEOREM ObjectsTyped == StoreSpec => []StoreTypeOK
<1>1. StoreShape => StoreTypeOK
    <2> SUFFICES ASSUME StoreShape PROVE StoreTypeOK
        OBVIOUS
    <2>1. ASSUME NEW o \in Object, tables[o] # NoRow
          PROVE  Scan(ColumnsOf(KindOf(o)), tables[o], NewStruct(KindOf(o))).ok /\ StructOf(o).uuid = o
        BY <2>1, StructOfTyped DEF StoreShape
    <2>2. ASSUME NEW w \in Worker
          PROVE  work[w].pc \in {"idle", "load", "plan", "insert", "untag", "delete"}
        <3>1. CASE work[w] = Idle
            BY <3>1 DEF Idle
        <3>2. CASE work[w] \in Working
            BY <3>2 DEF Working, Jobs
        <3> QED BY <3>1, <3>2, IdleOrWorking
    <2>3. ASSUME NEW l \in Lister PROVE list[l].pc \in {"idle", "scan", "tags", "done"}
        <3>1. CASE list[l] = Idle
            BY <3>1 DEF Idle
        <3>2. CASE list[l] \in Listing
            BY <3>2, ListingFacts
        <3> QED BY <3>1, <3>2, IdleOrListing
    <2> QED BY <2>1, <2>2, <2>3 DEF StoreTypeOK, StoreShape, TagsShape, CountsShape
<1> QED BY <1>1, ObjectsShape, PTL

-----------------------------------------------------------------------------
(* The tags of a task that one handler works on, and no other.              *)
Exclusive ==
    \A w, v \in Worker :
        w # v /\ work[w] # Idle /\ work[v] # Idle /\ work[w].object = work[v].object =>
            ~work[w].alone

(* What is left to be done makes the tags those that were asked for.        *)
OnTheWay(had, asked, todo) ==
    /\ \A k \in DOMAIN todo : todo[k].op = "insert" <=> todo[k].tag \in Range(asked)
    /\ \A t \in Range(asked) : t \in had \/ Inserts(todo, t)
    /\ \A t \in had \ Range(asked) : Deletes(todo, t)

IsPlanned(j) ==
    j.pc = "insert" /\ j.object \in Task /\ j.alone => OnTheWay(TagsOf(j.object), j.asked, j.todo)

TagsPlanned == \A w \in Worker : work[w] # Idle => IsPlanned(work[w])

TagsInv == StoreShape /\ Exclusive /\ TagsPlanned

LEMMA OneStatement ==
    ASSUME NEW had, NEW after, NEW asked \in Seq(Tag), NEW todo \in Seq(Statements), todo # <<>>,
           OnTheWay(had, asked, todo),
           after = IF Head(todo).op = "insert" THEN had \cup {Head(todo).tag} ELSE had \ {Head(todo).tag}
    PROVE  OnTheWay(after, asked, Tail(todo))
<1> DEFINE s == Head(todo)
           rest == Tail(todo)
           n == Len(todo)
<1>1. /\ n \in Nat \ {0} /\ DOMAIN todo = 1 .. n /\ DOMAIN rest = 1 .. n - 1 /\ s = todo[1]
      /\ \A k \in 1 .. n - 1 : rest[k] = todo[k + 1]
    OBVIOUS
<1>2. s \in Statements /\ 1 \in DOMAIN todo
    BY <1>1
<1>3. /\ \A k \in DOMAIN todo : todo[k].op = "insert" <=> todo[k].tag \in Range(asked)
      /\ \A t \in Range(asked) : t \in had \/ Inserts(todo, t)
      /\ \A t \in had \ Range(asked) : Deletes(todo, t)
      /\ s.op = "insert" <=> s.tag \in Range(asked)
    BY <1>1, <1>2 DEF OnTheWay
<1>4. after = IF s.op = "insert" THEN had \cup {s.tag} ELSE had \ {s.tag}
    OBVIOUS
<1> HIDE DEF s, rest, n
<1>5. ASSUME NEW t, Inserts(todo, t), ~(s.op = "insert" /\ s.tag = t) PROVE Inserts(rest, t)
    <2>1. PICK k \in 1 .. n : todo[k].op = "insert" /\ todo[k].tag = t
        BY <1>1, <1>5 DEF Inserts
    <2>2. k # 1
        BY <1>1, <1>5, <2>1
    <2>3. k - 1 \in 1 .. n - 1 /\ rest[k - 1] = todo[k]
        BY <1>1, <2>2
    <2> QED BY <1>1, <2>1, <2>3 DEF Inserts
<1>6. ASSUME NEW t, Deletes(todo, t), ~(s.op = "delete" /\ s.tag = t) PROVE Deletes(rest, t)
    <2>1. PICK k \in 1 .. n : todo[k].op = "delete" /\ todo[k].tag = t
        BY <1>1, <1>6 DEF Deletes
    <2>2. k # 1
        BY <1>1, <1>6, <2>1
    <2>3. k - 1 \in 1 .. n - 1 /\ rest[k - 1] = todo[k]
        BY <1>1, <2>2
    <2> QED BY <1>1, <2>1, <2>3 DEF Deletes
<1>7. \A k \in DOMAIN rest : rest[k].op = "insert" <=> rest[k].tag \in Range(asked)
    <2>1. ASSUME NEW k \in 1 .. n - 1 PROVE rest[k].op = "insert" <=> rest[k].tag \in Range(asked)
        <3>1. k + 1 \in DOMAIN todo /\ rest[k] = todo[k + 1]
            BY <1>1
        <3> QED BY <1>3, <3>1
    <2> QED BY <1>1, <2>1
<1>8. ASSUME NEW t \in Range(asked) PROVE t \in after \/ Inserts(rest, t)
    <2>1. CASE t \in had
        BY <1>3, <1>4, <2>1
    <2>2. CASE Inserts(todo, t)
        BY <1>4, <1>5, <2>2
    <2> QED BY <1>3, <2>1, <2>2
<1>9. ASSUME NEW t \in after \ Range(asked) PROVE Deletes(rest, t)
    <2>1. t \in had /\ (s.op = "delete" => s.tag # t)
        <3>1. CASE s.op = "insert"
            BY <1>3, <1>4, <1>9, <3>1
        <3>2. CASE s.op # "insert"
            BY <1>4, <1>9, <3>2
        <3> QED BY <3>1, <3>2
    <2> QED BY <1>3, <1>6, <1>9, <2>1
<1> QED BY <1>7, <1>8, <1>9 DEF OnTheWay, rest

LEMMA PlanIsOnTheWay ==
    ASSUME StoreShape, NEW o \in Object, NEW asked \in Seq(Tag)
    PROVE  OnTheWay(TagsOf(o), asked, PlanOf(asked, SetToSeq(TagsOf(o))))
<1> DEFINE had == SetToSeq(TagsOf(o))
           todo == PlanOf(asked, had)
<1>1. had \in Seq(Tag) /\ Distinct(had) /\ Range(had) = TagsOf(o)
    <2>1. had \in TagAnswers(o)
        BY DEF TagAnswers
    <2> HIDE DEF had
    <2>2. had \in Seq(Tag) /\ Distinct(had)
        BY <2>1, TagsOfTyped DEF StoreShape
    <2> QED BY <2>2, TagsOfTyped DEF StoreShape, had
<1> HIDE DEF had
<1>2. /\ \A k \in DOMAIN todo :
            \/ todo[k].op = "insert" /\ todo[k].tag \in Range(asked)
            \/ todo[k].op = "delete" /\ todo[k].tag \in Range(had) \ Range(asked)
      /\ \A t \in Range(asked) : t \in Range(had) \/ Inserts(todo, t)
      /\ \A t \in Range(had) \ Range(asked) : Deletes(todo, t)
    BY <1>1, PlanChanges
<1> HIDE DEF todo
<1>3. OnTheWay(TagsOf(o), asked, todo)
    BY <1>1, <1>2 DEF OnTheWay
<1> QED BY <1>3 DEF todo, had

(* The tags of the other objects are left alone. *)
LEMMA OtherTagsStay ==
    ASSUME StoreShape, NEW w \in Worker, WorkerGoesOn(w), NEW o \in Task, o # work[w].object
    PROVE  TagsOf(o)' = TagsOf(o)
<1>1. ASSUME UNCHANGED tags PROVE TagsOf(o)' = TagsOf(o)
    BY <1>1 DEF TagsOf
<1>2. CASE TagStatement(w)
    <2> DEFINE row == <<work[w].object, "task", Head(work[w].todo).tag>>
    <2>1. tags' = tags \cup {row} \/ tags' = tags \ {row} \/ UNCHANGED tags
        BY <1>2 DEF TagStatement
    <2>2. \A t \in Tag : <<o, KindOf(o), t>> # row
        OBVIOUS
    <2> HIDE DEF row
    <2> QED BY <2>1, <2>2 DEF TagsOf
<1>3. CASE DeleteTagsForObject(w)
    <2>1. UNCHANGED tags \/ tags' = {t \in tags : t[1] # work[w].object}
        BY <1>3 DEF DeleteTagsForObject
    <2>2. \A t \in Tag : <<o, KindOf(o), t>>[1] # work[w].object
        OBVIOUS
    <2> QED BY <2>1, <2>2 DEF TagsOf
<1> QED BY <1>1, <1>2, <1>3 DEF WorkerGoesOn, Load, Refuse, Plan, InsertObject, DeleteRow

LEMMA ExclusiveStays == TagsInv /\ [StoreNext]_storeVars => Exclusive'
<1> SUFFICES ASSUME StoreShape, Exclusive, [StoreNext]_storeVars PROVE Exclusive'
    BY DEF TagsInv
<1>1. ASSUME UNCHANGED work PROVE Exclusive'
    BY <1>1 DEF Exclusive
<1>2. ASSUME NEW w \in Worker, WorkerBegins(w) PROVE Exclusive'
    <2>1. SUFFICES ASSUME NEW job \in Working, Joins(w, job) PROVE Exclusive'
        BY <1>1, <1>2, BeginningShape DEF WorkerBegins
    <2>2. SUFFICES ASSUME NEW u \in Worker, NEW v \in Worker, u # v, work'[u] # Idle, work'[v] # Idle,
                          work'[u].object = work'[v].object
                   PROVE  ~work'[u].alone
        BY DEF Exclusive
    <2> DEFINE shared(x) == SharedBy(x, job.object)
               b == \A x \in Worker : ~(x # w /\ shared(x))
    <2>3. b \in BOOLEAN /\ work'[w] = [job EXCEPT !.alone = b] /\ work[w] = Idle
        BY <2>1 DEF Joins
    <2>4. work'[w].alone = b /\ work'[w].object = job.object
        <3> HIDE DEF b
        <3> QED BY <2>3, AnyAlone
    <2>5. ASSUME NEW x \in Worker, x # w
          PROVE  /\ shared(x) => work'[x].object = work[x].object /\ ~work'[x].alone
                 /\ ~shared(x) => work'[x] = work[x]
        <3>1. shared(x) => work'[x] = [work[x] EXCEPT !.alone = FALSE] /\ work[x] \in Working
            BY <2>1, <2>5, IdleOrWorking DEF Joins, SharedBy
        <3>2. ~shared(x) => work'[x] = work[x]
            BY <2>1, <2>5 DEF Joins
        <3> HIDE DEF shared
        <3> QED BY <3>1, <3>2, AnyAlone
    <2>6. ASSUME NEW x \in Worker, x # w, work'[x] # Idle, work'[x].object = job.object PROVE shared(x)
        BY <2>5, <2>6 DEF SharedBy
    <2>7. CASE u = w
        <3>1. shared(v) /\ v # w
            BY <2>2, <2>4, <2>6, <2>7
        <3> HIDE DEF shared
        <3> QED BY <2>4, <2>7, <3>1
    <2>8. CASE u # w /\ v = w
        <3>1. shared(u)
            BY <2>2, <2>4, <2>6, <2>8
        <3> HIDE DEF shared
        <3> QED BY <2>5, <2>8, <3>1
    <2>9. CASE u # w /\ v # w
        <3>1. CASE shared(u)
            <4> HIDE DEF shared
            <4> QED BY <2>5, <2>9, <3>1
        <3>2. CASE ~shared(u)
            <4>1. work'[u] = work[u]
                BY <2>5, <2>9, <3>2
            <4>2. work[v] # Idle /\ work'[v].object = work[v].object
                <5>1. shared(v) => work[v] # Idle
                    BY DEF SharedBy
                <5> HIDE DEF shared
                <5> QED BY <2>2, <2>5, <2>9, <5>1
            <4> QED BY <2>2, <4>1, <4>2 DEF Exclusive
        <3> QED BY <3>1, <3>2
    <2> QED BY <2>7, <2>8, <2>9
<1>3. ASSUME NEW w \in Worker, WorkerGoesOn(w) PROVE Exclusive'
    <2>1. PICK j : JobGoesOn(w, j)
        BY <1>3, WorkShape DEF WorkerGoesOn
    <2>2. /\ work[w] # Idle /\ \A v \in Worker : v # w => work'[v] = work[v]
          /\ work'[w] = j
        BY <2>1, IdleOrWorking DEF JobGoesOn, StoreShape
    <2>3. work'[w] # Idle => work'[w].object = work[w].object /\ (work'[w].alone => work[w].alone)
        BY <2>1, <2>2 DEF JobGoesOn
    <2> QED BY <2>2, <2>3 DEF Exclusive
<1>4. ASSUME NEW l \in Lister, ListerSteps(l) PROVE Exclusive'
    BY <1>1, <1>4, ListShape DEF ListerSteps
<1> QED BY <1>1, <1>2, <1>3, <1>4, StoreSteps DEF storeVars

LEMMA PlannedStays == TagsInv /\ [StoreNext]_storeVars => TagsPlanned'
<1> SUFFICES ASSUME StoreShape, Exclusive, TagsPlanned, [StoreNext]_storeVars PROVE TagsPlanned'
    BY DEF TagsInv
<1>1. ASSUME NEW w \in Worker, UNCHANGED tags, work'[w] = work[w], work[w] # Idle
      PROVE  IsPlanned(work[w])'
    <2>1. IsPlanned(work[w])
        BY <1>1 DEF TagsPlanned
    <2> QED BY <1>1, <2>1 DEF IsPlanned, TagsOf
<1>2. ASSUME UNCHANGED <<work, tags>> PROVE TagsPlanned'
    BY <1>1, <1>2 DEF TagsPlanned
<1>3. ASSUME NEW w \in Worker, WorkerBegins(w) PROVE TagsPlanned'
    <2>0. UNCHANGED tags
        BY <1>3 DEF WorkerBegins, CreateTask, CreateAction, Update, Execute, Delete
    <2>1. SUFFICES ASSUME NEW job \in Working, Joins(w, job), job.object \in Task => job.pc # "insert"
                   PROVE  TagsPlanned'
        BY <1>2, <1>3, <2>0, BeginningShape DEF WorkerBegins
    <2>2. SUFFICES ASSUME NEW v \in Worker, work'[v] # Idle PROVE IsPlanned(work[v])'
        BY DEF TagsPlanned
    <2>3. CASE v = w
        <3>1. PICK b \in BOOLEAN : work'[w] = [job EXCEPT !.alone = b]
            BY <2>1 DEF Joins
        <3>2. work'[w].pc = job.pc /\ work'[w].object = job.object
            BY <3>1, AnyAlone
        <3> QED BY <2>1, <2>3, <3>2 DEF IsPlanned
    <2>4. CASE v # w /\ SharedBy(v, job.object)
        <3>1. work'[v] = [work[v] EXCEPT !.alone = FALSE] /\ work[v] \in Working
            BY <2>1, <2>4, IdleOrWorking DEF Joins, SharedBy
        <3>2. ~work'[v].alone
            BY <3>1, AnyAlone
        <3> QED BY <3>2 DEF IsPlanned
    <2>5. CASE v # w /\ ~SharedBy(v, job.object)
        <3>1. work'[v] = work[v]
            BY <2>1, <2>5 DEF Joins
        <3> QED BY <1>1, <2>0, <2>2, <3>1
    <2> QED BY <2>3, <2>4, <2>5
<1>4. ASSUME NEW w \in Worker, WorkerGoesOn(w) PROVE TagsPlanned'
    <2>1. PICK i : JobGoesOn(w, i)
        BY <1>4, WorkShape DEF WorkerGoesOn
    <2>2. work[w] # Idle /\ \A v \in Worker : v # w => work'[v] = work[v]
        BY <2>1, IdleOrWorking DEF JobGoesOn, StoreShape
    <2>3. SUFFICES ASSUME NEW v \in Worker, work'[v] # Idle PROVE IsPlanned(work[v])'
        BY DEF TagsPlanned
    <2>4. CASE v # w
        <3>1. work'[v] = work[v] /\ IsPlanned(work[v])
            BY <2>2, <2>3, <2>4 DEF TagsPlanned
        <3>2. SUFFICES ASSUME work[v].pc = "insert", work[v].object \in Task, work[v].alone
                       PROVE  OnTheWay(TagsOf(work[v].object)', work[v].asked, work[v].todo)
            BY <3>1 DEF IsPlanned
        <3>3. work[v].object # work[w].object
            BY <2>2, <2>3, <2>4, <3>1, <3>2 DEF Exclusive
        <3>4. TagsOf(work[v].object)' = TagsOf(work[v].object)
            <4> DEFINE o == work[v].object
            <4>1. o \in Task /\ o # work[w].object
                BY <3>2, <3>3
            <4>2. \A p \in Task : p # work[w].object => TagsOf(p)' = TagsOf(p)
                BY <1>4, OtherTagsStay
            <4> QED BY <3>1, <4>1, <4>2 DEF TagsOf
        <3> QED BY <3>1, <3>2, <3>4 DEF IsPlanned
    <2>5. CASE v = w
        <3>1. SUFFICES ASSUME NEW j \in Working, JobGoesOn(w, j), j.pc = "insert", j.object \in Task, j.alone,
                              work'[w] = j
                       PROVE  OnTheWay(TagsOf(j.object)', j.asked, j.todo)
            <4>1. i = work'[w] /\ i \in Working
                BY <2>1, <2>3, <2>5, IdleOrWorking DEF JobGoesOn, StoreShape
            <4>2. work'[w].pc = "insert" /\ work'[w].object \in Task /\ work'[w].alone
                      => OnTheWay(TagsOf(i.object)', work'[w].asked, work'[w].todo)
                BY <2>1, <3>1, <4>1
            <4>3. TagsOf(work[w].object)' = TagsOf(i.object)'
                BY <4>1 DEF TagsOf
            <4> QED BY <2>5, <4>2, <4>3 DEF IsPlanned
        <3>2. work'[w] = j /\ j # Idle /\ work[w] \in Working /\ j.object = work[w].object /\ work[w].alone
            <4>1. j # Idle
                BY <3>1 DEF Idle
            <4> QED BY <3>1, <4>1 DEF JobGoesOn
        <3>3. CASE Load(w) \/ Refuse(w) \/ InsertObject(w) \/ DeleteTagsForObject(w) \/ DeleteRow(w)
            <4>1. \E k \in {Idle} \cup Working : JobGoesOn(w, k) /\ k.pc # "insert"
                BY <3>3, LoadContinues, RestContinues DEF Idle
            <4>2. work'[w].pc # "insert"
                BY <4>1 DEF JobGoesOn, StoreShape
            <4> QED BY <3>1, <3>2, <4>2
        <3>4. CASE Plan(w)
            <4>1. PICK k \in Working :
                      /\ JobGoesOn(w, k) /\ k.asked = work[w].asked
                      /\ \E had \in TagAnswers(work[w].object) :
                            /\ k.todo = PlanOf(work[w].asked, had)
                            /\ k.alone => had = SetToSeq(TagsOf(work[w].object))
                BY <3>4, PlanContinues
            <4>2. k = j
                BY <3>2, <4>1 DEF JobGoesOn, StoreShape
            <4> DEFINE o == work[w].object
            <4>3. j.asked = work[w].asked /\ j.todo = PlanOf(work[w].asked, SetToSeq(TagsOf(o)))
                BY <3>1, <4>1, <4>2
            <4>4. o \in Object /\ work[w].asked \in Seq(Tag)
                BY <3>2 DEF Working, Jobs
            <4>5. OnTheWay(TagsOf(o), work[w].asked, PlanOf(work[w].asked, SetToSeq(TagsOf(o))))
                BY <4>4, PlanIsOnTheWay
            <4>6. TagsOf(j.object)' = TagsOf(o)
                <5>1. UNCHANGED tags /\ j.object = o
                    BY <3>2, <3>4 DEF Plan
                <5> QED BY <5>1 DEF TagsOf
            <4> QED BY <4>3, <4>5, <4>6
        <3>5. CASE TagStatement(w)
            <4> DEFINE o == work[w].object
                       s == Head(work[w].todo)
                       row == {<<o, "task", s.tag>>}
            <4>1. PICK k \in Working :
                      /\ JobGoesOn(w, k) /\ o \in Task /\ work[w].pc = "insert"
                      /\ k.asked = work[w].asked
                      /\ work[w].todo \in Seq(Statements) /\ work[w].todo # <<>>
                      /\ k.todo = Tail(work[w].todo)
                      /\ k.alone => tags' = IF s.op = "insert" THEN tags \cup row ELSE tags \ row
                BY <3>5, TagStatementContinues
            <4>2. k = j
                BY <3>2, <4>1 DEF JobGoesOn, StoreShape
            <4>3. tags' = IF s.op = "insert" THEN tags \cup row ELSE tags \ row
                BY <3>1, <4>1, <4>2
            <4>4. s \in Statements /\ s.tag \in Tag
                <5>1. s \in Statements
                    BY <4>1, HeadAndTail
                <5> HIDE DEF s
                <5> QED BY <5>1 DEF Statements
            <4> DEFINE had == TagsOf(o)
                       after == IF s.op = "insert" THEN had \cup {s.tag} ELSE had \ {s.tag}
            <4>5. TagsOf(j.object)' = after
                <5>1. KindOf(o) = "task" /\ j.object = o
                    BY <3>2, <4>1 DEF KindOf
                <5>2. TagsOf(j.object)' = {t \in Tag : <<o, "task", t>> \in tags'}
                    BY <5>1 DEF TagsOf
                <5>3. had = {t \in Tag : <<o, "task", t>> \in tags}
                    BY <5>1 DEF TagsOf
                <5>4. \A t \in Tag : <<o, "task", t>> \in row <=> t = s.tag
                    <6> HIDE DEF s, o
                    <6> QED OBVIOUS
                <5> HIDE DEF had, row, s, o
                <5>5. CASE s.op = "insert"
                    <6>1. tags' = tags \cup row /\ after = had \cup {s.tag}
                        BY <4>3, <5>5
                    <6> HIDE DEF after
                    <6> QED BY <4>4, <5>2, <5>3, <5>4, <6>1
                <5>6. CASE s.op # "insert"
                    <6>1. tags' = tags \ row /\ after = had \ {s.tag}
                        BY <4>3, <5>6
                    <6> HIDE DEF after
                    <6> QED BY <4>4, <5>2, <5>3, <5>4, <6>1
                <5> QED BY <5>5, <5>6
            <4>6. OnTheWay(had, work[w].asked, work[w].todo)
                BY <2>2, <3>2, <4>1 DEF TagsPlanned, IsPlanned
            <4>7. work[w].asked \in Seq(Tag)
                BY <3>2 DEF Working, Jobs
            <4>8. OnTheWay(after, work[w].asked, Tail(work[w].todo))
                <5> DEFINE todo == work[w].todo
                           asked == work[w].asked
                <5>1. /\ todo \in Seq(Statements) /\ todo # <<>> /\ asked \in Seq(Tag) /\ OnTheWay(had, asked, todo)
                      /\ after = IF Head(todo).op = "insert" THEN had \cup {Head(todo).tag} ELSE had \ {Head(todo).tag}
                    BY <4>1, <4>6, <4>7
                <5> HIDE DEF todo, asked, had, after
                <5>2. OnTheWay(after, asked, Tail(todo))
                    BY <5>1, OneStatement
                <5> QED BY <5>2 DEF todo, asked
            <4> QED BY <4>1, <4>2, <4>5, <4>8
        <3> QED BY <1>4, <3>3, <3>4, <3>5 DEF WorkerGoesOn
    <2> QED BY <2>4, <2>5
<1>5. ASSUME NEW l \in Lister, ListerSteps(l) PROVE TagsPlanned'
    BY <1>2, <1>5, ListShape DEF ListerSteps
<1> QED BY <1>2, <1>3, <1>4, <1>5, StoreSteps DEF storeVars

(* Whatever tags a task had, whatever list of tags a request asks for, with  *)
(* tags twice or in another order, and however many handlers are at work on  *)
(* other objects: when SetTagsForObject is through, and no call of it failed *)
(* and no other handler began with the task, its tags are those.             *)
THEOREM TagsAreSet == StoreSpec => []TagsAsAsked
<1>1. StoreInit => TagsInv
    <2>1. StoreInit => Exclusive /\ TagsPlanned
        BY DEF StoreInit, Exclusive, TagsPlanned
    <2> QED BY <2>1, InitShape DEF TagsInv
<1>2. TagsInv /\ [StoreNext]_storeVars => TagsInv'
    BY NextShape, ExclusiveStays, PlannedStays DEF TagsInv
<1>3. TagsInv => TagsAsAsked
    <2> SUFFICES ASSUME TagsInv, NEW w \in Worker, work[w].pc = "insert", ~Tagging(w),
                        work[w].object \in Task, work[w].alone
                 PROVE  TagsOf(work[w].object) = Range(work[w].asked)
        BY DEF TagsAsAsked
    <2> DEFINE had == TagsOf(work[w].object)
               asked == work[w].asked
    <2>1. work[w] # Idle
        BY IdleOrWorking DEF TagsInv
    <2>2. OnTheWay(had, asked, work[w].todo)
        BY <2>1 DEF TagsInv, TagsPlanned, IsPlanned
    <2>3. work[w].todo = <<>>
        BY DEF Tagging
    <2>4. ~(\E t : Inserts(<<>>, t)) /\ ~(\E t : Deletes(<<>>, t))
        BY DEF Inserts, Deletes
    <2> HIDE DEF had, asked
    <2>5. had = Range(asked)
        BY <2>2, <2>3, <2>4 DEF OnTheWay
    <2> QED BY <2>5 DEF had, asked
<1> QED BY <1>1, <1>2, <1>3, PTL DEF StoreSpec

-----------------------------------------------------------------------------
(* Where an object that a list is to have is: in its answer, in the struct   *)
(* that is about to join it, or among what is left to be read.               *)
Answered(r, o) == \E i \in DOMAIN r.entries : r.entries[i].struct.uuid = o
Scanned(r, o) == r.pc = "tags" /\ r.struct.uuid = o
UUIDOf(tag, x) == IF tag = All THEN x[1] ELSE x
StillLeft(r, o) == \E i \in DOMAIN r.left : UUIDOf(r.tag, r.left[i]) = o

OnTheList(r) ==
    /\ \A o \in r.expect : Answered(r, o) \/ Scanned(r, o) \/ StillLeft(r, o)
    /\ r.tag = All => Len(r.left) + (IF r.pc = "tags" THEN 1 ELSE 0) + Len(r.entries)
                          = Cardinality(r.expect)

(* The tasks with a tag are still there when their turn comes.              *)
StillThere(r) == r.tag # All => \A o \in r.expect : o \in Task /\ tables[o] # NoRow

ListsInv ==
    /\ StoreShape
    /\ \A l \in Lister : list[l] # Idle /\ ~list[l].failed => OnTheList(list[l]) /\ StillThere(list[l])

LEMMA ReadFields ==
    ASSUME NEW r, NEW struct, NEW failed
    PROVE  /\ Read(r, struct, failed).pc = "tags" /\ Read(r, struct, failed).tag = r.tag
           /\ Read(r, struct, failed).left = Tail(r.left) /\ Read(r, struct, failed).struct = struct
           /\ Read(r, struct, failed).entries = r.entries /\ Read(r, struct, failed).expect = r.expect
           /\ Read(r, struct, failed).failed = failed /\ Read(r, struct, failed).kind = r.kind
BY DEF Read, ListRecord

(* A row, or UUID, that is read is that of the struct. *)
LEMMA ReadOnTheList ==
    ASSUME NEW r \in Listing, r.pc = "scan", r.left # <<>>, OnTheList(r), NEW struct, NEW failed,
           UUIDOf(r.tag, Head(r.left)) \in r.expect => struct.uuid = UUIDOf(r.tag, Head(r.left))
    PROVE  OnTheList(Read(r, struct, failed))
<1> DEFINE f == Read(r, struct, failed)
           n == Len(r.left)
           rest == Tail(r.left)
<1>0. r.left \in Seq(LeftOf(r.kind, r.tag)) /\ r.entries \in Seq(EntriesOf(r.kind))
    BY ListingFacts
<1>1. /\ n \in Nat \ {0} /\ DOMAIN r.left = 1 .. n /\ DOMAIN rest = 1 .. n - 1 /\ Len(rest) = n - 1
      /\ Head(r.left) = r.left[1] /\ \A k \in 1 .. n - 1 : rest[k] = r.left[k + 1]
    BY <1>0
<1>2. /\ f.pc = "tags" /\ f.tag = r.tag /\ f.left = rest /\ f.struct = struct
      /\ f.entries = r.entries /\ f.expect = r.expect
    BY ReadFields
<1> HIDE DEF f, n, rest
<1>3. ASSUME NEW o \in r.expect PROVE Answered(f, o) \/ Scanned(f, o) \/ StillLeft(f, o)
    <2>1. CASE Answered(r, o)
        BY <1>2, <2>1 DEF Answered
    <2>2. CASE StillLeft(r, o)
        <3>1. PICK i \in 1 .. n : UUIDOf(r.tag, r.left[i]) = o
            BY <1>1, <2>2 DEF StillLeft
        <3>2. CASE i = 1
            <4>1. struct.uuid = o
                BY <1>1, <3>1, <3>2
            <4> QED BY <1>2, <4>1 DEF Scanned
        <3>3. CASE i # 1
            <4>1. i - 1 \in 1 .. n - 1 /\ rest[i - 1] = r.left[i]
                BY <1>1, <3>3
            <4> QED BY <1>1, <1>2, <3>1, <4>1 DEF StillLeft
        <3> QED BY <3>2, <3>3
    <2> QED BY <2>1, <2>2 DEF OnTheList, Scanned
<1>4. ASSUME r.tag = All
      PROVE  Len(f.left) + 1 + Len(f.entries) = Cardinality(f.expect)
    <2>1. Len(r.left) + 0 + Len(r.entries) = Cardinality(r.expect)
        BY <1>4 DEF OnTheList
    <2>2. Len(r.entries) \in Nat
        BY <1>0
    <2>3. Len(r.left) \in Nat /\ Len(f.left) = Len(r.left) - 1
        BY <1>1, <1>2 DEF n
    <2>4. Len(f.left) + 1 + Len(f.entries) = Len(r.left) + 0 + Len(r.entries)
        BY <1>2, <2>2, <2>3
    <2> QED BY <1>2, <2>1, <2>4, Zenon
<1> QED BY <1>2, <1>3, <1>4 DEF OnTheList, f

LEMMA JoinedOnTheList ==
    ASSUME NEW r \in Listing, r.pc = "tags", OnTheList(r), NEW had,
           NEW f, f = ListRecord("scan", r.kind, r.tag, r.left, r.struct,
                                 Append(r.entries, Entry(r.struct, had)), r.expect, r.failed)
    PROVE  OnTheList(f)
<1> DEFINE n == Len(r.entries)
           entry == Entry(r.struct, had)
           more == Append(r.entries, entry)
<1>0. r.left \in Seq(LeftOf(r.kind, r.tag)) /\ r.entries \in Seq(EntriesOf(r.kind))
    BY ListingFacts
<1>1. entry.struct = r.struct
    BY DEF Entry
<1> HIDE DEF entry
<1>2. /\ n \in Nat /\ DOMAIN r.entries = 1 .. n /\ Len(more) = n + 1 /\ DOMAIN more = 1 .. n + 1
      /\ more[n + 1] = entry /\ \A i \in 1 .. n : more[i] = r.entries[i]
    BY <1>0
<1>3. /\ f.pc = "scan" /\ f.tag = r.tag /\ f.left = r.left /\ f.struct = r.struct
      /\ f.entries = more /\ f.expect = r.expect
    BY DEF ListRecord, entry
<1> HIDE DEF n, more
<1>4. ASSUME NEW o \in r.expect PROVE Answered(f, o) \/ Scanned(f, o) \/ StillLeft(f, o)
    <2>1. CASE Answered(r, o)
        <3>1. PICK i \in 1 .. n : r.entries[i].struct.uuid = o
            BY <1>2, <2>1 DEF Answered
        <3>2. i \in DOMAIN more /\ more[i] = r.entries[i]
            BY <1>2
        <3> QED BY <1>3, <3>1, <3>2 DEF Answered
    <2>2. CASE Scanned(r, o)
        <3>1. n + 1 \in DOMAIN more /\ more[n + 1].struct.uuid = o
            BY <1>1, <1>2, <2>2 DEF Scanned
        <3> QED BY <1>3, <3>1 DEF Answered
    <2>3. CASE StillLeft(r, o)
        BY <1>3, <2>3 DEF StillLeft
    <2> QED BY <2>1, <2>2, <2>3 DEF OnTheList
<1>5. ASSUME r.tag = All
      PROVE  Len(f.left) + 0 + Len(f.entries) = Cardinality(f.expect)
    <2>1. Len(r.left) + 1 + Len(r.entries) = Cardinality(r.expect)
        BY <1>5 DEF OnTheList
    <2>2. Len(r.left) \in Nat
        BY <1>0
    <2>3. Len(f.entries) = Len(r.entries) + 1 /\ Len(r.entries) \in Nat
        BY <1>2, <1>3 DEF n
    <2>4. Len(f.left) + 0 + Len(f.entries) = Len(r.left) + 1 + Len(r.entries)
        <3>1. Len(f.left) = Len(r.left)
            BY <1>3
        <3>2. \A a, b \in Nat : a + 0 + (b + 1) = a + 1 + b
            OBVIOUS
        <3>3. Len(r.left) + 0 + (Len(r.entries) + 1) = Len(r.left) + 1 + Len(r.entries)
            BY <2>2, <2>3, <3>2
        <3> QED BY <2>3, <3>1, <3>3, Zenon
    <2> QED BY <1>3, <2>1, <2>4, Zenon
<1> QED BY <1>3, <1>4, <1>5 DEF OnTheList

LEMMA AskedOnTheList ==
    ASSUME StoreShape, NEW r, Asking(r), ~r.failed
    PROVE  OnTheList(r) /\ StillThere(r)
<1>1. ASSUME NEW kind \in Kinds, r = NewList(kind, All, RowsListed(kind), Listed(kind), FALSE)
      PROVE  OnTheList(r) /\ StillThere(r)
    <2> DEFINE none == <<>>
    <2>1. /\ r.pc = "scan" /\ r.tag = All /\ r.left = RowsListed(kind) /\ r.entries = none
          /\ r.expect = Listed(kind)
        BY <1>1 DEF NewList
    <2>2. Len(none) = 0
        OBVIOUS
    <2> HIDE DEF none
    <2>3. ASSUME NEW o \in Listed(kind) PROVE StillLeft(r, o)
        <3>1. o \in Object /\ tables[o] # NoRow
            BY DEF Listed
        <3>2. tables[o] \in RowsOfObject(o)
            BY <3>1 DEF StoreShape, TablesShape
        <3>3. tables[o][1] = o
            BY <3>2 DEF RowsOfObject, TaskRows, ActionRows
        <3>4. PICK i \in DOMAIN r.left : r.left[i] = tables[o]
            BY <2>1, RowsListedTyped
        <3> QED BY <2>1, <3>3, <3>4 DEF StillLeft, UUIDOf
    <2>4. Len(r.left) + 0 + Len(r.entries) = Cardinality(r.expect)
        BY <2>1, <2>2, RowsListedTyped
    <2> QED BY <2>1, <2>3, <2>4 DEF OnTheList, StillThere
<1>2. ASSUME NEW kind \in Kinds, NEW tag \in Tag,
             r = NewList(kind, tag, SetToSeq(Tagged(kind, tag)), Tagged(kind, tag) \cap Listed(kind), FALSE)
      PROVE  OnTheList(r) /\ StillThere(r)
    <2>1. /\ r.tag = tag /\ tag # All /\ r.left = SetToSeq(Tagged(kind, tag))
          /\ r.expect = Tagged(kind, tag) \cap Listed(kind)
        BY <1>2, TagsAssumption DEF NewList
    <2>2. Range(r.left) = Tagged(kind, tag)
        BY <2>1, TaggedTyped
    <2>3. ASSUME NEW o \in r.expect PROVE StillLeft(r, o)
        <3>1. PICK i \in DOMAIN r.left : r.left[i] = o
            BY <2>1, <2>2 DEF Range
        <3> QED BY <2>1, <3>1 DEF StillLeft, UUIDOf
    <2>4. ASSUME NEW o \in r.expect PROVE o \in Task /\ tables[o] # NoRow
        <3>1. <<o, kind, tag>> \in Task \X {"task"} \X Tag
            BY <2>1 DEF Tagged, StoreShape, TagsShape
        <3> QED BY <2>1, <3>1 DEF Listed
    <2> QED BY <2>1, <2>3, <2>4 DEF OnTheList, StillThere
<1>3. ASSUME NEW kind \in Kinds, NEW tag \in Tag \cup {All}, NEW expect \in SUBSET ObjectsOf(kind),
             r = NewList(kind, tag, <<>>, expect, TRUE)
      PROVE  FALSE
    BY <1>3 DEF NewList
<1> QED BY <1>1, <1>2, <1>3 DEF Asking

LEMMA ListsStay == ListsInv /\ [StoreNext]_storeVars => ListsInv'
<1> SUFFICES ASSUME ListsInv, [StoreNext]_storeVars PROVE ListsInv'
    OBVIOUS
<1>0. StoreShape /\ StoreShape'
    BY NextShape DEF ListsInv
<1>1. ASSUME UNCHANGED list, \A o \in Task : tables[o] # NoRow => tables'[o] # NoRow PROVE ListsInv'
    <2>1. ASSUME NEW l \in Lister, list[l] # Idle, ~list[l].failed
          PROVE  OnTheList(list[l]) /\ StillThere(list[l])'
        BY <1>1, <2>1 DEF ListsInv, StillThere
    <2>2. \A l \in Lister : OnTheList(list[l])' = OnTheList(list'[l])
        OBVIOUS
    <2> QED BY <1>0, <1>1, <2>1 DEF ListsInv
<1>2. ASSUME NEW l \in Lister, ListerSteps(l) PROVE ListsInv'
    <2>0. UNCHANGED tables /\ \E f : list' = [list EXCEPT ![l] = f]
        BY <1>0, <1>2, ListShape DEF ListerSteps
    <2> DEFINE r == list[l]
               f == list'[l]
    <2>1. SUFFICES ASSUME f # Idle, ~f.failed PROVE OnTheList(f) /\ StillThere(f)
        <3>1. ASSUME NEW k \in Lister, list'[k] # Idle, ~list'[k].failed
              PROVE  OnTheList(list'[k]) /\ StillThere(list'[k])
            <4>1. CASE k = l
                BY <2>1, <3>1, <4>1
            <4>2. CASE k # l
                <5>1. list'[k] = list[k]
                    BY <2>0, <4>2
                <5> QED BY <3>1, <5>1 DEF ListsInv
            <4> QED BY <4>1, <4>2
        <3>2. \A k \in Lister : StillThere(list[k])' <=> StillThere(list'[k])
            BY <2>0 DEF StillThere
        <3> QED BY <1>0, <3>1, <3>2 DEF ListsInv
    <2>2. ASSUME NEW x, list' = [list EXCEPT ![l] = x] PROVE f = x
        BY <1>0, <2>2 DEF StoreShape
    <2>3. CASE Get(l)
        <3>1. Asking(f)
            BY <1>0, <2>2, <2>3, GetAsks
        <3> QED BY <1>0, <2>1, <3>1, AskedOnTheList
    <2>4. CASE ScanAll(l)
        <3>1. /\ r \in Listing /\ r.pc = "scan" /\ r.tag = All /\ r.left # <<>>
              /\ \E o : Head(r.left)[1] = o
                    /\ \E struct : struct.uuid = o /\ list' = [list EXCEPT ![l] = Read(r, struct, r.failed)]
            BY <1>0, <2>4, ScanAllReads
        <3>2. PICK struct : /\ struct.uuid = UUIDOf(r.tag, Head(r.left))
                            /\ list' = [list EXCEPT ![l] = Read(r, struct, r.failed)]
            BY <3>1 DEF UUIDOf
        <3>3. f = Read(r, struct, r.failed)
            BY <2>2, <3>2
        <3> HIDE DEF f, r
        <3>4. ~r.failed /\ r # Idle
            BY <2>1, <3>1, <3>3, ReadFields DEF Idle
        <3>5. OnTheList(r) /\ StillThere(r)
            BY <3>4 DEF ListsInv, r
        <3>6. OnTheList(f)
            BY <3>1, <3>2, <3>3, <3>5, ReadOnTheList
        <3> QED BY <3>3, <3>5, <3>6, ReadFields DEF StillThere
    <2>5. CASE ScanTagged(l)
        <3> DEFINE o == Head(r.left)
        <3>1. r \in Listing /\ r.pc = "scan" /\ r.tag # All /\ r.left # <<>>
            BY <1>0, <2>5, ScanTaggedReads
        <3>2. PICK failed \in BOOLEAN, struct \in Structs(r.kind) :
                  /\ ~failed /\ tables[o] # NoRow => struct.uuid = o
                  /\ list' = [list EXCEPT ![l] = Read(r, struct, failed \/ r.failed)]
            BY <1>0, <2>5, ScanTaggedReads
        <3>3. f = Read(r, struct, failed \/ r.failed)
            BY <2>2, <3>2
        <3> HIDE DEF f, r
        <3>4. ~failed /\ ~r.failed
            <4> DEFINE either == failed \/ r.failed
            <4>1. f = Read(r, struct, either)
                BY <3>3
            <4> HIDE DEF either
            <4>2. f.failed = either
                BY <4>1, ReadFields
            <4>3. ~either
                BY <2>1, <4>2
            <4> QED BY <4>3 DEF either
        <3>5. r # Idle
            BY <3>1 DEF Idle
        <3>6. OnTheList(r) /\ StillThere(r)
            BY <3>4, <3>5 DEF ListsInv, r
        <3>7. UUIDOf(r.tag, Head(r.left)) \in r.expect => struct.uuid = UUIDOf(r.tag, Head(r.left))
            BY <3>1, <3>2, <3>4, <3>6 DEF UUIDOf, StillThere
        <3>8. OnTheList(f)
            BY <3>1, <3>3, <3>6, <3>7, ReadOnTheList
        <3> QED BY <3>3, <3>6, <3>8, ReadFields DEF StillThere
    <2>6. CASE LoadTags(l)
        <3>1. r \in Listing /\ r.pc = "tags"
            BY <1>0, <2>6, LoadTagsJoins
        <3>2. PICK had \in SUBSET Tag :
                  list' = [list EXCEPT ![l] =
                      ListRecord("scan", r.kind, r.tag, r.left, r.struct,
                                 Append(r.entries, Entry(r.struct, had)), r.expect, r.failed)]
            BY <1>0, <2>6, LoadTagsJoins
        <3>3. f = ListRecord("scan", r.kind, r.tag, r.left, r.struct,
                             Append(r.entries, Entry(r.struct, had)), r.expect, r.failed)
            BY <2>2, <3>2
        <3> HIDE DEF f, r
        <3>4. f.failed = r.failed /\ f.tag = r.tag /\ f.expect = r.expect /\ r # Idle
            BY <3>1, <3>3 DEF ListRecord, Idle
        <3>5. OnTheList(r) /\ StillThere(r)
            BY <2>1, <3>4 DEF ListsInv, r
        <3>6. OnTheList(f)
            BY <3>1, <3>3, <3>5, JoinedOnTheList
        <3> QED BY <3>4, <3>5, <3>6 DEF StillThere
    <2>7. CASE Answer(l)
        BY <2>1, <2>2, <2>7 DEF Answer
    <2> QED BY <1>2, <2>3, <2>4, <2>5, <2>6, <2>7 DEF ListerSteps
<1>3. ASSUME NEW w \in Worker, WorkerBegins(w) PROVE ListsInv'
    <2>1. UNCHANGED <<list, tables>>
        BY <1>3 DEF WorkerBegins, CreateTask, CreateAction, Update, Execute, Delete
    <2> QED BY <1>1, <2>1
<1>4. ASSUME NEW w \in Worker, WorkerGoesOn(w) PROVE ListsInv'
    BY <1>0, <1>1, <1>4, WorkShape DEF WorkerGoesOn
<1>5. CASE UNCHANGED storeVars
    BY <1>1, <1>5 DEF storeVars
<1> QED BY <1>2, <1>3, <1>4, <1>5, StoreSteps

(* However the handlers change the objects meanwhile, and however many there *)
(* are: a list none of whose calls failed has every object that was there    *)
(* when it was asked for, and one without a tag has nothing twice.           *)
THEOREM ListsComplete == StoreSpec => []ListsAreWhole
<1>1. StoreInit => ListsInv
    <2>1. StoreInit => \A l \in Lister : list[l] = Idle
        BY DEF StoreInit
    <2> QED BY <2>1, InitShape DEF ListsInv
<1>2. ListsInv => ListsAreWhole
    <2> SUFFICES ASSUME ListsInv, NEW l \in Lister, list[l].pc \in {"scan", "done"},
                        list[l].pc = "done" \/ list[l].left = <<>>, ~list[l].failed
                 PROVE  LET r == list[l]
                            uuids == {r.entries[i].struct.uuid : i \in DOMAIN r.entries}
                        IN  /\ r.expect \subseteq uuids
                            /\ r.tag = All => Len(r.entries) = Cardinality(r.expect)
        BY DEF ListsAreWhole
    <2> DEFINE r == list[l]
    <2>1. r # Idle /\ r \in Listing
        <3>1. r.pc # "idle"
            OBVIOUS
        <3> QED BY <3>1, IdleOrListing DEF ListsInv
    <2>2. r.pc = "scan" /\ r.left = <<>> /\ r.entries \in Seq(EntriesOf(r.kind))
        BY <2>1, ListingFacts
    <2>3. OnTheList(r)
        BY <2>1 DEF ListsInv
    <2> HIDE DEF r
    <2>4. \A o \in r.expect : Answered(r, o)
        BY <2>2, <2>3 DEF OnTheList, Scanned, StillLeft
    <2>5. ASSUME r.tag = All PROVE Len(r.entries) = Cardinality(r.expect)
        <3>1. Len(r.left) + 0 + Len(r.entries) = Cardinality(r.expect)
            BY <2>2, <2>3, <2>5 DEF OnTheList
        <3>2. Len(r.left) = 0 /\ Len(r.entries) \in Nat
            BY <2>2
        <3> QED BY <3>1, <3>2
    <2> QED BY <2>4, <2>5 DEF Answered, r
<1> QED BY <1>1, <1>2, ListsStay, PTL DEF StoreSpec

-----------------------------------------------------------------------------
(* Everything that is read was saved by somebody.                           *)
WrittenRow(o, row) ==
    \E s \in saved :
        /\ s \in Structs(KindOf(o)) /\ s.uuid = o /\ IsNear(KindOf(o), s)
        /\ RowOf(o, s) # Failed /\ row = RowOf(o, s)

WasSaved(struct) == \E s \in saved : s.uuid = struct.uuid /\ AsStored(s) = struct

RowsWereWritten == \A o \in Object : tables[o] # NoRow => WrittenRow(o, tables[o])
StructsAreNear == \A w \in Worker : work[w] # Idle => IsNear(KindOf(work[w].object), work[w].struct)

ReadsSaved(r) ==
    /\ r.tag = All => \A i \in DOMAIN r.left : \E o \in ObjectsOf(r.kind) : WrittenRow(o, r.left[i])
    /\ WasSaved(r.struct) \/ (r.struct = NewStruct(r.kind) /\ (r.tag = All => r.pc = "scan"))
    /\ \A i \in DOMAIN r.entries :
          \/ WasSaved(r.entries[i].struct)
          \/ r.tag # All /\ r.entries[i].struct = NewStruct(r.kind)

SavedInv ==
    /\ StoreShape /\ RowsWereWritten /\ StructsAreNear
    /\ \A l \in Lister : list[l] # Idle => ReadsSaved(list[l])

(* Whatever struct a written row is read into. *)
LEMMA WrittenComesBack ==
    ASSUME NEW o \in Object, NEW row, WrittenRow(o, row), NEW struct
    PROVE  WasSaved(ReadRow(KindOf(o), row, struct)) /\ IsNear(KindOf(o), ReadRow(KindOf(o), row, struct))
<1>1. PICK s \in saved : /\ s \in Structs(KindOf(o)) /\ s.uuid = o /\ IsNear(KindOf(o), s)
                         /\ RowOf(o, s) # Failed /\ row = RowOf(o, s)
    BY DEF WrittenRow
<1> DEFINE read == ReadRow(KindOf(o), row, struct)
<1>2. read = AsStored(s) /\ AsStored(s).uuid = o
    BY <1>1, ComesBack
<1>3. WasSaved(read)
    BY <1>1, <1>2 DEF WasSaved
<1>4. IsNear(KindOf(o), read)
    <2>1. CASE KindOf(o) = "task"
        <3> DEFINE v == Quot(s.when, NanosPerMilli) * NanosPerMilli
        <3>1. s \in TaskStructs /\ s.when \in -8 .. 7
            BY <1>1, <2>1, Widths DEF Structs, IsNear, Near
        <3>2. AsStored(s).when = v
            <4>1. "when" \in DOMAIN s
                BY <3>1 DEF TaskStructs
            <4>2. AsStored(s) = [s EXCEPT !.when = v]
                BY <4>1 DEF AsStored
            <4> HIDE DEF v
            <4> QED BY <3>1, <4>2 DEF TaskStructs
        <3>3. v \in -8 .. 7
            BY <3>1, Widths DEF Quot
        <3> HIDE DEF v, read
        <3> QED BY <1>2, <3>2, <3>3, Widths DEF IsNear, Near
    <2>2. CASE KindOf(o) # "task"
        BY <2>2 DEF IsNear
    <2> QED BY <2>1, <2>2
<1> QED BY <1>3, <1>4

(* The task that a handler has is near if what it was and what is asked are. *)
LEMMA RepairedIsNear ==
    ASSUME NEW s \in TaskStructs, NEW body \in Body, TimesFit,
           s.when = ZeroTime \/ s.when \in Near
    PROVE  Repair(Decode(body, s)).when \in Near
<1> DEFINE d == Decode(body, s)
<1>1. /\ d \in TaskStructs
      /\ d.when = IF "when" \in DOMAIN body THEN body.when ELSE s.when
    BY DecodeTyped, BodyAssumption
<1>2. d.when = ZeroTime \/ d.when \in Near
    BY <1>1 DEF TimesFit
<1> HIDE DEF d
<1>3. Repair(d).when = IF d.when = ZeroTime THEN Epoch1975 ELSE d.when
    BY <1>1, RepairTyped
<1>4. Epoch1975 \in Near
    BY Widths DEF Epoch1975, Near
<1> QED BY <1>2, <1>3, <1>4 DEF d

LEMMA BeginsNear ==
    ASSUME SavedInv, TimesFit, NEW w \in Worker, WorkerBegins(w)
    PROVE  \/ UNCHANGED work
           \/ \E job \in Working : Joins(w, job) /\ IsNear(KindOf(job.object), job.struct)
<1>0. StoreShape
    BY DEF SavedInv
<1> DEFINE Fine(job) == IsNear(KindOf(job.object), job.struct)
           none == <<>>
<1>1. SUFFICES UNCHANGED work \/ \E job \in Working : TakeOn(w, job) /\ Fine(job)
    BY <1>0, TakeOnJoins
<1>2. none \in Seq(Tag) /\ NoBody \in Body \cup {NoBody}
    OBVIOUS
<1> HIDE DEF none
<1>3. ASSUME NEW o \in Object, tables[o] # NoRow
      PROVE  IsNear(KindOf(o), StructOf(o)) /\ StructOf(o) \in Structs(KindOf(o)) /\ StructOf(o).uuid = o
    <2>1. /\ StructOf(o) \in Structs(KindOf(o)) /\ StructOf(o).uuid = o
          /\ StructOf(o) = ReadRow(KindOf(o), tables[o], NewStruct(KindOf(o)))
        BY <1>0, <1>3, StructOfTyped DEF StoreShape
    <2>2. WrittenRow(o, tables[o])
        BY <1>3 DEF SavedInv, RowsWereWritten
    <2> QED BY <2>1, <2>2, WrittenComesBack
<1>4. CASE CreateTask(w)
    <2>1. PICK o \in Task, body \in Body :
              TakeOn(w, Job("plan", o, Repair(Decode(body, [NewStruct("task") EXCEPT !.uuid = o])),
                            body, Asked(body, <<>>)))
        BY <1>4 DEF CreateTask
    <2> DEFINE a == [NewStruct("task") EXCEPT !.uuid = o]
               s == Repair(Decode(body, a))
    <2>2. s \in TaskStructs /\ s.uuid = o
        BY FirstStructs
    <2>3. o \in Object /\ KindOf(o) = "task" /\ Structs(KindOf(o)) = TaskStructs
        BY DEF Object, KindOf, Structs
    <2>4. Asked(body, <<>>) \in Seq(Tag)
        BY <1>2, AskedTyped DEF none
    <2>5. s.when \in Near
        <3>1. o \in UUID
            BY ObjectsAssumption
        <3>2. a \in TaskStructs /\ a.when = ZeroTime
            BY <3>1, NewStructTyped DEF NewStruct, Kinds, Structs, TaskStructs
        <3> HIDE DEF a
        <3> QED BY <3>2, RepairedIsNear
    <2> HIDE DEF s
    <2> DEFINE job == Job("plan", o, s, body, Asked(body, <<>>))
    <2>6. job \in Working /\ job.object = o /\ job.struct = s
        BY <2>2, <2>3, <2>4, JobWorks
    <2> QED BY <2>1, <2>3, <2>5, <2>6 DEF s, IsNear
<1>5. CASE CreateAction(w)
    <2>1. PICK o \in Action :
              TakeOn(w, Job("insert", o, [NewStruct("action") EXCEPT !.uuid = o], NoBody, <<>>))
        BY <1>5 DEF CreateAction
    <2> DEFINE s == [NewStruct("action") EXCEPT !.uuid = o]
    <2>2. s \in ActionStructs /\ s.uuid = o
        BY FirstStructs
    <2>3. o \in Object /\ o \notin Task /\ KindOf(o) = "action" /\ Structs(KindOf(o)) = ActionStructs
        BY ObjectsAssumption DEF Object, KindOf, Structs
    <2> HIDE DEF s
    <2> DEFINE job == Job("insert", o, s, NoBody, none)
    <2>4. job \in Working /\ job.object = o
        BY <1>2, <2>2, <2>3, JobWorks
    <2> QED BY <2>1, <2>3, <2>4 DEF s, none, IsNear
<1>6. CASE Update(w)
    <2>1. PICK o \in Object, body \in Body :
              \/ /\ o \in Task /\ tables[o] # NoRow
                 /\ TakeOn(w, Job("load", o, StructOf(o), body, <<>>))
              \/ UNCHANGED work
        BY <1>6 DEF Update
    <2>2. CASE o \in Task /\ tables[o] # NoRow /\ TakeOn(w, Job("load", o, StructOf(o), body, <<>>))
        <3> DEFINE job == Job("load", o, StructOf(o), body, none)
        <3>1. job \in Working /\ job.object = o /\ job.struct = StructOf(o)
            BY <1>2, <1>3, <2>2, JobWorks
        <3> QED BY <1>3, <2>2, <3>1 DEF none
    <2> QED BY <2>1, <2>2
<1>7. CASE Execute(w)
    <2>1. PICK o \in Action, outcome \in {Complete, Failure} :
              /\ tables[o] # NoRow
              /\ TakeOn(w, Job("insert", o, [StructOf(o) EXCEPT !.status = outcome], NoBody, <<>>))
        BY <1>7 DEF Execute
    <2>2. o \in Object /\ o \notin Task /\ KindOf(o) = "action" /\ Structs(KindOf(o)) = ActionStructs
        BY ObjectsAssumption DEF Object, KindOf, Structs
    <2> DEFINE s == [StructOf(o) EXCEPT !.status = outcome]
    <2>3. StructOf(o) \in ActionStructs /\ StructOf(o).uuid = o
        BY <1>3, <2>1, <2>2
    <2>4. s \in ActionStructs /\ s.uuid = o
        BY <2>3 DEF ActionStructs, ObjectStatus
    <2> HIDE DEF s
    <2> DEFINE job == Job("insert", o, s, NoBody, none)
    <2>5. job \in Working /\ job.object = o
        BY <1>2, <2>2, <2>4, JobWorks
    <2> QED BY <2>1, <2>2, <2>5 DEF s, none, IsNear
<1>8. CASE Delete(w)
    <2>1. PICK o \in Object :
              tables[o] # NoRow /\ TakeOn(w, Job("untag", o, StructOf(o), NoBody, <<>>))
        BY <1>8 DEF Delete
    <2> DEFINE job == Job("untag", o, StructOf(o), NoBody, none)
    <2>2. job \in Working /\ job.object = o /\ job.struct = StructOf(o)
        BY <1>2, <1>3, <2>1, JobWorks
    <2> QED BY <1>3, <2>1, <2>2 DEF none
<1> QED BY <1>4, <1>5, <1>6, <1>7, <1>8 DEF WorkerBegins

LEMMA SavedStays ==
    ASSUME saved \subseteq saved'
    PROVE  /\ \A o \in Object : \A row : WrittenRow(o, row) => WrittenRow(o, row)'
           /\ \A struct : WasSaved(struct) => WasSaved(struct)'
BY DEF WrittenRow, WasSaved

LEMMA BeginsSaved ==
    ASSUME SavedInv, TimesFit, NEW w \in Worker, WorkerBegins(w)
    PROVE  SavedInv'
<1>0. StoreShape
    BY DEF SavedInv
<1>1. StoreShape' /\ UNCHANGED <<tables, list, saved>>
    BY <1>0, BeginningShape DEF WorkerBegins, CreateTask, CreateAction, Update, Execute, Delete
<1>2. RowsWereWritten' /\ \A l \in Lister : list'[l] # Idle => ReadsSaved(list[l])'
    BY <1>1 DEF SavedInv, RowsWereWritten, WrittenRow, ReadsSaved, WasSaved
<1>3. StructsAreNear'
    <2> DEFINE Fine(job) == IsNear(KindOf(job.object), job.struct)
    <2>1. CASE UNCHANGED work
        BY <2>1 DEF SavedInv, StructsAreNear
    <2>2. ASSUME NEW job \in Working, Joins(w, job), Fine(job) PROVE StructsAreNear'
        <3>1. ASSUME NEW j \in Working, NEW b \in BOOLEAN, Fine(j) PROVE Fine([j EXCEPT !.alone = b])
            <4> DEFINE k == [j EXCEPT !.alone = b]
            <4>1. k.object = j.object /\ k.struct = j.struct
                BY AnyAlone
            <4> HIDE DEF k
            <4> QED BY <3>1, <4>1 DEF k
        <3>2. ASSUME NEW v \in Worker, work'[v] # Idle PROVE Fine(work'[v])
            <4>1. CASE v = w
                <5> DEFINE b == \A u \in Worker : ~(u # w /\ SharedBy(u, job.object))
                <5>1. work'[w] = [job EXCEPT !.alone = b] /\ b \in BOOLEAN
                    BY <2>2 DEF Joins
                <5> HIDE DEF b, Fine
                <5> QED BY <2>2, <3>1, <4>1, <5>1
            <4>2. CASE v # w /\ SharedBy(v, job.object)
                <5>1. work[v] \in Working /\ Fine(work[v])
                    BY <1>0, <4>2, IdleOrWorking DEF SharedBy, SavedInv, StructsAreNear
                <5>2. work'[v] = [work[v] EXCEPT !.alone = FALSE]
                    BY <2>2, <4>2 DEF Joins
                <5> HIDE DEF Fine
                <5> QED BY <3>1, <5>1, <5>2
            <4>3. CASE v # w /\ ~SharedBy(v, job.object)
                <5>1. work'[v] = work[v]
                    BY <2>2, <4>3 DEF Joins
                <5> QED BY <3>2, <5>1 DEF SavedInv, StructsAreNear
            <4> QED BY <4>1, <4>2, <4>3
        <3> QED BY <3>2 DEF StructsAreNear
    <2> QED BY <2>1, <2>2, BeginsNear
<1> QED BY <1>1, <1>2, <1>3 DEF SavedInv

(* What a handler writes, it saves. *)
LEMMA RowsSaved ==
    ASSUME SavedInv, NEW w \in Worker, InsertObject(w) \/ DeleteRow(w)
    PROVE  saved \subseteq saved' /\ RowsWereWritten'
<1>0. StoreShape
    BY DEF SavedInv
<1>1. work[w] \in Working /\ work[w] # Idle
    BY <1>0, RestContinues, IdleOrWorking DEF JobGoesOn
<1>2. PICK r \in Working : r = work[w]
    BY <1>1
<1>3. PICK o \in Object : o = r.object
    BY <1>2 DEF Working, Jobs
<1>4. o \in Object /\ r.struct \in Structs(KindOf(o)) /\ r.struct.uuid = o /\ IsNear(KindOf(o), r.struct)
    BY <1>1, <1>2, <1>3 DEF Working, Jobs, JobFits, SavedInv, StructsAreNear
<1>5. saved \subseteq saved'
    BY DEF InsertObject, DeleteRow
<1>6. ASSUME NEW p \in Object, tables'[p] # NoRow, p # o PROVE WrittenRow(p, tables[p])'
    <2>1. tables'[p] = tables[p]
        BY <1>0, <1>2, <1>3, <1>6, RowsWritten
    <2> QED BY <1>5, <1>6, <2>1, SavedStays DEF SavedInv, RowsWereWritten
<1>7. ASSUME tables'[o] = tables[o], tables'[o] # NoRow PROVE WrittenRow(o, tables[o])'
    BY <1>4, <1>5, <1>7, SavedStays DEF SavedInv, RowsWereWritten
<1>8. ASSUME tables'[o] # NoRow, tables'[o] # tables[o] PROVE WrittenRow(o, tables[o])'
    <2>1. CASE InsertObject(w)
        <3>1. /\ RowOf(o, r.struct) # Failed /\ r.struct \in saved'
              /\ tables' = [tables EXCEPT ![o] = RowOf(o, r.struct)]
            BY <1>2, <1>3, <1>8, <2>1 DEF InsertObject
        <3>2. tables'[o] = RowOf(o, r.struct)
            BY <1>0, <1>4, <3>1 DEF StoreShape, TablesShape
        <3> QED BY <1>4, <3>1, <3>2 DEF WrittenRow
    <2>2. CASE DeleteRow(w)
        <3> DEFINE row == IF o \in Action THEN NoRow ELSE [tables[o] EXCEPT ![4] = Deleted]
        <3>1. /\ tables' = [tables EXCEPT ![o] = row]
              /\ saved' = saved \cup {[s EXCEPT !.status = Deleted] : s \in {t \in saved : t.uuid = o}}
            BY <1>2, <1>3, <1>8, <2>2 DEF DeleteRow
        <3>2. tables'[o] = row
            BY <1>0, <1>4, <3>1 DEF StoreShape, TablesShape
        <3>3. o \in Task /\ row = [tables[o] EXCEPT ![4] = Deleted]
            BY <1>4, <1>8, <3>2 DEF Object
        <3>4. tables[o] # NoRow
            BY <1>8, <3>2, <3>3, NoRowStays
        <3>5. KindOf(o) = "task" /\ Structs(KindOf(o)) = TaskStructs
            BY <3>3 DEF KindOf, Structs
        <3>6. PICK s \in saved : /\ s \in Structs(KindOf(o)) /\ s.uuid = o /\ IsNear(KindOf(o), s)
                                 /\ RowOf(o, s) # Failed /\ tables[o] = RowOf(o, s)
            BY <1>4, <3>4 DEF SavedInv, RowsWereWritten, WrittenRow
        <3> DEFINE d == [s EXCEPT !.status = Deleted]
        <3>7. s \in TaskStructs
            BY <3>5, <3>6
        <3>8. /\ d \in TaskStructs /\ d.uuid = s.uuid /\ d.priority = s.priority
              /\ d.promise = s.promise /\ d.status = Deleted /\ d.when = s.when
            BY <3>7 DEF TaskStructs, ObjectStatus
        <3>9. d \in saved'
            BY <3>1, <3>6
        <3> HIDE DEF d, row
        <3>10. /\ s.priority <= MaxInt64
               /\ RowOf(o, s) = <<s.uuid, encBigInt(s.priority), s.promise, s.status,
                                  marshalTimestamp(s.when)>>
            BY <3>3, <3>6, <3>7, RowOfTask
        <3>11. /\ RowOf(o, d) # Failed
               /\ RowOf(o, d) = <<d.uuid, encBigInt(d.priority), d.promise, d.status,
                                  marshalTimestamp(d.when)>>
            BY <3>3, <3>8, <3>10, RowOfTask
        <3>12. row = RowOf(o, d)
            <4> DEFINE a == encBigInt(s.priority)
                       b == marshalTimestamp(s.when)
            <4>1. RowOf(o, d) = <<s.uuid, a, s.promise, Deleted, b>>
                BY <3>8, <3>11
            <4>2. tables[o] = <<s.uuid, a, s.promise, s.status, b>>
                BY <3>6, <3>10
            <4> HIDE DEF a, b
            <4> QED BY <3>3, <4>1, <4>2
        <3>13. IsNear(KindOf(o), d)
            BY <3>6, <3>8 DEF IsNear
        <3> QED BY <3>2, <3>5, <3>6, <3>8, <3>9, <3>11, <3>12, <3>13 DEF WrittenRow
    <2> QED BY <2>1, <2>2
<1> QED BY <1>5, <1>6, <1>7, <1>8 DEF RowsWereWritten

LEMMA GoesOnSaved ==
    ASSUME SavedInv, TimesFit, NEW w \in Worker, WorkerGoesOn(w)
    PROVE  SavedInv'
<1>0. StoreShape
    BY DEF SavedInv
<1>1. StoreShape' /\ UNCHANGED list /\ \E j : JobGoesOn(w, j)
    BY <1>0, WorkShape DEF WorkerGoesOn
<1>2. saved \subseteq saved' /\ RowsWereWritten'
    <2>1. CASE InsertObject(w) \/ DeleteRow(w)
        BY <2>1, RowsSaved
    <2>2. CASE ~(InsertObject(w) \/ DeleteRow(w))
        <3>1. UNCHANGED <<tables, saved>>
            BY <2>2 DEF WorkerGoesOn, Load, Refuse, Plan, TagStatement, DeleteTagsForObject
        <3> QED BY <3>1, SavedStays DEF SavedInv, RowsWereWritten
    <2> QED BY <2>1, <2>2
<1>3. \A l \in Lister : list'[l] # Idle => ReadsSaved(list[l])'
    <2>1. UNCHANGED list /\ \A l \in Lister : list[l] # Idle => ReadsSaved(list[l])
        BY <1>1 DEF SavedInv
    <2> QED BY <1>2, <2>1 DEF ReadsSaved, WasSaved, WrittenRow
<1>4. StructsAreNear'
    <2> DEFINE Fine(job) == IsNear(KindOf(job.object), job.struct)
    <2>1. ASSUME NEW j, JobGoesOn(w, j), j # Idle => Fine(j) PROVE StructsAreNear'
        BY <1>0, <2>1 DEF JobGoesOn, StoreShape, SavedInv, StructsAreNear
    <2>2. work[w] # Idle => Fine(work[w])
        BY DEF SavedInv, StructsAreNear
    <2>3. ASSUME NEW j \in Working, JobGoesOn(w, j), j.struct = work[w].struct PROVE StructsAreNear'
        <3>1. work[w] # Idle /\ (j # Idle => j.object = work[w].object)
            BY <1>0, <2>3, IdleOrWorking DEF JobGoesOn
        <3> QED BY <2>1, <2>2, <2>3, <3>1
    <2>4. CASE Load(w)
        <3>1. PICK j \in Working : /\ JobGoesOn(w, j) /\ work[w].body \in Body /\ j.pc = "plan"
                                   /\ j.struct = Repair(Decode(work[w].body, work[w].struct))
            BY <1>0, <2>4, LoadContinues
        <3>2. PICK r \in Working : r = work[w] /\ r # Idle /\ Fine(r)
            BY <1>0, <2>2, <3>1, IdleOrWorking DEF JobGoesOn
        <3>3. j.object \in Task /\ KindOf(j.object) = "task" /\ j # Idle /\ j.object = r.object
            BY <1>0, <3>1, <3>2, IdleOrWorking DEF JobGoesOn, Working, JobFits, KindOf, Idle
        <3>4. r.struct \in TaskStructs /\ r.struct.when \in Near
            BY <3>2, <3>3 DEF Working, JobFits, Structs, IsNear
        <3>5. j.struct.when \in Near
            BY <3>1, <3>2, <3>4, RepairedIsNear
        <3>6. Fine(j)
            BY <3>5 DEF IsNear
        <3> QED BY <2>1, <3>1, <3>6
    <2>5. CASE Plan(w)
        BY <1>0, <2>3, <2>5, PlanContinues
    <2>6. CASE TagStatement(w)
        BY <1>0, <2>3, <2>6, TagStatementContinues
    <2>7. CASE DeleteTagsForObject(w)
        BY <1>0, <2>3, <2>7, RestContinues
    <2>8. CASE Refuse(w) \/ InsertObject(w) \/ DeleteRow(w)
        BY <1>0, <2>1, <2>8, RestContinues
    <2> QED BY <2>4, <2>5, <2>6, <2>7, <2>8 DEF WorkerGoesOn
<1> QED BY <1>1, <1>2, <1>3, <1>4 DEF SavedInv

(* The rows that a list is to read are there, and what it reads joins it.    *)
LEMMA AskedSaved ==
    ASSUME SavedInv, NEW r, Asking(r)
    PROVE  ReadsSaved(r)
<1>0. StoreShape
    BY DEF SavedInv
<1> DEFINE none == <<>>
<1>1. DOMAIN none = {}
    OBVIOUS
<1> HIDE DEF none
<1>2. /\ r.struct = NewStruct(r.kind) /\ r.pc = "scan" /\ r.entries = none
      /\ \/ r.left = none \/ r.tag # All
         \/ \E kind \in Kinds : r.kind = kind /\ r.left = RowsListed(kind)
    BY TagsAssumption DEF Asking, NewList, none
<1>3. ASSUME NEW kind \in Kinds, NEW i \in DOMAIN RowsListed(kind)
      PROVE  \E o \in ObjectsOf(kind) : WrittenRow(o, RowsListed(kind)[i])
    <2>1. PICK o \in Listed(kind) : RowsListed(kind)[i] = tables[o]
        BY <1>0, RowsListedTyped
    <2>2. o \in ObjectsOf(kind) /\ o \in Object /\ tables[o] # NoRow
        BY DEF Listed, ObjectsOf
    <2> QED BY <2>1, <2>2 DEF SavedInv, RowsWereWritten
<1> QED BY <1>1, <1>2, <1>3 DEF ReadsSaved

LEMMA ReadIsSaved ==
    ASSUME StoreShape, NEW r \in Listing, r.left # <<>>, ReadsSaved(r), NEW struct, NEW failed,
           WasSaved(struct) \/ (r.tag # All /\ struct = NewStruct(r.kind))
    PROVE  ReadsSaved(Read(r, struct, failed))
<1> DEFINE f == Read(r, struct, failed)
           n == Len(r.left)
           rest == Tail(r.left)
<1>1. r.left \in Seq(LeftOf(r.kind, r.tag))
    BY ListingFacts
<1>2. \A i \in DOMAIN rest : i + 1 \in DOMAIN r.left /\ rest[i] = r.left[i + 1]
    BY <1>1
<1>3. /\ f.pc = "tags" /\ f.tag = r.tag /\ f.left = rest /\ f.struct = struct
      /\ f.entries = r.entries /\ f.kind = r.kind
    BY ReadFields
<1> HIDE DEF f, rest
<1> QED BY <1>2, <1>3 DEF ReadsSaved, f

LEMMA ListsSaved ==
    ASSUME SavedInv, NEW l \in Lister, ListerSteps(l)
    PROVE  SavedInv'
<1>0. StoreShape
    BY DEF SavedInv
<1>1. StoreShape' /\ UNCHANGED <<tables, work, saved>> /\ \E r : list' = [list EXCEPT ![l] = r]
    BY <1>0, ListShape DEF ListerSteps
<1>2. RowsWereWritten' /\ StructsAreNear'
    BY <1>1 DEF SavedInv, RowsWereWritten, WrittenRow, StructsAreNear
<1>3. ASSUME NEW f, list' = [list EXCEPT ![l] = f] PROVE list'[l] = f
    BY <1>0, <1>3 DEF StoreShape
<1>4. ASSUME NEW f, list' = [list EXCEPT ![l] = f], f # Idle => ReadsSaved(f) PROVE SavedInv'
    <2>1. ASSUME NEW k \in Lister, list'[k] # Idle PROVE ReadsSaved(list'[k])
        BY <1>0, <1>4, <2>1 DEF StoreShape, SavedInv
    <2>2. \A k \in Lister : ReadsSaved(list[k])' <=> ReadsSaved(list'[k])
        BY <1>1 DEF ReadsSaved, WasSaved, WrittenRow
    <2> QED BY <1>1, <1>2, <2>1, <2>2 DEF SavedInv
<1>5. CASE Get(l)
    BY <1>0, <1>4, <1>5, GetAsks, AskedSaved
<1>6. CASE ScanAll(l)
    <2>1. PICK r \in Listing : r = list[l] /\ r.pc = "scan" /\ r.tag = All /\ r.left # <<>>
        BY <1>0, <1>6, ScanAllReads
    <2>2. ReadsSaved(r) /\ r # Idle
        BY <2>1 DEF SavedInv, Idle
    <2> DEFINE struct == ReadRow(r.kind, Head(r.left), r.struct)
    <2>3. list' = [list EXCEPT ![l] = Read(r, struct, r.failed)]
        BY <1>0, <1>6, <2>1, ScanAllReads
    <2>4. PICK o \in ObjectsOf(r.kind) : WrittenRow(o, Head(r.left))
        <3>1. Head(r.left) = r.left[1] /\ 1 \in DOMAIN r.left
            BY <2>1, ListingFacts, HeadAndTail
        <3> QED BY <2>1, <2>2, <3>1 DEF ReadsSaved
    <2>5. WasSaved(struct)
        <3>1. o \in Object /\ KindOf(o) = r.kind
            BY DEF ObjectsOf
        <3>2. WasSaved(ReadRow(KindOf(o), Head(r.left), r.struct))
            BY <2>4, <3>1, WrittenComesBack
        <3> QED BY <3>1, <3>2, Zenon
    <2> HIDE DEF struct
    <2>6. ReadsSaved(Read(r, struct, r.failed))
        BY <1>0, <2>1, <2>2, <2>5, ReadIsSaved
    <2> QED BY <1>4, <2>3, <2>6
<1>7. CASE ScanTagged(l)
    <2>1. PICK r \in Listing : r = list[l] /\ r.pc = "scan" /\ r.tag # All /\ r.left # <<>>
        BY <1>0, <1>7, ScanTaggedReads
    <2>2. ReadsSaved(r) /\ r # Idle
        BY <2>1 DEF SavedInv, Idle
    <2>3. PICK o \in Task \cap ObjectsOf(r.kind) : o = Head(r.left)
        BY <1>0, <1>7, <2>1, ScanTaggedReads
    <2>4. PICK struct, failed :
              /\ struct = r.struct \/ (tables[o] # NoRow /\ struct = ReadRow(r.kind, tables[o], r.struct))
              /\ list' = [list EXCEPT ![l] = Read(r, struct, failed)]
        BY <1>0, <1>7, <2>1, <2>3, ScanTaggedReads
    <2>5. ASSUME tables[o] # NoRow, struct = ReadRow(r.kind, tables[o], r.struct) PROVE WasSaved(struct)
        <3>1. o \in Object /\ KindOf(o) = r.kind
            BY DEF ObjectsOf
        <3>2. WrittenRow(o, tables[o])
            BY <2>5, <3>1 DEF SavedInv, RowsWereWritten
        <3>3. WasSaved(ReadRow(KindOf(o), tables[o], r.struct))
            BY <3>1, <3>2, WrittenComesBack
        <3> QED BY <2>5, <3>1, <3>3, Zenon
    <2>6. WasSaved(struct) \/ struct = NewStruct(r.kind)
        BY <2>2, <2>4, <2>5 DEF ReadsSaved
    <2>7. ReadsSaved(Read(r, struct, failed))
        BY <1>0, <2>1, <2>2, <2>6, ReadIsSaved
    <2> QED BY <1>4, <2>4, <2>7
<1>8. CASE LoadTags(l)
    <2>1. PICK r \in Listing : r = list[l] /\ r.pc = "tags"
        BY <1>0, <1>8, LoadTagsJoins
    <2>2. ReadsSaved(r)
        BY <2>1 DEF SavedInv, Idle
    <2>3. PICK had : list' = [list EXCEPT ![l] =
              ListRecord("scan", r.kind, r.tag, r.left, r.struct,
                         Append(r.entries, Entry(r.struct, had)), r.expect, r.failed)]
        BY <1>0, <1>8, <2>1, LoadTagsJoins
    <2> DEFINE entry == Entry(r.struct, had)
               more == Append(r.entries, entry)
               f == ListRecord("scan", r.kind, r.tag, r.left, r.struct, more, r.expect, r.failed)
    <2>4. entry.struct = r.struct
        BY DEF Entry
    <2> HIDE DEF entry
    <2>5. \A i \in DOMAIN more : more[i] = entry \/ (i \in DOMAIN r.entries /\ more[i] = r.entries[i])
        <3>1. r.entries \in Seq(EntriesOf(r.kind))
            BY <2>1, ListingFacts
        <3> QED BY <3>1
    <2> HIDE DEF more
    <2>6. /\ f.pc = "scan" /\ f.tag = r.tag /\ f.left = r.left /\ f.struct = r.struct
          /\ f.entries = more /\ f.kind = r.kind
        BY DEF ListRecord
    <2> HIDE DEF f
    <2>7. WasSaved(r.struct) \/ (r.tag # All /\ r.struct = NewStruct(r.kind))
        BY <2>1, <2>2 DEF ReadsSaved
    <2>8. ReadsSaved(f)
        BY <2>2, <2>4, <2>5, <2>6, <2>7 DEF ReadsSaved
    <2> QED BY <1>4, <2>3, <2>8 DEF f, more, entry
<1>9. CASE Answer(l)
    BY <1>4, <1>9 DEF Answer
<1> QED BY <1>5, <1>6, <1>7, <1>8, <1>9 DEF ListerSteps

LEMMA FirstSaved == StoreInit /\ TimesFit => SavedInv
<1> SUFFICES ASSUME StoreInit, TimesFit PROVE SavedInv
    OBVIOUS
<1>1. StoreShape
    BY InitShape
<1>2. (\A w \in Worker : work[w] = Idle) /\ \A l \in Lister : list[l] = Idle
    BY DEF StoreInit
<1>3. ASSUME NEW o \in Object, tables[o] # NoRow PROVE WrittenRow(o, tables[o])
    <2>1. o \in DOMAIN Seed /\ tables[o] = RowOf(o, SeedOf(o)) /\ SeedOf(o) \in saved
        BY <1>3 DEF StoreInit, SeedRow, TimesFit
    <2>2. o \in Task /\ KindOf(o) = "task" /\ o \in UUID
        BY <2>1, ObjectsAssumption DEF KindOf
    <2> DEFINE a == [NewStruct("task") EXCEPT !.uuid = o, !.status = Pending]
    <2>3. a \in TaskStructs /\ a.uuid = o /\ a.priority = 0
        BY <2>2, NewStructTyped DEF NewStruct, Kinds, Structs, TaskStructs, ObjectStatus
    <2>4. SeedOf(o) = Decode(Seed[o], a)
        BY DEF SeedOf
    <2> HIDE DEF a
    <2>5. SeedOf(o) \in Structs(KindOf(o)) /\ SeedOf(o).uuid = o /\ SeedOf(o).priority <= MaxInt64
        BY <2>1, <2>2, <2>3, <2>4, DecodeTyped, SeedAssumption, Widths DEF Structs
    <2>6. RowOf(o, SeedOf(o)) # Failed
        BY <2>5, RowOfStruct DEF Encodable
    <2>7. IsNear(KindOf(o), SeedOf(o))
        BY <2>1 DEF TimesFit, IsNear
    <2> QED BY <2>1, <2>5, <2>6, <2>7 DEF WrittenRow
<1> QED BY <1>1, <1>2, <1>3 DEF SavedInv, RowsWereWritten, StructsAreNear

(* As long as every time is there and its nanoseconds fit an int64, what a   *)
(* list says of an object is what one save put into its row, for any number  *)
(* of handlers and lists at a time: though all rows of a list are scanned    *)
(* into one struct, and a failed or empty scan leaves it as it was, nothing  *)
(* of one object shows up in another.                                        *)
THEOREM EntriesSaved == ASSUME TimesFit PROVE StoreSpec => []EntriesAreSaved
<1>1. StoreInit => SavedInv
    BY FirstSaved
<1>2. SavedInv /\ [StoreNext]_storeVars => SavedInv'
    <2> SUFFICES ASSUME SavedInv, [StoreNext]_storeVars PROVE SavedInv'
        OBVIOUS
    <2>1. CASE UNCHANGED storeVars
        BY <2>1, NextShape DEF storeVars, SavedInv, RowsWereWritten, StructsAreNear, ReadsSaved,
           WrittenRow, WasSaved
    <2> QED BY <2>1, BeginsSaved, GoesOnSaved, ListsSaved, StoreSteps
<1>3. SavedInv => EntriesAreSaved
    <2> SUFFICES ASSUME SavedInv, NEW l \in Lister, list[l].pc # "idle", NEW i \in DOMAIN list[l].entries
                 PROVE  LET entry == list[l].entries[i].struct
                        IN  \/ \E s \in saved : s.uuid = entry.uuid /\ AsStored(s) = entry
                            \/ list[l].tag # All /\ entry = NewStruct(list[l].kind)
        BY DEF EntriesAreSaved
    <2>1. ReadsSaved(list[l])
        BY DEF SavedInv, Idle
    <2> QED BY <2>1 DEF ReadsSaved, WasSaved
<1> QED BY <1>1, <1>2, <1>3, PTL DEF StoreSpec
=============================================================================
