---------------------------- MODULE MCQueueLifecycle ----------------------------
(* A queue "/a" that is to be drained, in the table from the beginning, and  *)
(* a queue that clients create, update and delete, at times with a path "/". *)
EXTENDS QueueLifecycle

Queues == {"q", "r"}

A == <<"a">>
AB == <<"a", "b">>
Tree == {Root, A, AB}
TreeOrder == <<Root, A, AB>>

Contents ==
    [q \in Queues |->
        IF q = "q" THEN {[drain |-> TRUE, paths |-> <<A>>]}
        ELSE {[drain |-> FALSE, paths |-> <<AB>>], [drain |-> TRUE, paths |-> <<A, AB>>],
              [drain |-> FALSE, paths |-> <<A, Root>>]}]

Everything == {"create", "update", "delete"} \X Queues \cup {<<"delete", RootQueue>>}
=============================================================================
