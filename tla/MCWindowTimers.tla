--------------------------- MODULE MCWindowTimers ---------------------------
(* Two queues, one below the other, around one opening on one day. *)
EXTENDS WindowTimers

AllPaths == {<<>>, <<"apps">>, <<"apps", "web">>, <<"apps", "web", "db">>, <<"all">>}
PathsOf(q) == CASE q = "apps" -> <<<<"apps">>>>
                [] q = "db"   -> <<<<"apps", "web", "db">>>>

(* "db" below "apps" and, what is read last, below no queue. *)
TwoPathsOf(q) == PathsOf(q) \o (IF q = "db" THEN <<<<"all">>>> ELSE <<>>)

DailyFrom(start, end) ==
    [kind |-> "every", start |-> start, end |-> end, recurrence |-> [every |-> "day"]]
Always == [kind |-> "always"]
AlwaysExcept(start, end) == [DailyFrom(start, end) EXCEPT !.kind = "always_except"]

SomeWindows == {DailyFrom(540, 543), Always, AlwaysExcept(541, 543)}

(* Before the window opens, and while it is open. *)
SomeStarts == {At(1, 539), At(1, 541) + 35}
Until == At(1, 547)
=============================================================================
