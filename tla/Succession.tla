------------------------------ MODULE Succession ------------------------------
(***************************************************************************)
(* What an election by lowest CreatedIndex promises: a waiting line.       *)
(* Nodes join it at its end, whoever stands at its head holds the office,  *)
(* and a node that has left the line never stands in it again.             *)
(*                                                                         *)
(* A node learns that it is at the head only some time after the fact; the *)
(* confirmed nodes are those that were told so and not told otherwise      *)
(* since.  One that has left the line may be confirmed still.              *)
(***************************************************************************)
CONSTANT Node

VARIABLES
    line,       \* the nodes in the line
    ahead,      \* the pairs <<m, n>> of them with m standing before n
    departed,   \* the nodes that left it or never joined
    confirmed   \* the nodes that were told that they are at the head

succession == <<line, ahead, departed, confirmed>>

AtHead(n) == n \in line /\ \A m \in line : <<m, n>> \notin ahead

Init ==
    /\ line = {}
    /\ ahead = {}
    /\ departed = {}
    /\ confirmed = {}

Join(n) ==
    /\ n \notin line \cup departed
    /\ line' = line \cup {n}
    /\ ahead' = ahead \cup (line \X {n})
    /\ UNCHANGED <<departed, confirmed>>

(* A node leaves the line, or gives up before it ever joined. *)
Leave(n) ==
    /\ n \notin departed
    /\ departed' = departed \cup {n}
    /\ line' = line \ {n}
    /\ ahead' = ahead \cap (line' \X line')
    /\ confirmed' \in {confirmed, confirmed \ {n}}

Confirm(n) ==
    /\ AtHead(n)
    /\ confirmed' = confirmed \cup {n}
    /\ UNCHANGED <<line, ahead, departed>>

(* A node at the head is dismissed only by mistake: a query that failed. *)
Dismiss(n) ==
    /\ confirmed' = confirmed \ {n}
    /\ UNCHANGED <<line, ahead, departed>>

Next == \E n \in Node : Join(n) \/ Leave(n) \/ Confirm(n) \/ Dismiss(n)

Spec == Init /\ [][Next]_succession
=============================================================================
