---------------------------- MODULE MCSyncQueue ----------------------------
(* The budgets of the runs: everything not named in Only is zero. *)
EXTENDS SyncQueue

Only(f) == [b \in BudgetNames |-> IF b \in DOMAIN f THEN f[b] ELSE 0]

Calm      == Only([start |-> 1, promise |-> 1])
Disturbed == Only([start |-> 2, stop |-> 1, statement |-> 1, action |-> 1, delete |-> 1, event |-> 1,
                   crash |-> 2, update |-> 1, spurious |-> 1])
Edited    == Only([start |-> 1, update |-> 1])
Refused   == Only([start |-> 1, action |-> 1])
Deleting  == Only([start |-> 1, delete |-> 1])
Closing   == Only([start |-> 1, stop |-> 1])
Reopening == Only([start |-> 2, stop |-> 1])
=============================================================================
