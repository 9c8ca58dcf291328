---------------------------- MODULE MCAsyncQueue ----------------------------
(* Values for model-checking AsyncQueue. *)
EXTENDS AsyncQueue, TLC

Spends(launch, stop, change, fail) ==
    [launch |-> launch, stop |-> stop, change |-> change, fail |-> fail]

Reopened == Spends(2, 1, 1, 1)
Executors == Permutations(Loop)
Once == Spends(1, 0, 0, 0)
=============================================================================
