---------------------------- MODULE EtcdDirectory ----------------------------
(***************************************************************************)
(* An etcd directory in which every node of the cluster keeps one key with *)
(* a TTL: /horae/clusters/<cluster>/nodes for the API master and           *)
(* /horae/clusters/<cluster>/queues/<queue> for the owner of a queue.      *)
(*                                                                         *)
(* All that election reads of it is the CreatedIndex of each key, so a     *)
(* directory is a function dir from nodes to created indexes, with Absent  *)
(* for a node that has no key.  etcd hands out indexes in increasing       *)
(* order; lastIndex is the last one it gave.                               *)
(***************************************************************************)
EXTENDS Naturals

CONSTANT Node

Absent == 0

Directory == [Node -> Nat]

EmptyDirectory == [n \in Node |-> Absent]

Registered(dir) == {n \in Node : dir[n] # Absent}

(* Mutant: the comparison is the wrong way round and the latest key wins. *)
IsLatest(dir, n) ==
    /\ dir[n] # Absent
    /\ \A m \in Node : dir[m] # Absent => dir[n] >= dir[m]

(***************************************************************************)
(* findMaster: the node whose key has the lowest CreatedIndex.             *)
(***************************************************************************)
IsMaster(dir, n) ==
    /\ dir[n] # Absent
    /\ \A m \in Node : dir[m] # Absent => dir[n] <= dir[m]

(***************************************************************************)
(* client.Create carries prevExist=false: it refuses to touch a key that   *)
(* is there, and otherwise gives it the next index.                        *)
(***************************************************************************)
CreateKey(dir, n, index) ==
    IF dir[n] = Absent THEN [dir EXCEPT ![n] = index] ELSE dir

(***************************************************************************)
(* client.Update carries prevExist=true: it renews a key that is there     *)
(* (same CreatedIndex) and does nothing but fail for a key that is not.    *)
(***************************************************************************)
UpdateKey(dir, n) == dir

(***************************************************************************)
(* The TTL of a key has run out, or client.Delete removed it.              *)
(***************************************************************************)
RemoveKey(dir, n) == [dir EXCEPT ![n] = Absent]

=============================================================================
