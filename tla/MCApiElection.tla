---------------------------- MODULE MCApiElection ----------------------------
(***************************************************************************)
(* ApiElection and the requests of clients, for TLC: addresses and ports   *)
(* of the nodes, and what the clients ask.                                 *)
(***************************************************************************)
EXTENDS ApiRequests, TLC

CONSTANTS n1, n2, n3, h1, h2, h3, p1, p2, p3

(* Every node on a host of its own. *)
AddressPerNode == (n1 :> h1) @@ (n2 :> h2) @@ (n3 :> h3)
MCAddressOf == [n \in Node |-> AddressPerNode[n]]

(* The default, StaticPort: everybody listens on 8015. *)
StaticPortOf == [n \in Node |-> p1]

(* StaticPort off: the kernel picks the port, another one on every node. *)
PortPerNode == (n1 :> p1) @@ (n2 :> p2) @@ (n3 :> p3)
RandomPortOf == [n \in Node |-> PortPerNode[n]]

(* What the client asks: a task, by a path that is not clean. *)
GetTask == [op |-> "getTask", uuid |-> "u1", query |-> TRUE,
            path |-> <<"v1", "", "task", "u1", "complete", "..">>]
OnlyGetTask == {GetTask}

(* The router knows what the comments of the handlers document. *)
ASSUME RoutesAssumption == Documents({"u1", "complete", "task"})

(* What the client asks is what HandlesAsAsked is about. *)
ASSUME BookAssumption == AskedByTheBook

=============================================================================
