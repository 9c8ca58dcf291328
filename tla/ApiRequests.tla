----------------------------- MODULE ApiRequests -----------------------------
(***************************************************************************)
(* Requests to the API of a cluster while its nodes elect who serves it.   *)
(*                                                                         *)
(* A client sends a request to any node it knows.  There it passes the     *)
(* handlers of negroni: the logger, the MasterSlave middleware, which      *)
(* answers 503, redirects to the master or lets it through, and the        *)
(* router.  The client follows redirects, and asks again after a failure.  *)
(***************************************************************************)
EXTENDS ApiElection, ApiRoutes

CONSTANTS
    Client,  \* the clients
    Asks     \* what they may ask: operation, object, and the path as they write it

ASSUME AsksAssumption ==
    Asks \subseteq [op : DOMAIN Documented, uuid : STRING, path : Seq(STRING), query : BOOLEAN]

VARIABLES
    request,  \* the request of each client
    context,  \* gorilla/context: the clients whose request has variables in the map
    older     \* the fields of each middleware before its last change, as long as it is being made

requestVars == <<request, context, older>>
allVars == <<vars, requestVars>>

InitRequests ==
    /\ Init
    /\ request = [c \in Client |-> [pc |-> "idle"]]
    /\ context = {}
    /\ older = [n \in Node |-> NewMasterSlave]

At(c, pc) == request[c].pc = pc
InFlight(r) == r.pc \in {"sent", "handling"}
Become(c, r) == request' = [request EXCEPT ![c] = r]

-----------------------------------------------------------------------------
(* The client decides what to ask, and asks any node that it can reach. *)
Decide(c) ==
    /\ At(c, "idle")
    /\ \E a \in Asks : Become(c, [pc |-> "asking", ask |-> a])
    /\ UNCHANGED <<vars, context, older>>

Sent(n, ask, path, query) == [pc |-> "sent", node |-> n, ask |-> ask, path |-> path, query |-> query]
AskAgain(c) == [pc |-> "asking", ask |-> request[c].ask]

Send(c) ==
    /\ At(c, "asking")
    /\ \E n \in Node :
          /\ proc[n] = "up"
          /\ Become(c, Sent(n, request[c].ask, request[c].ask.path, request[c].ask.query))
    /\ UNCHANGED <<vars, context, older>>

-----------------------------------------------------------------------------
(* MasterSlave.ServeHTTP reads the fields one by one and without a lock,     *)
(* while StartEirene may be writing them: each may be the older one.         *)
Views(n) ==
    LET Either(field) == {older[n][field], mw[n][field]}
    IN  [available : Either("available"), master : Either("master"),
         address : Either("address"), port : Either("port")]

Unavailable(c) ==
    /\ At(c, "sent")
    /\ \E v \in Views(request[c].node) : ~v.available
    /\ Become(c, AskAgain(c))
    /\ UNCHANGED <<vars, context, older>>

(* Mutant: the port is left out of the Location. *)
NodesAtAnyPort(v) ==
    {n \in Node : v.address = [schemes |-> 1, host |-> AddressOf[n]] /\ PortOf[n] = "80"}

(* The nodes that listen at the Location of a redirect: masterAddr is an     *)
(* absolute URI only if it has the scheme that a slave's verdict puts there. *)
NodesAt(v) ==
    {n \in Node : v.address = [schemes |-> 1, host |-> AddressOf[n]] /\ v.port = PortOf[n]}

(* 301: the Location has the path of the request, and not its query. *)
Redirect(c) ==
    /\ At(c, "sent")
    /\ \E v \in Views(request[c].node) :
          /\ v.available /\ ~v.master
          /\ \/ \E n \in NodesAt(v) :
                   /\ proc[n] = "up"
                   /\ Become(c, Sent(n, request[c].ask, request[c].path, FALSE))
             \/ /\ \A n \in NodesAt(v) : proc[n] # "up"
                /\ Become(c, AskAgain(c))
    /\ UNCHANGED <<vars, context, older>>

(* It calls the router, if the node is the master. *)
LetThrough(c) ==
    /\ At(c, "sent")
    /\ \E v \in Views(request[c].node) : v.available /\ v.master

-----------------------------------------------------------------------------
(* The clean form of a path, and the route that an operation's method and a  *)
(* path lead to, for all that is asked.                                      *)
AskedPaths == {a.path : a \in Asks} \cup {CleanPath(a.path) : a \in Asks}
CleanOf == [path \in AskedPaths |-> CleanPath(path)]
RouteTo == [op \in {a.op : a \in Asks} |->
               [path \in AskedPaths |-> Matched(Documented[op].method, path)]]
RouteOf(r) == RouteTo[r.ask.op][r.path]

(* Mutant: only a slash at the end is looked for. *)
EndsClean(r) == Last(r.path) # ""

IsClean(r) == CleanOf[r.path] = r.path

(* The clients ask by the book: they name an object where the documented     *)
(* path has a variable, and write that path, clean or not.                   *)
NamesObject(op, uuid) ==
    uuid # "" <=> \E k \in DOMAIN Documented[op].path : Documented[op].path[k] = Uuid

AskedByTheBook ==
    \A a \in Asks :
        LET documented == PathOf(a.op, a.uuid)
        IN  /\ NamesObject(a.op, a.uuid)
            /\ CleanPath(a.path) = documented /\ CleanPath(documented) = documented

(* Router.ServeHTTP redirects to the clean path, with the query ... *)
RedirectToClean(c) ==
    /\ LetThrough(c)
    /\ ~IsClean(request[c])
    /\ Become(c, [request[c] EXCEPT !.path = CleanOf[@]])
    /\ UNCHANGED <<vars, context, older>>

SetsVars(c) == context' = context \cup {c}

(* ... or calls the handler that matches, having stored the variables, or    *)
(* else the NotFoundHandler. *)
Dispatch(c) ==
    /\ LetThrough(c)
    /\ IsClean(request[c])
    /\ Become(c, [request[c] EXCEPT !.pc = "handling"])
    /\ IF RouteOf(request[c]) = 0 THEN UNCHANGED context ELSE SetsVars(c)
    /\ UNCHANGED <<vars, older>>

(* context.Clear is deferred. *)
Clears(c, panics) == context' = context \ {c}

(* The handler answers, or panics and the connection is closed. *)
HandlerEnds(c) ==
    /\ At(c, "handling")
    /\ \E panics \in BOOLEAN : Clears(c, panics)
    /\ Become(c, [pc |-> "idle"])
    /\ UNCHANGED <<vars, older>>

-----------------------------------------------------------------------------
(* The last field of the middleware is written. *)
WriteEnds(n) ==
    /\ older[n] # mw[n]
    /\ older' = [older EXCEPT ![n] = mw[n]]
    /\ UNCHANGED <<vars, request, context>>

(* The election goes on.  StartEirene changes a middleware once it is done   *)
(* with the change before, and the requests of a process that dies are lost. *)
Lost(c) == InFlight(request[c]) /\ proc'[request[c].node] # "up"

ElectionStep ==
    /\ Next
    /\ \A n \in Node : mw'[n] # mw[n] /\ proc'[n] = "up" => older[n] = mw[n]
    /\ older' = [n \in Node |->
          IF proc'[n] # "up" THEN mw'[n] ELSE IF mw'[n] # mw[n] THEN mw[n] ELSE older[n]]
    /\ request' = [c \in Client |-> IF Lost(c) THEN AskAgain(c) ELSE request[c]]
    /\ context' = {c \in context : ~Lost(c)}

ClientStep(c) ==
    \/ Send(c) \/ Unavailable(c) \/ Redirect(c)
    \/ RedirectToClean(c) \/ Dispatch(c) \/ HandlerEnds(c)

RequestsNext ==
    \/ ElectionStep
    \/ \E n \in Node : WriteEnds(n)
    \/ \E c \in Client : Decide(c) \/ ClientStep(c)

(* A client that has asked goes on, and so do the goroutines that serve it. *)
RequestsFairSpec ==
    /\ InitRequests
    /\ [][RequestsNext]_allVars
    /\ Fairness
    /\ \A n \in Node : WF_allVars(WriteEnds(n))
    /\ \A c \in Client : WF_allVars(ClientStep(c))

-----------------------------------------------------------------------------
(***************************************************************************)
(* The types of requests; and nothing is left in the map of gorilla's      *)
(* context by a request that is over, whether its handler returned,        *)
(* panicked, or died with its process.                                     *)
(***************************************************************************)
RequestTypeOK ==
    /\ \A c \in Client :
          /\ request[c].pc \in {"idle", "asking", "sent", "handling"}
          /\ InFlight(request[c]) => proc[request[c].node] = "up"
    /\ context = {c \in Client : At(c, "handling") /\ RouteOf(request[c]) # 0}
    /\ older \in [Node -> MasterSlave]

(***************************************************************************)
(* What is handled is what was asked: whichever nodes a request is sent on *)
(* by, and however its path was written, the handler that gets it is that  *)
(* of the documented operation, with the object the client named.          *)
(***************************************************************************)
HandledAsAsked ==
    \A c \in Client : At(c, "handling") =>
        LET r == request[c]
            i == RouteOf(r)
        IN  /\ i # 0 /\ Routes[i].handler = r.ask.op
            /\ PathVar(i, r.path) = r.ask.uuid

(***************************************************************************)
(* As long as the node at the head of the directory lives, a client that   *)
(* follows redirects is answered by a handler in the end: it is not sent   *)
(* in circles, nor to addresses at which nobody listens.                   *)
(***************************************************************************)
MasterLives == \E n \in Node : IsMaster(dir, n) /\ proc[n] = "up"

AnsweredInTheEnd == <>[]MasterLives => \A c \in Client : At(c, "asking") ~> At(c, "handling")

-----------------------------------------------------------------------------
(* What does not hold. *)

(* A handler sees the query of the client, whoever redirected the request. *)
QueryKept == \A c \in Client : At(c, "handling") => request[c].query = request[c].ask.query

(* A node redirects only to an address of a node. *)
RedirectsNameNodes ==
    \A n \in Node, v \in [available : {TRUE}, master : {FALSE}, address : Address, port : PortField] :
        v \in Views(n) => NodesAt(v) # {}

(* A client is answered as long as some node lives. *)
AnsweredByTheLiving ==
    (<>[]\E n \in Node : proc[n] = "up") => \A c \in Client : At(c, "asking") ~> At(c, "handling")
=============================================================================
