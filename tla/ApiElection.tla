----------------------------- MODULE ApiElection -----------------------------
(***************************************************************************)
(* Which node of a horae cluster serves the API.                           *)
(*                                                                         *)
(* On every node electMaster (eunomia) starts an updater that registers    *)
(* the node in etcd and keeps renewing its key, and polls the directory    *)
(* every 30 seconds; its verdict is sent over an unbuffered channel to     *)
(* StartEirene, which changes the strategy of the MasterSlave middleware   *)
(* and tells core the URI of the master.                                   *)
(*                                                                         *)
(* A process takes a new UUID every time it starts, so a restarted node is *)
(* another member of Node and a member of Node starts at most once.        *)
(***************************************************************************)
EXTENDS EtcdDirectory

CONSTANTS
    Host,         \* the IP addresses of the cluster
    Port,         \* the ports the API listens on
    AddressOf,    \* the address each node listens on
    PortOf,       \* the port each node listens on
    MaxFaults     \* bound on failed etcd calls and late renewals

ASSUME AddressOfAssumption == AddressOf \in [Node -> Host]
ASSUME PortOfAssumption    == PortOf \in [Node -> Port]
ASSUME MaxFaultsAssumption == MaxFaults \in Nat

VARIABLES
    dir,        \* etcd: the CreatedIndex of each node's key
    lastIndex,  \* etcd: the last index handed out
    lease,      \* etcd: whether a key is about to run out of TTL
    proc,       \* the process: down, up or crashed
    updater,    \* updateNode: not started, creating the key, renewing it
    elect,      \* electMaster: not started, about to poll, sending its verdict
    verdict,    \* the EireneStrategyAction being sent
    mw,         \* the MasterSlave middleware
    masterURI,  \* node.MasterURI as last signalled to core
    faults      \* failed etcd calls and late renewals so far

etcdVars  == <<dir, lastIndex, lease>>
apiVars   == <<mw, masterURI>>
vars == <<etcdVars, proc, updater, elect, verdict, apiVars, faults>>

(***************************************************************************)
(* An address as the code passes it around: a host with the number of      *)
(* "http://" prefixes put in front of it so far.                           *)
(***************************************************************************)
Address == [schemes : 0 .. 1, host : Host \cup {"horae.co", ""}]

PortField == Port \cup {"80", ""}

Strategy == [action : {"master", "slave"}, address : Address, port : PortField]

MasterSlave == [available : BOOLEAN, master : BOOLEAN,
                address : Address, port : PortField]

URI == [schemes : 0 .. 2, host : Host \cup {"horae.co", ""}, port : PortField]

MasterStrategy ==
    [action |-> "master", address |-> [schemes |-> 0, host |-> ""], port |-> ""]

(* Mutant: the prefix is put in front of the address twice. *)
SlaveStrategyPrefixedTwice(host, port) ==
    [action |-> "slave", address |-> [schemes |-> 2, host |-> host], port |-> port]

(* electMaster puts "http://" in front of whatever address it was given. *)
SlaveStrategy(host, port) ==
    [action |-> "slave", address |-> [schemes |-> 1, host |-> host], port |-> port]

NoVerdict == SlaveStrategy("", "")

NewMasterSlave ==
    [available |-> FALSE, master |-> FALSE,
     address |-> [schemes |-> 0, host |-> "horae.co"], port |-> "80"]

(* currentMasterAsURI puts "http://" in front of masterAddr once more. *)
CurrentMasterAsURI(m) ==
    [schemes |-> m.address.schemes + 1, host |-> m.address.host, port |-> m.port]

NoURI == [schemes |-> 0, host |-> "", port |-> ""]

TypeOK ==
    /\ dir \in Directory
    /\ lastIndex \in Nat
    /\ lease \in [Node -> {"fresh", "stale"}]
    /\ proc \in [Node -> {"down", "up", "crashed"}]
    /\ updater \in [Node -> {"off", "create", "loop"}]
    /\ elect \in [Node -> {"off", "poll", "send"}]
    /\ verdict \in [Node -> Strategy]
    /\ mw \in [Node -> MasterSlave]
    /\ masterURI \in [Node -> URI]
    /\ faults \in 0 .. MaxFaults

Init ==
    /\ dir = EmptyDirectory
    /\ lastIndex = 0
    /\ lease = [n \in Node |-> "fresh"]
    /\ proc = [n \in Node |-> "down"]
    /\ updater = [n \in Node |-> "off"]
    /\ elect = [n \in Node |-> "off"]
    /\ verdict = [n \in Node |-> NoVerdict]
    /\ mw = [n \in Node |-> NewMasterSlave]
    /\ masterURI = [n \in Node |-> NoURI]
    /\ faults = 0

-----------------------------------------------------------------------------
(* StartServer: eirene listens, unavailable, and eunomia starts electing. *)
Start(n) ==
    /\ proc[n] = "down"
    /\ proc' = [proc EXCEPT ![n] = "up"]
    /\ updater' = [updater EXCEPT ![n] = "create"]
    /\ elect' = [elect EXCEPT ![n] = "poll"]
    /\ UNCHANGED <<etcdVars, verdict, apiVars, faults>>

(* A process dies with every goroutine in it; its key stays until the TTL. *)
Crash(n) ==
    /\ proc[n] = "up"
    /\ proc' = [proc EXCEPT ![n] = "crashed"]
    /\ updater' = [updater EXCEPT ![n] = "off"]
    /\ elect' = [elect EXCEPT ![n] = "off"]
    /\ verdict' = [verdict EXCEPT ![n] = NoVerdict]
    /\ mw' = [mw EXCEPT ![n] = NewMasterSlave]
    /\ masterURI' = [masterURI EXCEPT ![n] = NoURI]
    /\ UNCHANGED <<etcdVars, faults>>

(* updateNode: the one attempt to create the key. *)
UpdaterCreates(n) ==
    /\ updater[n] = "create"
    /\ lastIndex' = lastIndex + 1
    /\ dir' = CreateKey(dir, n, lastIndex')
    /\ lease' = [lease EXCEPT ![n] = "fresh"]
    /\ updater' = [updater EXCEPT ![n] = "loop"]
    /\ UNCHANGED <<proc, elect, verdict, apiVars, faults>>

(* The attempt fails: a warning is logged and the loop is entered all the same. *)
UpdaterFailsToCreate(n) ==
    /\ updater[n] = "create"
    /\ faults < MaxFaults
    /\ faults' = faults + 1
    /\ updater' = [updater EXCEPT ![n] = "loop"]
    /\ UNCHANGED <<etcdVars, proc, elect, verdict, apiVars>>

(* Mutant: the tick sets the key, so a key that had expired is created again. *)
UpdaterRefreshesWithSet(n) ==
    /\ updater[n] = "loop"
    /\ lastIndex' = lastIndex + 1
    /\ dir' = CreateKey(dir, n, lastIndex')
    /\ lease' = [lease EXCEPT ![n] = "fresh"]
    /\ lastIndex < MaxFaults + 3
    /\ UNCHANGED <<proc, updater, elect, verdict, apiVars, faults>>

(* updateNode: a tick, two seconds before the TTL would run out. *)
UpdaterRefreshes(n) ==
    /\ updater[n] = "loop"
    /\ dir' = UpdateKey(dir, n)
    /\ lease' = [lease EXCEPT ![n] = "fresh"]
    /\ UNCHANGED <<lastIndex, proc, updater, elect, verdict, apiVars, faults>>

(* Time passes in etcd: a key nears the end of its TTL ... *)
LeaseAges(n) ==
    /\ dir[n] # Absent
    /\ lease' = [lease EXCEPT ![n] = "stale"]
    /\ UNCHANGED <<dir, lastIndex, proc, updater, elect, verdict, apiVars, faults>>

(* ... and is removed, which befalls a live node only when its renewal is late. *)
KeyExpires(n) ==
    /\ dir[n] # Absent
    /\ lease[n] = "stale"
    /\ \/ proc[n] = "crashed" /\ UNCHANGED faults
       \/ proc[n] = "up" /\ faults < MaxFaults /\ faults' = faults + 1
    /\ dir' = RemoveKey(dir, n)
    /\ lease' = [lease EXCEPT ![n] = "fresh"]
    /\ UNCHANGED <<lastIndex, proc, updater, elect, verdict, apiVars>>

-----------------------------------------------------------------------------
(* electMaster's loop: findMaster, then a strategy for eirene. *)
Conclude(n, strategy) ==
    /\ elect[n] = "poll"
    /\ verdict' = [verdict EXCEPT ![n] = strategy]
    /\ elect' = [elect EXCEPT ![n] = "send"]
    /\ UNCHANGED <<etcdVars, proc, updater, apiVars>>

(* Mutant: being registered is taken for being the master. *)
PollFindsSelfAnywhere(n) ==
    /\ dir[n] # Absent
    /\ Conclude(n, MasterStrategy)
    /\ UNCHANGED faults

PollFindsSelf(n) ==
    /\ IsMaster(dir, n)
    /\ Conclude(n, MasterStrategy)
    /\ UNCHANGED faults

PollFindsOther(n) ==
    /\ \E m \in Node \ {n} :
        /\ IsMaster(dir, m)
        /\ Conclude(n, SlaveStrategy(AddressOf[m], PortOf[m]))
    /\ UNCHANGED faults

(* An empty directory leaves nothing to unmarshal: slave of nobody. *)
PollFindsNobody(n) ==
    /\ Registered(dir) = {}
    /\ Conclude(n, SlaveStrategy("", ""))
    /\ UNCHANGED faults

(* The query fails: the same answer as from an empty directory. *)
PollFails(n) ==
    /\ faults < MaxFaults
    /\ Conclude(n, SlaveStrategy("", ""))
    /\ faults' = faults + 1

(* Mutant: a master is never told that it is a slave. *)
DemotesSlavesOnly(m, strategy) ==
    /\ ~m.master
    /\ m.address # strategy.address
    /\ m.port # strategy.port

(* Mutant: the master is remembered when first heard of, and never changed. *)
DemotesOnce(m, strategy) ==
    /\ ~m.available
    /\ m.address # strategy.address
    /\ m.port # strategy.port

(* A slave's verdict counts only if address and port both differ from the current ones. *)
Demotes(m, strategy) ==
    /\ m.address # strategy.address
    /\ m.port # strategy.port

(* The middleware after StartEirene has handled a strategy. *)
ApplyStrategy(n, m, strategy) ==
    IF strategy.action = "master"
    THEN IF m.master THEN m
         ELSE [available |-> TRUE, master |-> TRUE,
               address |-> [schemes |-> 0, host |-> AddressOf[n]], port |-> PortOf[n]]
    ELSE IF Demotes(m, strategy)
         THEN [available |-> TRUE, master |-> FALSE,
               address |-> strategy.address, port |-> strategy.port]
         ELSE m

(* StartEirene receives the strategy, and core the new MasterURI if it differs. *)
EireneChangesStrategy(n) ==
    /\ elect[n] = "send"
    /\ mw' = [mw EXCEPT ![n] = ApplyStrategy(n, mw[n], verdict[n])]
    /\ masterURI' = [masterURI EXCEPT ![n] = CurrentMasterAsURI(mw'[n])]
    /\ verdict' = [verdict EXCEPT ![n] = NoVerdict]
    /\ elect' = [elect EXCEPT ![n] = "poll"]
    /\ UNCHANGED <<etcdVars, proc, updater, faults>>

Poll(n) == PollFindsSelf(n) \/ PollFindsOther(n) \/ PollFindsNobody(n)

Next ==
    \E n \in Node :
        \/ Start(n) \/ Crash(n)
        \/ UpdaterCreates(n) \/ UpdaterFailsToCreate(n) \/ UpdaterRefreshes(n)
        \/ LeaseAges(n) \/ KeyExpires(n)
        \/ Poll(n) \/ PollFails(n) \/ EireneChangesStrategy(n)

(***************************************************************************)
(* Fairness: the goroutines of a live process run (the updater creates its *)
(* key, electMaster polls after its sleep, StartEirene takes the strategy) *)
(* and etcd removes the key of a dead process when its TTL is over.        *)
(* Nothing is promised about processes starting or calls failing.          *)
(***************************************************************************)
Fairness ==
    \A n \in Node :
        /\ WF_vars(UpdaterCreates(n) \/ UpdaterFailsToCreate(n))
        /\ WF_vars(Poll(n))
        /\ WF_vars(EireneChangesStrategy(n))
        /\ WF_vars(proc[n] = "crashed" /\ (LeaseAges(n) \/ KeyExpires(n)))

Spec == Init /\ [][Next]_vars
FairSpec == Spec /\ Fairness
-----------------------------------------------------------------------------
(***************************************************************************)
(* Two nodes that serve the API as master never both hold the key under    *)
(* which they were elected: at most one of the masters is registered.      *)
(* (A master that lost its key goes on serving until its next poll.)       *)
(***************************************************************************)
Serving(n) == mw[n].available /\ mw[n].master

OneRegisteredMaster ==
    \A m, n \in Registered(dir) : Serving(m) /\ Serving(n) => m = n

(***************************************************************************)
(* The verdict a node acts upon is stale by the time it is handled, but    *)
(* never so stale that the node takes the API over from a registered node  *)
(* that was there first: whoever becomes master while it is registered is  *)
(* the node the directory elects at that very moment.                      *)
(***************************************************************************)
NoUsurper ==
    [][\A n \in Node :
          ~Serving(n) /\ Serving(n)' /\ dir'[n] # Absent => IsMaster(dir', n)]_vars

(***************************************************************************)
(* A master whose key is gone while another node is registered stops       *)
(* serving: the cluster is not left with two API masters for good.         *)
(***************************************************************************)
Superseded(n) == proc[n] = "up" /\ dir[n] = Absent /\ Registered(dir) # {}

DemotedWhenSuperseded ==
    \A n \in Node : Superseded(n) /\ Serving(n) ~> ~Serving(n)

(***************************************************************************)
(* Once nothing fails or moves any more, the node the directory elects     *)
(* serves and every other live node redirects to its address and port.     *)
(***************************************************************************)
Follows(n, m) ==
    /\ mw[n].available
    /\ ~mw[n].master
    /\ mw[n].address = [schemes |-> 1, host |-> AddressOf[m]]
    /\ mw[n].port = PortOf[m]

Settled ==
    \A n, m \in Node :
        proc[n] = "up" /\ IsMaster(dir, m) =>
            IF n = m THEN Serving(n) ELSE Follows(n, m)

Converges == <>[]Settled

(***************************************************************************)
(* The URI handed to actions as <<HORAE_COMPLETION_URI>> is one a task can *)
(* call: exactly one "http://" in front of the master's address.           *)
(***************************************************************************)
CallableMasterURI ==
    \A n \in Node : masterURI[n] # NoURI => masterURI[n].schemes = 1

-----------------------------------------------------------------------------
(* Who is registered before whom. *)
Ahead == {p \in Registered(dir) \X Registered(dir) : dir[p[1]] < dir[p[2]]}

(* The nodes that had their only chance to register and hold no key. *)
Departed ==
    {n \in Node : dir[n] = Absent /\ (updater[n] = "loop" \/ proc[n] = "crashed")}

Confirmed ==
    {n \in Node : Serving(n) \/ (elect[n] = "send" /\ verdict[n].action = "master")}

Succession ==
    INSTANCE Succession WITH line <- Registered(dir), ahead <- Ahead,
                             departed <- Departed, confirmed <- Confirmed

(***************************************************************************)
(* The API endpoint passes from node to node in the order of registration, *)
(* nobody comes back after losing its key, and a node is told that it is   *)
(* the master only while it is at the head of that line.                   *)
(***************************************************************************)
ImplementsSuccession == Succession!Spec
=============================================================================
