-------------------------- MODULE ApiElection_proofs --------------------------
(***************************************************************************)
(* At most one registered node serves the API, in every cluster.           *)
(***************************************************************************)
EXTENDS ApiRequests, TLAPS

(***************************************************************************)
(* The inductive invariant.  Created indexes are handed out in increasing  *)
(* order and never twice; a node that has not had its chance to register   *)
(* has neither a key nor a verdict; and a node with the verdict "master"   *)
(* in hand or acted upon is first in the directory for as long as its key  *)
(* is there: whoever registers later gets a higher index, and a key that   *)
(* is gone does not come back.                                             *)
(***************************************************************************)
Elected(n) == Serving(n) \/ verdict[n].action = "master"

Newcomer(n) == proc[n] = "down" \/ updater[n] = "create"

IndexesOrdered ==
    /\ \A n \in Node : dir[n] <= lastIndex
    /\ \A m, n \in Node : dir[m] # Absent /\ dir[m] = dir[n] => m = n

NewcomersUnknown == \A n \in Node : Newcomer(n) => dir[n] = Absent /\ ~Elected(n)

ElectedIsFirst == \A n \in Node : dir[n] # Absent /\ Elected(n) => IsMaster(dir, n)

UnstartedIsOff == \A n \in Node : proc[n] = "down" => updater[n] = "off"

IInv == TypeOK /\ UnstartedIsOff /\ IndexesOrdered /\ NewcomersUnknown /\ ElectedIsFirst

-----------------------------------------------------------------------------
(* Creating a key at an index higher than all others, or removing a key,   *)
(* leaves whoever is first and stays registered in its place.              *)
LEMMA CreateKeyKeepsFirst ==
    ASSUME NEW d \in Directory, NEW n \in Node, NEW i \in Nat,
           NEW m \in Node, IsMaster(d, m), \A k \in Node : d[k] <= i
    PROVE  IsMaster(CreateKey(d, n, i + 1), m)
BY DEF IsMaster, CreateKey, Directory, Absent

LEMMA RemoveKeyKeepsFirst ==
    ASSUME NEW d \in Directory, NEW n \in Node, NEW m \in Node \ {n}, IsMaster(d, m)
    PROVE  IsMaster(RemoveKey(d, n), m)
BY DEF IsMaster, RemoveKey, Directory, Absent

(* Only one key can be the first one. *)
LEMMA FirstIsUnique ==
    ASSUME IndexesOrdered, dir \in Directory,
           NEW m \in Node, NEW n \in Node, IsMaster(dir, m), IsMaster(dir, n)
    PROVE  m = n
<1>1. dir[m] <= dir[n] /\ dir[n] <= dir[m] /\ dir[m] # Absent
  BY DEF IsMaster
<1>2. dir[m] = dir[n]
  BY <1>1 DEF Directory
<1> QED
  BY <1>1, <1>2 DEF IndexesOrdered

-----------------------------------------------------------------------------
(* The types of what a poll and a strategy produce. *)
LEMMA AddressType ==
    ASSUME NEW k \in 0 .. 1, NEW h \in Host \cup {"horae.co", ""}
    PROVE  [schemes |-> k, host |-> h] \in Address
BY Zenon DEF Address

LEMMA URIType ==
    ASSUME NEW k \in 0 .. 2, NEW h \in Host \cup {"horae.co", ""}, NEW p \in PortField
    PROVE  [schemes |-> k, host |-> h, port |-> p] \in URI
BY Zenon DEF URI

LEMMA NoURIType == NoURI \in URI
<1>1. 0 \in 0 .. 2 /\ "" \in Host \cup {"horae.co", ""} /\ "" \in PortField
  BY DEF PortField
<1> QED
  BY <1>1, URIType DEF NoURI

LEMMA StrategyTypes ==
    /\ NoVerdict \in Strategy
    /\ MasterStrategy \in Strategy
    /\ NewMasterSlave \in MasterSlave
    /\ \A n \in Node : SlaveStrategy(AddressOf[n], PortOf[n]) \in Strategy
<1>1. NoVerdict \in Strategy
  BY DEF NoVerdict, SlaveStrategy, Strategy, Address, PortField
<1>2. MasterStrategy \in Strategy
  BY DEF MasterStrategy, Strategy, Address, PortField
<1>3. NewMasterSlave \in MasterSlave
  BY DEF NewMasterSlave, MasterSlave, Address, PortField
<1>4. ASSUME NEW n \in Node
      PROVE  SlaveStrategy(AddressOf[n], PortOf[n]) \in Strategy
  <2>1. AddressOf[n] \in Host /\ PortOf[n] \in Port
    BY AddressOfAssumption, PortOfAssumption
  <2>2. [schemes |-> 1, host |-> AddressOf[n]] \in Address
    BY <2>1, 1 \in 0 .. 1, AddressType
  <2> QED
    BY <2>1, <2>2 DEF SlaveStrategy, Strategy, PortField
<1> QED
  BY <1>1, <1>2, <1>3, <1>4

LEMMA ApplyStrategyType ==
    ASSUME NEW n \in Node, NEW m \in MasterSlave, NEW s \in Strategy
    PROVE  /\ ApplyStrategy(n, m, s) \in MasterSlave
           /\ CurrentMasterAsURI(m) \in URI
<1>1. AddressOf[n] \in Host /\ PortOf[n] \in Port
  BY AddressOfAssumption, PortOfAssumption
<1>2. [schemes |-> 0, host |-> AddressOf[n]] \in Address
  BY <1>1, 0 \in 0 .. 1, AddressType
<1>3. s.address \in Address /\ s.port \in PortField
  BY DEF Strategy
<1>4. ApplyStrategy(n, m, s) \in MasterSlave
  <2>1. ASSUME NEW a \in Address, NEW p \in PortField, NEW b \in BOOLEAN
        PROVE  [available |-> TRUE, master |-> b, address |-> a, port |-> p] \in MasterSlave
    BY Zenon DEF MasterSlave
  <2>2. PortOf[n] \in PortField
    BY <1>1 DEF PortField
  <2> QED
    BY Zenon, <1>2, <1>3, <2>1, <2>2 DEF ApplyStrategy
<1>5. CurrentMasterAsURI(m) \in URI
  <2>1. /\ m.address.schemes \in 0 .. 1
        /\ m.address.host \in Host \cup {"horae.co", ""}
        /\ m.port \in PortField
    BY DEF MasterSlave, Address
  <2> QED
    <3>1. m.address.schemes + 1 \in 0 .. 2
      <4>1. \A k \in 0 .. 1 : k + 1 \in 0 .. 2
        OBVIOUS
      <4> QED
        BY ONLY <2>1, <4>1
    <3> QED
      BY <2>1, <3>1, URIType DEF CurrentMasterAsURI
<1> QED
  BY <1>4, <1>5

-----------------------------------------------------------------------------
LEMMA InitIInv == Init => IInv
<1> SUFFICES ASSUME Init PROVE IInv
  OBVIOUS
<1>1. TypeOK
  <2>1. mw \in [Node -> MasterSlave] /\ verdict \in [Node -> Strategy]
    BY StrategyTypes DEF Init
  <2>2. masterURI \in [Node -> URI]
    BY NoURIType DEF Init
  <2> QED
    BY <2>1, <2>2, MaxFaultsAssumption DEF Init, TypeOK, EmptyDirectory, Directory, Absent
<1>2. \A n \in Node : ~Elected(n)
  BY DEF Init, Elected, Serving, NewMasterSlave, NoVerdict, SlaveStrategy
<1>3. IndexesOrdered
  BY DEF Init, IndexesOrdered, EmptyDirectory, Absent
<1> QED
  BY <1>1, <1>2, <1>3 DEF Init, IInv, UnstartedIsOff, NewcomersUnknown, ElectedIsFirst, EmptyDirectory

(* Every step keeps the variables in their types. *)
LEMMA StepTypeOK == TypeOK /\ [Next]_vars => TypeOK'
<1> SUFFICES ASSUME TypeOK, [Next]_vars PROVE TypeOK'
  OBVIOUS
<1> USE DEF TypeOK
<1>1. ASSUME NEW n \in Node, Start(n) PROVE TypeOK'
  BY <1>1 DEF Start, etcdVars, apiVars
<1>2. ASSUME NEW n \in Node, Crash(n) PROVE TypeOK'
  <2>1. mw' \in [Node -> MasterSlave] /\ verdict' \in [Node -> Strategy]
    BY <1>2, StrategyTypes DEF Crash
  <2>2. masterURI' \in [Node -> URI]
    BY <1>2, NoURIType DEF Crash
  <2> QED
    BY <1>2, <2>1, <2>2 DEF Crash, etcdVars
<1>3. ASSUME NEW n \in Node, UpdaterCreates(n) PROVE TypeOK'
  <2>1. dir' \in Directory /\ lastIndex' \in Nat
    BY <1>3 DEF UpdaterCreates, CreateKey, Directory
  <2> QED
    BY <1>3, <2>1 DEF UpdaterCreates, apiVars
<1>4. ASSUME NEW n \in Node, UpdaterFailsToCreate(n) PROVE TypeOK'
  BY <1>4, MaxFaultsAssumption DEF UpdaterFailsToCreate, etcdVars, apiVars
<1>5. ASSUME NEW n \in Node, UpdaterRefreshes(n) PROVE TypeOK'
  BY <1>5 DEF UpdaterRefreshes, UpdateKey, apiVars
<1>6. ASSUME NEW n \in Node, LeaseAges(n) PROVE TypeOK'
  BY <1>6 DEF LeaseAges, apiVars
<1>7. ASSUME NEW n \in Node, KeyExpires(n) PROVE TypeOK'
  <2>1. dir' \in Directory
    BY <1>7 DEF KeyExpires, RemoveKey, Directory, Absent
  <2>2. faults' \in 0 .. MaxFaults
    BY <1>7, MaxFaultsAssumption DEF KeyExpires
  <2> QED
    BY <1>7, <2>1, <2>2 DEF KeyExpires, apiVars
<1>8. ASSUME NEW n \in Node, NEW s \in Strategy, Conclude(n, s), faults' \in 0 .. MaxFaults
      PROVE  TypeOK'
  BY <1>8 DEF Conclude, etcdVars, apiVars
<1>9. ASSUME NEW n \in Node, Poll(n) PROVE TypeOK'
  <2>1. faults' \in 0 .. MaxFaults
    BY <1>9 DEF Poll, PollFindsSelf, PollFindsOther, PollFindsNobody
  <2>2. \E s \in Strategy : Conclude(n, s)
    BY <1>9, StrategyTypes DEF Poll, PollFindsSelf, PollFindsOther, PollFindsNobody, NoVerdict
  <2> QED
    BY <2>1, <2>2, <1>8
<1>10. ASSUME NEW n \in Node, PollFails(n) PROVE TypeOK'
  <2>1. faults' \in 0 .. MaxFaults
    <3>1. faults \in 0 .. MaxFaults /\ faults < MaxFaults /\ faults' = faults + 1
      BY <1>10 DEF PollFails
    <3> HIDE DEF TypeOK
    <3> QED
      BY <3>1, MaxFaultsAssumption
  <2> QED
    BY <1>10, <2>1, <1>8, StrategyTypes DEF PollFails, NoVerdict
<1>11. ASSUME NEW n \in Node, EireneChangesStrategy(n) PROVE TypeOK'
  <2>1. mw' \in [Node -> MasterSlave]
    BY <1>11, ApplyStrategyType DEF EireneChangesStrategy
  <2>2. masterURI' \in [Node -> URI]
    BY <1>11, <2>1, ApplyStrategyType DEF EireneChangesStrategy
  <2>3. verdict' \in [Node -> Strategy]
    BY <1>11, StrategyTypes DEF EireneChangesStrategy
  <2> QED
    BY <1>11, <2>1, <2>2, <2>3 DEF EireneChangesStrategy, etcdVars
<1>12. CASE UNCHANGED vars
  BY <1>12 DEF vars, etcdVars, apiVars
<1> QED
  BY <1>1, <1>2, <1>3, <1>4, <1>5, <1>6, <1>7, <1>9, <1>10, <1>11, <1>12 DEF Next

-----------------------------------------------------------------------------
(* No goroutine runs on a node that has not started. *)
LEMMA StepUnstartedIsOff ==
    TypeOK /\ UnstartedIsOff /\ [Next]_vars => UnstartedIsOff'
<1> SUFFICES ASSUME TypeOK, UnstartedIsOff, [Next]_vars,
                    NEW m \in Node, proc'[m] = "down"
             PROVE  updater'[m] = "off"
  BY DEF UnstartedIsOff
<1>t. /\ proc \in [Node -> {"down", "up", "crashed"}]
      /\ updater \in [Node -> {"off", "create", "loop"}]
  BY DEF TypeOK
<1>1. ASSUME NEW n \in Node, Start(n) \/ Crash(n) PROVE updater'[m] = "off"
  BY <1>1, <1>t DEF Start, Crash, UnstartedIsOff
<1>2. ASSUME NEW n \in Node, UpdaterCreates(n) \/ UpdaterFailsToCreate(n)
      PROVE  updater'[m] = "off"
  BY <1>2, <1>t DEF UpdaterCreates, UpdaterFailsToCreate, UnstartedIsOff
<1>3. ASSUME UNCHANGED <<proc, updater>> PROVE updater'[m] = "off"
  BY <1>3 DEF UnstartedIsOff
<1>4. ASSUME NEW n \in Node,
             UpdaterRefreshes(n) \/ LeaseAges(n) \/ KeyExpires(n)
               \/ Poll(n) \/ PollFails(n) \/ EireneChangesStrategy(n)
      PROVE  updater'[m] = "off"
  BY <1>3, <1>4 DEF UpdaterRefreshes, LeaseAges, KeyExpires, Poll, PollFindsSelf,
                    PollFindsOther, PollFindsNobody, PollFails, Conclude,
                    EireneChangesStrategy
<1>5. ASSUME UNCHANGED vars PROVE updater'[m] = "off"
  BY <1>3, <1>5 DEF vars
<1> QED
  BY <1>1, <1>2, <1>4, <1>5 DEF Next

(* Every step preserves the invariant. *)
LEMMA StepIInv == IInv /\ [Next]_vars => IInv'
<1> SUFFICES ASSUME IInv, [Next]_vars PROVE IInv'
  OBVIOUS
<1>0. TypeOK /\ TypeOK' /\ UnstartedIsOff /\ UnstartedIsOff' /\ IndexesOrdered /\ NewcomersUnknown /\ ElectedIsFirst
  BY StepTypeOK, StepUnstartedIsOff DEF IInv
<1>t. /\ dir \in [Node -> Nat] /\ lastIndex \in Nat
      /\ updater \in [Node -> {"off", "create", "loop"}]
      /\ proc \in [Node -> {"down", "up", "crashed"}]
      /\ verdict \in [Node -> Strategy] /\ mw \in [Node -> MasterSlave]
      /\ elect \in [Node -> {"off", "poll", "send"}]
  BY <1>0 DEF TypeOK, Directory
<1> DEFINE Rest == IndexesOrdered' /\ NewcomersUnknown' /\ ElectedIsFirst'
<1>1. ASSUME NEW n \in Node, Start(n) PROVE Rest
  <2>1. UNCHANGED <<dir, lastIndex, verdict, mw>>
    BY <1>1 DEF Start, etcdVars, apiVars
  <2>2. \A m \in Node : Newcomer(m)' => Newcomer(m)
    BY <1>1, <1>t DEF Start, Newcomer
  <2> QED
    BY <1>0, <2>1, <2>2 DEF IndexesOrdered, NewcomersUnknown, ElectedIsFirst,
                            IsMaster, Elected, Serving
<1>2. ASSUME NEW n \in Node, Crash(n) PROVE Rest
  <2>1. UNCHANGED <<dir, lastIndex>>
    BY <1>2 DEF Crash, etcdVars
  <2>2. \A m \in Node : Newcomer(m)' => Newcomer(m)
    BY <1>2, <1>t DEF Crash, Newcomer
  <2>3. \A m \in Node : Elected(m)' => Elected(m)
    BY <1>2, <1>t DEF Crash, Elected, Serving, NewMasterSlave, NoVerdict, SlaveStrategy
  <2> QED
    BY <1>0, <2>1, <2>2, <2>3 DEF IndexesOrdered, NewcomersUnknown, ElectedIsFirst, IsMaster
<1>3. ASSUME NEW n \in Node, UpdaterCreates(n) PROVE Rest
  <2>1. /\ Newcomer(n) /\ dir[n] = Absent /\ ~Elected(n)
        /\ dir' = CreateKey(dir, n, lastIndex + 1) /\ lastIndex' = lastIndex + 1
        /\ UNCHANGED <<verdict, mw, proc>>
    BY <1>3, <1>0 DEF UpdaterCreates, Newcomer, NewcomersUnknown, apiVars
  <2>2. dir' = [dir EXCEPT ![n] = lastIndex + 1]
    BY <2>1 DEF CreateKey
  <2>3. \A m \in Node : dir[m] <= lastIndex
    BY <1>0 DEF IndexesOrdered
  <2>4. IndexesOrdered'
    BY <1>0, <1>t, <2>1, <2>2, <2>3 DEF IndexesOrdered, Absent
  <2>5. NewcomersUnknown'
    <3>1. proc[n] # "down"
      BY <1>3, <1>0 DEF UpdaterCreates, UnstartedIsOff
    <3> QED
      BY <1>3, <1>0, <1>t, <2>1, <2>2, <3>1
         DEF NewcomersUnknown, Newcomer, Elected, Serving, UpdaterCreates
  <2>6. ElectedIsFirst'
    <3> SUFFICES ASSUME NEW m \in Node, dir'[m] # Absent, Elected(m)'
                 PROVE  IsMaster(dir', m)
      BY DEF ElectedIsFirst, IsMaster
    <3>1. Elected(m) /\ m # n
      BY <2>1 DEF Elected, Serving
    <3>2. IsMaster(dir, m)
      BY <1>0, <1>t, <2>2, <3>1 DEF ElectedIsFirst
    <3> QED
      BY <1>t, <2>1, <2>3, <3>2, CreateKeyKeepsFirst DEF Directory
  <2> QED
    BY <2>4, <2>5, <2>6
<1>4. ASSUME NEW n \in Node, UpdaterFailsToCreate(n) PROVE Rest
  <2>1. UNCHANGED <<dir, lastIndex, verdict, mw>>
    BY <1>4 DEF UpdaterFailsToCreate, etcdVars, apiVars
  <2>2. \A m \in Node : Newcomer(m)' => Newcomer(m)
    BY <1>4, <1>t DEF UpdaterFailsToCreate, Newcomer
  <2> QED
    BY <1>0, <2>1, <2>2 DEF IndexesOrdered, NewcomersUnknown, ElectedIsFirst,
                            IsMaster, Elected, Serving
<1>5. ASSUME NEW n \in Node, UpdaterRefreshes(n) \/ LeaseAges(n) PROVE Rest
  <2>1. UNCHANGED <<dir, lastIndex, verdict, mw, proc, updater>>
    BY <1>5 DEF UpdaterRefreshes, UpdateKey, LeaseAges, apiVars
  <2> QED
    BY <1>0, <2>1 DEF IndexesOrdered, NewcomersUnknown, ElectedIsFirst,
                      IsMaster, Newcomer, Elected, Serving
<1>6. ASSUME NEW n \in Node, KeyExpires(n) PROVE Rest
  <2>1. /\ dir' = RemoveKey(dir, n)
        /\ UNCHANGED <<lastIndex, verdict, mw, proc, updater>>
    BY <1>6 DEF KeyExpires, apiVars
  <2>2. dir' = [dir EXCEPT ![n] = Absent]
    BY <2>1 DEF RemoveKey
  <2>3. IndexesOrdered' /\ NewcomersUnknown'
    BY <1>0, <1>t, <2>1, <2>2
       DEF IndexesOrdered, NewcomersUnknown, Newcomer, Elected, Serving, Absent
  <2>4. ElectedIsFirst'
    <3> SUFFICES ASSUME NEW m \in Node, dir'[m] # Absent, Elected(m)'
                 PROVE  IsMaster(dir', m)
      BY DEF ElectedIsFirst, IsMaster
    <3>1. m # n /\ Elected(m) /\ dir[m] # Absent
      BY <1>t, <2>1, <2>2 DEF Elected, Serving
    <3> QED
      BY <1>0, <1>t, <2>1, <3>1, RemoveKeyKeepsFirst DEF ElectedIsFirst, Directory
  <2> QED
    BY <2>3, <2>4
<1>7. ASSUME NEW n \in Node, NEW s \in Strategy, Conclude(n, s),
             s.action = "master" => IsMaster(dir, n)
      PROVE  Rest
  <2>1. /\ UNCHANGED <<dir, lastIndex, proc, updater, mw>>
        /\ verdict' = [verdict EXCEPT ![n] = s]
    BY <1>7 DEF Conclude, etcdVars, apiVars
  <2>2. \A m \in Node : Elected(m)' => Elected(m) \/ IsMaster(dir, m)
    BY <1>7, <1>t, <2>1 DEF Elected, Serving
  <2> QED
    BY <1>0, <2>1, <2>2
       DEF IndexesOrdered, NewcomersUnknown, ElectedIsFirst, IsMaster, Newcomer
<1>8. ASSUME NEW n \in Node, Poll(n) \/ PollFails(n) PROVE Rest
  <2>1. CASE PollFindsSelf(n)
    BY <1>7, <2>1, StrategyTypes DEF PollFindsSelf
  <2>2. CASE PollFindsOther(n)
    <3>1. PICK m \in Node : Conclude(n, SlaveStrategy(AddressOf[m], PortOf[m]))
      BY <2>2 DEF PollFindsOther
    <3>2. SlaveStrategy(AddressOf[m], PortOf[m]).action # "master"
      BY DEF SlaveStrategy
    <3> QED
      BY <1>7, <3>1, <3>2, StrategyTypes
  <2>3. CASE PollFindsNobody(n) \/ PollFails(n)
    <3>1. Conclude(n, NoVerdict) /\ NoVerdict.action # "master"
      BY <2>3 DEF PollFindsNobody, PollFails, NoVerdict, SlaveStrategy
    <3> QED
      BY <1>7, <3>1, StrategyTypes
  <2> QED
    BY <1>8, <2>1, <2>2, <2>3 DEF Poll
<1>9. ASSUME NEW n \in Node, EireneChangesStrategy(n) PROVE Rest
  <2>1. /\ UNCHANGED <<dir, lastIndex, proc, updater>>
        /\ mw' = [mw EXCEPT ![n] = ApplyStrategy(n, mw[n], verdict[n])]
        /\ verdict' = [verdict EXCEPT ![n] = NoVerdict]
    BY <1>9 DEF EireneChangesStrategy, etcdVars
  <2>2. Serving(n)' => Elected(n)
    BY <1>t, <2>1 DEF ApplyStrategy, Serving, Elected, MasterSlave
  <2>3. \A m \in Node : Elected(m)' => Elected(m)
    BY <1>t, <2>1, <2>2 DEF Elected, Serving, NoVerdict, SlaveStrategy
  <2> QED
    BY <1>0, <2>1, <2>3
       DEF IndexesOrdered, NewcomersUnknown, ElectedIsFirst, IsMaster, Newcomer
<1>10. ASSUME UNCHANGED vars PROVE Rest
  <2>1. UNCHANGED <<dir, lastIndex, verdict, mw, proc, updater>>
    BY <1>10 DEF vars, etcdVars, apiVars
  <2> QED
    BY <1>0, <2>1 DEF IndexesOrdered, NewcomersUnknown, ElectedIsFirst,
                      IsMaster, Newcomer, Elected, Serving
<1>11. Rest
  <2> HIDE DEF Rest
  <2> QED
    BY <1>1, <1>2, <1>3, <1>4, <1>5, <1>6, <1>8, <1>9, <1>10 DEF Next
<1> QED
  BY <1>0, <1>11 DEF IInv

-----------------------------------------------------------------------------
(***************************************************************************)
(* The variables of the election keep their types.                         *)
(***************************************************************************)
THEOREM TypeCorrect == Spec => []TypeOK
<1>1. Init => TypeOK
  BY InitIInv DEF IInv
<1> QED
  BY <1>1, StepTypeOK, PTL DEF Spec

(* What makes the invariant useful: two registered masters are one. *)
LEMMA IInvImpliesOneMaster == IInv => OneRegisteredMaster
<1> SUFFICES ASSUME IInv, NEW m \in Registered(dir), NEW n \in Registered(dir),
                    Serving(m), Serving(n)
             PROVE  m = n
  BY DEF OneRegisteredMaster
<1>1. m \in Node /\ n \in Node /\ dir[m] # Absent /\ dir[n] # Absent
  BY DEF Registered
<1>2. IsMaster(dir, m) /\ IsMaster(dir, n)
  BY <1>1 DEF IInv, ElectedIsFirst, Elected
<1> QED
  BY <1>1, <1>2, FirstIsUnique DEF IInv, TypeOK

(***************************************************************************)
(* In a cluster of any size, whatever fails, no two registered nodes serve *)
(* the API as master.                                                      *)
(***************************************************************************)
THEOREM OneMaster == Spec => []OneRegisteredMaster
<1> QED
  BY InitIInv, StepIInv, IInvImpliesOneMaster, PTL DEF Spec

(***************************************************************************)
(* A registered node that becomes master is the one the directory elects   *)
(* at that moment, however old the verdict it acts upon.                   *)
(***************************************************************************)
THEOREM NeverUsurped == Spec => NoUsurper
<1>1. IInv /\ IInv' /\ [Next]_vars =>
        [\A n \in Node :
           ~Serving(n) /\ Serving(n)' /\ dir'[n] # Absent => IsMaster(dir', n)]_vars
  BY DEF IInv, ElectedIsFirst, Elected, IsMaster
<1> QED
  BY <1>1, InitIInv, StepIInv, PTL DEF Spec, NoUsurper

-----------------------------------------------------------------------------
(***************************************************************************)
(* That the directory is a succession.  The mapping needs to know, beyond  *)
(* IInv, that an updater runs in a live process only and that a key is     *)
(* that of a node whose updater has made its attempt.                      *)
(***************************************************************************)
UpdatersLive == \A n \in Node : updater[n] # "off" => proc[n] = "up"

KeysWereMade ==
    \A n \in Node : dir[n] # Absent => updater[n] = "loop" \/ proc[n] = "crashed"

SInv == IInv /\ UpdatersLive /\ KeysWereMade

LEMMA StepUpdaters ==
    TypeOK /\ UpdatersLive /\ KeysWereMade /\ [Next]_vars => UpdatersLive' /\ KeysWereMade'
<1> SUFFICES ASSUME TypeOK, UpdatersLive, KeysWereMade, [Next]_vars
             PROVE  UpdatersLive' /\ KeysWereMade'
  OBVIOUS
<1> USE DEF UpdatersLive, KeysWereMade
<1>t. /\ proc \in [Node -> {"down", "up", "crashed"}]
      /\ updater \in [Node -> {"off", "create", "loop"}]
      /\ dir \in [Node -> Nat]
  BY DEF TypeOK, Directory
<1>1. ASSUME NEW n \in Node, Start(n) \/ Crash(n) PROVE UpdatersLive' /\ KeysWereMade'
  BY <1>1, <1>t DEF Start, Crash, etcdVars
<1>2. ASSUME NEW n \in Node, UpdaterCreates(n) \/ UpdaterFailsToCreate(n)
      PROVE  UpdatersLive' /\ KeysWereMade'
  BY <1>2, <1>t DEF UpdaterCreates, UpdaterFailsToCreate, CreateKey, etcdVars
<1>3. ASSUME NEW n \in Node, KeyExpires(n) PROVE UpdatersLive' /\ KeysWereMade'
  BY <1>3, <1>t DEF KeyExpires, RemoveKey
<1>4. ASSUME UNCHANGED <<proc, updater, dir>> PROVE UpdatersLive' /\ KeysWereMade'
  BY <1>4
<1>5. ASSUME NEW n \in Node,
             UpdaterRefreshes(n) \/ LeaseAges(n)
               \/ Poll(n) \/ PollFails(n) \/ EireneChangesStrategy(n)
      PROVE  UNCHANGED <<proc, updater, dir>>
  BY <1>5 DEF UpdaterRefreshes, UpdateKey, LeaseAges, Poll, PollFindsSelf, PollFindsOther,
              PollFindsNobody, PollFails, Conclude, EireneChangesStrategy, etcdVars
<1>6. ASSUME UNCHANGED vars PROVE UNCHANGED <<proc, updater, dir>>
  BY <1>6 DEF vars, etcdVars
<1> QED
  BY <1>1, <1>2, <1>3, <1>4, <1>5, <1>6 DEF Next

LEMMA InitSInv == Init => SInv
BY InitIInv DEF Init, SInv, UpdatersLive, KeysWereMade, EmptyDirectory

LEMMA StepSInv == SInv /\ [Next]_vars => SInv'
BY StepIInv, StepUpdaters DEF SInv, IInv

LEMMA InitSuccession == Init => Succession!Init
<1> SUFFICES ASSUME Init PROVE Succession!Init
  OBVIOUS
<1>1. Registered(dir) = {} /\ Departed = {}
  BY DEF Init, Registered, Departed, EmptyDirectory, Absent
<1>2. Ahead = {}
  BY <1>1 DEF Ahead
<1>3. Confirmed = {}
  BY DEF Init, Confirmed, Serving, NewMasterSlave
<1> QED
  BY <1>1, <1>2, <1>3 DEF Succession!Init

(* A step that moves no key and no updater. *)
LEMMA SameLine ==
    ASSUME UNCHANGED <<dir, updater, proc>>
    PROVE  UNCHANGED <<Registered(dir), Ahead, Departed>>
BY DEF Registered, Ahead, Departed

(***************************************************************************)
(* Every step of the election is one of the succession: a key created is a *)
(* node that joins, a key expired one that leaves, a poll that finds the   *)
(* node itself confirms it, and only a strategy or a crash dismisses it.   *)
(***************************************************************************)
LEMMA StepSuccession == SInv /\ [Next]_vars => [Succession!Next]_(Succession!succession)
<1> SUFFICES ASSUME SInv, [Next]_vars
             PROVE  Succession!Next \/ UNCHANGED Succession!succession
  OBVIOUS
<1> DEFINE Goal == Succession!Next \/ UNCHANGED Succession!succession
<1>0. TypeOK /\ IndexesOrdered /\ NewcomersUnknown /\ UnstartedIsOff /\ UpdatersLive /\ KeysWereMade
  BY DEF SInv, IInv
<1>t. /\ dir \in [Node -> Nat] /\ lastIndex \in Nat
      /\ updater \in [Node -> {"off", "create", "loop"}]
      /\ proc \in [Node -> {"down", "up", "crashed"}]
      /\ verdict \in [Node -> Strategy] /\ mw \in [Node -> MasterSlave]
      /\ elect \in [Node -> {"off", "poll", "send"}]
  BY <1>0 DEF TypeOK, Directory
<1>s. ASSUME UNCHANGED <<Registered(dir), Ahead, Departed>>,
             NEW n \in Node, Confirmed' \in {Confirmed, Confirmed \ {n}}
      PROVE  Goal
  BY <1>s DEF Succession!Next, Succession!Dismiss, Succession!succession
<1>1. ASSUME NEW n \in Node, Start(n) PROVE Goal
  <2>1. UNCHANGED <<dir, verdict, mw>> /\ ~Elected(n)
    BY <1>1, <1>0 DEF Start, etcdVars, apiVars, NewcomersUnknown, Newcomer
  <2>2. Confirmed' = Confirmed
    BY <1>1, <1>t, <2>1 DEF Start, Confirmed, Serving, Elected
  <2>3. UNCHANGED <<Registered(dir), Ahead>>
    BY <2>1 DEF Registered, Ahead
  <2>4. Departed' = Departed
    BY <1>1, <1>t, <1>0, <2>1 DEF Start, Departed, UnstartedIsOff
  <2> QED
    BY <1>s, <2>2, <2>3, <2>4
<1>2. ASSUME NEW n \in Node, Crash(n) PROVE Goal
  <2>1. UNCHANGED dir
    BY <1>2 DEF Crash, etcdVars
  <2>2. UNCHANGED <<Registered(dir), Ahead>>
    BY <2>1 DEF Registered, Ahead
  <2>3. Confirmed' = Confirmed \ {n}
    BY <1>2, <1>t DEF Crash, Confirmed, Serving, NewMasterSlave
  <2>4. CASE dir[n] # Absent \/ n \in Departed
    <3>1. Departed' = Departed
      BY <1>2, <1>t, <2>1, <2>4 DEF Crash, Departed
    <3> QED
      BY <1>s, <2>2, <2>3, <3>1
  <2>5. CASE dir[n] = Absent /\ n \notin Departed
    <3>1. Departed' = Departed \cup {n}
      BY <1>2, <1>t, <2>1, <2>5 DEF Crash, Departed
    <3>2. Registered(dir) \ {n} = Registered(dir)
      BY <2>5 DEF Registered
    <3>3. Ahead \cap (Registered(dir) \X Registered(dir)) = Ahead
      BY DEF Ahead
    <3> QED
      BY <2>2, <2>3, <2>5, <3>1, <3>2, <3>3 DEF Succession!Next, Succession!Leave
  <2> QED
    BY <2>4, <2>5
<1>3. ASSUME NEW n \in Node, UpdaterCreates(n) PROVE Goal
  <2>1. /\ dir[n] = Absent /\ n \notin Departed /\ n \notin Registered(dir)
        /\ UNCHANGED <<verdict, mw, proc, elect>>
    BY <1>3, <1>0 DEF UpdaterCreates, Newcomer, NewcomersUnknown, UpdatersLive,
                      Departed, Registered, apiVars
  <2>2. dir' = [dir EXCEPT ![n] = lastIndex + 1]
    BY <1>3, <2>1 DEF UpdaterCreates, CreateKey
  <2>3. Registered(dir)' = Registered(dir) \cup {n}
    BY <1>t, <2>2 DEF Registered, Absent
  <2>4. Ahead' = Ahead \cup (Registered(dir) \X {n})
    <3>1. \A m \in Node : dir[m] <= lastIndex
      BY <1>0 DEF IndexesOrdered
    <3> QED
      BY <1>t, <2>1, <2>2, <2>3, <3>1 DEF Ahead, Registered
  <2>5. Departed' = Departed
    BY <1>3, <1>t, <2>1, <2>2 DEF UpdaterCreates, Departed, Absent
  <2>6. Confirmed' = Confirmed
    BY <2>1 DEF Confirmed, Serving
  <2> QED
    BY <2>1, <2>3, <2>4, <2>5, <2>6 DEF Succession!Next, Succession!Join
<1>4. ASSUME NEW n \in Node, UpdaterFailsToCreate(n) PROVE Goal
  <2>1. /\ dir[n] = Absent /\ n \notin Departed
        /\ UNCHANGED <<dir, verdict, mw, proc, elect>>
    BY <1>4, <1>0 DEF UpdaterFailsToCreate, Newcomer, NewcomersUnknown, UpdatersLive,
                      Departed, etcdVars, apiVars
  <2>2. Departed' = Departed \cup {n}
    BY <1>4, <1>t, <2>1 DEF UpdaterFailsToCreate, Departed
  <2>3. Registered(dir)' = Registered(dir) \ {n} /\ Ahead' = Ahead /\ Confirmed' = Confirmed
    BY <2>1 DEF Registered, Ahead, Confirmed, Serving
  <2>4. Ahead = Ahead \cap (Registered(dir)' \X Registered(dir)')
    BY <2>1 DEF Registered, Ahead
  <2> QED
    BY <2>1, <2>2, <2>3, <2>4 DEF Succession!Next, Succession!Leave
<1>5. ASSUME NEW n \in Node, KeyExpires(n) PROVE Goal
  <2>1. /\ dir[n] # Absent /\ dir' = [dir EXCEPT ![n] = Absent]
        /\ UNCHANGED <<verdict, mw, proc, elect, updater>>
    BY <1>5 DEF KeyExpires, RemoveKey, apiVars
  <2>2. n \notin Departed /\ Departed' = Departed \cup {n}
    BY <1>0, <1>t, <2>1 DEF Departed, KeysWereMade
  <2>3. Registered(dir)' = Registered(dir) \ {n}
    BY <1>t, <2>1 DEF Registered
  <2>4. Ahead' = Ahead \cap (Registered(dir)' \X Registered(dir)')
    BY <1>t, <2>1, <2>3 DEF Ahead, Registered
  <2>5. Confirmed' = Confirmed
    BY <2>1 DEF Confirmed, Serving
  <2> QED
    BY <2>2, <2>3, <2>4, <2>5 DEF Succession!Next, Succession!Leave
<1>6. ASSUME NEW n \in Node, UpdaterRefreshes(n) \/ LeaseAges(n) PROVE Goal
  <2>1. UNCHANGED <<dir, verdict, mw, proc, elect, updater>>
    BY <1>6 DEF UpdaterRefreshes, UpdateKey, LeaseAges, apiVars
  <2> QED
    BY <1>s, <2>1, SameLine DEF Confirmed, Serving
<1>7. ASSUME NEW n \in Node, PollFindsSelf(n) PROVE Goal
  <2>1. /\ UNCHANGED <<dir, mw, proc, updater>> /\ IsMaster(dir, n)
        /\ verdict' = [verdict EXCEPT ![n] = MasterStrategy]
        /\ elect' = [elect EXCEPT ![n] = "send"] /\ elect[n] = "poll"
    BY <1>7 DEF PollFindsSelf, Conclude, etcdVars, apiVars
  <2>2. Confirmed' = Confirmed \cup {n}
    BY <1>t, <2>1 DEF Confirmed, Serving, MasterStrategy
  <2>3. Succession!AtHead(n)
    BY <1>t, <2>1 DEF Succession!AtHead, IsMaster, Registered, Ahead
  <2> QED
    BY <2>1, <2>2, <2>3, SameLine DEF Succession!Next, Succession!Confirm
<1>8. ASSUME NEW n \in Node, NEW s \in Strategy, s.action # "master", Conclude(n, s) PROVE Goal
  <2>1. /\ UNCHANGED <<dir, mw, proc, updater>>
        /\ verdict' = [verdict EXCEPT ![n] = s]
        /\ elect' = [elect EXCEPT ![n] = "send"] /\ elect[n] = "poll"
    BY <1>8 DEF Conclude, etcdVars, apiVars
  <2>2. Confirmed' = Confirmed
    BY <1>8, <1>t, <2>1 DEF Confirmed, Serving
  <2> QED
    BY <1>s, <2>1, <2>2, SameLine
<1>9. ASSUME NEW n \in Node, Poll(n) \/ PollFails(n) PROVE Goal
  <2>1. CASE PollFindsOther(n)
    <3>1. PICK m \in Node : Conclude(n, SlaveStrategy(AddressOf[m], PortOf[m]))
      BY <2>1 DEF PollFindsOther
    <3>2. SlaveStrategy(AddressOf[m], PortOf[m]).action # "master"
      BY DEF SlaveStrategy
    <3> QED
      BY <1>8, <3>1, <3>2, StrategyTypes
  <2>2. CASE PollFindsNobody(n) \/ PollFails(n)
    <3>1. Conclude(n, NoVerdict) /\ NoVerdict.action # "master"
      BY <2>2 DEF PollFindsNobody, PollFails, NoVerdict, SlaveStrategy
    <3> QED
      BY <1>8, <3>1, StrategyTypes
  <2> QED
    BY <1>7, <1>9, <2>1, <2>2 DEF Poll
<1>10. ASSUME NEW n \in Node, EireneChangesStrategy(n) PROVE Goal
  <2>1. /\ UNCHANGED <<dir, proc, updater>>
        /\ mw' = [mw EXCEPT ![n] = ApplyStrategy(n, mw[n], verdict[n])]
        /\ verdict' = [verdict EXCEPT ![n] = NoVerdict]
        /\ elect' = [elect EXCEPT ![n] = "poll"] /\ elect[n] = "send"
    BY <1>10 DEF EireneChangesStrategy, etcdVars
  <2>2. Serving(n)' => Serving(n) \/ verdict[n].action = "master"
    BY <1>t, <2>1 DEF ApplyStrategy, Serving, MasterSlave
  <2>3. Confirmed' \in {Confirmed, Confirmed \ {n}}
    <3>1. \A m \in Node \ {n} : m \in Confirmed' <=> m \in Confirmed
      BY <1>t, <2>1 DEF Confirmed, Serving
    <3>2. n \in Confirmed' => n \in Confirmed
      BY <1>t, <2>1, <2>2 DEF Confirmed
    <3>3. Confirmed \subseteq Node /\ Confirmed' \subseteq Node
      BY DEF Confirmed
    <3> QED
      BY <3>1, <3>2, <3>3
  <2> QED
    BY <1>s, <2>1, <2>3, SameLine
<1>11. ASSUME UNCHANGED vars PROVE Goal
  <2>1. UNCHANGED <<dir, verdict, mw, proc, elect, updater>>
    BY <1>11 DEF vars, etcdVars, apiVars
  <2> QED
    BY <2>1, SameLine DEF Confirmed, Serving, Succession!succession
<1>12. Goal
  <2> HIDE DEF Goal
  <2> QED
    BY <1>1, <1>2, <1>3, <1>4, <1>5, <1>6, <1>9, <1>10, <1>11 DEF Next
<1> QED
  BY <1>12

(***************************************************************************)
(* In a cluster of any size, whatever fails: the API endpoint passes on in *)
(* the order of registration, to nobody who has lost it before, and a node *)
(* is told that it is the master only while it is the first in line.       *)
(***************************************************************************)
THEOREM Implements == Spec => ImplementsSuccession
<1> QED
  BY InitSInv, StepSInv, InitSuccession, StepSuccession, PTL
     DEF Spec, ImplementsSuccession, Succession!Spec

-----------------------------------------------------------------------------
(***************************************************************************)
(* The routes, next to what is documented, and what tells them apart.      *)
(***************************************************************************)
IsRoute(i, op, method, template) ==
    /\ Routes[i].handler = op /\ Documented[op].method = method /\ Documented[op].path = template
    /\ Routes[i].method = method /\ Routes[i].template = template

(* The method, the number of segments and the noun identify a route. *)
RouteNumber(method, len, noun) ==
    CASE noun = "actions" -> 1
      [] noun = "tasks"   -> 6
      [] noun = "queues"  -> 12
      [] noun = "action"  -> IF len = 2 THEN 3 ELSE IF method = "GET" THEN 2
                             ELSE IF method = "PUT" THEN 4 ELSE 5
      [] noun = "task"    -> IF len = 2 THEN 8 ELSE IF len = 4 THEN 11 ELSE IF method = "GET" THEN 7
                             ELSE IF method = "PUT" THEN 9 ELSE 10
      [] noun = "queue"   -> IF len = 2 THEN 14 ELSE IF method = "GET" THEN 13
                             ELSE IF method = "PUT" THEN 15 ELSE 16
      [] OTHER            -> 0

HasKey(i, method, len, noun) ==
    /\ Routes[i].method = method /\ Len(Routes[i].template) = len
    /\ Routes[i].template[2] = noun /\ RouteNumber(method, len, noun) = i

LEMMA RouteTable ==
    /\ IsRoute(1, "getActions", "GET", <<"v1", "actions">>)
    /\ IsRoute(2, "getAction", "GET", <<"v1", "action", Uuid>>)
    /\ IsRoute(3, "createAction", "PUT", <<"v1", "action">>)
    /\ IsRoute(4, "updateAction", "PUT", <<"v1", "action", Uuid>>)
    /\ IsRoute(5, "deleteAction", "DELETE", <<"v1", "action", Uuid>>)
    /\ IsRoute(6, "getTasks", "GET", <<"v1", "tasks">>)
    /\ IsRoute(7, "getTask", "GET", <<"v1", "task", Uuid>>)
    /\ IsRoute(8, "createTask", "PUT", <<"v1", "task">>)
    /\ IsRoute(9, "updateTask", "PUT", <<"v1", "task", Uuid>>)
    /\ IsRoute(10, "deleteTask", "DELETE", <<"v1", "task", Uuid>>)
    /\ IsRoute(11, "completeTask", "GET", <<"v1", "task", Uuid, "complete">>)
    /\ IsRoute(12, "getQueues", "GET", <<"v1", "queues">>)
    /\ IsRoute(13, "getQueue", "GET", <<"v1", "queue", Uuid>>)
    /\ IsRoute(14, "createQueue", "PUT", <<"v1", "queue">>)
    /\ IsRoute(15, "updateQueue", "PUT", <<"v1", "queue", Uuid>>)
    /\ IsRoute(16, "deleteQueue", "DELETE", <<"v1", "queue", Uuid>>)
<1>1. IsRoute(1, "getActions", "GET", <<"v1", "actions">>)
  BY DEF Routes, Route, Documented, IsRoute
<1>2. IsRoute(2, "getAction", "GET", <<"v1", "action", Uuid>>)
  BY DEF Routes, Route, Documented, IsRoute
<1>3. IsRoute(3, "createAction", "PUT", <<"v1", "action">>)
  BY DEF Routes, Route, Documented, IsRoute
<1>4. IsRoute(4, "updateAction", "PUT", <<"v1", "action", Uuid>>)
  BY DEF Routes, Route, Documented, IsRoute
<1>5. IsRoute(5, "deleteAction", "DELETE", <<"v1", "action", Uuid>>)
  BY DEF Routes, Route, Documented, IsRoute
<1>6. IsRoute(6, "getTasks", "GET", <<"v1", "tasks">>)
  BY DEF Routes, Route, Documented, IsRoute
<1>7. IsRoute(7, "getTask", "GET", <<"v1", "task", Uuid>>)
  BY DEF Routes, Route, Documented, IsRoute
<1>8. IsRoute(8, "createTask", "PUT", <<"v1", "task">>)
  BY DEF Routes, Route, Documented, IsRoute
<1>9. IsRoute(9, "updateTask", "PUT", <<"v1", "task", Uuid>>)
  BY DEF Routes, Route, Documented, IsRoute
<1>10. IsRoute(10, "deleteTask", "DELETE", <<"v1", "task", Uuid>>)
  BY DEF Routes, Route, Documented, IsRoute
<1>11. IsRoute(11, "completeTask", "GET", <<"v1", "task", Uuid, "complete">>)
  BY DEF Routes, Route, Documented, IsRoute
<1>12. IsRoute(12, "getQueues", "GET", <<"v1", "queues">>)
  BY DEF Routes, Route, Documented, IsRoute
<1>13. IsRoute(13, "getQueue", "GET", <<"v1", "queue", Uuid>>)
  BY DEF Routes, Route, Documented, IsRoute
<1>14. IsRoute(14, "createQueue", "PUT", <<"v1", "queue">>)
  BY DEF Routes, Route, Documented, IsRoute
<1>15. IsRoute(15, "updateQueue", "PUT", <<"v1", "queue", Uuid>>)
  BY DEF Routes, Route, Documented, IsRoute
<1>16. IsRoute(16, "deleteQueue", "DELETE", <<"v1", "queue", Uuid>>)
  BY DEF Routes, Route, Documented, IsRoute
<1> QED
  BY <1>1, <1>2, <1>3, <1>4, <1>5, <1>6, <1>7, <1>8,
     <1>9, <1>10, <1>11, <1>12, <1>13, <1>14, <1>15, <1>16

LEMMA RouteKeys ==
    /\ HasKey(1, "GET", 2, "actions")
    /\ HasKey(2, "GET", 3, "action")
    /\ HasKey(3, "PUT", 2, "action")
    /\ HasKey(4, "PUT", 3, "action")
    /\ HasKey(5, "DELETE", 3, "action")
    /\ HasKey(6, "GET", 2, "tasks")
    /\ HasKey(7, "GET", 3, "task")
    /\ HasKey(8, "PUT", 2, "task")
    /\ HasKey(9, "PUT", 3, "task")
    /\ HasKey(10, "DELETE", 3, "task")
    /\ HasKey(11, "GET", 4, "task")
    /\ HasKey(12, "GET", 2, "queues")
    /\ HasKey(13, "GET", 3, "queue")
    /\ HasKey(14, "PUT", 2, "queue")
    /\ HasKey(15, "PUT", 3, "queue")
    /\ HasKey(16, "DELETE", 3, "queue")
<1>1. HasKey(1, "GET", 2, "actions")
  BY DEF Routes, Route, HasKey, RouteNumber
<1>2. HasKey(2, "GET", 3, "action")
  BY DEF Routes, Route, HasKey, RouteNumber
<1>3. HasKey(3, "PUT", 2, "action")
  BY DEF Routes, Route, HasKey, RouteNumber
<1>4. HasKey(4, "PUT", 3, "action")
  BY DEF Routes, Route, HasKey, RouteNumber
<1>5. HasKey(5, "DELETE", 3, "action")
  BY DEF Routes, Route, HasKey, RouteNumber
<1>6. HasKey(6, "GET", 2, "tasks")
  BY DEF Routes, Route, HasKey, RouteNumber
<1>7. HasKey(7, "GET", 3, "task")
  BY DEF Routes, Route, HasKey, RouteNumber
<1>8. HasKey(8, "PUT", 2, "task")
  BY DEF Routes, Route, HasKey, RouteNumber
<1>9. HasKey(9, "PUT", 3, "task")
  BY DEF Routes, Route, HasKey, RouteNumber
<1>10. HasKey(10, "DELETE", 3, "task")
  BY DEF Routes, Route, HasKey, RouteNumber
<1>11. HasKey(11, "GET", 4, "task")
  BY DEF Routes, Route, HasKey, RouteNumber
<1>12. HasKey(12, "GET", 2, "queues")
  BY DEF Routes, Route, HasKey, RouteNumber
<1>13. HasKey(13, "GET", 3, "queue")
  BY DEF Routes, Route, HasKey, RouteNumber
<1>14. HasKey(14, "PUT", 2, "queue")
  BY DEF Routes, Route, HasKey, RouteNumber
<1>15. HasKey(15, "PUT", 3, "queue")
  BY DEF Routes, Route, HasKey, RouteNumber
<1>16. HasKey(16, "DELETE", 3, "queue")
  BY DEF Routes, Route, HasKey, RouteNumber
<1> QED
  BY <1>1, <1>2, <1>3, <1>4, <1>5, <1>6, <1>7, <1>8,
     <1>9, <1>10, <1>11, <1>12, <1>13, <1>14, <1>15, <1>16

LEMMA RouteHasNumber ==
    ASSUME NEW i \in 1 .. 16
    PROVE  RouteNumber(Routes[i].method, Len(Routes[i].template), Routes[i].template[2]) = i
<1>1. CASE i = 1
  BY <1>1, RouteKeys DEF HasKey
<1>2. CASE i = 2
  BY <1>2, RouteKeys DEF HasKey
<1>3. CASE i = 3
  BY <1>3, RouteKeys DEF HasKey
<1>4. CASE i = 4
  BY <1>4, RouteKeys DEF HasKey
<1>5. CASE i = 5
  BY <1>5, RouteKeys DEF HasKey
<1>6. CASE i = 6
  BY <1>6, RouteKeys DEF HasKey
<1>7. CASE i = 7
  BY <1>7, RouteKeys DEF HasKey
<1>8. CASE i = 8
  BY <1>8, RouteKeys DEF HasKey
<1>9. CASE i = 9
  BY <1>9, RouteKeys DEF HasKey
<1>10. CASE i = 10
  BY <1>10, RouteKeys DEF HasKey
<1>11. CASE i = 11
  BY <1>11, RouteKeys DEF HasKey
<1>12. CASE i = 12
  BY <1>12, RouteKeys DEF HasKey
<1>13. CASE i = 13
  BY <1>13, RouteKeys DEF HasKey
<1>14. CASE i = 14
  BY <1>14, RouteKeys DEF HasKey
<1>15. CASE i = 15
  BY <1>15, RouteKeys DEF HasKey
<1>16. CASE i = 16
  BY <1>16, RouteKeys DEF HasKey
<1> QED
  BY <1>1, <1>2, <1>3, <1>4, <1>5, <1>6, <1>7, <1>8,
     <1>9, <1>10, <1>11, <1>12, <1>13, <1>14, <1>15, <1>16

LEMMA RouteShapes ==
    ASSUME NEW i \in 1 .. 16
    PROVE  /\ Len(Routes[i].template) \in 2 .. 4
           /\ DOMAIN Routes[i].template = 1 .. Len(Routes[i].template)
           /\ Routes[i].template[2] # Uuid
           /\ \A k \in DOMAIN Routes[i].template : Routes[i].template[k] = Uuid => k = 3
<1>0. \A word \in {"v1", "action", "actions", "task", "tasks", "queue", "queues", "complete"} : word # Uuid
  BY DEF Uuid
<1>1. CASE i = 1
  <2>1. Routes[i].template = <<"v1", "actions">>
    BY <1>1, RouteTable DEF IsRoute
  <2> QED
    BY ONLY <2>1, <1>0
<1>2. CASE i = 2
  <2>1. Routes[i].template = <<"v1", "action", Uuid>>
    BY <1>2, RouteTable DEF IsRoute
  <2> QED
    BY ONLY <2>1, <1>0
<1>3. CASE i = 3
  <2>1. Routes[i].template = <<"v1", "action">>
    BY <1>3, RouteTable DEF IsRoute
  <2> QED
    BY ONLY <2>1, <1>0
<1>4. CASE i = 4
  <2>1. Routes[i].template = <<"v1", "action", Uuid>>
    BY <1>4, RouteTable DEF IsRoute
  <2> QED
    BY ONLY <2>1, <1>0
<1>5. CASE i = 5
  <2>1. Routes[i].template = <<"v1", "action", Uuid>>
    BY <1>5, RouteTable DEF IsRoute
  <2> QED
    BY ONLY <2>1, <1>0
<1>6. CASE i = 6
  <2>1. Routes[i].template = <<"v1", "tasks">>
    BY <1>6, RouteTable DEF IsRoute
  <2> QED
    BY ONLY <2>1, <1>0
<1>7. CASE i = 7
  <2>1. Routes[i].template = <<"v1", "task", Uuid>>
    BY <1>7, RouteTable DEF IsRoute
  <2> QED
    BY ONLY <2>1, <1>0
<1>8. CASE i = 8
  <2>1. Routes[i].template = <<"v1", "task">>
    BY <1>8, RouteTable DEF IsRoute
  <2> QED
    BY ONLY <2>1, <1>0
<1>9. CASE i = 9
  <2>1. Routes[i].template = <<"v1", "task", Uuid>>
    BY <1>9, RouteTable DEF IsRoute
  <2> QED
    BY ONLY <2>1, <1>0
<1>10. CASE i = 10
  <2>1. Routes[i].template = <<"v1", "task", Uuid>>
    BY <1>10, RouteTable DEF IsRoute
  <2> QED
    BY ONLY <2>1, <1>0
<1>11. CASE i = 11
  <2>1. Routes[i].template = <<"v1", "task", Uuid, "complete">>
    BY <1>11, RouteTable DEF IsRoute
  <2> QED
    BY ONLY <2>1, <1>0
<1>12. CASE i = 12
  <2>1. Routes[i].template = <<"v1", "queues">>
    BY <1>12, RouteTable DEF IsRoute
  <2> QED
    BY ONLY <2>1, <1>0
<1>13. CASE i = 13
  <2>1. Routes[i].template = <<"v1", "queue", Uuid>>
    BY <1>13, RouteTable DEF IsRoute
  <2> QED
    BY ONLY <2>1, <1>0
<1>14. CASE i = 14
  <2>1. Routes[i].template = <<"v1", "queue">>
    BY <1>14, RouteTable DEF IsRoute
  <2> QED
    BY ONLY <2>1, <1>0
<1>15. CASE i = 15
  <2>1. Routes[i].template = <<"v1", "queue", Uuid>>
    BY <1>15, RouteTable DEF IsRoute
  <2> QED
    BY ONLY <2>1, <1>0
<1>16. CASE i = 16
  <2>1. Routes[i].template = <<"v1", "queue", Uuid>>
    BY <1>16, RouteTable DEF IsRoute
  <2> QED
    BY ONLY <2>1, <1>0
<1> QED
  BY <1>1, <1>2, <1>3, <1>4, <1>5, <1>6, <1>7, <1>8,
     <1>9, <1>10, <1>11, <1>12, <1>13, <1>14, <1>15, <1>16

LEMMA RouteOfOperation ==
    ASSUME NEW op \in DOMAIN Documented
    PROVE  \E i \in 1 .. 16 :
              /\ Routes[i].handler = op /\ Routes[i].method = Documented[op].method
              /\ Routes[i].template = Documented[op].path
<1>0. \/ op = "getActions" \/ op = "getAction" \/ op = "createAction" \/ op = "updateAction"
      \/ op = "deleteAction" \/ op = "getTasks" \/ op = "getTask" \/ op = "createTask"
      \/ op = "updateTask" \/ op = "deleteTask" \/ op = "completeTask" \/ op = "getQueues"
      \/ op = "getQueue" \/ op = "createQueue" \/ op = "updateQueue" \/ op = "deleteQueue"
  BY DEF Documented
<1>1. CASE op = "getActions"
  <2>1. IsRoute(1, op, "GET", <<"v1", "actions">>) /\ 1 \in 1 .. 16
    BY <1>1, RouteTable
  <2> QED
    BY ONLY <2>1 DEF IsRoute
<1>2. CASE op = "getAction"
  <2>1. IsRoute(2, op, "GET", <<"v1", "action", Uuid>>) /\ 2 \in 1 .. 16
    BY <1>2, RouteTable
  <2> QED
    BY ONLY <2>1 DEF IsRoute
<1>3. CASE op = "createAction"
  <2>1. IsRoute(3, op, "PUT", <<"v1", "action">>) /\ 3 \in 1 .. 16
    BY <1>3, RouteTable
  <2> QED
    BY ONLY <2>1 DEF IsRoute
<1>4. CASE op = "updateAction"
  <2>1. IsRoute(4, op, "PUT", <<"v1", "action", Uuid>>) /\ 4 \in 1 .. 16
    BY <1>4, RouteTable
  <2> QED
    BY ONLY <2>1 DEF IsRoute
<1>5. CASE op = "deleteAction"
  <2>1. IsRoute(5, op, "DELETE", <<"v1", "action", Uuid>>) /\ 5 \in 1 .. 16
    BY <1>5, RouteTable
  <2> QED
    BY ONLY <2>1 DEF IsRoute
<1>6. CASE op = "getTasks"
  <2>1. IsRoute(6, op, "GET", <<"v1", "tasks">>) /\ 6 \in 1 .. 16
    BY <1>6, RouteTable
  <2> QED
    BY ONLY <2>1 DEF IsRoute
<1>7. CASE op = "getTask"
  <2>1. IsRoute(7, op, "GET", <<"v1", "task", Uuid>>) /\ 7 \in 1 .. 16
    BY <1>7, RouteTable
  <2> QED
    BY ONLY <2>1 DEF IsRoute
<1>8. CASE op = "createTask"
  <2>1. IsRoute(8, op, "PUT", <<"v1", "task">>) /\ 8 \in 1 .. 16
    BY <1>8, RouteTable
  <2> QED
    BY ONLY <2>1 DEF IsRoute
<1>9. CASE op = "updateTask"
  <2>1. IsRoute(9, op, "PUT", <<"v1", "task", Uuid>>) /\ 9 \in 1 .. 16
    BY <1>9, RouteTable
  <2> QED
    BY ONLY <2>1 DEF IsRoute
<1>10. CASE op = "deleteTask"
  <2>1. IsRoute(10, op, "DELETE", <<"v1", "task", Uuid>>) /\ 10 \in 1 .. 16
    BY <1>10, RouteTable
  <2> QED
    BY ONLY <2>1 DEF IsRoute
<1>11. CASE op = "completeTask"
  <2>1. IsRoute(11, op, "GET", <<"v1", "task", Uuid, "complete">>) /\ 11 \in 1 .. 16
    BY <1>11, RouteTable
  <2> QED
    BY ONLY <2>1 DEF IsRoute
<1>12. CASE op = "getQueues"
  <2>1. IsRoute(12, op, "GET", <<"v1", "queues">>) /\ 12 \in 1 .. 16
    BY <1>12, RouteTable
  <2> QED
    BY ONLY <2>1 DEF IsRoute
<1>13. CASE op = "getQueue"
  <2>1. IsRoute(13, op, "GET", <<"v1", "queue", Uuid>>) /\ 13 \in 1 .. 16
    BY <1>13, RouteTable
  <2> QED
    BY ONLY <2>1 DEF IsRoute
<1>14. CASE op = "createQueue"
  <2>1. IsRoute(14, op, "PUT", <<"v1", "queue">>) /\ 14 \in 1 .. 16
    BY <1>14, RouteTable
  <2> QED
    BY ONLY <2>1 DEF IsRoute
<1>15. CASE op = "updateQueue"
  <2>1. IsRoute(15, op, "PUT", <<"v1", "queue", Uuid>>) /\ 15 \in 1 .. 16
    BY <1>15, RouteTable
  <2> QED
    BY ONLY <2>1 DEF IsRoute
<1>16. CASE op = "deleteQueue"
  <2>1. IsRoute(16, op, "DELETE", <<"v1", "queue", Uuid>>) /\ 16 \in 1 .. 16
    BY <1>16, RouteTable
  <2> QED
    BY ONLY <2>1 DEF IsRoute
<1> QED
  BY <1>1, <1>2, <1>3, <1>4, <1>5, <1>6, <1>7, <1>8,
     <1>9, <1>10, <1>11, <1>12, <1>13, <1>14, <1>15, <1>16, <1>0

-----------------------------------------------------------------------------
LEMMA MinOfOne == ASSUME NEW k \in Int PROVE Min({k}) = k
BY DEF Min

LEMMA DispatchedAsDocumented ==
    ASSUME NEW op \in DOMAIN Documented, NEW uuid, NamesObject(op, uuid),
           NEW i, i = Matched(Documented[op].method, PathOf(op, uuid))
    PROVE  /\ i # 0 /\ Routes[i].handler = op
           /\ PathVar(i, PathOf(op, uuid)) = uuid
<1> DEFINE path == PathOf(op, uuid)
<1>1. PICK n \in 1 .. 16 :
         /\ Routes[n].handler = op /\ Routes[n].method = Documented[op].method
         /\ Routes[n].template = Documented[op].path
  BY RouteOfOperation
<1> DEFINE t == Routes[n].template
<1>2. /\ Len(t) \in 2 .. 4 /\ DOMAIN t = 1 .. Len(t) /\ t[2] # Uuid
      /\ \A k \in DOMAIN t : t[k] = Uuid => k = 3
  BY RouteShapes
<1>3. path = [k \in 1 .. Len(t) |-> IF t[k] = Uuid THEN uuid ELSE t[k]]
  BY <1>1, <1>2 DEF PathOf
<1>4. uuid # "" <=> \E k \in 1 .. Len(t) : t[k] = Uuid
  BY <1>1, <1>2 DEF NamesObject
<1> HIDE DEF t, path
<1>5. /\ Len(path) = Len(t) /\ DOMAIN path = 1 .. Len(t)
      /\ \A k \in 1 .. Len(t) : path[k] = IF t[k] = Uuid THEN uuid ELSE t[k]
  BY <1>2, <1>3
<1>6. RouteMatches(Routes[n], Documented[op].method, path)
  <2>1. \A k \in DOMAIN path : SegmentMatches(path[k], t[k])
    BY <1>4, <1>5 DEF SegmentMatches
  <2> QED
    BY <1>1, <1>5, <2>1 DEF RouteMatches, TemplateMatches, MethodMatches, t
<1>7. ASSUME NEW m \in 1 .. 16, RouteMatches(Routes[m], Documented[op].method, path)
      PROVE  m = n
  <2>1. /\ Len(Routes[m].template) = Len(t) /\ Routes[m].method = Routes[n].method
        /\ SegmentMatches(path[2], Routes[m].template[2])
    BY <1>1, <1>2, <1>5, <1>7 DEF RouteMatches, TemplateMatches, MethodMatches
  <2>2. Routes[m].template[2] = path[2]
    <3>1. Routes[m].template[2] # Uuid
      BY RouteShapes
    <3> QED
      BY <2>1, <3>1 DEF SegmentMatches
  <2>3. path[2] = t[2]
    BY <1>2, <1>5
  <2> QED
    BY <2>1, <2>2, <2>3, RouteHasNumber DEF t
<1>8. i = n
  <2>1. Len(Routes) = 16
    BY DEF Routes
  <2>2. {m \in 1 .. Len(Routes) : RouteMatches(Routes[m], Documented[op].method, path)} = {n}
    BY <1>6, <1>7, <2>1
  <2>3. Matched(Documented[op].method, path) = Min({n})
    BY ONLY <2>2 DEF Matched, SelectInSeq
  <2> QED
    BY <2>3, MinOfOne DEF path
<1>9. PathVar(i, path) = uuid
  <2>1. CASE uuid = ""
    <3>1. {k \in 1 .. Len(t) : t[k] = Uuid} = {}
      BY <1>4, <2>1
    <3> QED
      BY <1>8, <2>1, <3>1 DEF PathVar, SelectInSeq, t
  <2>2. CASE uuid # ""
    <3>1. 3 \in 1 .. Len(t) /\ t[3] = Uuid /\ \A k \in 1 .. Len(t) : t[k] = Uuid => k = 3
      BY <1>2, <1>4, <2>2
    <3>2. {k \in 1 .. Len(t) : t[k] = Uuid} = {3}
      BY <3>1
    <3>3. path[3] = uuid
      BY <1>5, <3>1
    <3>4. PathVar(i, path) = IF Min({3}) = 0 THEN "" ELSE path[Min({3})]
      BY <1>8, <3>2 DEF PathVar, SelectInSeq, t
    <3>5. Min({3}) = 3
      BY MinOfOne
    <3> QED
      BY ONLY <3>3, <3>4, <3>5
  <2> QED
    BY <2>1, <2>2
<1> QED
  BY <1>1, <1>8, <1>9 DEF path

-----------------------------------------------------------------------------
(***************************************************************************)
(* What is known of a request on its way: it is about something asked, its *)
(* path is the one asked or the clean form of that, and it is handled only *)
(* once its path is clean.                                                 *)
(***************************************************************************)
Request ==
    [pc : {"idle"}] \cup [pc : {"asking"}, ask : Asks]
    \cup [pc : {"sent", "handling"}, node : Node, ask : Asks, path : AskedPaths, query : BOOLEAN]

OnItsWay(r) ==
    /\ InFlight(r) => r.path \in {r.ask.path, CleanPath(r.ask.path)}
    /\ r.pc = "handling" => IsClean(r)

RoutedInv == request \in [Client -> Request] /\ \A c \in Client : OnItsWay(request[c])

LEMMA FlyingRequest ==
    ASSUME NEW r \in Request, InFlight(r)
    PROVE  r \in [pc : {"sent", "handling"}, node : Node, ask : Asks, path : AskedPaths, query : BOOLEAN]
BY DEF Request, InFlight

LEMMA WaitingRequest ==
    /\ [pc |-> "idle"] \in Request /\ OnItsWay([pc |-> "idle"])
    /\ \A a \in Asks : [pc |-> "asking", ask |-> a] \in Request /\ OnItsWay([pc |-> "asking", ask |-> a])
BY DEF Request, OnItsWay, InFlight

LEMMA SentRequest ==
    ASSUME NEW n \in Node, NEW a \in Asks, NEW p \in {a.path, CleanPath(a.path)}, NEW q \in BOOLEAN
    PROVE  Sent(n, a, p, q) \in Request /\ OnItsWay(Sent(n, a, p, q))
<1>1. p \in AskedPaths
  BY DEF AskedPaths
<1> QED
  BY <1>1 DEF Sent, Request, OnItsWay, InFlight

LEMMA CleanOfAsked ==
    ASSUME AskedByTheBook, NEW a \in Asks, NEW p \in {a.path, CleanPath(a.path)}
    PROVE  /\ CleanOf[p] = PathOf(a.op, a.uuid)
           /\ CleanOf[CleanOf[p]] = CleanOf[p] /\ CleanOf[p] = CleanPath(a.path)
<1>1. CleanPath(p) = PathOf(a.op, a.uuid) /\ CleanPath(CleanPath(a.path)) = CleanPath(a.path)
  BY DEF AskedByTheBook
<1>2. p \in AskedPaths /\ CleanPath(a.path) \in AskedPaths
  BY DEF AskedPaths
<1>3. CleanOf[p] = CleanPath(p) /\ CleanOf[CleanPath(a.path)] = CleanPath(CleanPath(a.path))
  BY <1>2 DEF CleanOf
<1>4. CleanPath(a.path) = PathOf(a.op, a.uuid)
  BY DEF AskedByTheBook
<1> QED
  BY ONLY <1>1, <1>3, <1>4

LEMMA RoutedInit == InitRequests => RoutedInv
BY WaitingRequest DEF InitRequests, RoutedInv

LEMMA BecomesRouted ==
    ASSUME RoutedInv, NEW c \in Client, NEW r \in Request, OnItsWay(r), Become(c, r)
    PROVE  RoutedInv'
<1>1. /\ request' \in [Client -> Request]
      /\ \A d \in Client : request'[d] = IF d = c THEN r ELSE request[d]
  BY DEF RoutedInv, Become
<1>2. \A d \in Client : OnItsWay(request'[d])
  BY <1>1 DEF RoutedInv
<1> QED
  BY <1>1, <1>2 DEF RoutedInv, OnItsWay, InFlight, IsClean

LEMMA RoutedStep == AskedByTheBook /\ RoutedInv /\ [RequestsNext]_allVars => RoutedInv'
<1> SUFFICES ASSUME AskedByTheBook, RoutedInv, [RequestsNext]_allVars PROVE RoutedInv'
  OBVIOUS
<1>a. \A a \in Asks : a.query \in BOOLEAN /\ a.path \in {a.path, CleanPath(a.path)}
  BY AsksAssumption
<1>f. ASSUME NEW c \in Client, InFlight(request[c])
      PROVE  /\ request[c] \in [pc : {"sent", "handling"}, node : Node, ask : Asks,
                                path : AskedPaths, query : BOOLEAN]
             /\ request[c].path \in {request[c].ask.path, CleanPath(request[c].ask.path)}
  BY <1>f, FlyingRequest DEF RoutedInv, OnItsWay
<1>1. ASSUME NEW c \in Client, Decide(c) PROVE RoutedInv'
  BY <1>1, WaitingRequest, BecomesRouted DEF Decide
<1>2. ASSUME NEW c \in Client, Send(c) PROVE RoutedInv'
  <2>1. request[c].ask \in Asks
    BY <1>2 DEF Send, At, RoutedInv, Request
  <2>2. PICK n \in Node : Become(c, Sent(n, request[c].ask, request[c].ask.path, request[c].ask.query))
    BY <1>2 DEF Send
  <2> QED
    BY <1>a, <2>1, <2>2, SentRequest, BecomesRouted
<1>3. ASSUME NEW c \in Client, InFlight(request[c]), Become(c, AskAgain(c)) PROVE RoutedInv'
  <2>1. AskAgain(c) \in Request /\ OnItsWay(AskAgain(c))
    BY <1>3, <1>f, WaitingRequest DEF AskAgain
  <2> QED
    BY <1>3, <2>1, BecomesRouted
<1>4. ASSUME NEW c \in Client, Unavailable(c) PROVE RoutedInv'
  BY <1>3, <1>4 DEF Unavailable, At, InFlight
<1>5. ASSUME NEW c \in Client, Redirect(c) PROVE RoutedInv'
  <2>1. InFlight(request[c])
    BY <1>5 DEF Redirect, At, InFlight
  <2>2. CASE Become(c, AskAgain(c))
    BY <1>3, <2>1, <2>2
  <2>3. CASE \E n \in Node : Become(c, Sent(n, request[c].ask, request[c].path, FALSE))
    <3>1. PICK n \in Node : Become(c, Sent(n, request[c].ask, request[c].path, FALSE))
      BY <2>3
    <3>2. request[c].ask \in Asks
      BY <1>f, <2>1
    <3>3. /\ Sent(n, request[c].ask, request[c].path, FALSE) \in Request
          /\ OnItsWay(Sent(n, request[c].ask, request[c].path, FALSE))
      BY <1>f, <2>1, <3>2, SentRequest
    <3> QED
      BY <3>1, <3>3, BecomesRouted
  <2> QED
    BY <1>5, <2>2, <2>3 DEF Redirect, NodesAt
<1>6. ASSUME NEW c \in Client, RedirectToClean(c) PROVE RoutedInv'
  <2> DEFINE r == request[c]
             s == [r EXCEPT !.path = CleanOf[@]]
  <2>1. InFlight(r) /\ r.pc = "sent" /\ Become(c, s)
    BY <1>6 DEF RedirectToClean, LetThrough, At, InFlight
  <2>2. /\ r \in [pc : {"sent", "handling"}, node : Node, ask : Asks, path : AskedPaths, query : BOOLEAN]
        /\ r.path \in {r.ask.path, CleanPath(r.ask.path)} /\ r.ask \in Asks
    BY <1>f, <2>1
  <2>3. CleanOf[r.path] = CleanPath(r.ask.path) /\ CleanPath(r.ask.path) \in AskedPaths
    BY <2>2, CleanOfAsked DEF AskedPaths
  <2>4. /\ s \in [pc : {"sent", "handling"}, node : Node, ask : Asks, path : AskedPaths, query : BOOLEAN]
        /\ s.path = CleanPath(r.ask.path) /\ s.ask = r.ask /\ s.pc = "sent"
    BY <2>1, <2>2, <2>3
  <2>5. s \in Request /\ OnItsWay(s)
    BY <2>4 DEF Request, OnItsWay
  <2> HIDE DEF s
  <2> QED
    BY <2>1, <2>5, BecomesRouted
<1>7. ASSUME NEW c \in Client, Dispatch(c) PROVE RoutedInv'
  <2> DEFINE r == request[c]
             s == [r EXCEPT !.pc = "handling"]
  <2>1. InFlight(r) /\ IsClean(r) /\ Become(c, s)
    BY <1>7 DEF Dispatch, LetThrough, At, InFlight
  <2>2. /\ r \in [pc : {"sent", "handling"}, node : Node, ask : Asks, path : AskedPaths, query : BOOLEAN]
        /\ r.path \in {r.ask.path, CleanPath(r.ask.path)}
    BY <1>f, <2>1
  <2>3. /\ s \in [pc : {"sent", "handling"}, node : Node, ask : Asks, path : AskedPaths, query : BOOLEAN]
        /\ s.path = r.path /\ s.ask = r.ask
    BY <2>2
  <2>4. s \in Request /\ OnItsWay(s)
    BY <2>1, <2>2, <2>3 DEF Request, OnItsWay, IsClean
  <2> HIDE DEF s
  <2> QED
    BY <2>1, <2>4, BecomesRouted
<1>8. ASSUME NEW c \in Client, HandlerEnds(c) PROVE RoutedInv'
  BY <1>8, WaitingRequest, BecomesRouted DEF HandlerEnds
<1>9. ASSUME ElectionStep PROVE RoutedInv'
  <2>1. request' = [c \in Client |-> IF Lost(c) THEN AskAgain(c) ELSE request[c]]
    BY <1>9 DEF ElectionStep
  <2>2. ASSUME NEW c \in Client PROVE request'[c] \in Request /\ OnItsWay(request'[c])
    <3>1. CASE Lost(c)
      <4>1. AskAgain(c) \in Request /\ OnItsWay(AskAgain(c))
        BY <3>1, <1>f, WaitingRequest DEF Lost, AskAgain
      <4> QED
        BY <2>1, <3>1, <4>1
    <3>2. CASE ~Lost(c)
      BY <2>1, <3>2 DEF RoutedInv
    <3> QED
      BY <3>1, <3>2
  <2> QED
    BY <2>1, <2>2 DEF RoutedInv, OnItsWay, InFlight, IsClean
<1>10. ASSUME UNCHANGED request PROVE RoutedInv'
  BY <1>10 DEF RoutedInv, OnItsWay, InFlight, IsClean
<1> QED
  BY <1>1, <1>2, <1>4, <1>5, <1>6, <1>7, <1>8, <1>9, <1>10
     DEF RequestsNext, ClientStep, WriteEnds, allVars, requestVars

LEMMA RoutedAsAsked == AskedByTheBook /\ RoutedInv => HandledAsAsked
<1> SUFFICES ASSUME AskedByTheBook, RoutedInv, NEW c \in Client, At(c, "handling")
             PROVE  LET r == request[c]
                        i == RouteOf(r)
                    IN  /\ i # 0 /\ Routes[i].handler = r.ask.op
                        /\ PathVar(i, r.path) = r.ask.uuid
  BY DEF HandledAsAsked
<1> DEFINE r == request[c]
           a == r.ask
<1>1. InFlight(r) /\ r \in Request /\ OnItsWay(r) /\ r.pc = "handling"
  BY DEF At, InFlight, RoutedInv
<1>2. a \in Asks /\ r.path \in AskedPaths
  BY <1>1, FlyingRequest
<1>3. r.path = PathOf(a.op, a.uuid)
  BY <1>1, <1>2, CleanOfAsked DEF OnItsWay, IsClean
<1>4. RouteOf(r) = Matched(Documented[a.op].method, r.path)
  <2>1. a.op \in {b.op : b \in Asks}
    BY <1>2
  <2>2. RouteTo[a.op][r.path] = Matched(Documented[a.op].method, r.path)
    <3> HIDE DEF a, r
    <3> QED
      BY ONLY <2>1, <1>2 DEF RouteTo
  <2> QED
    BY <2>2 DEF RouteOf
<1>5. a.op \in DOMAIN Documented /\ NamesObject(a.op, a.uuid)
  BY <1>2, AsksAssumption DEF AskedByTheBook
<1> HIDE DEF r, a
<1>6. /\ RouteOf(r) # 0 /\ Routes[RouteOf(r)].handler = a.op
      /\ PathVar(RouteOf(r), r.path) = a.uuid
  BY <1>3, <1>4, <1>5, DispatchedAsDocumented
<1> QED
  BY <1>6 DEF r, a

(***************************************************************************)
(* Whatever the clients ask by the book, the handler that gets a request   *)
(* is that of the documented operation, with the object the client named,  *)
(* whichever nodes sent the request on and whatever became of them.        *)
(***************************************************************************)
THEOREM HandlesAsAsked == ASSUME AskedByTheBook PROVE RequestsFairSpec => []HandledAsAsked
<1>1. InitRequests => RoutedInv
  BY RoutedInit
<1>2. RoutedInv /\ [RequestsNext]_allVars => RoutedInv'
  BY RoutedStep
<1>3. RoutedInv => HandledAsAsked
  BY RoutedAsAsked
<1> QED
  BY <1>1, <1>2, <1>3, PTL DEF RequestsFairSpec

-----------------------------------------------------------------------------
(***************************************************************************)
(* The map of gorilla's context.  It changes only with the request whose   *)
(* variables it holds, and requests that are lost with their process take  *)
(* their entry with them.                                                  *)
(***************************************************************************)
AccountedInv == TypeOK /\ RoutedInv /\ RequestTypeOK

LEMMA AccountedInit == InitRequests => AccountedInv
<1> SUFFICES ASSUME InitRequests PROVE AccountedInv
  OBVIOUS
<1>1. TypeOK /\ RoutedInv
  BY InitIInv, RoutedInit DEF InitRequests, IInv
<1>2. \A c \in Client : request[c] = [pc |-> "idle"]
  BY DEF InitRequests
<1>3. older \in [Node -> MasterSlave]
  BY StrategyTypes DEF InitRequests
<1>4. context = {} /\ \A c \in Client : request[c].pc = "idle"
  BY <1>2 DEF InitRequests
<1>5. RequestTypeOK
  BY <1>3, <1>4 DEF RequestTypeOK, InFlight, At
<1> QED
  BY <1>1, <1>5 DEF AccountedInv

(* Where a client's request becomes another, its entry in the map, and no    *)
(* other, may come or go.                                                    *)
LEMMA BecomesAccounted ==
    ASSUME AccountedInv, NEW c \in Client, NEW r, Become(c, r),
           UNCHANGED <<vars, older>>,
           r.pc \in {"idle", "asking", "sent", "handling"},
           InFlight(r) => proc[r.node] = "up",
           context' = IF r.pc = "handling" /\ RouteOf(r) # 0 THEN context \cup {c} ELSE context \ {c}
    PROVE  RequestTypeOK'
<1>1. \A d \in Client : request'[d] = IF d = c THEN r ELSE request[d]
  BY DEF AccountedInv, RoutedInv, Become
<1>2. proc' = proc /\ older' = older
  BY DEF vars
<1>3. ASSUME NEW d \in Client
      PROVE  /\ request'[d].pc \in {"idle", "asking", "sent", "handling"}
             /\ InFlight(request'[d]) => proc[request'[d].node] = "up"
  BY <1>1 DEF AccountedInv, RequestTypeOK
<1>4. context' = {d \in Client : request'[d].pc = "handling" /\ RouteOf(request'[d]) # 0}
  BY <1>1 DEF AccountedInv, RequestTypeOK, At
<1> QED
  BY <1>2, <1>3, <1>4 DEF AccountedInv, RequestTypeOK, At, InFlight, RouteOf

LEMMA NotHandledNotHeld ==
    ASSUME AccountedInv, NEW c \in Client, ~At(c, "handling")
    PROVE  context = context \ {c}
BY DEF AccountedInv, RequestTypeOK

LEMMA AccountedStep == AskedByTheBook /\ AccountedInv /\ [RequestsNext]_allVars => AccountedInv'
<1> SUFFICES ASSUME AskedByTheBook, AccountedInv, [RequestsNext]_allVars PROVE AccountedInv'
  OBVIOUS
<1>1. [Next]_vars
  BY DEF RequestsNext, ClientStep, ElectionStep, WriteEnds, Decide, Send, Unavailable, Redirect,
         RedirectToClean, Dispatch, HandlerEnds, allVars
<1>2. TypeOK' /\ RoutedInv'
  BY <1>1, StepTypeOK, RoutedStep DEF AccountedInv
<1>p. \A c \in Client : InFlight(request[c]) => proc[request[c].node] = "up"
  BY DEF AccountedInv, RequestTypeOK
<1>3. ASSUME NEW c \in Client, ~At(c, "handling"), UNCHANGED <<vars, context, older>>,
             NEW r, Become(c, r), r.pc \in {"idle", "asking", "sent"},
             r.pc = "sent" => proc[r.node] = "up"
      PROVE  RequestTypeOK'
  <2>1. context' = context \ {c}
    BY <1>3, NotHandledNotHeld
  <2> QED
    BY <1>3, <2>1, BecomesAccounted DEF InFlight
<1>4. ASSUME NEW c \in Client, Decide(c) PROVE RequestTypeOK'
  <2>1. PICK a \in Asks : Become(c, [pc |-> "asking", ask |-> a])
    BY <1>4 DEF Decide
  <2> QED
    BY <1>3, <1>4, <2>1 DEF Decide, At
<1>5. ASSUME NEW c \in Client, Send(c) PROVE RequestTypeOK'
  <2>1. PICK n \in Node :
           proc[n] = "up" /\ Become(c, Sent(n, request[c].ask, request[c].ask.path, request[c].ask.query))
    BY <1>5 DEF Send
  <2> QED
    BY <1>3, <1>5, <2>1 DEF Send, At, Sent
<1>6. ASSUME NEW c \in Client, At(c, "sent"), UNCHANGED <<vars, context, older>>, Become(c, AskAgain(c))
      PROVE  RequestTypeOK'
  BY <1>3, <1>6 DEF At, AskAgain
<1>7. ASSUME NEW c \in Client, Unavailable(c) PROVE RequestTypeOK'
  BY <1>6, <1>7 DEF Unavailable
<1>8. ASSUME NEW c \in Client, Redirect(c) PROVE RequestTypeOK'
  <2>1. CASE Become(c, AskAgain(c))
    BY <1>6, <1>8, <2>1 DEF Redirect
  <2>2. CASE \E n \in Node : proc[n] = "up" /\ Become(c, Sent(n, request[c].ask, request[c].path, FALSE))
    <3>1. PICK n \in Node : proc[n] = "up" /\ Become(c, Sent(n, request[c].ask, request[c].path, FALSE))
      BY <2>2
    <3> QED
      BY <1>3, <1>8, <3>1 DEF Redirect, At, Sent
  <2> QED
    BY <1>8, <2>1, <2>2 DEF Redirect, NodesAt
<1>9. ASSUME NEW c \in Client, RedirectToClean(c) PROVE RequestTypeOK'
  <2>1. /\ At(c, "sent") /\ UNCHANGED <<vars, context, older>>
        /\ Become(c, [request[c] EXCEPT !.path = CleanOf[@]])
    BY <1>9 DEF RedirectToClean, LetThrough
  <2>2. /\ request[c] \in [pc : {"sent", "handling"}, node : Node, ask : Asks, path : AskedPaths, query : BOOLEAN]
        /\ proc[request[c].node] = "up" /\ request[c].pc = "sent"
    BY <1>p, <2>1, FlyingRequest DEF AccountedInv, RoutedInv, At, InFlight
  <2> DEFINE s == [request[c] EXCEPT !.path = CleanOf[@]]
  <2>3. s.pc = "sent" /\ s.node = request[c].node
    BY <2>2
  <2>4. Become(c, s)
    BY <2>1
  <2> HIDE DEF s
  <2> QED
    BY <1>3, <2>1, <2>2, <2>3, <2>4 DEF At
<1>10. ASSUME NEW c \in Client, Dispatch(c) PROVE RequestTypeOK'
  <2> DEFINE r == request[c]
             s == [r EXCEPT !.pc = "handling"]
  <2>1. /\ At(c, "sent") /\ UNCHANGED <<vars, older>> /\ Become(c, s)
        /\ IF RouteOf(r) = 0 THEN context' = context ELSE context' = context \cup {c}
    BY <1>10 DEF Dispatch, LetThrough, SetsVars
  <2>2. /\ r \in [pc : {"sent", "handling"}, node : Node, ask : Asks, path : AskedPaths, query : BOOLEAN]
        /\ proc[r.node] = "up" /\ context = context \ {c}
    BY <1>p, <2>1, FlyingRequest, NotHandledNotHeld DEF AccountedInv, RoutedInv, At, InFlight
  <2>3. s.pc = "handling" /\ s.node = r.node /\ s.ask = r.ask /\ s.path = r.path
    BY <2>2
  <2> HIDE DEF s
  <2>4. context' = IF s.pc = "handling" /\ RouteOf(s) # 0 THEN context \cup {c} ELSE context \ {c}
    BY <2>1, <2>2, <2>3 DEF RouteOf
  <2> QED
    BY <2>1, <2>2, <2>3, <2>4, BecomesAccounted
<1>11. ASSUME NEW c \in Client, HandlerEnds(c) PROVE RequestTypeOK'
  <2>1. Become(c, [pc |-> "idle"]) /\ context' = context \ {c} /\ UNCHANGED <<vars, older>>
    BY <1>11 DEF HandlerEnds, Clears
  <2> QED
    BY <2>1, BecomesAccounted DEF InFlight
<1>12. ASSUME NEW n \in Node, WriteEnds(n) PROVE RequestTypeOK'
  <2>1. UNCHANGED <<vars, request, context>> /\ older' \in [Node -> MasterSlave]
    BY <1>12 DEF WriteEnds, AccountedInv, TypeOK, RequestTypeOK
  <2> QED
    BY <2>1 DEF AccountedInv, RequestTypeOK, At, InFlight, RouteOf, vars
<1>13. ASSUME ElectionStep PROVE RequestTypeOK'
  <2>1. older' \in [Node -> MasterSlave]
    BY <1>2, <1>13 DEF ElectionStep, AccountedInv, TypeOK, RequestTypeOK
  <2>2. /\ request' = [c \in Client |-> IF Lost(c) THEN AskAgain(c) ELSE request[c]]
        /\ context' = {c \in context : ~Lost(c)}
    BY <1>13 DEF ElectionStep
  <2>3. ASSUME NEW c \in Client
        PROVE  /\ request'[c].pc \in {"idle", "asking", "sent", "handling"}
               /\ InFlight(request'[c]) => proc'[request'[c].node] = "up"
               /\ request'[c].pc = "handling" <=> request[c].pc = "handling" /\ ~Lost(c)
               /\ ~Lost(c) => request'[c] = request[c]
    <3>1. CASE Lost(c)
      <4>1. request'[c] = AskAgain(c) /\ AskAgain(c).pc = "asking"
        BY <2>2, <3>1 DEF AskAgain
      <4> QED
        BY <3>1, <4>1 DEF InFlight
    <3>2. CASE ~Lost(c)
      BY <2>2, <3>2 DEF Lost, AccountedInv, RequestTypeOK
    <3> QED
      BY <3>1, <3>2
  <2>4. context = {c \in Client : request[c].pc = "handling" /\ RouteOf(request[c]) # 0}
    BY DEF AccountedInv, RequestTypeOK, At
  <2>5. context' = {c \in Client : request'[c].pc = "handling" /\ RouteOf(request'[c]) # 0}
    BY <2>2, <2>3, <2>4
  <2> QED
    BY <2>1, <2>3, <2>5 DEF RequestTypeOK, At, InFlight, RouteOf
<1>14. ASSUME UNCHANGED allVars PROVE RequestTypeOK'
  BY <1>14 DEF AccountedInv, RequestTypeOK, At, InFlight, RouteOf, allVars, requestVars, vars
<1>15. RequestTypeOK'
  BY <1>4, <1>5, <1>7, <1>8, <1>9, <1>10, <1>11, <1>12, <1>13, <1>14 DEF RequestsNext, ClientStep
<1> QED
  BY <1>2, <1>15 DEF AccountedInv

(***************************************************************************)
(* Nothing stays in the map of gorilla's context once the request is over, *)
(* and every request on its way is at a node that lives.                   *)
(***************************************************************************)
THEOREM NothingIsLeft == ASSUME AskedByTheBook PROVE RequestsFairSpec => []RequestTypeOK
<1>1. AccountedInv => RequestTypeOK
  BY DEF AccountedInv
<1> QED
  BY <1>1, AccountedInit, AccountedStep, PTL DEF RequestsFairSpec
=============================================================================
