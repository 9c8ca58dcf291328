----------------------------- MODULE EtcdClient -----------------------------
(***************************************************************************)
(* Requests to etcd, as the client library sends them: to the machine it   *)
(* takes for the leader, again after a failure, and elsewhere after a      *)
(* redirection; and the workers of eunomia, which store notices with them. *)
(*                                                                         *)
(* etcd itself is a log of what happened to its keys, kept by a leader to  *)
(* which the other machines redirect.                                      *)
(***************************************************************************)
EXTENDS Integers, Sequences, FiniteSets, SequencesExt

CONSTANTS
    Machine,     \* the machines of etcd
    Configured,  \* the lists of machines with which clients may be made
    Worker,
    Key,         \* the keys that are watched
    MaxStarts,   \* bound on how often the watches are started
    Notices,     \* the notices that are to be stored, in the order of their sending
    MaxExpiries, \* bound on how often a key expires
    MaxFaults    \* bound on what may fail

ASSUME ConfiguredAssumption == Configured \subseteq Seq(Machine) \ {<<>>}
ASSUME NoticesAssumption == Notices \in Seq([key : Key, value : STRING])
ASSUME MaxFaultsAssumption == MaxFaults \in Nat /\ MaxExpiries \in Nat /\ MaxStarts \in Nat

(* Goroutines that watch a key; they share one client. *)
Watcher == Key \X (1 .. MaxStarts)
KeyOf(w) == w[1]
ASSUME CallersAssumption == Worker \cap Watcher = {}

VARIABLES
    machines,   \* Cluster.Machines of all clients
    up,         \* the machines that run ...
    leader,     \* ... and the one that leads them
    log,        \* what happened to keys
    lead,       \* Cluster.Leader of each client
    req,        \* SendRequest of each caller
    pending,    \* how many notices a worker has taken from the channel
    faults

Caller == Worker \cup Watcher
Client == Worker \cup {"monitor"}
ClientOf(c) == IF c \in Worker THEN c ELSE "monitor"

etcd == <<up, leader, log>>
clientVars == <<machines, etcd, lead, req, pending, faults>>

(* index: waitIndex, 0 if the poll has none; at: where a machine that holds   *)
(* the poll looks from, then the event it answers with; stop: whether the     *)
(* routine beside the request has received a stop.                            *)
NoRequest ==
    [pc |-> "none", notice |-> 0, index |-> 0, attempt |-> 0, numReqs |-> 1,
     machine |-> "none", at |-> 0, stop |-> FALSE]

ClientInit ==
    /\ machines \in Configured
    /\ up = Machine /\ leader \in Machine
    /\ log = <<>>
    /\ lead = [c \in Client |-> Head(machines)]
    /\ req = [c \in Caller |-> NoRequest]
    /\ pending = 1
    /\ faults = 0

Fault == faults < MaxFaults /\ faults' = faults + 1
Event(notice) == [key |-> Notices[notice].key, action |-> "set", notice |-> notice]

(* The first event of a key that a watch from index on has not passed over. *)
FirstFrom(key, index) ==
    {i \in DOMAIN log : log[i].key = key /\ i >= index
                        /\ \A j \in index .. i - 1 : log[j].key # key}

-----------------------------------------------------------------------------
(***************************************************************************)
(* SendRequest.  "sent": in httpClient.Do, or in the sleep before another  *)
(* attempt; "waiting": a long poll a machine holds; "ok" and "failed":    *)
(* what it returns.                                                        *)
(***************************************************************************)
StartRequest(c, notice, index) ==
    req' = [req EXCEPT ![c] = [NoRequest EXCEPT !.pc = "sent", !.notice = notice, !.index = index]]

InFlight(c) == req[c].pc \in {"sent", "waiting"}

To(c) == IF req[c].pc = "waiting" THEN req[c].machine ELSE lead[ClientOf(c)]

(* The number of the attempt picks a machine; that of requests is compared    *)
(* with twice the number of machines, and counted no further.                 *)
Again(r) ==
    [r EXCEPT !.pc = "sent", !.attempt = (@ + 1) % Len(machines),
              !.numReqs = IF @ < 2 * Len(machines) THEN @ + 1 ELSE @]

(* Mutant: a request is repeated until it succeeds. *)
CheckRetryForever(r) == TRUE

(* DefaultCheckRetry.  With one machine there is no second attempt. *)
CheckRetry(r) == r.numReqs + 1 < 2 * Len(machines)

(* A network error.  The machine is changed only if there is another attempt. *)
NetworkError(c) ==
    /\ req' = [req EXCEPT ![c] = IF CheckRetry(@) THEN Again(@) ELSE [@ EXCEPT !.pc = "failed"]]
    /\ lead' = IF CheckRetry(req[c])
               THEN [lead EXCEPT ![ClientOf(c)] = machines[req[c].attempt + 1]]
               ELSE lead

Unreachable(c) ==
    /\ InFlight(c)
    /\ To(c) \notin up
    /\ NetworkError(c)
    /\ UNCHANGED <<machines, etcd, pending, faults>>

Redirected(c) ==
    /\ req[c].pc = "sent" /\ To(c) \in up /\ To(c) # leader
    /\ lead' = [lead EXCEPT ![ClientOf(c)] = leader]
    /\ req' = [req EXCEPT ![c] = Again(@)]
    /\ UNCHANGED <<machines, etcd, pending, faults>>

AtLeader(c) == req[c].pc = "sent" /\ To(c) = leader

(* A notice is stored ... *)
Store(c) == log' = Append(log, Event(req[c].notice))

(* Mutant: the answer that got lost is taken for a good one. *)
StoredAnswerLostOk(c) ==
    /\ c \in Worker /\ AtLeader(c)
    /\ Fault
    /\ req' = [req EXCEPT ![c].pc = "ok"]
    /\ UNCHANGED <<machines, up, leader, log, lead, pending>>

(* ... and the answer arrives, is lost with the connection, or is cut, which  *)
(* counts as an answer that is empty and cannot be read.                      *)
Stored(c) ==
    /\ c \in Worker /\ AtLeader(c)
    /\ Store(c)
    /\ req' = [req EXCEPT ![c].pc = "ok"]
    /\ UNCHANGED <<machines, up, leader, lead, pending, faults>>

StoredAnswerLost(c) ==
    /\ c \in Worker /\ AtLeader(c)
    /\ Fault
    /\ Store(c)
    /\ \/ NetworkError(c)
       \/ req' = [req EXCEPT ![c].pc = "failed"] /\ UNCHANGED lead
    /\ UNCHANGED <<machines, up, leader, pending>>

(* The leader holds a poll.  Without waitIndex it is for what is yet to        *)
(* happen, also when it is one that is sent again.                            *)
PollHeld(c) ==
    /\ c \in Watcher /\ AtLeader(c)
    /\ LET at == IF req[c].index = 0 THEN Len(log) + 1 ELSE req[c].index
       IN  req' = [req EXCEPT ![c] = [@ EXCEPT !.pc = "waiting", !.machine = leader, !.at = at]]
    /\ UNCHANGED <<machines, etcd, lead, pending, faults>>

PollAnswered(c) ==
    /\ c \in Watcher /\ req[c].pc = "waiting" /\ To(c) \in up
    /\ \E i \in FirstFrom(KeyOf(c), req[c].at) :
          req' = [req EXCEPT ![c] = [@ EXCEPT !.pc = "ok", !.at = i]]
    /\ UNCHANGED <<machines, etcd, lead, pending, faults>>

(* The connection of a poll is closed: "probably by timeout". *)
PollExpires(c) ==
    /\ req[c].pc = "waiting"
    /\ Fault
    /\ req' = [req EXCEPT ![c].pc = "failed"]
    /\ UNCHANGED <<machines, etcd, lead, pending>>

(* A status that is not valid. *)
ServerError(c) ==
    /\ req[c].pc = "sent" /\ To(c) \in up
    /\ Fault
    /\ req' = [req EXCEPT ![c] = IF CheckRetry(@) THEN Again(@) ELSE [@ EXCEPT !.pc = "failed"]]
    /\ UNCHANGED <<machines, etcd, lead, pending>>

-----------------------------------------------------------------------------
(* updateWorker.  Ten workers receive from one channel. *)
Take(c) ==
    /\ req[c].pc \in {"none", "ok", "failed"}
    /\ pending <= Len(Notices)
    /\ StartRequest(c, pending, 0)
    /\ pending' = pending + 1
    /\ UNCHANGED <<machines, etcd, lead, faults>>

-----------------------------------------------------------------------------
(* etcd.  Keys of notices live for some seconds. *)
LeaderChanges ==
    /\ Fault
    /\ leader' \in up \ {leader}
    /\ UNCHANGED <<machines, up, log, lead, req, pending>>

MachineStops(m) ==
    /\ Fault
    /\ m \in up /\ up # {m}
    /\ up' = up \ {m}
    /\ leader' \in IF leader = m THEN up' ELSE {leader}
    /\ UNCHANGED <<machines, log, lead, req, pending>>

Expires(i) ==
    /\ Cardinality({j \in DOMAIN log : log[j].action = "expire"}) < MaxExpiries
    /\ log[i].action = "set"
    /\ \A j \in DOMAIN log : j > i => log[j].key # log[i].key
    /\ log' = Append(log, [log[i] EXCEPT !.action = "expire"])
    /\ UNCHANGED <<machines, up, leader, lead, req, pending, faults>>

Answer(c) ==
    \/ Unreachable(c) \/ Redirected(c) \/ Stored(c) \/ PollHeld(c) \/ PollAnswered(c)

ClientNext ==
    \/ \E c \in Caller : Answer(c) \/ StoredAnswerLost(c) \/ PollExpires(c) \/ ServerError(c)
    \/ \E c \in Worker : Take(c)
    \/ LeaderChanges \/ \E m \in Machine : MachineStops(m)
    \/ \E i \in DOMAIN log : Expires(i)

-----------------------------------------------------------------------------
ClientTypeOK ==
    /\ machines \in Configured
    /\ up \subseteq Machine /\ leader \in up
    /\ lead \in [Client -> Machine]
    /\ \A c \in Caller :
          /\ req[c].pc \in {"none", "sent", "waiting", "ok", "failed"}
          /\ req[c].pc = "waiting" => c \in Watcher

(* What a worker reports as stored is in the log.  (A notice it reports as   *)
(* failed may be there too, and one that was repeated may be there twice.)   *)
ReportedIsStored ==
    \A c \in Worker : req[c].pc = "ok" => \E i \in DOMAIN log : log[i].notice = req[c].notice

-----------------------------------------------------------------------------
(* What does not hold.  Notices about one key are stored in the order they   *)
(* were sent in.                                                              *)
StoredInOrder ==
    \A i, j \in DOMAIN log :
        i < j /\ log[i].key = log[j].key => log[i].notice <= log[j].notice

(* A worker goes back to a machine that runs.  (Its one machine redirected    *)
(* it to another one, which has stopped since.)                               *)
ClientRecovers == \A c \in Worker : <>[](lead[c] \in up)

(* A notice is stored once. *)
StoredOnce ==
    \A i, j \in DOMAIN log :
        log[i].action = "set" /\ log[j].action = "set" /\ log[i].notice = log[j].notice => i = j
=============================================================================
