-------------------------- MODULE QueueWatch_proofs --------------------------
(***************************************************************************)
(* For any notices, machines and failures: what a worker reports is stored *)
(* and what a watch delivers has no gap.                                   *)
(*                                                                         *)
(* The second rests on where a poll begins (PollsFollow): once a goroutine *)
(* has delivered an event its polls begin right after the last one it      *)
(* delivered, whatever machine they are sent to, and how often.            *)
(***************************************************************************)
EXTENDS QueueWatch, TLAPS

Happening == [key : Key, action : {"set", "expire"}, notice : Nat]
Request == [pc : {"none", "sent", "waiting", "ok", "failed"}, notice : Nat, index : Nat,
            attempt : Nat, numReqs : Nat, machine : Machine \cup {"none"}, at : Nat,
            stop : BOOLEAN]

Types ==
    /\ machines \in Configured
    /\ up \subseteq Machine /\ leader \in Machine
    /\ log \in Seq(Happening)
    /\ req \in [Caller -> Request]
    /\ pending \in Nat \ {0}
    /\ watch \in [Watcher -> {"none", "start", "polling", "off"}]
    /\ heard \in [Watcher -> Seq(Nat \ {0})]

NoticesTaken == \A c \in Worker : InFlight(c) => req[c].notice \in DOMAIN Notices

BeforePolls == \A w \in Watcher : watch[w] \in {"none", "start"} => heard[w] = <<>>

NextFrom(w) == heard[w][Len(heard[w])] + 1

PollsFollow ==
    \A w \in Watcher : heard[w] # <<>> =>
        /\ InFlight(w) => req[w].index = NextFrom(w)
        /\ req[w].pc = "waiting" => req[w].at = NextFrom(w)
        /\ req[w].pc = "ok" => req[w].at \in FirstFrom(KeyOf(w), NextFrom(w))

AnswersAreEvents == \A w \in Watcher : req[w].pc = "ok" => req[w].at # 0

Inv ==
    /\ Types /\ NoticesTaken /\ ReportedIsStored /\ BeforePolls /\ AnswersAreEvents
    /\ PollsFollow /\ NoGap

-----------------------------------------------------------------------------
LEMMA CallerFacts ==
    /\ \A c \in Worker : c \in Caller /\ c \notin Watcher
    /\ \A w \in Watcher : w \in Caller /\ w \notin Worker
    /\ \A c \in Caller : c \in Worker \/ c \in Watcher
    /\ \A w \in Watcher : KeyOf(w) \in Key
BY CallersAssumption DEF Caller, Watcher, KeyOf

LEMMA AgainType ==
    ASSUME machines \in Configured, NEW r \in Request
    PROVE  /\ Again(r) \in Request
           /\ Again(r).pc = "sent" /\ Again(r).notice = r.notice /\ Again(r).index = r.index
<1> DEFINE a == (r.attempt + 1) % Len(machines)
           n == IF r.numReqs < 2 * Len(machines) THEN r.numReqs + 1 ELSE r.numReqs
<1>1. Len(machines) \in Nat \ {0}
  BY ConfiguredAssumption
<1>2. a \in Nat
  <2>1. r.attempt + 1 \in Nat
    BY DEF Request
  <2> QED
    BY <1>1, <2>1
<1>3. n \in Nat
  BY <1>1 DEF Request
<1>4. Again(r) = [r EXCEPT !.pc = "sent", !.attempt = a, !.numReqs = n]
  BY DEF Again
<1> HIDE DEF a, n
<1> QED
  BY <1>2, <1>3, <1>4 DEF Request

(* What has happened stays, and so does what is the first of it. *)
LEMMA LogGrows ==
    ASSUME log \in Seq(Happening), log' = log \/ \E e \in Happening : log' = Append(log, e)
    PROVE  /\ log' \in Seq(Happening)
           /\ \A i \in DOMAIN log : i \in DOMAIN log' /\ log'[i] = log[i]
           /\ \A k \in Key, n \in Nat \ {0} : FirstFrom(k, n) \subseteq FirstFrom(k, n)'
<1>1. /\ log' \in Seq(Happening)
      /\ \A i \in DOMAIN log : i \in DOMAIN log' /\ log'[i] = log[i]
  OBVIOUS
<1>2. ASSUME NEW k \in Key, NEW n \in Nat \ {0}, NEW i \in FirstFrom(k, n)
      PROVE  i \in FirstFrom(k, n)'
  <2>1. /\ i \in DOMAIN log /\ log[i].key = k /\ i >= n
        /\ \A j \in n .. i - 1 : log[j].key # k
    BY <1>2 DEF FirstFrom
  <2>2. \A j \in n .. i - 1 : j \in DOMAIN log
    BY <2>1
  <2> QED
    BY <1>1, <2>1, <2>2 DEF FirstFrom
<1> QED
  BY <1>1, <1>2

(***************************************************************************)
(* What the steps of the client do to requests: a request that goes on     *)
(* keeps what it is about, and is answered with what is in the log.        *)
(***************************************************************************)
GoesOn(c) ==
    /\ InFlight(c) /\ req'[c].pc \in {"sent", "waiting", "failed"}
    /\ req'[c].notice = req[c].notice
    /\ req'[c].index = req[c].index
    /\ req'[c].pc = "waiting" => req'[c].at = req[c].index \/ req[c].index = 0

StoresIt(c) ==
    /\ c \in Worker /\ InFlight(c) /\ req'[c].pc = "ok" /\ req'[c].notice = req[c].notice
    /\ \E i \in DOMAIN log' : log'[i].notice = req[c].notice

FindsIt(c) ==
    /\ c \in Watcher /\ req[c].pc = "waiting" /\ req'[c].pc = "ok"
    /\ req'[c].at \in FirstFrom(KeyOf(c), req[c].at)

TakesOne(c) == c \in Worker /\ req'[c].pc = "sent" /\ req'[c].notice \in DOMAIN Notices

RequestsGo ==
    \A c \in Caller : req'[c] = req[c] \/ GoesOn(c) \/ StoresIt(c) \/ FindsIt(c) \/ TakesOne(c)

LogGoes == log' = log \/ \E e \in Happening : log' = Append(log, e)

EtcdGoes == up' \subseteq Machine /\ leader' \in Machine /\ LogGoes

Goes ==
    /\ machines' = machines /\ pending' \in Nat \ {0} /\ req' \in [Caller -> Request]
    /\ EtcdGoes /\ RequestsGo

(* A step of one request. *)
LEMMA OneGoes ==
    ASSUME Types, NEW c \in Caller, NEW r \in Request, req' = [req EXCEPT ![c] = r],
           machines' = machines, pending' \in Nat \ {0}, EtcdGoes,
           GoesOn(c) \/ StoresIt(c) \/ FindsIt(c) \/ TakesOne(c)
    PROVE  Goes
<1>1. req' \in [Caller -> Request] /\ \A d \in Caller : d # c => req'[d] = req[d]
  BY DEF Types
<1> QED
  BY <1>1 DEF Goes, RequestsGo

(* A request that is sent again, or given up, or held. *)
LEMMA GoesOnType ==
    ASSUME Types, NEW c \in Caller, InFlight(c), NEW r \in Request,
           r.pc \in {"sent", "waiting", "failed"}, r.notice = req[c].notice,
           r.index = req[c].index,
           r.pc = "waiting" => r.at = req[c].index \/ req[c].index = 0,
           req' = [req EXCEPT ![c] = r], UNCHANGED <<machines, pending>>, EtcdGoes
    PROVE  Goes
<1>1. req'[c] = r /\ pending' \in Nat \ {0}
  BY DEF Types
<1>2. GoesOn(c)
  BY <1>1 DEF GoesOn
<1> QED
  BY <1>1, <1>2, OneGoes

LEMMA NetworkErrorGoes ==
    ASSUME Types, NEW c \in Caller, InFlight(c), UNCHANGED <<machines, pending>>, EtcdGoes,
           req' = [req EXCEPT ![c] = IF CheckRetry(@) THEN Again(@) ELSE [@ EXCEPT !.pc = "failed"]]
    PROVE  Goes
<1>1. req[c] \in Request /\ machines \in Configured
  BY DEF Types
<1>2. CASE CheckRetry(req[c])
  <2> DEFINE r == Again(req[c])
  <2>1. req' = [req EXCEPT ![c] = r]
    BY <1>2 DEF Types
  <2>2. r \in Request /\ r.pc = "sent" /\ r.notice = req[c].notice /\ r.index = req[c].index
    BY <1>1, AgainType
  <2> HIDE DEF r
  <2> QED
    BY <2>1, <2>2, GoesOnType
<1>3. CASE ~CheckRetry(req[c])
  <2> DEFINE r == [req[c] EXCEPT !.pc = "failed"]
  <2>1. req' = [req EXCEPT ![c] = r]
    BY <1>3 DEF Types
  <2>2. r \in Request /\ r.pc = "failed" /\ r.notice = req[c].notice /\ r.index = req[c].index
    BY <1>1 DEF Request
  <2> HIDE DEF r
  <2> QED
    BY <2>1, <2>2, GoesOnType
<1> QED
  BY <1>2, <1>3

(* A worker stores its notice. *)
LEMMA StoreGoes ==
    ASSUME Types, NoticesTaken, NEW c \in Worker, AtLeader(c), Store(c)
    PROVE  /\ LogGoes /\ InFlight(c)
           /\ \E i \in DOMAIN log' : log'[i].notice = req[c].notice
<1>1. InFlight(c) /\ log \in Seq(Happening)
  BY DEF AtLeader, InFlight, Types
<1>2. req[c].notice \in DOMAIN Notices /\ req[c].notice \in Nat
  <2>1. req[c] \in Request
    BY CallerFacts DEF Types
  <2>2. req[c].notice \in Nat
    BY <2>1 DEF Request
  <2>3. req[c].notice \in DOMAIN Notices
    BY <1>1 DEF NoticesTaken
  <2> QED
    BY <2>2, <2>3
<1>3. Notices[req[c].notice].key \in Key
  <2> DEFINE R == [key : Key, value : STRING]
  <2>1. \A r \in R : r.key \in Key
    OBVIOUS
  <2>2. Notices \in Seq(R)
    BY NoticesAssumption
  <2> HIDE DEF R
  <2>3. Notices[req[c].notice] \in R
    BY <1>2, <2>2
  <2> QED
    BY <2>1, <2>3
<1> DEFINE e == Event(req[c].notice)
<1>4. e \in Happening /\ e.notice = req[c].notice
  BY <1>2, <1>3 DEF Event, Happening
<1>5. log' = Append(log, e)
  BY DEF Store
<1> HIDE DEF e
<1>6. Len(log) + 1 \in DOMAIN log' /\ log'[Len(log) + 1] = e
  BY <1>1, <1>4, <1>5
<1> QED
  BY <1>1, <1>4, <1>5, <1>6 DEF LogGoes

LEMMA AnswerGoes ==
    ASSUME Types, NoticesTaken, NEW c \in Caller, Answer(c)
    PROVE  Goes
<1>t. /\ req[c] \in Request /\ machines \in Configured /\ log \in Seq(Happening)
      /\ pending \in Nat \ {0} /\ up \subseteq Machine /\ leader \in Machine
  BY DEF Types
<1>1. CASE Unreachable(c)
  BY <1>t, <1>1, NetworkErrorGoes DEF Unreachable, NetworkError, EtcdGoes, LogGoes, etcd
<1>2. CASE Redirected(c)
  <2>1. req' = [req EXCEPT ![c] = Again(req[c])]
    BY <1>2 DEF Redirected, Types
  <2>2. InFlight(c) /\ EtcdGoes
    BY <1>t, <1>2 DEF Redirected, InFlight, EtcdGoes, LogGoes, etcd
  <2> QED
    BY <1>t, <1>2, <2>1, <2>2, AgainType, GoesOnType DEF Redirected
<1>3. CASE Stored(c)
  <2> DEFINE r == [req[c] EXCEPT !.pc = "ok"]
  <2>1. req' = [req EXCEPT ![c] = r] /\ c \in Worker
    BY <1>3 DEF Stored, Types
  <2>2. r \in Request /\ r.pc = "ok" /\ r.notice = req[c].notice
    BY <1>t DEF Request
  <2> HIDE DEF r
  <2>3. EtcdGoes /\ StoresIt(c)
    <3>1. req'[c] = r
      BY <2>1 DEF Types
    <3> QED
      BY <1>t, <1>3, <2>1, <2>2, <3>1, StoreGoes DEF Stored, StoresIt, EtcdGoes
  <2> QED
    BY <1>t, <1>3, <2>1, <2>2, <2>3, OneGoes DEF Stored
<1>4. CASE PollHeld(c)
  <2> DEFINE n == IF req[c].index = 0 THEN Len(log) + 1 ELSE req[c].index
             r == [req[c] EXCEPT !.pc = "waiting", !.machine = leader, !.at = n]
  <2>1. n \in Nat /\ (n = req[c].index \/ req[c].index = 0)
    BY <1>t DEF Request
  <2>2. req' = [req EXCEPT ![c] = r]
    BY <1>4 DEF PollHeld, Types
  <2> HIDE DEF n
  <2>3. /\ r \in Request /\ r.pc = "waiting" /\ r.notice = req[c].notice
        /\ r.index = req[c].index /\ r.at = n
    BY <1>t, <2>1 DEF Request
  <2> HIDE DEF r
  <2>4. InFlight(c) /\ EtcdGoes
    BY <1>t, <1>4 DEF PollHeld, AtLeader, InFlight, EtcdGoes, LogGoes, etcd
  <2> QED
    BY <1>4, <2>1, <2>2, <2>3, <2>4, GoesOnType DEF PollHeld
<1>5. CASE PollAnswered(c)
  <2>1. PICK i \in FirstFrom(KeyOf(c), req[c].at) :
             req' = [req EXCEPT ![c] = [req[c] EXCEPT !.pc = "ok", !.at = i]]
    BY <1>5 DEF PollAnswered, Types
  <2>2. i \in Nat
    BY <1>t, <2>1 DEF FirstFrom
  <2> DEFINE r == [req[c] EXCEPT !.pc = "ok", !.at = i]
  <2>3. req' = [req EXCEPT ![c] = r]
    BY <2>1
  <2>4. r \in Request /\ r.pc = "ok" /\ r.at = i
    BY <1>t, <2>2 DEF Request
  <2> HIDE DEF r
  <2>6. FindsIt(c) /\ EtcdGoes
    <3>1. req'[c] = r
      BY <2>3 DEF Types
    <3> QED
      BY <1>t, <1>5, <2>1, <2>4, <3>1 DEF PollAnswered, FindsIt, EtcdGoes, LogGoes, etcd
  <2> QED
    BY <1>t, <1>5, <2>3, <2>4, <2>6, OneGoes DEF PollAnswered
<1> QED
  BY <1>1, <1>2, <1>3, <1>4, <1>5 DEF Answer

LEMMA ClientGoes ==
    ASSUME Types, NoticesTaken, ClientNext
    PROVE  Goes
<1>t. /\ req \in [Caller -> Request] /\ machines \in Configured /\ log \in Seq(Happening)
      /\ pending \in Nat \ {0} /\ up \subseteq Machine /\ leader \in Machine
  BY DEF Types
<1>1. ASSUME NEW c \in Caller, StoredAnswerLost(c) \/ PollExpires(c)
      PROVE  Goes
  <2> DEFINE r == [req[c] EXCEPT !.pc = "failed"]
  <2>1. r \in Request /\ r.pc = "failed" /\ r.notice = req[c].notice /\ r.index = req[c].index
    BY <1>t DEF Request
  <2>2. InFlight(c) /\ EtcdGoes
    BY <1>t, <1>1, StoreGoes
       DEF StoredAnswerLost, PollExpires, InFlight, EtcdGoes, LogGoes, etcd
  <2>3. CASE NetworkError(c)
    BY <1>1, <2>2, <2>3, NetworkErrorGoes DEF StoredAnswerLost, PollExpires, NetworkError
  <2>4. CASE ~NetworkError(c)
    <3>1. req' = [req EXCEPT ![c] = r]
      BY <1>1, <2>4 DEF StoredAnswerLost, PollExpires
    <3> HIDE DEF r
    <3> QED
      BY <1>1, <2>1, <2>2, <3>1, GoesOnType DEF StoredAnswerLost, PollExpires
  <2> QED
    BY <2>3, <2>4
<1>2. ASSUME NEW c \in Caller, ServerError(c)
      PROVE  Goes
  BY <1>t, <1>2, NetworkErrorGoes DEF ServerError, InFlight, EtcdGoes, LogGoes, etcd
<1>3. ASSUME NEW c \in Worker, Take(c)
      PROVE  Goes
  <2> DEFINE r == [NoRequest EXCEPT !.pc = "sent", !.notice = pending, !.index = 0]
  <2>1. r \in Request /\ r.pc = "sent" /\ r.notice = pending
    BY <1>t DEF NoRequest, Request
  <2>2. req' = [req EXCEPT ![c] = r] /\ c \in Caller
    BY <1>3, CallerFacts DEF Take, StartRequest
  <2> HIDE DEF r
  <2>3. pending \in DOMAIN Notices /\ pending' \in Nat \ {0}
    BY <1>t, <1>3, NoticesAssumption DEF Take
  <2>4. TakesOne(c)
    BY <1>t, <2>1, <2>2, <2>3 DEF TakesOne
  <2>5. EtcdGoes /\ machines' = machines
    BY <1>t, <1>3 DEF Take, EtcdGoes, LogGoes, etcd
  <2> QED
    BY <2>1, <2>2, <2>3, <2>4, <2>5, OneGoes
<1>4. ASSUME LeaderChanges \/ \E m \in Machine : MachineStops(m)
      PROVE  Goes
  BY <1>t, <1>4 DEF LeaderChanges, MachineStops, Goes, RequestsGo, EtcdGoes, LogGoes
<1>5. ASSUME NEW i \in DOMAIN log, Expires(i)
      PROVE  Goes
  <2> DEFINE e == [log[i] EXCEPT !.action = "expire"]
  <2>1. log[i] \in Happening
    BY <1>t
  <2>2. e \in Happening
    BY <2>1 DEF Happening
  <2>3. log' = Append(log, e) /\ UNCHANGED <<machines, up, leader, req, pending>>
    BY <1>5 DEF Expires
  <2> HIDE DEF e
  <2> QED
    BY <1>t, <2>2, <2>3 DEF Goes, RequestsGo, EtcdGoes, LogGoes
<1> QED
  BY <1>1, <1>2, <1>3, <1>4, <1>5, AnswerGoes DEF ClientNext

-----------------------------------------------------------------------------
LEMMA StepClient ==
    ASSUME Inv, ClientNext, UNCHANGED watchVars
    PROVE  Inv'
<1>t. /\ Types /\ NoticesTaken /\ ReportedIsStored /\ BeforePolls /\ AnswersAreEvents
      /\ PollsFollow /\ NoGap
  BY DEF Inv
<1>1. Goes /\ UNCHANGED <<watch, closed, monitor, heard>>
  BY <1>t, ClientGoes DEF watchVars
<1>2. /\ log' \in Seq(Happening)
      /\ \A i \in DOMAIN log : i \in DOMAIN log' /\ log'[i] = log[i]
      /\ \A k \in Key, n \in Nat \ {0} : FirstFrom(k, n) \subseteq FirstFrom(k, n)'
  BY <1>t, <1>1, LogGrows DEF Goes, EtcdGoes, LogGoes, Types
<1>3. Types'
  BY <1>t, <1>1, <1>2 DEF Types, Goes, EtcdGoes
<1>4. NoticesTaken'
  <2> SUFFICES ASSUME NEW c \in Worker, req'[c].pc \in {"sent", "waiting"}
               PROVE  req'[c].notice \in DOMAIN Notices
    BY DEF NoticesTaken, InFlight
  <2>1. req'[c] = req[c] \/ GoesOn(c) \/ StoresIt(c) \/ FindsIt(c) \/ TakesOne(c)
    BY <1>1, CallerFacts DEF Goes, RequestsGo
  <2> QED
    BY <1>t, <2>1 DEF NoticesTaken, InFlight, GoesOn, StoresIt, FindsIt, TakesOne
<1>5. ReportedIsStored'
  <2> SUFFICES ASSUME NEW c \in Worker, req'[c].pc = "ok"
               PROVE  \E i \in DOMAIN log' : log'[i].notice = req'[c].notice
    BY DEF ReportedIsStored
  <2>1. req'[c] = req[c] \/ StoresIt(c)
    BY <1>1, CallerFacts DEF Goes, RequestsGo, GoesOn, FindsIt, TakesOne
  <2>2. CASE req'[c] = req[c]
    BY <1>t, <1>2, <2>2 DEF ReportedIsStored
  <2> QED
    BY <2>1, <2>2 DEF StoresIt
<1>6. BeforePolls'
  BY <1>t, <1>1 DEF BeforePolls
<1>7. \A w \in Watcher : heard[w] # <<>> => NextFrom(w) \in Nat \ {0, 1}
  BY <1>t DEF Types, NextFrom
<1>8. PollsFollow'
  <2> SUFFICES ASSUME NEW w \in Watcher, heard[w] # <<>>
               PROVE  /\ req'[w].pc \in {"sent", "waiting"} => req'[w].index = NextFrom(w)
                      /\ req'[w].pc = "waiting" => req'[w].at = NextFrom(w)
                      /\ req'[w].pc = "ok" => req'[w].at \in FirstFrom(KeyOf(w), NextFrom(w))'
    BY <1>1 DEF PollsFollow, InFlight, NextFrom
  <2>1. req'[w] = req[w] \/ GoesOn(w) \/ FindsIt(w)
    BY <1>1, CallerFacts DEF Goes, RequestsGo, StoresIt, TakesOne
  <2>2. NextFrom(w) \in Nat \ {0, 1} /\ NextFrom(w)' = NextFrom(w)
    BY <1>1, <1>7 DEF NextFrom
  <2>3. FirstFrom(KeyOf(w), NextFrom(w)) \subseteq FirstFrom(KeyOf(w), NextFrom(w))'
    BY <1>2, <2>2, CallerFacts
  <2>4. /\ InFlight(w) => req[w].index = NextFrom(w)
        /\ req[w].pc = "waiting" => req[w].at = NextFrom(w)
        /\ req[w].pc = "ok" => req[w].at \in FirstFrom(KeyOf(w), NextFrom(w))
    BY <1>t DEF PollsFollow
  <2>5. CASE req'[w] = req[w]
    BY <2>3, <2>4, <2>5 DEF InFlight
  <2>6. CASE GoesOn(w)
    BY <2>2, <2>4, <2>6 DEF GoesOn
  <2>7. CASE FindsIt(w)
    BY <2>3, <2>4, <2>7 DEF FindsIt
  <2> QED
    BY <2>1, <2>5, <2>6, <2>7
<1>9. NoGap'
  <2> SUFFICES ASSUME NEW w \in Watcher, NEW k \in 1 .. Len(heard[w]) - 1
               PROVE  heard[w][k + 1] \in FirstFrom(KeyOf(w), heard[w][k] + 1)'
    BY <1>1 DEF NoGap
  <2>1. heard[w][k + 1] \in FirstFrom(KeyOf(w), heard[w][k] + 1)
    BY <1>t DEF NoGap
  <2>2. heard[w][k] + 1 \in Nat \ {0}
    BY <1>t DEF Types
  <2>3. FirstFrom(KeyOf(w), heard[w][k] + 1) \subseteq FirstFrom(KeyOf(w), heard[w][k] + 1)'
    BY <1>1, <1>2, <2>2, CallerFacts
  <2> QED
    BY <2>1, <2>3
<1>10. AnswersAreEvents'
  <2> SUFFICES ASSUME NEW w \in Watcher, req'[w].pc = "ok" PROVE req'[w].at # 0
    BY DEF AnswersAreEvents
  <2>1. req'[w] = req[w] \/ FindsIt(w)
    BY <1>1, CallerFacts DEF Goes, RequestsGo, GoesOn, StoresIt, TakesOne
  <2>2. ASSUME FindsIt(w) PROVE req'[w].at # 0
    BY <1>t, <2>2 DEF FindsIt, FirstFrom, Types
  <2> QED
    BY <1>t, <2>1, <2>2 DEF AnswersAreEvents
<1> QED
  BY <1>3, <1>4, <1>5, <1>6, <1>8, <1>9, <1>10 DEF Inv

-----------------------------------------------------------------------------
(* The polls of a watch. *)
LEMMA StartRequestType ==
    ASSUME Types, NEW w \in Watcher, NEW n \in Nat, StartRequest(w, 0, n)
    PROVE  /\ req' \in [Caller -> Request]
           /\ req'[w].pc = "sent" /\ req'[w].index = n
           /\ \A c \in Caller : c # w => req'[c] = req[c]
<1> DEFINE r == [NoRequest EXCEPT !.pc = "sent", !.notice = 0, !.index = n]
<1>1. r \in Request /\ r.pc = "sent" /\ r.index = n
  BY DEF NoRequest, Request
<1>2. req' = [req EXCEPT ![w] = r] /\ w \in Caller
  BY CallerFacts DEF StartRequest
<1> HIDE DEF r
<1> QED
  BY <1>1, <1>2 DEF Types

LEMMA StepPoll ==
    ASSUME Inv, NEW w \in Watcher, Poll(w)
    PROVE  Inv'
<1>t. /\ Types /\ NoticesTaken /\ ReportedIsStored /\ BeforePolls /\ AnswersAreEvents
      /\ PollsFollow /\ NoGap
  BY DEF Inv
<1>1. /\ watch[w] = "start" /\ StartRequest(w, 0, 0)
      /\ watch' = [watch EXCEPT ![w] = "polling"]
      /\ UNCHANGED <<machines, up, leader, log, pending, heard>>
  BY DEF Poll, etcd
<1>2. /\ req' \in [Caller -> Request]
      /\ \A c \in Caller : c # w => req'[c] = req[c]
  BY <1>t, <1>1, StartRequestType
<1>3. \A c \in Worker : req'[c] = req[c]
  BY <1>2, CallerFacts
<1>4. Types'
  BY <1>t, <1>1, <1>2 DEF Types
<1>5. NoticesTaken' /\ ReportedIsStored'
  BY <1>t, <1>1, <1>3 DEF NoticesTaken, InFlight, ReportedIsStored
<1>6. BeforePolls'
  BY <1>t, <1>1 DEF BeforePolls, Types
<1>7. PollsFollow'
  <2>1. heard[w] = <<>>
    BY <1>t, <1>1 DEF BeforePolls
  <2>2. \A v \in Watcher : v # w => req'[v] = req[v]
    BY <1>2, CallerFacts
  <2> QED
    BY <1>t, <1>1, <2>1, <2>2 DEF PollsFollow, InFlight, NextFrom, FirstFrom
<1>8. NoGap'
  BY <1>t, <1>1 DEF NoGap, FirstFrom
<1>9. AnswersAreEvents'
  <2>1. req'[w].pc = "sent" /\ \A v \in Watcher : v # w => req'[v] = req[v]
    BY <1>t, <1>1, StartRequestType, CallerFacts
  <2> QED
    BY <1>t, <2>1 DEF AnswersAreEvents
<1> QED
  BY <1>4, <1>5, <1>6, <1>7, <1>8, <1>9 DEF Inv

LEMMA StepDeliver ==
    ASSUME Inv, NEW w \in Watcher, Deliver(w)
    PROVE  Inv'
<1>t. /\ Types /\ NoticesTaken /\ ReportedIsStored /\ BeforePolls /\ AnswersAreEvents
      /\ PollsFollow /\ NoGap
  BY DEF Inv
<1> DEFINE n == req[w].at
<1>1. /\ watch[w] = "polling" /\ req[w].pc = "ok"
      /\ heard' = [heard EXCEPT ![w] = Append(@, n)]
      /\ StartRequest(w, 0, n + 1)
      /\ UNCHANGED <<machines, up, leader, log, pending, watch>>
  BY DEF Deliver, etcd
<1>2. n \in Nat
  BY <1>t, CallerFacts DEF Types, Request
<1> HIDE DEF n
<1>3. n \in Nat \ {0}
  BY <1>t, <1>1, <1>2 DEF AnswersAreEvents, n
<1>4. /\ req' \in [Caller -> Request]
      /\ req'[w].pc = "sent" /\ req'[w].index = n + 1
      /\ \A c \in Caller : c # w => req'[c] = req[c]
  BY <1>t, <1>1, <1>2, StartRequestType
<1>5. \A c \in Worker : req'[c] = req[c]
  BY <1>4, CallerFacts
<1>6. /\ heard'[w] = Append(heard[w], n) /\ heard[w] \in Seq(Nat \ {0})
      /\ \A v \in Watcher : v # w => heard'[v] = heard[v]
      /\ heard' \in [Watcher -> Seq(Nat \ {0})]
  BY <1>t, <1>1, <1>3 DEF Types
<1>7. Types'
  BY <1>t, <1>1, <1>4, <1>6 DEF Types
<1>8. NoticesTaken' /\ ReportedIsStored'
  BY <1>t, <1>1, <1>5 DEF NoticesTaken, InFlight, ReportedIsStored
<1>9. BeforePolls'
  BY <1>t, <1>1, <1>6 DEF BeforePolls
<1>10. PollsFollow'
  <2>1. NextFrom(w)' = n + 1
    BY <1>2, <1>6 DEF NextFrom
  <2>2. \A v \in Watcher : v # w => req'[v] = req[v] /\ heard'[v] = heard[v]
    BY <1>4, <1>6, CallerFacts
  <2> QED
    BY <1>t, <1>1, <1>4, <2>1, <2>2 DEF PollsFollow, InFlight, NextFrom, FirstFrom
<1>11. NoGap'
  <2> SUFFICES ASSUME NEW v \in Watcher, NEW k \in 1 .. Len(heard'[v]) - 1
               PROVE  heard'[v][k + 1] \in FirstFrom(KeyOf(v), heard'[v][k] + 1)
    BY <1>1 DEF NoGap, FirstFrom
  <2>1. CASE v # w
    BY <1>t, <1>6, <2>1 DEF NoGap
  <2>2. CASE v = w /\ k < Len(heard[w])
    <3>1. /\ k \in 1 .. Len(heard[w]) - 1
          /\ heard'[w][k + 1] = heard[w][k + 1] /\ heard'[w][k] = heard[w][k]
      BY <1>6, <2>2
    <3> QED
      BY <1>t, <2>2, <3>1 DEF NoGap
  <2>3. CASE v = w /\ k >= Len(heard[w])
    <3>1. /\ k = Len(heard[w]) /\ heard[w] # <<>>
          /\ heard'[w][k + 1] = n /\ heard'[w][k] = heard[w][k]
      BY <1>6, <2>3
    <3>2. n \in FirstFrom(KeyOf(w), NextFrom(w))
      BY <1>t, <1>1, <3>1 DEF PollsFollow, n
    <3> QED
      BY <2>3, <3>1, <3>2 DEF NextFrom
  <2> QED
    BY <2>1, <2>2, <2>3
<1>12. AnswersAreEvents'
  BY <1>t, <1>4, CallerFacts DEF AnswersAreEvents
<1> QED
  BY <1>7, <1>8, <1>9, <1>10, <1>11, <1>12 DEF Inv

(***************************************************************************)
(* The steps that deliver nothing: a goroutine that was started does not   *)
(* become one that was not, and a request goes on or fails.                *)
(***************************************************************************)
Watched(w) == watch[w] \in {"polling", "off"}

LEMMA StepsThatEnd ==
    ASSUME Inv, UNCHANGED <<machines, up, leader, log, pending, heard>>,
           req' \in [Caller -> Request],
           \A c \in Worker : req'[c] = req[c],
           \A w \in Watcher :
               \/ req'[w].pc = "failed"
               \/ req'[w].pc = req[w].pc /\ req'[w].index = req[w].index /\ req'[w].at = req[w].at,
           watch' \in [Watcher -> {"none", "start", "polling", "off"}],
           \A w \in Watcher : Watched(w)' => Watched(w),
           \A w \in Watcher : Watched(w) => Watched(w)'
    PROVE  Inv'
<1>t. Types /\ NoticesTaken /\ ReportedIsStored /\ BeforePolls /\ AnswersAreEvents /\ PollsFollow /\ NoGap
  BY DEF Inv
<1>1. Types'
  BY <1>t DEF Types
<1>2. NoticesTaken' /\ ReportedIsStored' /\ NoGap'
  BY <1>t DEF NoticesTaken, InFlight, ReportedIsStored, NoGap, FirstFrom
<1>3. PollsFollow'
  <2> SUFFICES ASSUME NEW w \in Watcher, heard[w] # <<>>
               PROVE  /\ req'[w].pc \in {"sent", "waiting"} => req'[w].index = NextFrom(w)
                      /\ req'[w].pc = "waiting" => req'[w].at = NextFrom(w)
                      /\ req'[w].pc = "ok" => req'[w].at \in FirstFrom(KeyOf(w), NextFrom(w))
    BY DEF PollsFollow, InFlight, NextFrom, FirstFrom
  <2> QED
    BY <1>t DEF PollsFollow, InFlight
<1>4. AnswersAreEvents'
  BY <1>t DEF AnswersAreEvents
<1>5. BeforePolls'
  BY <1>t DEF BeforePolls, Watched, Types
<1> QED
  BY <1>1, <1>2, <1>3, <1>4, <1>5 DEF Inv

LEMMA StepWatchEnds ==
    ASSUME Inv, NEW w \in Watcher, WatchEnds(w)
    PROVE  Inv'
<1>t. Types
  BY DEF Inv
<1>1. /\ UNCHANGED <<machines, up, leader, log, pending, heard, req>>
      /\ watch[w] = "polling" /\ watch' = [watch EXCEPT ![w] = "off"]
  BY DEF WatchEnds, Close, clientVars, etcd
<1>2. \A v \in Watcher : Watched(v)' <=> Watched(v)
  BY <1>t, <1>1 DEF Watched, Types
<1> QED
  BY <1>t, <1>1, <1>2, StepsThatEnd DEF Types

LEMMA StepStop ==
    ASSUME Inv, NEW key, NEW next, Stop(key, next)
    PROVE  Inv'
<1>t. Types
  BY DEF Inv
<1>1. UNCHANGED <<machines, up, leader, log, pending, heard>>
  BY DEF Stop, etcd
<1>2. PICK w \in Watcher : Cancelled(w, next) \/ TakenLate(w, next)
  BY DEF Stop
<1>3. w \in Caller /\ req[w] \in Request
  BY <1>t, CallerFacts DEF Types
<1>4. CASE Cancelled(w, next)
  <2> DEFINE r == [req[w] EXCEPT !.pc = "failed", !.stop = TRUE]
  <2>1. /\ req' = [req EXCEPT ![w] = r]
        /\ watch[w] = "polling" /\ watch' = [watch EXCEPT ![w] = "off"]
    BY <1>t, <1>3, <1>4 DEF Cancelled, Close, Types
  <2>2. r \in Request /\ r.pc = "failed"
    BY <1>3 DEF Request
  <2> HIDE DEF r
  <2>3. /\ req' \in [Caller -> Request] /\ req'[w].pc = "failed"
        /\ \A c \in Caller : c # w => req'[c] = req[c]
    BY <1>t, <1>3, <2>1, <2>2 DEF Types
  <2>4. \A v \in Watcher : Watched(v)' <=> Watched(v)
    BY <1>t, <2>1 DEF Watched, Types
  <2> QED
    BY <1>t, <1>1, <2>1, <2>3, <2>4, StepsThatEnd, CallerFacts DEF Types
<1>5. CASE TakenLate(w, next)
  <2> DEFINE r == [req[w] EXCEPT !.stop = TRUE]
  <2>1. req' = [req EXCEPT ![w] = r] /\ watch' = watch
    BY <1>t, <1>3, <1>5 DEF TakenLate, Types
  <2>2. r \in Request /\ r.pc = req[w].pc /\ r.index = req[w].index /\ r.at = req[w].at
    BY <1>3 DEF Request
  <2> HIDE DEF r
  <2>3. /\ req' \in [Caller -> Request] /\ req'[w] = r
        /\ \A c \in Caller : c # w => req'[c] = req[c]
    BY <1>t, <1>3, <2>1, <2>2 DEF Types
  <2>4. \A v \in Watcher : Watched(v)' <=> Watched(v)
    BY <2>1 DEF Watched
  <2> QED
    BY <1>t, <1>1, <2>1, <2>2, <2>3, <2>4, StepsThatEnd, CallerFacts DEF Types
<1> QED
  BY <1>2, <1>4, <1>5

LEMMA StepRestart ==
    ASSUME Inv, Restart
    PROVE  Inv'
<1>t. Types /\ BeforePolls
  BY DEF Inv
<1>1. UNCHANGED <<machines, up, leader, log, pending, heard, req>>
  BY DEF Restart, clientVars, etcd
<1>2. PICK n \in 2 .. MaxStarts :
           /\ \A w \in Watcher : watch[w] = "none" <=> w[2] >= n
           /\ watch' = [w \in Watcher |-> IF w[2] = n THEN "start" ELSE watch[w]]
  BY DEF Restart
<1>3. \A w \in Watcher : w[2] \in 1 .. MaxStarts
  BY DEF Watcher
<1>4. \A w \in Watcher : Watched(w)' <=> Watched(w)
  BY <1>t, <1>2, <1>3, MaxFaultsAssumption DEF Types, Watched
<1>5. watch' \in [Watcher -> {"none", "start", "polling", "off"}]
  BY <1>t, <1>2 DEF Types
<1> QED
  BY <1>t, <1>1, <1>4, <1>5, StepsThatEnd DEF Types

LEMMA StepMonitor ==
    ASSUME Inv, ReceiveNil \/ \E w \in Watcher : DeliverOnClosed(w)
    PROVE  Inv'
<1>t. Types
  BY DEF Inv
<1>1. UNCHANGED <<machines, up, leader, log, pending, heard, req, watch>>
  BY DEF ReceiveNil, DeliverOnClosed, clientVars, etcd
<1>2. \A w \in Watcher : Watched(w)' <=> Watched(w)
  BY <1>1 DEF Watched
<1> QED
  BY <1>t, <1>1, <1>2, StepsThatEnd DEF Types

-----------------------------------------------------------------------------
LEMMA InitInv == Init => Inv
<1> SUFFICES ASSUME Init PROVE Inv
  OBVIOUS
<1>1. /\ machines \in Configured /\ log = <<>> /\ pending = 1
      /\ up = Machine /\ leader \in Machine
      /\ req = [c \in Caller |-> NoRequest]
      /\ watch = [w \in Watcher |-> IF w[2] = 1 THEN "start" ELSE "none"]
      /\ heard = [w \in Watcher |-> <<>>]
  BY DEF Init, ClientInit
<1>2. NoRequest \in Request /\ NoRequest.pc = "none"
  BY DEF NoRequest, Request
<1>3. Types
  BY <1>1, <1>2 DEF Types
<1>4. NoticesTaken /\ ReportedIsStored
  BY <1>1, <1>2, CallerFacts DEF NoticesTaken, InFlight, ReportedIsStored
<1>5. BeforePolls /\ AnswersAreEvents /\ PollsFollow /\ NoGap
  BY <1>1, <1>2, CallerFacts DEF BeforePolls, AnswersAreEvents, PollsFollow, NoGap
<1> QED
  BY <1>3, <1>4, <1>5 DEF Inv

LEMMA NextInv == Inv /\ [Next]_vars => Inv'
<1> SUFFICES ASSUME Inv, [Next]_vars PROVE Inv'
  OBVIOUS
<1>1. CASE ClientNext /\ UNCHANGED watchVars
  BY <1>1, StepClient
<1>2. ASSUME NEW w \in Watcher, Poll(w) \/ Deliver(w) \/ WatchEnds(w) PROVE Inv'
  BY <1>2, StepPoll, StepDeliver, StepWatchEnds
<1>3. CASE StopQueue \/ StopTasks \/ Restart
  BY <1>3, StepStop, StepRestart DEF StopQueue, StopTasks
<1>4. CASE ReceiveNil \/ \E w \in Watcher : DeliverOnClosed(w)
  BY <1>4, StepMonitor
<1>5. CASE UNCHANGED vars
  <2>1. UNCHANGED <<machines, up, leader, log, pending, heard, req, watch>>
    BY <1>5 DEF vars, clientVars, watchVars, etcd
  <2>2. Types /\ \A w \in Watcher : Watched(w)' <=> Watched(w)
    BY <2>1 DEF Inv, Watched
  <2> QED
    BY <2>1, <2>2, StepsThatEnd DEF Types
<1> QED
  BY <1>1, <1>2, <1>3, <1>4, <1>5 DEF Next, WatchNext

LEMMA InvHolds == Spec => []Inv
BY InitInv, NextInv, PTL DEF Spec

(* A notice that a worker reports as stored is in etcd, whatever answers were *)
(* lost, wherever its requests were redirected.                               *)
THEOREM Reported == Spec => []ReportedIsStored
<1>1. Inv => ReportedIsStored
  BY DEF Inv
<1> QED
  BY <1>1, InvHolds, PTL

(* Between the first event that a watch delivers and the last, it delivers    *)
(* every event of its key, in order, once.                                    *)
THEOREM NothingMissed == Spec => []NoGap
<1>1. Inv => NoGap
  BY DEF Inv
<1> QED
  BY <1>1, InvHolds, PTL
=============================================================================
