----------------------------- MODULE CqlSession -----------------------------
(***************************************************************************)
(* The session with Cassandra that every operation on a queue, task or     *)
(* action uses: a pool of connections to one host, which is filled in the  *)
(* background, and the cache of prepared statements that the goroutines    *)
(* share.  horae sets no retry policy, so an error of the driver is the    *)
(* answer to the query.                                                    *)
(***************************************************************************)
EXTENDS CqlConn

CONSTANTS
    Filler,   \* goroutines that fill the pool
    NumConns, \* connections wanted
    MaxCalls  \* bound on the queries of a caller

ASSUME NumConnsAssumption == NumConns \in Nat \ {0} /\ MaxCalls \in Nat

VARIABLES
    pool,    \* the connections in the pool
    mu,      \* who holds its lock
    filler,  \* fillPool, and the goroutine it starts to add the rest
    token,   \* cFillingPool is full
    query,   \* Session.executeQuery, of each caller
    cache    \* the flight of the statement in the cache

sessionVars == <<pool, mu, filler, token, query, cache>>
vars == <<connVars, sessionVars>>

NoFlight == [by |-> "nobody", st |-> "none"]
NoOne == "nobody"

ASSUME NamesAssumption ==
    /\ Conn # {} /\ Filler # {} /\ IsFiniteSet(Conn)
    /\ NoOne \notin Caller \cup Filler \cup Conn

Idle == [pc |-> "idle", left |-> 0, conn |-> NoOne, after |-> NoOne]
NoQuery == [pc |-> "begin", conn |-> NoOne, on |-> NoOne, calls |-> 0, res |-> "none"]

(* Goroutines, and the connections that are not made yet, are alike: it does *)
(* not matter which one is taken.                                            *)
Any(S) == CHOOSE x \in S : TRUE

(* NewSimplePool: one connection was made, and the others are being made. *)
Init ==
    /\ ConnInit(Any(Conn))
    /\ pool = {Any(Conn)} /\ mu = NoOne
    /\ token = TRUE
    /\ filler = [f \in Filler |-> IF f = Any(Filler) THEN [Idle EXCEPT !.pc = "fill"] ELSE Idle]
    /\ query = [k \in Caller |-> NoQuery]
    /\ cache = NoFlight

-----------------------------------------------------------------------------
(***************************************************************************)
(* The pool.  A filler is at "fill" when fillPool begins, "connect" in its *)
(* own call of connect, "add" in the loop that adds the other connections, *)
(* and "lock" and "use" in addConn.                                        *)
(***************************************************************************)
(* go fillPool(), or a call of it. *)
IdleFiller == {f \in Filler : filler[f].pc = "idle"}
StartFill(k) ==
    /\ IdleFiller # {}
    /\ filler' = [filler EXCEPT ![Any(IdleFiller)] = [Idle EXCEPT !.pc = "fill", !.after = k]]

(* Whoever called fillPool goes on when it returns. *)
Resume(f) ==
    query' = [k \in Caller |-> IF filler[f].after = k THEN [query[k] EXCEPT !.pc = "choose"] ELSE query[k]]

(* The loop that adds connections has n to go. *)
Loop(n) == IF n = 0 THEN Idle ELSE [Idle EXCEPT !.pc = "add", !.left = n]

(* fillPool: returns when another one goes on for a millisecond, and when    *)
(* there are connections enough; it finds a host by its address.             *)
FillBegins(f) ==
    /\ filler[f].pc = "fill"
    /\ \/ /\ ~token
          /\ filler' = [filler EXCEPT ![f] = Idle]
          /\ Resume(f)
          /\ UNCHANGED token
       \/ /\ token /\ mu = NoOne
          /\ IF pool = {}
             THEN /\ filler' = [filler EXCEPT ![f].pc = "connect"]
                  /\ token' = FALSE
                  /\ UNCHANGED query
             ELSE /\ filler' = [filler EXCEPT ![f] =
                          IF Cardinality(pool) >= NumConns THEN Idle
                          ELSE Loop(NumConns - Cardinality(pool))]
                  /\ Resume(f)
                  /\ UNCHANGED token
    /\ UNCHANGED <<connVars, pool, mu, cache>>

(* The loop goes on after each connection, made or not. *)
LoopGoesOn(f) ==
    /\ filler' = [filler EXCEPT ![f] = Loop(filler[f].left - 1)]
    /\ UNCHANGED <<token, query>>

(* A connection that was not made: fillPool returns, the loop goes on. *)
ConnectFailed(f) ==
    IF filler[f].left > 0 THEN LoopGoesOn(f)
    ELSE filler' = [filler EXCEPT ![f] = Idle] /\ token' = TRUE /\ Resume(f)

(* One that was made: fillPool starts the loop for the others and returns.   *)
ConnectDone(f) ==
    IF filler[f].left > 0 THEN LoopGoesOn(f)
    ELSE filler' = [filler EXCEPT ![f] = Loop(NumConns - 1)] /\ token' = TRUE /\ Resume(f)

(* Connect *)
Dial(f) ==
    /\ filler[f].pc \in {"connect", "add"}
    /\ \E c \in Conn : link[c] = "none"
    /\ LET c == Any({d \in Conn : link[d] = "none"})
       IN  Connect(c) /\ filler' = [filler EXCEPT ![f].pc = "lock", ![f].conn = c]
    /\ UNCHANGED <<closed, active, resp, free, wire, ex, prepared, faults, pool, mu, token, query, cache>>

DialFails(f) ==
    /\ filler[f].pc \in {"connect", "add"}
    /\ Fault \/ ((\A c \in Conn : link[c] # "none") /\ UNCHANGED faults)
    /\ ConnectFailed(f)
    /\ UNCHANGED <<link, closed, serve, active, resp, free, wire, ex, prepared, pool, mu, cache>>

(* Mutant: the keyspace is set before the lock is taken. *)
LockLate(f) ==
    /\ filler[f].pc = "lock"
    /\ filler' = [filler EXCEPT ![f].pc = "use"]
    /\ ex' = [ex EXCEPT ![Use(filler[f].conn)] = StartCall("use", filler[f].conn)]
    /\ UNCHANGED <<link, closed, serve, active, resp, free, wire, prepared, faults>>
    /\ UNCHANGED <<pool, mu, token, query, cache>>

(* addConn: the lock is held while the connection is told its keyspace. *)
Lock(f) ==
    /\ filler[f].pc = "lock" /\ mu = NoOne
    /\ mu' = f
    /\ filler' = [filler EXCEPT ![f].pc = "use"]
    /\ ex' = [ex EXCEPT ![Use(filler[f].conn)] = StartCall("use", filler[f].conn)]
    /\ UNCHANGED <<link, closed, serve, active, resp, free, wire, prepared, faults>>
    /\ UNCHANGED <<pool, token, query, cache>>

AddConn(f) ==
    LET c == filler[f].conn
    IN  /\ filler[f].pc = "use" /\ Returned(Use(c))
        /\ IF ex[Use(c)].got = "use"
           THEN pool' = pool \cup {c} /\ ConnectDone(f) /\ UNCHANGED closed
           ELSE Close(c) /\ ConnectFailed(f) /\ UNCHANGED pool
        /\ mu' = NoOne
        /\ ex' = [ex EXCEPT ![Use(c)] = NoCall]
        /\ UNCHANGED <<link, serve, active, resp, free, wire, prepared, faults, cache>>

(* HandleError, at the end of serve: the connection leaves the pool, and     *)
(* another goroutine fills it.                                               *)
HandleError(c) ==
    /\ serve[c] = "report" /\ mu = NoOne
    /\ serve' = [serve EXCEPT ![c] = "done"]
    /\ pool' = pool \ {c}
    /\ StartFill(NoOne)
    /\ UNCHANGED <<link, closed, active, resp, free, wire, ex, prepared, faults>>
    /\ UNCHANGED <<mu, token, query, cache>>

-----------------------------------------------------------------------------
(***************************************************************************)
(* executeQuery.  "pick" looks for connections and "choose" takes one;     *)
(* "prepare" and "execute" are the calls of the connection.                *)
(***************************************************************************)
Begin(k) ==
    /\ query[k].pc = "begin" /\ query[k].calls < MaxCalls
    /\ query' = [query EXCEPT ![k].calls = @ + 1, ![k].pc = "pick"]
    /\ UNCHANGED <<connVars, pool, mu, filler, token, cache>>

(* Pick fills a pool that is empty before it looks for a connection. *)
Pick(k) ==
    /\ query[k].pc = "pick" /\ mu = NoOne
    /\ IF pool = {}
       THEN /\ StartFill(k)
            /\ query' = [query EXCEPT ![k].pc = "filling"]
       ELSE query' = [query EXCEPT ![k].pc = "choose"] /\ UNCHANGED filler
    /\ UNCHANGED <<connVars, pool, mu, token, cache>>

End(k, res) == query' = [query EXCEPT ![k] = [NoQuery EXCEPT !.calls = query[k].calls, !.res = res]]

(* RoundRobin.Pick: some connection, which may be closed: then there is none. *)
Choose(k) ==
    /\ query[k].pc = "choose"
    /\ \/ (pool = {} \/ \E c \in pool : closed[c]) /\ End(k, "no connection")
       \/ \E c \in pool : ~closed[c] /\ query' = [query EXCEPT ![k].pc = "prepare", ![k].conn = c]
    /\ UNCHANGED <<connVars, pool, mu, filler, token, cache>>

Run(k, kind) == ex' = [ex EXCEPT ![Of(k)] = StartCall(kind, query[k].conn)]

(* prepareStatement: from the cache, or as the one that prepares it. *)
Prepare(k) ==
    /\ query[k].pc = "prepare"
    /\ \/ /\ cache = NoFlight
          /\ cache' = [by |-> k, st |-> "flying"]
          /\ Run(k, "prepare")
          /\ query' = [query EXCEPT ![k].pc = "preparing"]
       \/ /\ cache.st = "flying"
          /\ query' = [query EXCEPT ![k].pc = "waiting", ![k].on = cache.by]
          /\ UNCHANGED <<ex, cache>>
       \/ /\ cache.st = "landed"
          /\ Run(k, "query")
          /\ query' = [query EXCEPT ![k].pc = "executing"]
          /\ UNCHANGED cache
       \/ /\ cache.st = "crashed"
          /\ End(k, "error")
          /\ UNCHANGED <<ex, cache>>
    /\ UNCHANGED <<link, closed, serve, active, resp, free, wire, prepared, faults>>
    /\ UNCHANGED <<pool, mu, filler, token>>

(* Mutant: only a statement that was prepared is told to those that wait. *)
LandedIfPrepared(k, ok) ==
    query' = [j \in Caller |->
        CASE j = k -> [query[k] EXCEPT !.pc = IF ok THEN "execute" ELSE "forget"]
          [] query[j].on = k /\ ok -> [query[j] EXCEPT !.on = NoOne, !.pc = "execute"]
          [] OTHER -> query[j]]

(* Done: those that wait for the flight get what it brought. *)
Landed(k, ok) ==
    query' = [j \in Caller |->
        CASE j = k -> [query[k] EXCEPT !.pc = IF ok THEN "execute" ELSE "forget"]
          [] query[j].on = k -> IF ok THEN [query[j] EXCEPT !.on = NoOne, !.pc = "execute"]
                                ELSE [NoQuery EXCEPT !.calls = query[j].calls, !.res = "error"]
          [] OTHER -> query[j]]

Prepared(k) ==
    /\ query[k].pc = "preparing" /\ Returned(Of(k))
    /\ LET ok == ex[Of(k)].got = "prepare"
       IN  /\ Landed(k, ok)
           /\ cache' = IF cache = [by |-> k, st |-> "flying"]
                       THEN [cache EXCEPT !.st = IF ok THEN "landed" ELSE "crashed"] ELSE cache
    /\ ex' = [ex EXCEPT ![Of(k)] = NoCall]
    /\ UNCHANGED <<link, closed, serve, active, resp, free, wire, prepared, faults>>
    /\ UNCHANGED <<pool, mu, filler, token>>

(* A statement that could not be prepared leaves the cache, whichever flight *)
(* it has become the key of.                                                 *)
RemoveFlight(k) ==
    /\ query[k].pc = "forget"
    /\ End(k, "error")
    /\ cache' = NoFlight
    /\ UNCHANGED <<connVars, pool, mu, filler, token>>

Execute(k) ==
    /\ query[k].pc = "execute"
    /\ Run(k, "query")
    /\ query' = [query EXCEPT ![k].pc = "executing"]
    /\ UNCHANGED <<link, closed, serve, active, resp, free, wire, prepared, faults>>
    /\ UNCHANGED <<pool, mu, filler, token, cache>>

(* The statement is prepared again if the server does not know it, unless    *)
(* another has taken it from the cache.                                      *)
Executed(k) ==
    /\ query[k].pc = "executing" /\ Returned(Of(k))
    /\ IF ex[Of(k)].got = "unprepared" /\ cache # NoFlight
       THEN query' = [query EXCEPT ![k].pc = "prepare"] /\ cache' = NoFlight
       ELSE End(k, ex[Of(k)].got) /\ UNCHANGED cache
    /\ ex' = [ex EXCEPT ![Of(k)] = NoCall]
    /\ UNCHANGED <<link, closed, serve, active, resp, free, wire, prepared, faults>>
    /\ UNCHANGED <<pool, mu, filler, token>>

-----------------------------------------------------------------------------
FillStep(f) == FillBegins(f) \/ Dial(f) \/ DialFails(f) \/ Lock(f) \/ AddConn(f)
QueryStep(k) ==
    \/ Pick(k) \/ Choose(k) \/ Prepare(k) \/ Prepared(k) \/ RemoveFlight(k) \/ Execute(k) \/ Executed(k)
Calls == \E p \in Process : CallStep(p)
Serves == \E c \in Conn : ServeStep(c)
ConnFault == Forget \/ \E c \in Conn : LinkFails(c)

Next ==
    \/ \E k \in Caller : Begin(k) \/ QueryStep(k)
    \/ \E f \in Filler : FillStep(f)
    \/ \E c \in Conn : HandleError(c)
    \/ (Calls \/ Serves \/ ConnFault) /\ UNCHANGED sessionVars

Spec == Init /\ [][Next]_vars

(* Goroutines run; the server answers on a connection that carries requests, *)
(* and takes one that it can; timeouts expire.                               *)
FairSpec ==
    /\ Spec
    /\ \A k \in Caller : WF_vars(QueryStep(k))
    /\ \A f \in Filler : WF_vars(FillStep(f))
    /\ \A c \in Conn : WF_vars(HandleError(c)) /\ WF_vars(ServeStep(c) /\ UNCHANGED sessionVars)
    /\ \A p \in Process : WF_vars(CallStep(p) /\ UNCHANGED sessionVars)

-----------------------------------------------------------------------------
(***************************************************************************)
(* Properties                                                              *)
(***************************************************************************)
TypeOK ==
    /\ link \in [Conn -> {"none", "up", "silent", "reset"}]
    /\ closed \in [Conn -> BOOLEAN]
    /\ serve \in [Conn -> {"none", "reading", "pinged", "closing", "report", "done"}]
    /\ active \in [Conn -> SUBSET Streams]
    /\ free \in [Conn -> SUBSET Streams]
    /\ pool \subseteq Conn /\ mu \in Filler \cup {NoOne} /\ token \in BOOLEAN
    /\ \A f \in Filler : filler[f].pc \in {"idle", "fill", "connect", "add", "lock", "use"}
                         /\ filler[f].left \in 0 .. NumConns
    /\ \A k \in Caller : query[k].calls \in 0 .. MaxCalls
    /\ cache \in [by : Caller, st : {"flying", "landed", "crashed"}] \cup {NoFlight}

(* What a call may be told. *)
Answers == {"nothing", "error", "rows", "unprepared", "prepare", "use", "ping"}

(* A reply reaches the call that asked for it: the streams that goroutines    *)
(* multiplex over one connection never mix their answers up (exec, dispatch). *)
ReplyIsMine ==
    \A p \in Process : ex[p].pc = "wait" =>
        resp[ex[p].conn][ex[p].id] \in {Nothing, Failure} \cup [to : {p}, what : Answers]

(* Handing a reply over never blocks the reader, which would hang every call  *)
(* of the connection: the channel of an active stream is empty until serve   *)
(* dispatches to it or fails it, once.                                        *)
ReaderNeverBlocks ==
    \A c \in Conn : serve[c] \in {"reading", "pinged", "closing"} =>
        \A i \in active[c] : resp[c][i] = Nothing

(* A connection that has died leaves the pool: whatever the order of adding  *)
(* it and of the failure, the goroutine that reads it is yet to take it out. *)
DeadLeavePool == \A c \in pool : serve[c] # "done"

(* Every query is answered or fails: no reply is lost between a goroutine    *)
(* that waits and the one that reads, nor a flight's end between those that  *)
(* prepare a statement, whatever connections fail.                            *)
QueriesEnd == \A k \in Caller : query[k].pc # "begin" ~> query[k].pc = "begin"

-----------------------------------------------------------------------------
(* What does not hold. *)

(* A statement the server has forgotten is prepared again. *)
UnpreparedIsRetried == \A k \in Caller : query[k].res # "unprepared"

(* A query is refused for want of connections only if there is none. *)
PickFindsOpen ==
    [][\A k \in Caller : query'[k].res = "no connection" /\ query[k].pc = "choose"
            => \A c \in pool : closed[c]]_vars

(* The pool holds no more connections than the configuration asks for. *)
PoolBounded == Cardinality(pool) <= NumConns

(* A query fails only when its own connection has. *)
FailsWithItsConnection ==
    [][\A k \in Caller : query[k].pc = "waiting" /\ query'[k].res = "error"
            => link[query[k].conn] # "up"]_vars
=============================================================================
