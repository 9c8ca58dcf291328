------------------------------ MODULE CqlConn ------------------------------
(***************************************************************************)
(* Connections to Cassandra, as the driver multiplexes them: a call takes  *)
(* a stream of the connection, writes its request and waits for the reply  *)
(* that the goroutine reading the connection hands to its stream.  When    *)
(* reading fails the connection is closed and every call of it is failed.  *)
(*                                                                         *)
(* What is on the wire is the requests a connection carries, in any order. *)
(* A connection that goes "silent" carries nothing any more and does not   *)
(* say so; a "reset" one fails reads and writes.                           *)
(***************************************************************************)
EXTENDS Integers, FiniteSets

CONSTANTS
    Conn,     \* connections, each used once
    Caller,   \* goroutines that run a query
    Streams,  \* the streams of a connection
    MaxFaults \* bound on what may fail

ASSUME MaxFaultsAssumption == MaxFaults \in Nat

VARIABLES
    link,    \* the connections: "none" before they are made, "up", "silent" or "reset"
    closed,  \* isClosed
    serve,   \* the goroutine that reads: "reading", after a timeout "pinged", "report" and "done"
    active,  \* calls[id].active
    resp,    \* calls[id].resp, the reply that is in the channel
    free,    \* uniq
    wire,    \* the requests that were written
    ex,      \* exec, of each goroutine that may call it
    prepared,\* the statement is prepared at the server
    faults

connVars == <<link, closed, serve, active, resp, free, wire, ex, prepared, faults>>

(* Who calls exec: queries, the USE of each new connection, and pings. *)
Of(k) == <<"query", k>>
Use(c) == <<"use", c>>
Ping(c) == <<"ping", c>>
Process == ({"query"} \X Caller) \cup ({"use", "ping"} \X Conn)

Nothing == [to |-> <<"nothing", "nobody">>, what |-> "nothing"]
Failure == [to |-> <<"error", "nobody">>, what |-> "error"]
NoCall == [pc |-> "none", kind |-> "none", conn |-> "none", id |-> 0, got |-> "nothing"]

Fault == faults < MaxFaults /\ faults' = faults + 1

(* One connection was made. *)
ConnInit(first) ==
    /\ link = [c \in Conn |-> IF c = first THEN "up" ELSE "none"]
    /\ closed = [c \in Conn |-> FALSE]
    /\ serve = [c \in Conn |-> IF c = first THEN "reading" ELSE "none"]
    /\ active = [c \in Conn |-> {}]
    /\ resp = [c \in Conn |-> [i \in Streams |-> Nothing]]
    /\ free = [c \in Conn |-> Streams]
    /\ wire = [c \in Conn |-> {}]
    /\ ex = [p \in Process |-> NoCall]
    /\ prepared = FALSE
    /\ faults = 0

(* Connect, once the server has answered STARTUP with READY. *)
Connect(c) ==
    /\ link' = [link EXCEPT ![c] = "up"]
    /\ serve' = [serve EXCEPT ![c] = "reading"]

Close(c) == closed' = [closed EXCEPT ![c] = TRUE]

-----------------------------------------------------------------------------
(* exec: "take" a stream, "write", "wait" for the reply. *)
StartCall(kind, c) == [NoCall EXCEPT !.pc = "take", !.kind = kind, !.conn = c]
Returned(p) == ex[p].pc = "returned"
Result(p, got) == [ex EXCEPT ![p] = [NoCall EXCEPT !.pc = "returned", !.kind = ex[p].kind, !.got = got]]

Take(p) ==
    LET c == ex[p].conn
    IN  /\ ex[p].pc = "take"
        /\ \E i \in free[c] :
              /\ free' = [free EXCEPT ![c] = @ \ {i}]
              /\ resp' = [resp EXCEPT ![c][i] = Nothing]
              /\ active' = [active EXCEPT ![c] = @ \cup {i}]
              /\ ex' = [ex EXCEPT ![p].pc = "write", ![p].id = i]
        /\ UNCHANGED <<link, closed, serve, wire, prepared, faults>>

(* A failed write gives the stream back, with the call active. *)
WriteFails(p) ==
    LET c == ex[p].conn
    IN  /\ ex[p].pc = "write" /\ (closed[c] \/ link[c] = "reset")
        /\ free' = [free EXCEPT ![c] = @ \cup {ex[p].id}]
        /\ Close(c)
        /\ ex' = Result(p, "error")
        /\ UNCHANGED <<link, serve, active, resp, wire, prepared, faults>>

(* Mutant: the stream is given back when the request is written. *)
WriteAndFree(p) ==
    LET c == ex[p].conn
    IN  /\ ex[p].pc = "write" /\ ~closed[c] /\ link[c] # "reset"
        /\ wire' = [wire EXCEPT ![c] = @ \cup {[from |-> p, id |-> ex[p].id, kind |-> ex[p].kind]}]
        /\ ex' = [ex EXCEPT ![p].pc = "wait"]
        /\ free' = [free EXCEPT ![c] = @ \cup {ex[p].id}]
        /\ UNCHANGED <<link, closed, serve, active, resp, prepared, faults>>

Write(p) ==
    LET c == ex[p].conn
    IN  /\ ex[p].pc = "write" /\ ~closed[c] /\ link[c] # "reset"
        /\ wire' = [wire EXCEPT ![c] = @ \cup {[from |-> p, id |-> ex[p].id, kind |-> ex[p].kind]}]
        /\ ex' = [ex EXCEPT ![p].pc = "wait"]
        /\ UNCHANGED <<link, closed, serve, active, resp, free, prepared, faults>>

Receive(p) ==
    LET c == ex[p].conn
        reply == resp[c][ex[p].id]
    IN  /\ ex[p].pc = "wait" /\ reply # Nothing
        /\ resp' = [resp EXCEPT ![c][ex[p].id] = Nothing]
        /\ free' = [free EXCEPT ![c] = @ \cup {ex[p].id}]
        /\ ex' = IF p[1] = "ping" THEN [ex EXCEPT ![p] = NoCall] ELSE Result(p, reply.what)
        /\ UNCHANGED <<link, closed, serve, active, wire, prepared, faults>>

-----------------------------------------------------------------------------
(* What the server answers; it knows the statement once it has prepared it. *)
Answer(kind) ==
    CASE kind = "query" -> IF prepared THEN "rows" ELSE "unprepared"
      [] OTHER -> kind

(* Mutant: a call stays active when it is answered. *)
DispatchKeepsActive(c, r) ==
    /\ resp' = [resp EXCEPT ![c][r.id] = [to |-> r.from, what |-> Answer(r.kind)]]
    /\ UNCHANGED active

(* dispatch: the reply goes to the call that is active on its stream. *)
Dispatch(c, r) ==
    /\ active' = [active EXCEPT ![c] = @ \ {r.id}]
    /\ resp' = IF r.id \in active[c]
               THEN [resp EXCEPT ![c][r.id] = [to |-> r.from, what |-> Answer(r.kind)]]
               ELSE resp

(* recv returns a frame, and serve dispatches it. *)
Read(c) ==
    /\ serve[c] \in {"reading", "pinged"} /\ link[c] = "up"
    /\ \E r \in wire[c] :
          /\ wire' = [wire EXCEPT ![c] = @ \ {r}]
          /\ prepared' = (prepared \/ r.kind = "prepare")
          /\ Dispatch(c, r)
    /\ serve' = [serve EXCEPT ![c] = "reading"]
    /\ UNCHANGED <<link, closed, free, ex, faults>>

(* recv: a timeout while calls wait sends a ping, once. *)
TimesOut(c) ==
    /\ serve[c] = "reading" /\ link[c] = "silent" /\ ~closed[c]
    /\ active[c] # {} /\ ex[Ping(c)].pc = "none"
    /\ serve' = [serve EXCEPT ![c] = "pinged"]
    /\ ex' = [ex EXCEPT ![Ping(c)] = StartCall("ping", c)]
    /\ UNCHANGED <<link, closed, active, resp, free, wire, prepared, faults>>

(* Reading fails, the second time at a timeout: serve closes the connection,  *)
(* and then fails the calls that are active.                                 *)
ServeEnds(c) ==
    \/ /\ serve[c] \in {"reading", "pinged"}
       /\ closed[c] \/ link[c] = "reset" \/ (link[c] = "silent" /\ serve[c] = "pinged")
       /\ Close(c)
       /\ serve' = [serve EXCEPT ![c] = "closing"]
       /\ UNCHANGED <<link, active, resp, free, wire, ex, prepared, faults>>
    \/ /\ serve[c] = "closing"
       /\ resp' = [resp EXCEPT ![c] = [i \in Streams |-> IF i \in active[c] THEN Failure ELSE @[i]]]
       /\ serve' = [serve EXCEPT ![c] = "report"]
       /\ UNCHANGED <<link, closed, active, free, wire, ex, prepared, faults>>

LinkFails(c) ==
    /\ Fault /\ link[c] = "up"
    /\ \E how \in {"silent", "reset"} : link' = [link EXCEPT ![c] = how]
    /\ UNCHANGED <<closed, serve, active, resp, free, wire, ex, prepared>>

(* The server drops what it has prepared. *)
Forget ==
    /\ Fault /\ prepared
    /\ prepared' = FALSE
    /\ UNCHANGED <<link, closed, serve, active, resp, free, wire, ex>>

CallStep(p) == Take(p) \/ Write(p) \/ WriteFails(p) \/ Receive(p)
ServeStep(c) == Read(c) \/ TimesOut(c) \/ ServeEnds(c)
=============================================================================
