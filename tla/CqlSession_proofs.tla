-------------------------- MODULE CqlSession_proofs --------------------------
(***************************************************************************)
(* For any callers, connections, streams and fillers of the pool: replies  *)
(* are not mixed up, the reader is not blocked and the dead leave.         *)
(*                                                                         *)
(* The first two rest on who owns a stream: between the moment it is taken *)
(* from uniq and the moment it is given back there is one call on it, and, *)
(* as long as the connection is read, one request at most, that call's,    *)
(* whose reply is not there yet (RequestsAsked).  The third rests on the   *)
(* lock of the pool, which a filler holds while the connection it made is  *)
(* told its keyspace, and on a closed connection taking no new request.    *)
(***************************************************************************)
EXTENDS CqlSession, FiniteSetTheorems, TLAPS

Asked == {"query", "prepare", "use", "ping"}

Reply == [to : Process \cup {<<"nothing", "nobody">>, <<"error", "nobody">>}, what : Answers]
Request == [from : Process, id : Streams, kind : Asked]
Call == [pc : {"none", "take", "write", "wait", "returned"}, kind : Asked \cup {"none"},
         conn : Conn \cup {"none"}, id : Streams \cup {0}, got : Answers]

ConnTypes ==
    /\ link \in [Conn -> {"none", "up", "silent", "reset"}]
    /\ closed \in [Conn -> BOOLEAN]
    /\ serve \in [Conn -> {"none", "reading", "pinged", "closing", "report", "done"}]
    /\ active \in [Conn -> SUBSET Streams]
    /\ free \in [Conn -> SUBSET Streams]
    /\ resp \in [Conn -> [Streams -> Reply]]
    /\ wire \in [Conn -> SUBSET Request]
    /\ ex \in [Process -> Call]

Placed(p) == ex[p].pc \in {"take", "write", "wait"}
Holds(p)  == ex[p].pc \in {"write", "wait"}
IsRead(c)  == serve[c] \notin {"report", "done"}

(* A stream in use is that of one call, and is not in uniq. *)
StreamsOwned ==
    /\ \A p \in Process : Placed(p) => ex[p].conn \in Conn /\ ex[p].kind \in Asked
    /\ \A p \in Process : Holds(p) => ex[p].id \in Streams /\ ex[p].id \notin free[ex[p].conn]
    /\ \A p, q \in Process :
          Holds(p) /\ Holds(q) /\ ex[p].conn = ex[q].conn /\ ex[p].id = ex[q].id => p = q

(* A request that may still be answered is that of a call that waits. *)
Asks(p, c, r) ==
    ex[p].pc = "wait" /\ ex[p].conn = c /\ ex[p].id = r.id /\ ex[p].kind = r.kind

RequestsAsked ==
    \A c \in Conn : IsRead(c) =>
        \A r \in wire[c] : Asks(r.from, c, r) /\ resp[c][r.id] = Nothing

WritersUnanswered ==
    \A p \in Process : ex[p].pc = "write" /\ IsRead(ex[p].conn) => resp[ex[p].conn][ex[p].id] = Nothing

ActiveUnanswered ==
    \A c \in Conn : IsRead(c) => \A i \in active[c] : resp[c][i] = Nothing

(* A connection is read once it is made, and closed before it is given up. *)
ServedInOrder ==
    \A c \in Conn :
        /\ link[c] = "none" => serve[c] = "none"
        /\ serve[c] \in {"closing", "report", "done"} => closed[c]

ConnInv ==
    /\ ConnTypes /\ StreamsOwned /\ RequestsAsked /\ ReplyIsMine
    /\ WritersUnanswered /\ ActiveUnanswered /\ ServedInOrder

-----------------------------------------------------------------------------
LEMMA NoCallType == NoCall \in Call /\ NoCall.pc = "none"
BY DEF NoCall, Call, Answers

LEMMA RepliesType == Nothing \in Reply /\ Failure \in Reply
BY DEF Nothing, Failure, Reply, Answers

LEMMA StartCallType ==
    ASSUME NEW c \in Conn, NEW kind \in Asked
    PROVE  /\ StartCall(kind, c) \in Call
           /\ StartCall(kind, c).pc = "take" /\ StartCall(kind, c).conn = c
           /\ StartCall(kind, c).kind = kind
BY NoCallType DEF StartCall, Call

LEMMA ResultType ==
    ASSUME ConnTypes, NEW p \in Process, NEW got \in Answers
    PROVE  \E r \in Call : r.pc = "returned" /\ r.got = got /\ Result(p, got) = [ex EXCEPT ![p] = r]
<1> DEFINE r == [NoCall EXCEPT !.pc = "returned", !.kind = ex[p].kind, !.got = got]
<1>1. r \in Call /\ r.pc = "returned" /\ r.got = got
  BY NoCallType DEF Call, ConnTypes
<1>2. Result(p, got) = [ex EXCEPT ![p] = r]
  BY DEF Result
<1> QED
  BY <1>1, <1>2

-----------------------------------------------------------------------------
(* exec, step by step. *)
LEMMA StepTake ==
    ASSUME ConnInv, NEW p \in Process, Take(p)
    PROVE  ConnInv'
<1> USE DEF ConnInv
<1>t. ConnTypes
  OBVIOUS
<1>1. /\ ex[p].pc = "take" /\ ex[p].conn \in Conn
  BY DEF Take, StreamsOwned, Placed
<1> DEFINE c == ex[p].conn
<1>2. PICK i \in free[c] :
        /\ free' = [free EXCEPT ![c] = @ \ {i}]
        /\ resp' = [resp EXCEPT ![c][i] = Nothing]
        /\ active' = [active EXCEPT ![c] = @ \cup {i}]
        /\ ex' = [ex EXCEPT ![p].pc = "write", ![p].id = i]
  BY DEF Take
<1>3. UNCHANGED <<link, closed, serve, wire>> /\ i \in Streams /\ c \in Conn
  BY <1>1, <1>2 DEF Take, ConnTypes
<1>4. /\ ex'[p].pc = "write" /\ ex'[p].id = i /\ ex'[p].conn = c /\ ex'[p].kind = ex[p].kind
      /\ \A q \in Process : q # p => ex'[q] = ex[q]
      /\ ex' \in [Process -> Call]
  <2>1. ex \in [Process -> Call]
    BY DEF ConnTypes
  <2>2. ex' = [ex EXCEPT ![p].pc = "write", ![p].id = i]
    BY <1>2
  <2>3. /\ ex' \in [Process -> Call]
        /\ \A q \in Process : q # p => ex'[q] = ex[q]
        /\ ex'[p].pc = "write" /\ ex'[p].id = i
        /\ ex'[p].conn = ex[p].conn /\ ex'[p].kind = ex[p].kind
    <3>1. ex' \in [Process -> Call]
      <4> DEFINE taken == [ex[p] EXCEPT !.pc = "write", !.id = i]
      <4>1. ex[p] \in Call /\ i \in Streams
        BY <1>3, <2>1
      <4>2. taken \in Call
        BY <4>1 DEF Call
      <4>3. ex' = [ex EXCEPT ![p] = taken]
        BY <2>1, <2>2
      <4> HIDE DEF taken
      <4> QED
        BY <2>1, <4>2, <4>3
    <3>2. \A q \in Process : q # p => ex'[q] = ex[q]
      BY <2>1, <2>2 DEF Call
    <3>3. ex'[p].pc = "write" /\ ex'[p].id = i
      BY <1>3, <2>1, <2>2 DEF Call
    <3>4. ex'[p].conn = ex[p].conn /\ ex'[p].kind = ex[p].kind
      BY <1>3, <2>1, <2>2 DEF Call
    <3> QED
      BY <3>1, <3>2, <3>3, <3>4
  <2> QED
    BY <2>3
<1>5. /\ \A d \in Conn : free'[d] \subseteq free[d]
      /\ i \notin free'[c] /\ free' \in [Conn -> SUBSET Streams]
      /\ active' \in [Conn -> SUBSET Streams]
      /\ resp' \in [Conn -> [Streams -> Reply]]
  BY <1>2, <1>3, RepliesType DEF ConnTypes
<1>6. /\ resp'[c][i] = Nothing
      /\ \A d \in Conn : \A j \in Streams : resp'[d][j] \in {resp[d][j], Nothing}
      /\ \A d \in Conn : active'[d] \subseteq active[d] \cup {i} /\ (d # c => active'[d] = active[d])
  BY <1>2, <1>3 DEF ConnTypes
<1> HIDE DEF c
<1>7. ConnTypes'
  BY <1>t, <1>3, <1>4, <1>5 DEF ConnTypes
<1>8. StreamsOwned'
  <2>1. \A q \in Process : q # p /\ Holds(q) /\ ex[q].conn = c => ex[q].id # i
    BY <1>2 DEF StreamsOwned
  <2>2. \A q \in Process : Placed(q)' => ex'[q].conn \in Conn /\ ex'[q].kind \in Asked
    BY <1>1, <1>3, <1>4 DEF StreamsOwned, Placed, Take
  <2>3. \A q \in Process : q # p => (Holds(q)' <=> Holds(q))
    BY <1>4 DEF Holds
  <2>4. \A q \in Process : Holds(q)' => ex'[q].id \in Streams /\ ex'[q].id \notin free'[ex'[q].conn]
    BY <1>3, <1>4, <1>5, <2>3 DEF StreamsOwned, Holds, Placed
  <2>5. \A q \in Process : q # p /\ Holds(q)' /\ ex'[q].conn = c => ex'[q].id # i
    BY <1>4, <2>1, <2>3
  <2> QED
    BY <1>4, <2>2, <2>3, <2>4, <2>5 DEF StreamsOwned
<1>9. RequestsAsked'
  <2> SUFFICES ASSUME NEW d \in Conn, IsRead(d), NEW r \in wire[d]
               PROVE  Asks(r.from, d, r)' /\ resp'[d][r.id] = Nothing
    BY <1>3 DEF RequestsAsked, IsRead, Asks
  <2>1. r \in Request /\ Asks(r.from, d, r) /\ resp[d][r.id] = Nothing
    BY <1>t DEF RequestsAsked, ConnTypes
  <2>2. r.from \in Process /\ r.id \in Streams /\ r.from # p
    BY <1>1, <2>1 DEF Request, Asks
  <2> QED
    BY <1>4, <1>6, <2>1, <2>2 DEF Asks
<1>10. ReplyIsMine'
  <2> SUFFICES ASSUME NEW q \in Process, ex'[q].pc = "wait"
               PROVE  resp'[ex'[q].conn][ex'[q].id] \in {Nothing, Failure} \cup [to : {q}, what : Answers]
    BY DEF ReplyIsMine
  <2>1. q # p /\ ex'[q] = ex[q]
    BY <1>4
  <2>2. ex[q].conn \in Conn /\ ex[q].id \in Streams
    BY <2>1 DEF StreamsOwned, Placed, Holds
  <2> QED
    BY <1>6, <2>1, <2>2 DEF ReplyIsMine
<1>11. ActiveUnanswered'
  <2> SUFFICES ASSUME NEW d \in Conn, IsRead(d), NEW j \in active'[d]
               PROVE  resp'[d][j] = Nothing
    BY <1>3 DEF ActiveUnanswered, IsRead
  <2>1. j \in Streams
    BY <1>5
  <2>2. CASE d = c /\ j = i
    BY <1>6, <2>2
  <2>3. CASE d # c \/ j # i
    <3>1. j \in active[d]
      BY <1>6, <2>3
    <3> QED
      BY <1>6, <2>1, <3>1 DEF ActiveUnanswered
  <2> QED
    BY <2>2, <2>3
<1>12. ServedInOrder'
  BY <1>3 DEF ServedInOrder
<1>13. WritersUnanswered'
  BY <1>3, <1>4, <1>6 DEF WritersUnanswered, IsRead, StreamsOwned, Placed, Holds
<1> QED
  BY <1>7, <1>8, <1>9, <1>10, <1>11, <1>12, <1>13

(* A call that ends: its stream, if it has one, is free again. *)
LEMMA StepWriteFails ==
    ASSUME ConnInv, NEW p \in Process, WriteFails(p)
    PROVE  ConnInv'
<1> USE DEF ConnInv
<1>t. ConnTypes
  OBVIOUS
<1>1. ex[p].pc = "write" /\ ex[p].conn \in Conn /\ ex[p].id \in Streams
  BY DEF WriteFails, StreamsOwned, Placed, Holds
<1>2. PICK a \in Call : a.pc = "returned" /\ ex' = [ex EXCEPT ![p] = a]
  <2>1. "error" \in Answers
    BY DEF Answers
  <2> QED
    BY <1>t, <2>1, ResultType DEF WriteFails
<1>3. /\ UNCHANGED <<link, serve, active, resp, wire>>
      /\ free' = [free EXCEPT ![ex[p].conn] = @ \cup {ex[p].id}]
      /\ closed' = [closed EXCEPT ![ex[p].conn] = TRUE]
  BY DEF WriteFails, Close
<1>4. ConnTypes'
  BY <1>t, <1>1, <1>2, <1>3 DEF ConnTypes
<1>5. /\ ex'[p].pc = "returned" /\ \A q \in Process : q # p => ex'[q] = ex[q]
      /\ \A d \in Conn : closed[d] => closed'[d]
  BY <1>t, <1>2, <1>3 DEF ConnTypes
<1>6. StreamsOwned'
  <2>1. \A q \in Process : Holds(q)' => Holds(q) /\ q # p /\ ex'[q] = ex[q]
    BY <1>5 DEF Holds
  <2>2. ASSUME NEW q \in Process, Holds(q)'
        PROVE  ex'[q].id \in Streams /\ ex'[q].id \notin free'[ex'[q].conn]
    <3>1. Holds(q) /\ q # p /\ ex'[q] = ex[q] /\ Holds(p)
      BY <1>1, <2>1, <2>2 DEF Holds
    <3>2. ex[q].conn \in Conn /\ ex[q].id \in Streams /\ ex[q].id \notin free[ex[q].conn]
      BY <3>1 DEF StreamsOwned, Holds, Placed
    <3>3. ex[q].conn # ex[p].conn \/ ex[q].id # ex[p].id
      BY <3>1 DEF StreamsOwned
    <3> QED
      BY <1>t, <1>1, <1>3, <3>1, <3>2, <3>3 DEF ConnTypes
  <2>3. \A q \in Process : Placed(q)' => ex'[q].conn \in Conn /\ ex'[q].kind \in Asked
    BY <1>5 DEF StreamsOwned, Placed
  <2> QED
    BY <2>1, <2>2, <2>3 DEF StreamsOwned
<1>7. RequestsAsked'
  BY <1>t, <1>1, <1>3, <1>5 DEF RequestsAsked, IsRead, Asks, ConnTypes, Request
<1>8. ReplyIsMine' /\ WritersUnanswered' /\ ActiveUnanswered' /\ ServedInOrder'
  BY <1>3, <1>5 DEF ReplyIsMine, WritersUnanswered, ActiveUnanswered, ServedInOrder, IsRead
<1> QED
  BY <1>4, <1>6, <1>7, <1>8

LEMMA StepWrite ==
    ASSUME ConnInv, NEW p \in Process, Write(p)
    PROVE  ConnInv'
<1> USE DEF ConnInv
<1>t. ConnTypes
  OBVIOUS
<1>1. ex[p].pc = "write" /\ ex[p].conn \in Conn /\ ex[p].id \in Streams
  BY DEF Write, StreamsOwned, Placed, Holds
<1> DEFINE c == ex[p].conn
           new == [from |-> p, id |-> ex[p].id, kind |-> ex[p].kind]
<1>2. /\ UNCHANGED <<link, closed, serve, active, resp, free>>
      /\ wire' = [wire EXCEPT ![c] = @ \cup {new}]
      /\ ex' = [ex EXCEPT ![p].pc = "wait"]
  BY DEF Write
<1>3. new \in Request /\ c \in Conn
  BY <1>t, <1>1 DEF Request, Write, StreamsOwned, Placed
<1>4. ConnTypes'
  BY <1>t, <1>2, <1>3 DEF ConnTypes, Call
<1>5. /\ ex'[p].pc = "wait" /\ ex'[p].conn = c /\ ex'[p].id = ex[p].id /\ ex'[p].kind = ex[p].kind
      /\ \A q \in Process : q # p => ex'[q] = ex[q]
  BY <1>t, <1>2 DEF ConnTypes, Call
<1>6. StreamsOwned'
  BY <1>1, <1>2, <1>5 DEF StreamsOwned, Holds, Placed
<1>7. IsRead(c) /\ resp[c][ex[p].id] = Nothing
  <2>1. IsRead(c)
    BY <1>3 DEF Write, ServedInOrder, IsRead
  <2> QED
    BY <1>1, <2>1 DEF WritersUnanswered
<1>8. RequestsAsked'
  <2> SUFFICES ASSUME NEW d \in Conn, IsRead(d), NEW r \in wire'[d]
               PROVE  Asks(r.from, d, r)' /\ resp[d][r.id] = Nothing
    BY <1>2 DEF RequestsAsked, IsRead
  <2>1. CASE r \in wire[d]
    <3>1. Asks(r.from, d, r) /\ resp[d][r.id] = Nothing /\ r.from \in Process
      BY <1>t, <2>1 DEF RequestsAsked, ConnTypes, Request
    <3>2. r.from # p
      BY <1>1, <3>1 DEF Asks
    <3> QED
      BY <1>5, <3>1, <3>2 DEF Asks
  <2>2. CASE r \notin wire[d]
    <3>1. d = c /\ r = new
      BY <1>t, <1>2, <1>3, <2>2 DEF ConnTypes
    <3> QED
      BY <1>5, <1>7, <3>1 DEF Asks
  <2> QED
    BY <2>1, <2>2
<1>9. ReplyIsMine'
  BY <1>2, <1>5, <1>7 DEF ReplyIsMine
<1>10. WritersUnanswered' /\ ActiveUnanswered' /\ ServedInOrder'
  BY <1>2, <1>5 DEF WritersUnanswered, ActiveUnanswered, ServedInOrder, IsRead
<1> QED
  BY <1>4, <1>6, <1>8, <1>9, <1>10

LEMMA StepReceive ==
    ASSUME ConnInv, NEW p \in Process, Receive(p)
    PROVE  ConnInv'
<1> USE DEF ConnInv
<1>t. ConnTypes
  OBVIOUS
<1>1. ex[p].pc = "wait" /\ ex[p].conn \in Conn /\ ex[p].id \in Streams
  BY DEF Receive, StreamsOwned, Placed, Holds
<1> DEFINE c == ex[p].conn
           i == ex[p].id
<1>2. /\ UNCHANGED <<link, closed, serve, active, wire>>
      /\ resp[c][i] # Nothing
      /\ resp' = [resp EXCEPT ![c][i] = Nothing]
      /\ free' = [free EXCEPT ![c] = @ \cup {i}]
  BY DEF Receive
<1>3. PICK a \in Call : a.pc \in {"none", "returned"} /\ ex' = [ex EXCEPT ![p] = a]
  <2>1. resp[c][i].what \in Answers
    BY <1>t, <1>1 DEF ConnTypes, Reply
  <2>2. CASE p[1] = "ping"
    BY <2>2, NoCallType DEF Receive
  <2>3. CASE p[1] # "ping"
    <3>1. ex' = Result(p, resp[c][i].what)
      BY <2>3 DEF Receive
    <3> QED
      BY <1>t, <2>1, <3>1, ResultType
  <2> QED
    BY <2>2, <2>3
<1>4. /\ ex'[p].pc \in {"none", "returned"} /\ \A q \in Process : q # p => ex'[q] = ex[q]
      /\ ex' \in [Process -> Call]
  BY <1>t, <1>3 DEF ConnTypes
<1>5. /\ free' \in [Conn -> SUBSET Streams] /\ resp' \in [Conn -> [Streams -> Reply]]
      /\ \A d \in Conn : d # c => free'[d] = free[d]
      /\ free'[c] = free[c] \cup {i}
      /\ \A d \in Conn : \A j \in Streams : resp'[d][j] \in {resp[d][j], Nothing}
  BY <1>t, <1>1, <1>2, RepliesType DEF ConnTypes
<1>6. ConnTypes'
  BY <1>t, <1>2, <1>4, <1>5 DEF ConnTypes
<1>7. StreamsOwned'
  <2>1. \A q \in Process : Holds(q)' => Holds(q) /\ q # p /\ ex'[q] = ex[q]
    BY <1>4 DEF Holds
  <2>2. ASSUME NEW q \in Process, Holds(q)'
        PROVE  ex'[q].id \in Streams /\ ex'[q].id \notin free'[ex'[q].conn]
    <3>1. Holds(q) /\ q # p /\ ex'[q] = ex[q] /\ Holds(p)
      BY <1>1, <2>1, <2>2 DEF Holds
    <3>2. ex[q].conn \in Conn /\ ex[q].id \in Streams /\ ex[q].id \notin free[ex[q].conn]
      BY <3>1 DEF StreamsOwned, Holds, Placed
    <3>3. ex[q].conn # c \/ ex[q].id # i
      BY <3>1 DEF StreamsOwned
    <3> QED
      BY <1>5, <3>1, <3>2, <3>3
  <2>3. \A q \in Process : Placed(q)' => ex'[q].conn \in Conn /\ ex'[q].kind \in Asked
    BY <1>4 DEF StreamsOwned, Placed
  <2> QED
    BY <2>1, <2>2, <2>3 DEF StreamsOwned
<1>8. RequestsAsked'
  <2> SUFFICES ASSUME NEW d \in Conn, IsRead(d), NEW r \in wire[d]
               PROVE  Asks(r.from, d, r)' /\ resp'[d][r.id] = Nothing
    BY <1>2 DEF RequestsAsked, IsRead
  <2>1. Asks(r.from, d, r) /\ resp[d][r.id] = Nothing /\ r.from \in Process /\ r.id \in Streams
    BY <1>t DEF RequestsAsked, ConnTypes, Request
  <2>2. r.from # p
    BY <1>2, <2>1 DEF Asks
  <2> QED
    BY <1>4, <1>5, <2>1, <2>2 DEF Asks
<1>9. ReplyIsMine'
  BY <1>4, <1>5 DEF ReplyIsMine, StreamsOwned, Placed, Holds
<1>10. WritersUnanswered'
  BY <1>2, <1>4, <1>5 DEF WritersUnanswered, IsRead, StreamsOwned, Placed, Holds
<1>11. ActiveUnanswered' /\ ServedInOrder'
  BY <1>t, <1>2, <1>5 DEF ActiveUnanswered, ServedInOrder, IsRead, ConnTypes
<1> QED
  BY <1>6, <1>7, <1>8, <1>9, <1>10, <1>11

-----------------------------------------------------------------------------
(* serve *)
LEMMA StepRead ==
    ASSUME ConnInv, NEW c \in Conn, Read(c)
    PROVE  ConnInv'
<1> USE DEF ConnInv
<1>t. ConnTypes
  OBVIOUS
<1>1. PICK r \in wire[c] :
        /\ wire' = [wire EXCEPT ![c] = @ \ {r}]
        /\ Dispatch(c, r)
  BY DEF Read
<1>2. /\ serve[c] \in {"reading", "pinged"} /\ link[c] = "up"
      /\ serve' = [serve EXCEPT ![c] = "reading"]
      /\ UNCHANGED <<link, closed, free, ex>>
  BY DEF Read
<1> DEFINE reply == [to |-> r.from, what |-> Answer(r.kind)]
<1>3. /\ IsRead(c) /\ Asks(r.from, c, r) /\ resp[c][r.id] = Nothing
      /\ r.from \in Process /\ r.id \in Streams /\ r.kind \in Asked
  BY <1>t, <1>2 DEF RequestsAsked, ConnTypes, Request, IsRead
<1>4. reply \in Reply /\ reply \in [to : {r.from}, what : Answers]
  BY <1>3 DEF Reply, Answer, Asked, Answers
<1>5. /\ active' = [active EXCEPT ![c] = @ \ {r.id}]
      /\ resp' = resp \/ resp' = [resp EXCEPT ![c][r.id] = reply]
  BY <1>1 DEF Dispatch
<1> HIDE DEF reply
<1>6. /\ resp' \in [Conn -> [Streams -> Reply]]
      /\ resp'[c][r.id] \in {Nothing, reply}
      /\ \A d \in Conn : \A i \in Streams : d # c \/ i # r.id => resp'[d][i] = resp[d][i]
  <2>1. resp \in [Conn -> [Streams -> Reply]]
    BY <1>t DEF ConnTypes
  <2>2. CASE resp' = resp
    BY <1>3, <2>1, <2>2
  <2>3. CASE resp' = [resp EXCEPT ![c][r.id] = reply]
    BY <1>3, <1>4, <2>1, <2>3
  <2> QED
    BY <1>5, <2>2, <2>3
<1>7. /\ \A d \in Conn : IsRead(d)' <=> IsRead(d)
      /\ \A d \in Conn : wire'[d] \subseteq wire[d]
  BY <1>t, <1>1, <1>2 DEF IsRead, ConnTypes
<1>8. ConnTypes'
  BY <1>t, <1>1, <1>2, <1>5, <1>6 DEF ConnTypes
<1>9. StreamsOwned'
  BY <1>2 DEF StreamsOwned, Holds, Placed
(* Nobody but the caller is on the stream of the request. *)
<1>10. \A q \in Process : Holds(q) /\ ex[q].conn = c /\ ex[q].id = r.id => q = r.from
  BY <1>3 DEF StreamsOwned, Holds, Asks
<1>11. RequestsAsked'
  <2> SUFFICES ASSUME NEW d \in Conn, IsRead(d), NEW s \in wire[d], s \in wire'[d]
               PROVE  Asks(s.from, d, s) /\ resp'[d][s.id] = Nothing
    BY <1>2, <1>7 DEF RequestsAsked, Asks
  <2>1. /\ Asks(s.from, d, s) /\ resp[d][s.id] = Nothing
        /\ s \in Request /\ s.from \in Process /\ s.id \in Streams
    BY <1>t DEF RequestsAsked, ConnTypes, Request
  <2>2. CASE d = c /\ s.id = r.id
    <3>1. s.from = r.from
      BY <1>10, <2>1, <2>2 DEF Asks, Holds
    <3>2. s = r
      BY <1>t, <1>3, <2>1, <2>2, <3>1 DEF Asks, Request, ConnTypes
    <3> QED
      BY <1>t, <1>1, <2>2, <3>2 DEF ConnTypes
  <2>3. CASE d # c \/ s.id # r.id
    BY <1>6, <2>1, <2>3
  <2> QED
    BY <2>2, <2>3
<1>12. ReplyIsMine'
  <2> SUFFICES ASSUME NEW q \in Process, ex[q].pc = "wait"
               PROVE  resp'[ex[q].conn][ex[q].id] \in {Nothing, Failure} \cup [to : {q}, what : Answers]
    BY <1>2 DEF ReplyIsMine
  <2>1. ex[q].conn \in Conn /\ ex[q].id \in Streams /\ Holds(q)
    BY DEF StreamsOwned, Placed, Holds
  <2>2. CASE ex[q].conn = c /\ ex[q].id = r.id
    BY <1>4, <1>6, <1>10, <2>1, <2>2
  <2>3. CASE ex[q].conn # c \/ ex[q].id # r.id
    BY <1>6, <2>1, <2>3 DEF ReplyIsMine
  <2> QED
    BY <2>2, <2>3
<1>13. WritersUnanswered'
  <2> SUFFICES ASSUME NEW q \in Process, ex[q].pc = "write", IsRead(ex[q].conn)
               PROVE  resp'[ex[q].conn][ex[q].id] = Nothing
    BY <1>2, <1>7 DEF WritersUnanswered, StreamsOwned, Placed
  <2>1. ex[q].conn \in Conn /\ ex[q].id \in Streams /\ Holds(q)
    BY DEF StreamsOwned, Placed, Holds
  <2>2. ex[q].conn # c \/ ex[q].id # r.id
    BY <1>3, <1>10, <2>1 DEF Asks
  <2> QED
    BY <1>6, <2>1, <2>2 DEF WritersUnanswered
<1>14. ActiveUnanswered'
  BY <1>t, <1>3, <1>5, <1>6, <1>7 DEF ActiveUnanswered, ConnTypes
<1>15. ServedInOrder'
  BY <1>t, <1>2 DEF ServedInOrder, ConnTypes
<1> QED
  BY <1>8, <1>9, <1>11, <1>12, <1>13, <1>14, <1>15

LEMMA StepServeEnds ==
    ASSUME ConnInv, NEW c \in Conn, ServeEnds(c)
    PROVE  ConnInv'
<1> USE DEF ConnInv
<1>t. ConnTypes
  OBVIOUS
<1>1. CASE serve[c] # "closing"
  <2>1. /\ closed' = [closed EXCEPT ![c] = TRUE]
        /\ serve' = [serve EXCEPT ![c] = "closing"]
        /\ UNCHANGED <<link, active, resp, free, wire, ex>>
        /\ serve[c] \in {"reading", "pinged"}
    BY <1>1 DEF ServeEnds, Close
  <2>2. \A d \in Conn : IsRead(d)' <=> IsRead(d)
    BY <1>t, <2>1 DEF IsRead, ConnTypes
  <2>3. ConnTypes' /\ ServedInOrder'
    BY <1>t, <2>1 DEF ConnTypes, ServedInOrder
  <2>4. StreamsOwned' /\ ReplyIsMine' /\ ActiveUnanswered' /\ RequestsAsked'
    BY <2>1, <2>2 DEF StreamsOwned, Holds, Placed, ReplyIsMine, ActiveUnanswered, RequestsAsked, Asks
  <2>5. WritersUnanswered'
    BY <2>1, <2>2 DEF WritersUnanswered, StreamsOwned, Placed
  <2> QED
    BY <2>3, <2>4, <2>5
<1>2. CASE serve[c] = "closing"
  <2>1. /\ resp' = [resp EXCEPT ![c] = [i \in Streams |-> IF i \in active[c] THEN Failure ELSE @[i]]]
        /\ serve' = [serve EXCEPT ![c] = "report"]
        /\ UNCHANGED <<link, closed, active, free, wire, ex>>
    BY <1>2 DEF ServeEnds
  <2>2. /\ resp' \in [Conn -> [Streams -> Reply]]
        /\ \A d \in Conn : \A i \in Streams : resp'[d][i] \in {resp[d][i], Failure}
        /\ \A d \in Conn : d # c => resp'[d] = resp[d]
    BY <1>t, <2>1, RepliesType DEF ConnTypes
  <2>3. /\ \A d \in Conn : IsRead(d)' => IsRead(d) /\ d # c
    BY <1>t, <2>1 DEF IsRead, ConnTypes
  <2>4. ConnTypes' /\ ServedInOrder'
    BY <1>t, <1>2, <2>1, <2>2 DEF ConnTypes, ServedInOrder
  <2>5. StreamsOwned' /\ ActiveUnanswered' /\ RequestsAsked'
    BY <2>1, <2>2, <2>3 DEF StreamsOwned, Holds, Placed, ActiveUnanswered, RequestsAsked, Asks
  <2>6. WritersUnanswered'
    BY <2>1, <2>2, <2>3 DEF WritersUnanswered, StreamsOwned, Placed
  <2>7. ReplyIsMine'
    BY <2>1, <2>2 DEF ReplyIsMine, StreamsOwned, Placed, Holds
  <2> QED
    BY <2>4, <2>5, <2>6, <2>7
<1> QED
  BY <1>1, <1>2

(***************************************************************************)
(* The steps of the session: they leave streams and requests alone, begin  *)
(* a call, or take the result of one.                                      *)
(***************************************************************************)
Calm ==
    /\ UNCHANGED <<active, resp, free, wire>>
    /\ link' \in [Conn -> {"none", "up", "silent", "reset"}]
    /\ closed' \in [Conn -> BOOLEAN]
    /\ serve' \in [Conn -> {"none", "reading", "pinged", "closing", "report", "done"}]
    /\ \A c \in Conn : IsRead(c)' <=> IsRead(c)
    /\ ServedInOrder'

LEMMA CalmUnchanged ==
    ASSUME ConnInv, UNCHANGED <<link, closed, serve, active, resp, free, wire>>
    PROVE  Calm
BY DEF Calm, ConnInv, ConnTypes, ServedInOrder, IsRead

LEMMA StepCalm ==
    ASSUME ConnInv, Calm, UNCHANGED ex
    PROVE  ConnInv'
BY DEF ConnInv, Calm, ConnTypes, StreamsOwned, Placed, Holds, RequestsAsked, Asks,
       ReplyIsMine, WritersUnanswered, ActiveUnanswered

LEMMA StepCalls ==
    ASSUME ConnInv, Calm, NEW p \in Process, ~Holds(p),
           NEW a \in Call, a.pc \in {"none", "take"},
           a.pc = "take" => a.conn \in Conn /\ a.kind \in Asked,
           ex' = [ex EXCEPT ![p] = a]
    PROVE  ConnInv'
<1> USE DEF ConnInv
<1>t. ConnTypes
  OBVIOUS
<1>1. /\ ex'[p] = a /\ \A q \in Process : q # p => ex'[q] = ex[q]
      /\ ex' \in [Process -> Call]
  BY <1>t DEF ConnTypes
<1>2. /\ \A d \in Conn : IsRead(d)' <=> IsRead(d)
      /\ UNCHANGED <<active, resp, free, wire>>
  BY DEF Calm
<1>3. ConnTypes' /\ ServedInOrder'
  BY <1>t, <1>1 DEF ConnTypes, Calm
<1>4. StreamsOwned'
  BY <1>1, <1>2 DEF StreamsOwned, Holds, Placed
<1>5. ActiveUnanswered'
  BY <1>2 DEF ActiveUnanswered
<1>6. ReplyIsMine' /\ WritersUnanswered'
  BY <1>1, <1>2, <1>4 DEF ReplyIsMine, WritersUnanswered, StreamsOwned, Placed
<1>7. RequestsAsked'
  <2> SUFFICES ASSUME NEW d \in Conn, IsRead(d), NEW r \in wire[d]
               PROVE  Asks(r.from, d, r)' /\ resp[d][r.id] = Nothing
    BY <1>2 DEF RequestsAsked
  <2>1. Asks(r.from, d, r) /\ resp[d][r.id] = Nothing /\ r.from \in Process
    BY <1>t DEF RequestsAsked, ConnTypes, Request
  <2>2. r.from # p
    BY <2>1 DEF Asks, Holds
  <2> QED
    BY <1>1, <2>1, <2>2 DEF Asks
<1> QED
  BY <1>3, <1>4, <1>5, <1>6, <1>7

LEMMA ProcessFacts ==
    /\ \A k \in Caller : Of(k) \in Process
    /\ \A c \in Conn : Use(c) \in Process /\ Ping(c) \in Process
    /\ \A k \in Caller, c \in Conn : Of(k) # Use(c) /\ Of(k) # Ping(c)
    /\ \A k, j \in Caller : Of(k) = Of(j) => k = j
    /\ \A c, d \in Conn : Use(c) # Ping(d) /\ (Use(c) = Use(d) => c = d)
BY DEF Of, Use, Ping, Process

-----------------------------------------------------------------------------
(***************************************************************************)
(* The session: who has which call, and who holds the lock of the pool.    *)
(***************************************************************************)
QueryType ==
    [pc : {"begin", "pick", "filling", "choose", "prepare", "waiting", "preparing", "forget",
           "execute", "executing"},
     conn : Conn \cup {NoOne}, on : Caller \cup {NoOne}, calls : 0 .. MaxCalls,
     res : Answers \cup {"none", "no connection"}]

FillerType ==
    [pc : {"idle", "fill", "connect", "add", "lock", "use"}, left : 0 .. NumConns,
     conn : Conn \cup {NoOne}, after : Caller \cup {NoOne}]

SessionTypes ==
    /\ pool \subseteq Conn /\ mu \in Filler \cup {NoOne} /\ token \in BOOLEAN
    /\ filler \in [Filler -> FillerType]
    /\ query \in [Caller -> QueryType]
    /\ cache \in [by : Caller, st : {"flying", "landed", "crashed"}] \cup {NoFlight}

(* A query has a connection once it chose one, and a call while it is in one. *)
QueryPlaced(k) ==
    /\ query[k].pc \in {"prepare", "waiting", "preparing", "execute", "executing"} =>
          query[k].conn \in Conn
    /\ query[k].pc \notin {"preparing", "executing"} => ex[Of(k)].pc = "none"
    /\ query[k].on # NoOne => query[k].pc = "waiting"

QueriesPlaced == \A k \in Caller : QueryPlaced(k)

(* A filler has a connection of its own, and the lock while it sets the keyspace. *)
Adds(f) == filler[f].pc \in {"lock", "use"}

FillersPlaced ==
    /\ \A f \in Filler : Adds(f) => filler[f].conn \in Conn /\ link[filler[f].conn] # "none"
    /\ \A f, g \in Filler : Adds(f) /\ Adds(g) /\ filler[f].conn = filler[g].conn => f = g
    /\ \A f \in Filler : filler[f].pc = "use" => mu = f

UsesAdded ==
    /\ \A c \in Conn : ex[Use(c)].pc # "none" =>
          \E f \in Filler : filler[f].pc = "use" /\ filler[f].conn = c
    /\ \A c \in Conn : Placed(Use(c)) => ex[Use(c)].conn = c

(* A query that waits for the pool to be filled is resumed once. *)
ResumedOnce ==
    /\ \A f \in Filler : filler[f].after # NoOne => query[filler[f].after].pc = "filling"
    /\ \A f, g \in Filler : filler[f].after = filler[g].after /\ filler[f].after # NoOne => f = g

(* A connection that nobody reads is not in the pool and will not get there. *)
UseFails(c) ==
    \/ ex[Use(c)].pc \in {"none", "take", "write"}
    \/ ex[Use(c)].pc = "returned" /\ ex[Use(c)].got = "error"

DeadOut == \A c \in Conn : serve[c] = "done" => c \notin pool /\ UseFails(c)

SessionInv ==
    /\ SessionTypes /\ QueriesPlaced /\ FillersPlaced /\ UsesAdded /\ ResumedOnce /\ DeadOut

Inv == ConnInv /\ SessionInv

-----------------------------------------------------------------------------
(* A call that is made stays on its connection. *)
LEMMA CallPlaced ==
    ASSUME ConnInv, NEW p \in Process, CallStep(p)
    PROVE  /\ Placed(p)
           /\ Placed(p)' => ex'[p].conn = ex[p].conn
<1>t. ConnTypes
  BY DEF ConnInv
<1>e. ex \in [Process -> Call]
  BY <1>t DEF ConnTypes
<1>1. ASSUME Take(p) PROVE ex[p].pc = "take" /\ ex'[p].conn = ex[p].conn
  <2>1. PICK i : i \in free[ex[p].conn] /\ ex' = [ex EXCEPT ![p].pc = "write", ![p].id = i]
    BY <1>1 DEF Take
  <2> QED
    BY <1>1, <1>e, <2>1 DEF Take, Call
<1>2. ASSUME Write(p) PROVE ex[p].pc = "write" /\ ex'[p].conn = ex[p].conn
  BY <1>2, <1>e DEF Write, Call
<1>3. ASSUME WriteFails(p) PROVE ex[p].pc = "write" /\ ex'[p].pc = "returned"
  <2>1. "error" \in Answers
    BY DEF Answers
  <2> QED
    BY <1>3, <1>t, <1>e, <2>1, ResultType DEF WriteFails
<1>4. ASSUME Receive(p) PROVE ex[p].pc = "wait" /\ ex'[p].pc \in {"none", "returned"}
  BY <1>4, <1>e, NoCallType DEF Receive, Result, NoCall
<1> QED
  BY <1>1, <1>2, <1>3, <1>4 DEF CallStep, Placed

(* The steps of connections do not disturb the session. *)
LEMMA CallsKeep ==
    ASSUME ConnInv, NEW p \in Process, CallStep(p)
    PROVE  /\ UNCHANGED <<link, serve>>
           /\ ex[p].pc # "none"
           /\ \A q \in Process : q # p => ex'[q] = ex[q]
           /\ \A c \in Conn : p = Use(c) /\ serve[c] = "done" /\ ex[p].conn = c /\ UseFails(c)
                 => UseFails(c)'
<1>t. ConnTypes /\ StreamsOwned /\ ServedInOrder
  BY DEF ConnInv
<1>e. ex \in [Process -> Call]
  BY <1>t DEF ConnTypes
<1>1. ASSUME Take(p)
      PROVE  /\ ex'[p].pc = "write" /\ ex[p].pc = "take"
             /\ \A q \in Process : q # p => ex'[q] = ex[q]
  <2>1. \E i : ex' = [ex EXCEPT ![p].pc = "write", ![p].id = i]
    BY <1>1 DEF Take
  <2> QED
    BY <1>1, <1>e, <2>1 DEF Take, Call
<1>2. ASSUME Write(p)
      PROVE  /\ ex[p].pc = "write" /\ ~closed[ex[p].conn]
             /\ \A q \in Process : q # p => ex'[q] = ex[q]
  BY <1>2, <1>e DEF Write
<1>3. ASSUME WriteFails(p)
      PROVE  /\ ex'[p].pc = "returned" /\ ex'[p].got = "error" /\ ex[p].pc = "write"
             /\ \A q \in Process : q # p => ex'[q] = ex[q]
  <2>1. "error" \in Answers
    BY DEF Answers
  <2>2. PICK r \in Call : r.pc = "returned" /\ r.got = "error" /\ ex' = [ex EXCEPT ![p] = r]
    BY <1>3, <1>t, <2>1, ResultType DEF WriteFails
  <2> QED
    BY <1>3, <1>e, <2>2 DEF WriteFails
<1>4. ASSUME Receive(p)
      PROVE  /\ ex[p].pc = "wait"
             /\ \A q \in Process : q # p => ex'[q] = ex[q]
  BY <1>4, <1>e DEF Receive, Result
<1>5. UNCHANGED <<link, serve>>
  BY DEF CallStep, Take, Write, WriteFails, Receive
<1>6. ASSUME NEW c \in Conn, p = Use(c), serve[c] = "done", ex[p].conn = c, UseFails(c)
      PROVE  UseFails(c)'
  <2>1. closed[c]
    BY <1>6, <1>t DEF ServedInOrder
  <2>2. ~Write(p) /\ ~Receive(p)
    BY <1>2, <1>4, <1>6, <2>1 DEF UseFails
  <2> QED
    BY <1>1, <1>3, <1>6, <2>2 DEF CallStep, UseFails
<1> QED
  BY <1>1, <1>2, <1>3, <1>4, <1>5, <1>6 DEF CallStep

LEMMA ServesKeep ==
    ASSUME ConnInv, (\E c \in Conn : ServeStep(c)) \/ ConnFault
    PROVE  /\ \A c \in Conn : serve'[c] = "done" => serve[c] = "done"
           /\ \A c \in Conn : link'[c] = "none" => link[c] = "none"
           /\ \A k \in Caller : ex'[Of(k)] = ex[Of(k)]
           /\ \A c \in Conn : ex'[Use(c)] = ex[Use(c)]
<1>t. ConnTypes
  BY DEF ConnInv
<1>1. ASSUME NEW c \in Conn, Read(c) \/ ServeEnds(c)
      PROVE  /\ \A d \in Conn : serve'[d] = "done" => serve[d] = "done"
             /\ UNCHANGED <<link, ex>>
  BY <1>1, <1>t DEF Read, ServeEnds, ConnTypes
<1>2. ASSUME NEW c \in Conn, TimesOut(c)
      PROVE  /\ \A d \in Conn : serve'[d] = "done" => serve[d] = "done"
             /\ link' = link
             /\ \A q \in Process : q # Ping(c) => ex'[q] = ex[q]
  BY <1>2, <1>t DEF TimesOut, ConnTypes
<1>3. ASSUME ConnFault
      PROVE  /\ \A d \in Conn : link'[d] = "none" => link[d] = "none"
             /\ UNCHANGED <<serve, ex>>
  BY <1>3, <1>t DEF ConnFault, Forget, LinkFails, ConnTypes
<1>4. ASSUME NEW c \in Conn, TimesOut(c)
      PROVE  /\ \A k \in Caller : ex'[Of(k)] = ex[Of(k)]
             /\ \A d \in Conn : ex'[Use(d)] = ex[Use(d)]
  BY <1>2, <1>4, ProcessFacts
<1> QED
  BY <1>1, <1>2, <1>3, <1>4 DEF ServeStep

(* The steps that belong to the connections alone. *)
LEMMA StepConnPart ==
    ASSUME ConnInv, (Calls \/ Serves \/ ConnFault)
    PROVE  ConnInv'
<1>t. ConnTypes
  BY DEF ConnInv
<1>1. ASSUME NEW p \in Process, CallStep(p) PROVE ConnInv'
  BY <1>1, StepTake, StepWrite, StepWriteFails, StepReceive DEF CallStep
<1>2. ASSUME NEW c \in Conn, TimesOut(c) PROVE ConnInv'
  <2>1. Calm
    BY <1>2, <1>t DEF TimesOut, Calm, ConnTypes, ConnInv, ServedInOrder, IsRead
  <2>2. /\ ex' = [ex EXCEPT ![Ping(c)] = StartCall("ping", c)]
        /\ ~Holds(Ping(c)) /\ Ping(c) \in Process
    BY <1>2, ProcessFacts DEF TimesOut, Holds
  <2>3. "ping" \in Asked
    BY DEF Asked
  <2> QED
    BY <2>1, <2>2, <2>3, StartCallType, StepCalls
<1>3. ASSUME NEW c \in Conn, ServeStep(c) PROVE ConnInv'
  BY <1>2, <1>3, StepRead, StepServeEnds DEF ServeStep
<1>4. ASSUME ConnFault PROVE ConnInv'
  <2>1. UNCHANGED <<closed, serve, active, resp, free, wire, ex>>
    BY <1>4 DEF ConnFault, Forget, LinkFails
  <2>2. /\ link' \in [Conn -> {"none", "up", "silent", "reset"}]
        /\ \A d \in Conn : link'[d] = "none" => link[d] = "none"
    BY <1>4, <1>t DEF ConnFault, Forget, LinkFails, ConnTypes
  <2>3. Calm
    BY <1>t, <2>1, <2>2 DEF Calm, ConnTypes, ConnInv, ServedInOrder, IsRead
  <2> QED
    BY <2>1, <2>3, StepCalm
<1> QED
  BY <1>1, <1>3, <1>4 DEF Calls, Serves

(***************************************************************************)
(* Queries.                                                                *)
(***************************************************************************)
LEMMA QueriesKeep ==
    ASSUME Inv, UNCHANGED <<link, serve, pool, mu, filler, token>>,
           query' \in [Caller -> QueryType],
           cache' \in [by : Caller, st : {"flying", "landed", "crashed"}] \cup {NoFlight},
           \A j \in Caller : query[j].pc = "filling" => query'[j].pc = "filling",
           QueriesPlaced',
           \A c \in Conn : ex'[Use(c)] = ex[Use(c)]
    PROVE  SessionInv'
<1>1. SessionTypes'
  BY DEF Inv, SessionInv, SessionTypes
<1>2. FillersPlaced' /\ UsesAdded'
  BY DEF Inv, SessionInv, FillersPlaced, UsesAdded, Adds, Placed
<1>3. ResumedOnce'
  BY NamesAssumption DEF Inv, SessionInv, SessionTypes, FillerType, ResumedOnce
<1>4. DeadOut'
  BY DEF Inv, SessionInv, DeadOut, UseFails
<1> QED
  BY <1>1, <1>2, <1>3, <1>4 DEF SessionInv

(* A step of one query, with what becomes of its call. *)
LEMMA StepQuery ==
    ASSUME Inv, NEW k \in Caller, NEW a \in QueryType, NEW b \in Call,
           query' = [query EXCEPT ![k] = a], ex' = [ex EXCEPT ![Of(k)] = b],
           UNCHANGED <<link, closed, serve, active, resp, free, wire, pool, mu, filler, token>>,
           cache' \in [by : Caller, st : {"flying", "landed", "crashed"}] \cup {NoFlight},
           query[k].pc # "filling", ~Holds(Of(k)),
           a.pc \in {"prepare", "waiting", "preparing", "execute", "executing"} => a.conn \in Conn,
           a.pc \notin {"preparing", "executing"} => b.pc = "none",
           a.on # NoOne => a.pc = "waiting",
           b.pc \in {"none", "take"}, b.pc = "take" => b.conn \in Conn /\ b.kind \in Asked
    PROVE  Inv'
<1>t. ConnTypes /\ SessionTypes /\ QueriesPlaced
  BY DEF Inv, ConnInv, SessionInv
<1>1. /\ query'[k] = a /\ \A j \in Caller : j # k => query'[j] = query[j]
      /\ query' \in [Caller -> QueryType]
  BY <1>t DEF SessionTypes
<1>2. /\ ex'[Of(k)] = b /\ \A q \in Process : q # Of(k) => ex'[q] = ex[q]
  BY <1>t, ProcessFacts DEF ConnTypes
<1>3. /\ \A j \in Caller : j # k => ex'[Of(j)] = ex[Of(j)]
      /\ \A c \in Conn : ex'[Use(c)] = ex[Use(c)]
  BY <1>2, ProcessFacts
<1>4. QueriesPlaced'
  BY <1>t, <1>1, <1>2, <1>3 DEF QueriesPlaced, QueryPlaced
<1>5. SessionInv'
  BY <1>1, <1>3, <1>4, QueriesKeep
<1>6. ConnInv'
  BY CalmUnchanged, ProcessFacts, StepCalls DEF Inv
<1> QED
  BY <1>5, <1>6 DEF Inv

(* What a query without a call, or with one that has returned, has. *)
LEMMA QueryFacts ==
    ASSUME Inv, NEW k \in Caller
    PROVE  /\ query[k] \in QueryType /\ ex[Of(k)] \in Call
           /\ ex = [ex EXCEPT ![Of(k)] = ex[Of(k)]]
           /\ query[k].pc \notin {"preparing", "executing"} => ex[Of(k)].pc = "none" /\ ~Holds(Of(k))
           /\ Returned(Of(k)) => ~Holds(Of(k))
           /\ query[k].pc # "waiting" => query[k].on = NoOne
           /\ query[k].pc \in {"prepare", "waiting", "preparing", "execute", "executing"} =>
                 query[k].conn \in Conn
<1>t. ConnTypes /\ SessionTypes /\ QueryPlaced(k)
  BY DEF Inv, ConnInv, SessionInv, QueriesPlaced
<1>1. query[k] \in QueryType /\ ex[Of(k)] \in Call
  BY <1>t, ProcessFacts DEF ConnTypes, SessionTypes
<1>2. ex = [ex EXCEPT ![Of(k)] = ex[Of(k)]]
  BY <1>t, ProcessFacts DEF ConnTypes
<1> QED
  BY <1>t, <1>1, <1>2 DEF QueryPlaced, Holds, Returned

LEMMA EndType ==
    ASSUME Inv, NEW k \in Caller, NEW res \in Answers \cup {"none", "no connection"}
    PROVE  /\ [NoQuery EXCEPT !.calls = query[k].calls, !.res = res] \in QueryType
           /\ [NoQuery EXCEPT !.calls = query[k].calls, !.res = res].pc = "begin"
           /\ [NoQuery EXCEPT !.calls = query[k].calls, !.res = res].on = NoOne
BY QueryFacts DEF NoQuery, QueryType

-----------------------------------------------------------------------------
LEMMA StepBegin ==
    ASSUME Inv, NEW k \in Caller, Begin(k)
    PROVE  Inv'
<1> DEFINE n == query[k].calls + 1
           a == [query[k] EXCEPT !.calls = n, !.pc = "pick"]
<1>1. /\ query[k].pc = "begin" /\ query[k].calls < MaxCalls
      /\ UNCHANGED <<connVars, pool, mu, filler, token, cache>>
  BY DEF Begin
<1>2. n \in 0 .. MaxCalls
  <2>1. query[k].calls \in 0 .. MaxCalls
    BY QueryFacts DEF QueryType
  <2>2. query[k].calls < MaxCalls /\ MaxCalls \in Nat
    BY <1>1, NumConnsAssumption
  <2> QED
    BY <2>1, <2>2
<1>3. query' = [query EXCEPT ![k] = a]
  <2>1. query \in [Caller -> QueryType] /\ query[k] \in QueryType
    BY QueryFacts DEF Inv, SessionInv, SessionTypes
  <2>2. query' = [query EXCEPT ![k].calls = n, ![k].pc = "pick"]
    BY <2>1 DEF Begin, QueryType
  <2> HIDE DEF n
  <2> QED
    BY <1>2, <2>1, <2>2
<1> HIDE DEF n
<1>4. a \in QueryType /\ a.pc = "pick" /\ a.on = query[k].on
  BY <1>2, QueryFacts DEF QueryType
<1> HIDE DEF a
<1>5. ex' = [ex EXCEPT ![Of(k)] = ex[Of(k)]]
  BY <1>1, QueryFacts DEF connVars
<1>6. cache' \in [by : Caller, st : {"flying", "landed", "crashed"}] \cup {NoFlight}
  BY <1>1 DEF Inv, SessionInv, SessionTypes
<1> QED
  BY <1>1, <1>3, <1>4, <1>5, <1>6, QueryFacts, StepQuery DEF connVars

LEMMA StepChoose ==
    ASSUME Inv, NEW k \in Caller, Choose(k)
    PROVE  Inv'
<1>1. /\ query[k].pc = "choose"
      /\ UNCHANGED <<connVars, pool, mu, filler, token, cache>>
  BY DEF Choose
<1>2. ex' = [ex EXCEPT ![Of(k)] = ex[Of(k)]]
  BY <1>1, QueryFacts DEF connVars
<1>3. cache' \in [by : Caller, st : {"flying", "landed", "crashed"}] \cup {NoFlight}
  BY <1>1 DEF Inv, SessionInv, SessionTypes
<1>4. ASSUME End(k, "no connection") PROVE Inv'
  <2> DEFINE a == [NoQuery EXCEPT !.calls = query[k].calls, !.res = "no connection"]
  <2>1. query' = [query EXCEPT ![k] = a]
    BY <1>4 DEF End
  <2>2. a \in QueryType /\ a.pc = "begin" /\ a.on = NoOne
    BY EndType
  <2> HIDE DEF a
  <2> QED
    BY <1>1, <1>2, <1>3, <2>1, <2>2, QueryFacts, StepQuery DEF connVars
<1>5. ASSUME NEW c \in pool, query' = [query EXCEPT ![k].pc = "prepare", ![k].conn = c] PROVE Inv'
  <2> DEFINE a == [query[k] EXCEPT !.pc = "prepare", !.conn = c]
  <2>1. query' = [query EXCEPT ![k] = a]
    BY <1>5 DEF Inv, SessionInv, SessionTypes
  <2>2. c \in Conn
    BY DEF Inv, SessionInv, SessionTypes
  <2>3. a \in QueryType /\ a.pc = "prepare" /\ a.conn = c /\ a.on = query[k].on
    BY <2>2, QueryFacts DEF QueryType
  <2> HIDE DEF a
  <2> QED
    BY <1>1, <1>2, <1>3, <2>1, <2>2, <2>3, QueryFacts, StepQuery DEF connVars
<1> QED
  BY <1>4, <1>5 DEF Choose

(* A query begins a call on its connection. *)
LEMMA StepRun ==
    ASSUME Inv, NEW k \in Caller, NEW kind \in Asked, NEW pc \in {"preparing", "executing"},
           query[k].pc \in {"prepare", "execute"}, Run(k, kind),
           query' = [query EXCEPT ![k].pc = pc],
           UNCHANGED <<link, closed, serve, active, resp, free, wire, pool, mu, filler, token>>,
           cache' \in [by : Caller, st : {"flying", "landed", "crashed"}] \cup {NoFlight}
    PROVE  Inv'
<1> DEFINE a == [query[k] EXCEPT !.pc = pc]
           b == StartCall(kind, query[k].conn)
<1>1. query' = [query EXCEPT ![k] = a]
  BY DEF Inv, SessionInv, SessionTypes
<1>2. a \in QueryType /\ a.pc = pc /\ a.on = query[k].on /\ a.conn = query[k].conn
  BY QueryFacts DEF QueryType
<1>3. query[k].conn \in Conn
  BY QueryFacts
<1>4. b \in Call /\ b.pc = "take" /\ b.conn \in Conn /\ b.kind \in Asked
  BY <1>3, StartCallType
<1>5. ex' = [ex EXCEPT ![Of(k)] = b]
  BY DEF Run
<1> HIDE DEF a, b
<1> QED
  BY <1>1, <1>2, <1>3, <1>4, <1>5, QueryFacts, StepQuery

LEMMA StepPrepare ==
    ASSUME Inv, NEW k \in Caller, Prepare(k)
    PROVE  Inv'
<1>1. /\ query[k].pc = "prepare"
      /\ UNCHANGED <<link, closed, serve, active, resp, free, wire, pool, mu, filler, token>>
  BY DEF Prepare
<1>2. cache \in [by : Caller, st : {"flying", "landed", "crashed"}] \cup {NoFlight}
  BY DEF Inv, SessionInv, SessionTypes
<1>3. "prepare" \in Asked /\ "query" \in Asked
  BY DEF Asked
<1>4. ASSUME cache' = [by |-> k, st |-> "flying"], Run(k, "prepare"),
             query' = [query EXCEPT ![k].pc = "preparing"]
      PROVE  Inv'
  <2>1. cache' \in [by : Caller, st : {"flying", "landed", "crashed"}]
    BY <1>4
  <2> QED
    BY <1>1, <1>3, <1>4, <2>1, StepRun
<1>5. ASSUME cache.st = "flying", query' = [query EXCEPT ![k].pc = "waiting", ![k].on = cache.by],
             UNCHANGED <<ex, cache>>
      PROVE  Inv'
  <2> DEFINE a == [query[k] EXCEPT !.pc = "waiting", !.on = cache.by]
  <2>1. query' = [query EXCEPT ![k] = a]
    BY <1>5 DEF Inv, SessionInv, SessionTypes
  <2>2. cache.by \in Caller
    BY <1>2, <1>5 DEF NoFlight
  <2>3. a \in QueryType /\ a.pc = "waiting" /\ a.conn = query[k].conn
    BY <2>2, QueryFacts DEF QueryType
  <2>4. ex' = [ex EXCEPT ![Of(k)] = ex[Of(k)]]
    BY <1>5, QueryFacts
  <2> HIDE DEF a
  <2> QED
    BY <1>1, <1>2, <1>5, <2>1, <2>3, <2>4, QueryFacts, StepQuery
<1>6. ASSUME Run(k, "query"), query' = [query EXCEPT ![k].pc = "executing"], UNCHANGED cache
      PROVE  Inv'
  BY <1>1, <1>2, <1>3, <1>6, StepRun
<1>7. ASSUME End(k, "error"), UNCHANGED <<ex, cache>>
      PROVE  Inv'
  <2> DEFINE a == [NoQuery EXCEPT !.calls = query[k].calls, !.res = "error"]
  <2>1. query' = [query EXCEPT ![k] = a]
    BY <1>7 DEF End
  <2>2. "error" \in Answers
    BY DEF Answers
  <2>3. a \in QueryType /\ a.pc = "begin" /\ a.on = NoOne
    BY <2>2, EndType
  <2>4. ex' = [ex EXCEPT ![Of(k)] = ex[Of(k)]]
    BY <1>7, QueryFacts
  <2> HIDE DEF a
  <2> QED
    BY <1>1, <1>2, <1>7, <2>1, <2>3, <2>4, QueryFacts, StepQuery
<1> QED
  BY <1>4, <1>5, <1>6, <1>7 DEF Prepare

LEMMA StepRemoveFlight ==
    ASSUME Inv, NEW k \in Caller, RemoveFlight(k)
    PROVE  Inv'
<1> DEFINE a == [NoQuery EXCEPT !.calls = query[k].calls, !.res = "error"]
<1>1. /\ query[k].pc = "forget" /\ cache' = NoFlight
      /\ UNCHANGED <<connVars, pool, mu, filler, token>>
      /\ query' = [query EXCEPT ![k] = a]
  BY DEF RemoveFlight, End
<1>2. "error" \in Answers
  BY DEF Answers
<1>3. a \in QueryType /\ a.pc = "begin" /\ a.on = NoOne
  BY <1>2, EndType
<1>4. ex' = [ex EXCEPT ![Of(k)] = ex[Of(k)]]
  BY <1>1, QueryFacts DEF connVars
<1> HIDE DEF a
<1> QED
  BY <1>1, <1>3, <1>4, QueryFacts, StepQuery DEF connVars

LEMMA StepExecute ==
    ASSUME Inv, NEW k \in Caller, Execute(k)
    PROVE  Inv'
<1>1. /\ query[k].pc = "execute" /\ Run(k, "query")
      /\ query' = [query EXCEPT ![k].pc = "executing"]
      /\ UNCHANGED <<link, closed, serve, active, resp, free, wire, pool, mu, filler, token, cache>>
  BY DEF Execute
<1>2. cache' \in [by : Caller, st : {"flying", "landed", "crashed"}] \cup {NoFlight}
  BY <1>1 DEF Inv, SessionInv, SessionTypes
<1>3. "query" \in Asked
  BY DEF Asked
<1> QED
  BY <1>1, <1>2, <1>3, StepRun

LEMMA StepExecuted ==
    ASSUME Inv, NEW k \in Caller, Executed(k)
    PROVE  Inv'
<1>1. /\ query[k].pc = "executing" /\ Returned(Of(k))
      /\ ex' = [ex EXCEPT ![Of(k)] = NoCall]
      /\ UNCHANGED <<link, closed, serve, active, resp, free, wire, pool, mu, filler, token>>
  BY DEF Executed
<1>2. cache' \in [by : Caller, st : {"flying", "landed", "crashed"}] \cup {NoFlight}
  BY DEF Executed, Inv, SessionInv, SessionTypes
<1>3. ASSUME query' = [query EXCEPT ![k].pc = "prepare"] PROVE Inv'
  <2> DEFINE a == [query[k] EXCEPT !.pc = "prepare"]
  <2>1. query' = [query EXCEPT ![k] = a]
    BY <1>3 DEF Inv, SessionInv, SessionTypes
  <2>2. a \in QueryType /\ a.pc = "prepare" /\ a.on = query[k].on /\ a.conn = query[k].conn
    BY QueryFacts DEF QueryType
  <2> HIDE DEF a
  <2> QED
    BY <1>1, <1>2, <2>1, <2>2, NoCallType, QueryFacts, StepQuery
<1>4. ASSUME End(k, ex[Of(k)].got) PROVE Inv'
  <2> DEFINE a == [NoQuery EXCEPT !.calls = query[k].calls, !.res = ex[Of(k)].got]
  <2>1. query' = [query EXCEPT ![k] = a]
    BY <1>4 DEF End
  <2>2. ex[Of(k)].got \in Answers
    BY QueryFacts DEF Call
  <2>3. a \in QueryType /\ a.pc = "begin" /\ a.on = NoOne
    BY <2>2, EndType
  <2> HIDE DEF a
  <2> QED
    BY <1>1, <1>2, <2>1, <2>3, NoCallType, QueryFacts, StepQuery
<1> QED
  BY <1>3, <1>4 DEF Executed

(* A flight lands: those that wait for it go on, or fail, with the one that  *)
(* prepared the statement.                                                   *)
LEMMA StepPrepared ==
    ASSUME Inv, NEW k \in Caller, Prepared(k)
    PROVE  Inv'
<1> DEFINE ok == ex[Of(k)].got = "prepare"
           fails(j) == [NoQuery EXCEPT !.calls = query[j].calls, !.res = "error"]
           goes(j) == [query[j] EXCEPT !.on = NoOne, !.pc = "execute"]
           lands == [query[k] EXCEPT !.pc = IF ok THEN "execute" ELSE "forget"]
<1>t. ConnTypes /\ SessionTypes /\ QueriesPlaced
  BY DEF Inv, ConnInv, SessionInv
<1>1. /\ query[k].pc = "preparing" /\ Returned(Of(k)) /\ Landed(k, ok)
      /\ ex' = [ex EXCEPT ![Of(k)] = NoCall]
      /\ UNCHANGED <<link, closed, serve, active, resp, free, wire, pool, mu, filler, token>>
  BY DEF Prepared
<1>2. cache' \in [by : Caller, st : {"flying", "landed", "crashed"}] \cup {NoFlight}
  <2>1. cache' = cache \/ cache' = [cache EXCEPT !.st = "landed"] \/ cache' = [cache EXCEPT !.st = "crashed"]
    BY DEF Prepared
  <2>2. cache' # cache => cache = [by |-> k, st |-> "flying"]
    BY DEF Prepared
  <2> QED
    BY <1>t, <2>1, <2>2 DEF SessionTypes
<1>3. /\ ex'[Of(k)] = NoCall /\ \A q \in Process : q # Of(k) => ex'[q] = ex[q]
  BY <1>t, <1>1, ProcessFacts DEF ConnTypes
<1>4. /\ \A j \in Caller : j # k => ex'[Of(j)] = ex[Of(j)]
      /\ \A c \in Conn : ex'[Use(c)] = ex[Use(c)]
  BY <1>3, ProcessFacts
<1>5. /\ query'[k] = lands
      /\ \A j \in Caller : j # k =>
            query'[j] = query[j] \/ (query[j].on = k /\ query'[j] \in {fails(j), goes(j)})
      /\ query' = [j \in Caller |-> query'[j]]
  <2>1. query' = [j \in Caller |->
            CASE j = k -> lands
              [] query[j].on = k -> IF ok THEN goes(j) ELSE fails(j)
              [] OTHER -> query[j]]
    BY <1>1 DEF Landed
  <2>2. k \in Caller /\ query[k].on # k
    BY <1>1, NamesAssumption, QueryFacts
  <2> HIDE DEF ok, fails, goes, lands
  <2> QED
    BY <2>1, <2>2
<1>6. /\ lands \in QueryType /\ lands.pc \in {"execute", "forget"}
      /\ lands.on = query[k].on /\ lands.conn = query[k].conn
  BY QueryFacts DEF QueryType
<1>7. \A j \in Caller : /\ fails(j) \in QueryType /\ fails(j).pc = "begin" /\ fails(j).on = NoOne
  <2>1. "error" \in Answers
    BY DEF Answers
  <2> QED
    BY <2>1, EndType
<1>8. \A j \in Caller :
        /\ goes(j) \in QueryType /\ goes(j).pc = "execute" /\ goes(j).on = NoOne
        /\ goes(j).conn = query[j].conn
  BY QueryFacts DEF QueryType
<1> HIDE DEF ok, fails, goes, lands
<1>9. query' \in [Caller -> QueryType]
  BY <1>t, <1>5, <1>6, <1>7, <1>8 DEF SessionTypes
<1>10. \A j \in Caller : query[j].on = k => query[j].pc = "waiting" /\ query[j].conn \in Conn
  BY NamesAssumption, QueryFacts
<1>11. \A j \in Caller : query[j].pc = "filling" => query'[j].pc = "filling"
  BY <1>1, <1>5, <1>10
<1>12. QueriesPlaced'
  <2> SUFFICES ASSUME NEW j \in Caller PROVE QueryPlaced(j)'
    BY DEF QueriesPlaced
  <2>1. CASE j = k
    BY <1>1, <1>3, <1>5, <1>6, <2>1, NoCallType, QueryFacts DEF QueryPlaced
  <2>2. CASE j # k /\ query'[j] = query[j]
    BY <1>t, <1>4, <2>2 DEF QueriesPlaced, QueryPlaced
  <2>3. CASE j # k /\ query'[j] # query[j]
    <3>1. query[j].pc = "waiting" /\ query[j].conn \in Conn /\ query'[j] \in {fails(j), goes(j)}
      BY <1>5, <1>10, <2>3
    <3>2. ex'[Of(j)].pc = "none"
      BY <1>4, <2>3, <3>1, QueryFacts
    <3> QED
      BY <1>7, <1>8, <3>1, <3>2 DEF QueryPlaced
  <2> QED
    BY <2>1, <2>2, <2>3
<1>13. SessionInv'
  BY <1>1, <1>2, <1>4, <1>9, <1>11, <1>12, QueriesKeep
<1>14. ConnInv'
  BY <1>1, CalmUnchanged, NoCallType, ProcessFacts, QueryFacts, StepCalls DEF Inv
<1> QED
  BY <1>13, <1>14 DEF Inv

(***************************************************************************)
(* The pool.                                                               *)
(***************************************************************************)
LEMMA IdleType ==
    /\ Idle \in FillerType /\ Idle.pc = "idle" /\ Idle.after = NoOne
    /\ \A n \in 0 .. NumConns :
          Loop(n) \in FillerType /\ Loop(n).pc \in {"idle", "add"} /\ Loop(n).after = NoOne
<1>1. Idle \in FillerType /\ Idle.pc = "idle" /\ Idle.after = NoOne
  BY NumConnsAssumption DEF Idle, FillerType
<1>2. ASSUME NEW n \in 0 .. NumConns
      PROVE  Loop(n) \in FillerType /\ Loop(n).pc \in {"idle", "add"} /\ Loop(n).after = NoOne
  <2>1. CASE n = 0
    BY <1>1, <2>1 DEF Loop
  <2>2. CASE n # 0
    BY <1>1, <2>2 DEF Loop, FillerType
  <2> QED
    BY <2>1, <2>2
<1> QED
  BY <1>1, <1>2

LEMMA FillerFacts ==
    ASSUME Inv, NEW f \in Filler
    PROVE  filler[f] \in FillerType /\ filler[f].left \in Nat /\ filler[f].left <= NumConns
<1>1. filler[f] \in FillerType
  BY DEF Inv, SessionInv, SessionTypes
<1> QED
  BY <1>1, NumConnsAssumption DEF FillerType

(* A filler goes on; one that was called may resume the query that called it. *)
LEMMA FillersKeep ==
    ASSUME Inv, NEW f \in Filler, NEW n \in FillerType, filler' = [filler EXCEPT ![f] = n],
           pool' \subseteq Conn, mu' \in Filler \cup {NoOne}, token' \in BOOLEAN, UNCHANGED cache,
           (Resume(f) /\ n.after = NoOne)
             \/ (query' = query /\ n.after \in {NoOne, filler[f].after}),
           \A k \in Caller : ex'[Of(k)] = ex[Of(k)],
           FillersPlaced', UsesAdded', DeadOut'
    PROVE  SessionInv'
<1>t. SessionTypes /\ QueriesPlaced /\ ResumedOnce
  BY DEF Inv, SessionInv
<1>1. /\ filler'[f] = n /\ \A g \in Filler : g # f => filler'[g] = filler[g]
      /\ filler' \in [Filler -> FillerType]
  BY <1>t DEF SessionTypes
<1>2. CASE query' = query /\ n.after \in {NoOne, filler[f].after}
  <2>1. SessionTypes'
    BY <1>t, <1>1, <1>2 DEF SessionTypes
  <2>2. QueriesPlaced'
    BY <1>t, <1>2 DEF QueriesPlaced, QueryPlaced
  <2>3. ResumedOnce'
    BY <1>t, <1>1, <1>2 DEF ResumedOnce
  <2> QED
    BY <2>1, <2>2, <2>3 DEF SessionInv
<1>3. CASE Resume(f) /\ n.after = NoOne
  <2> DEFINE goes(k) == [query[k] EXCEPT !.pc = "choose"]
  <2>1. query' = [k \in Caller |-> IF filler[f].after = k THEN goes(k) ELSE query[k]]
    BY <1>3 DEF Resume
  <2>2. \A k \in Caller : /\ goes(k) \in QueryType /\ goes(k).pc = "choose"
                         /\ goes(k).on = query[k].on
    <3>1. \A k \in Caller : query[k] \in QueryType
      BY <1>t DEF SessionTypes
    <3> QED
      BY <3>1 DEF QueryType
  <2> HIDE DEF goes
  <2>3. query' \in [Caller -> QueryType]
    BY <1>t, <2>1, <2>2 DEF SessionTypes
  <2>4. SessionTypes'
    BY <1>t, <1>1, <2>3 DEF SessionTypes
  <2>5. \A k \in Caller : filler[f].after = k => query[k].pc = "filling"
    BY <1>t, NamesAssumption DEF ResumedOnce
  <2>6. QueriesPlaced'
    <3> SUFFICES ASSUME NEW k \in Caller PROVE QueryPlaced(k)'
      BY DEF QueriesPlaced
    <3>1. CASE filler[f].after = k
      <4>1. query'[k] = goes(k) /\ query[k].pc = "filling"
        BY <2>1, <2>5, <3>1
      <4>2. query[k].on = NoOne /\ ex'[Of(k)].pc = "none"
        BY <4>1, QueryFacts
      <4> QED
        BY <2>2, <4>1, <4>2 DEF QueryPlaced
    <3>2. CASE filler[f].after # k
      BY <1>t, <2>1, <3>2 DEF QueriesPlaced, QueryPlaced
    <3> QED
      BY <3>1, <3>2
  <2>7. ResumedOnce'
    <3>1. \A g \in Filler : filler'[g].after # NoOne =>
            g # f /\ filler[g].after # filler[f].after /\ filler[g].after \in Caller
      BY <1>t, <1>1, <1>3 DEF ResumedOnce, SessionTypes, FillerType
    <3> QED
      BY <1>t, <1>1, <2>1, <3>1 DEF ResumedOnce
  <2> QED
    BY <2>4, <2>6, <2>7 DEF SessionInv
<1> QED
  BY <1>2, <1>3

(* A filler without a connection goes on without one. *)
LEMMA FillersStay ==
    ASSUME Inv, NEW f \in Filler, NEW n \in FillerType, filler' = [filler EXCEPT ![f] = n],
           n.pc \notin {"lock", "use"}, filler[f].pc # "use", UNCHANGED mu,
           \A c \in Conn : link'[c] = "none" => link[c] = "none",
           \A c \in Conn : ex'[Use(c)] = ex[Use(c)]
    PROVE  FillersPlaced' /\ UsesAdded'
<1>t. SessionTypes /\ FillersPlaced /\ UsesAdded
  BY DEF Inv, SessionInv
<1>1. filler'[f] = n /\ \A g \in Filler : g # f => filler'[g] = filler[g]
  BY <1>t DEF SessionTypes
<1>2. FillersPlaced'
  BY <1>t, <1>1 DEF FillersPlaced, Adds
<1>3. UsesAdded'
  BY <1>t, <1>1 DEF UsesAdded, Placed
<1> QED
  BY <1>2, <1>3

LEMMA FillerIsIdle ==
    ASSUME Inv, NEW k, StartFill(k)
    PROVE  \E f \in Filler : /\ filler[f].pc = "idle"
                            /\ filler' = [filler EXCEPT ![f] = [Idle EXCEPT !.pc = "fill", !.after = k]]
BY DEF StartFill, IdleFiller, Any

(* What becomes of a filler whose connection was made, or was not. *)
LEMMA ConnectEnds ==
    ASSUME Inv, NEW f \in Filler, ConnectFailed(f) \/ ConnectDone(f)
    PROVE  /\ token' \in BOOLEAN
           /\ \E n \in FillerType : /\ n.pc \in {"idle", "add"} /\ n.after = NoOne
                                    /\ filler' = [filler EXCEPT ![f] = n]
           /\ query' = query \/ Resume(f)
<1>1. token \in BOOLEAN
  BY DEF Inv, SessionInv, SessionTypes
<1>2. CASE LoopGoesOn(f) /\ filler[f].left > 0
  <2>1. filler[f].left - 1 \in 0 .. NumConns
    BY <1>2, FillerFacts, NumConnsAssumption
  <2> QED
    BY <1>1, <1>2, <2>1, IdleType DEF LoopGoesOn
<1>3. CASE filler' = [filler EXCEPT ![f] = Idle] /\ token' = TRUE /\ Resume(f)
  BY <1>3, IdleType
<1>4. CASE filler' = [filler EXCEPT ![f] = Loop(NumConns - 1)] /\ token' = TRUE /\ Resume(f)
  <2>1. NumConns - 1 \in 0 .. NumConns
    BY NumConnsAssumption
  <2> QED
    BY <1>4, <2>1, IdleType
<1> QED
  BY <1>2, <1>3, <1>4 DEF ConnectFailed, ConnectDone

-----------------------------------------------------------------------------
LEMMA StepFillBegins ==
    ASSUME Inv, NEW f \in Filler, FillBegins(f)
    PROVE  Inv'
<1>t. SessionTypes
  BY DEF Inv, SessionInv
<1>1. /\ filler[f].pc = "fill"
      /\ UNCHANGED <<connVars, pool, mu, cache>>
  BY DEF FillBegins
<1>2. ConnInv'
  BY <1>1, CalmUnchanged, StepCalm DEF connVars, Inv
<1>3. /\ pool' \subseteq Conn /\ mu' \in Filler \cup {NoOne} /\ DeadOut'
      /\ \A c \in Conn : link'[c] = "none" => link[c] = "none"
      /\ \A c \in Conn : ex'[Use(c)] = ex[Use(c)]
      /\ \A k \in Caller : ex'[Of(k)] = ex[Of(k)]
  BY <1>t, <1>1 DEF connVars, SessionTypes, Inv, SessionInv, DeadOut, UseFails
<1>4. ASSUME NEW n \in FillerType, filler' = [filler EXCEPT ![f] = n], n.pc \notin {"lock", "use"},
             token' \in BOOLEAN,
             (Resume(f) /\ n.after = NoOne) \/ (query' = query /\ n.after = filler[f].after)
      PROVE  SessionInv'
  <2>1. FillersPlaced' /\ UsesAdded'
    BY <1>1, <1>3, <1>4, FillersStay
  <2> QED
    BY <1>1, <1>3, <1>4, <2>1, FillersKeep
<1>5. ASSUME filler' = [filler EXCEPT ![f] = Idle], Resume(f), UNCHANGED token
      PROVE  SessionInv'
  <2>1. token' \in BOOLEAN
    BY <1>t, <1>5 DEF SessionTypes
  <2> QED
    BY <1>4, <1>5, <2>1, IdleType
<1>6. ASSUME filler' = [filler EXCEPT ![f].pc = "connect"], token' = FALSE, UNCHANGED query
      PROVE  SessionInv'
  <2> DEFINE n == [filler[f] EXCEPT !.pc = "connect"]
  <2>1. filler' = [filler EXCEPT ![f] = n]
    BY <1>t, <1>6 DEF SessionTypes
  <2>2. n \in FillerType /\ n.pc = "connect" /\ n.after = filler[f].after
    BY FillerFacts DEF FillerType
  <2> HIDE DEF n
  <2> QED
    BY <1>4, <1>6, <2>1, <2>2
<1>7. ASSUME ~(Cardinality(pool) >= NumConns),
             filler' = [filler EXCEPT ![f] = Loop(NumConns - Cardinality(pool))],
             Resume(f), UNCHANGED token
      PROVE  SessionInv'
  <2>1. token' \in BOOLEAN
    BY <1>t, <1>7 DEF SessionTypes
  <2>2. IsFiniteSet(pool)
    BY <1>t, NamesAssumption, FS_Subset DEF SessionTypes
  <2>3. Cardinality(pool) \in Nat
    BY <2>2, FS_CardinalityType
  <2>4. NumConns - Cardinality(pool) \in 0 .. NumConns
    BY <1>7, <2>3, NumConnsAssumption
  <2> QED
    BY <1>4, <1>7, <2>1, <2>4, IdleType
<1> QED
  BY <1>2, <1>5, <1>6, <1>7 DEF FillBegins, Inv

LEMMA StepDial ==
    ASSUME Inv, NEW f \in Filler, Dial(f)
    PROVE  Inv'
<1>t. ConnTypes /\ SessionTypes /\ ServedInOrder /\ FillersPlaced /\ UsesAdded /\ DeadOut
  BY DEF Inv, ConnInv, SessionInv
<1>1. PICK c \in Conn : /\ link[c] = "none" /\ Connect(c)
                       /\ filler' = [filler EXCEPT ![f].pc = "lock", ![f].conn = c]
  BY DEF Dial, Any
<1>2. /\ filler[f].pc \in {"connect", "add"}
      /\ UNCHANGED <<closed, active, resp, free, wire, ex, pool, mu, token, query, cache>>
  BY DEF Dial
<1>3. serve[c] = "none"
  BY <1>t, <1>1 DEF ServedInOrder
<1>4. /\ link' = [link EXCEPT ![c] = "up"] /\ serve' = [serve EXCEPT ![c] = "reading"]
  BY <1>1 DEF Connect
<1>5. /\ link'[c] = "up" /\ \A d \in Conn : d # c => link'[d] = link[d]
      /\ serve'[c] = "reading" /\ \A d \in Conn : d # c => serve'[d] = serve[d]
      /\ link' \in [Conn -> {"none", "up", "silent", "reset"}]
      /\ serve' \in [Conn -> {"none", "reading", "pinged", "closing", "report", "done"}]
  BY <1>t, <1>4 DEF ConnTypes
<1>6. ConnInv'
  <2>1. Calm
    BY <1>t, <1>2, <1>3, <1>5 DEF Calm, ConnTypes, ServedInOrder, IsRead
  <2> QED
    BY <1>2, <2>1, StepCalm DEF Inv
<1> DEFINE n == [filler[f] EXCEPT !.pc = "lock", !.conn = c]
<1>7. filler' = [filler EXCEPT ![f] = n]
  BY <1>t, <1>1 DEF SessionTypes
<1>8. n \in FillerType /\ n.pc = "lock" /\ n.conn = c /\ n.after = filler[f].after
  BY FillerFacts DEF FillerType
<1> HIDE DEF n
<1>9. filler'[f] = n /\ \A g \in Filler : g # f => filler'[g] = filler[g]
  BY <1>t, <1>7 DEF SessionTypes
<1>10. FillersPlaced'
  <2>1. \A g \in Filler : g # f => (Adds(g)' <=> Adds(g))
    BY <1>9 DEF Adds
  <2>2. \A g \in Filler : Adds(g) =>
          filler[g].conn \in Conn /\ filler[g].conn # c /\ link'[filler[g].conn] # "none"
    BY <1>t, <1>1, <1>5 DEF FillersPlaced
  <2>3. \A g \in Filler : Adds(g)' => filler'[g].conn \in Conn /\ link'[filler'[g].conn] # "none"
    BY <1>5, <1>8, <1>9, <2>1, <2>2
  <2>4. \A g, h \in Filler : Adds(g)' /\ Adds(h)' /\ filler'[g].conn = filler'[h].conn => g = h
    BY <1>t, <1>8, <1>9, <2>1, <2>2 DEF FillersPlaced
  <2>5. \A g \in Filler : filler'[g].pc = "use" => mu' = g
    BY <1>t, <1>2, <1>8, <1>9 DEF FillersPlaced
  <2> QED
    BY <2>3, <2>4, <2>5 DEF FillersPlaced
<1>11. UsesAdded'
  BY <1>t, <1>2, <1>9 DEF UsesAdded, Placed
<1>12. DeadOut'
  BY <1>t, <1>2, <1>5 DEF DeadOut, UseFails
<1>13. SessionInv'
  BY <1>t, <1>2, <1>7, <1>8, <1>10, <1>11, <1>12, FillersKeep DEF SessionTypes
<1> QED
  BY <1>6, <1>13 DEF Inv

LEMMA StepDialFails ==
    ASSUME Inv, NEW f \in Filler, DialFails(f)
    PROVE  Inv'
<1>t. SessionTypes
  BY DEF Inv, SessionInv
<1>1. /\ filler[f].pc \in {"connect", "add"} /\ ConnectFailed(f)
      /\ UNCHANGED <<link, closed, serve, active, resp, free, wire, ex, pool, mu, cache>>
  BY DEF DialFails
<1>2. ConnInv'
  BY <1>1, CalmUnchanged, StepCalm DEF Inv
<1>3. PICK n \in FillerType : /\ n.pc \in {"idle", "add"} /\ n.after = NoOne
                             /\ filler' = [filler EXCEPT ![f] = n]
  BY <1>1, ConnectEnds
<1>4. FillersPlaced' /\ UsesAdded'
  BY <1>1, <1>3, FillersStay
<1>5. DeadOut'
  BY <1>1 DEF Inv, SessionInv, DeadOut, UseFails
<1>6. SessionInv'
  BY <1>t, <1>1, <1>3, <1>4, <1>5, ConnectEnds, FillersKeep DEF SessionTypes
<1> QED
  BY <1>2, <1>6 DEF Inv

LEMMA StepLock ==
    ASSUME Inv, NEW f \in Filler, Lock(f)
    PROVE  Inv'
<1> DEFINE c == filler[f].conn
           n == [filler[f] EXCEPT !.pc = "use"]
<1>t. ConnTypes /\ SessionTypes /\ FillersPlaced /\ UsesAdded /\ DeadOut
  BY DEF Inv, ConnInv, SessionInv
<1>1. /\ filler[f].pc = "lock" /\ mu = NoOne /\ mu' = f
      /\ ex' = [ex EXCEPT ![Use(c)] = StartCall("use", c)]
      /\ UNCHANGED <<link, closed, serve, active, resp, free, wire, pool, token, query, cache>>
  BY DEF Lock
<1>2. c \in Conn
  BY <1>t, <1>1 DEF FillersPlaced, Adds
<1>3. ex[Use(c)].pc = "none"
  <2> SUFFICES ASSUME ex[Use(c)].pc # "none" PROVE FALSE
    OBVIOUS
  <2>1. PICK g \in Filler : filler[g].pc = "use" /\ filler[g].conn = c
    BY <1>t, <1>2 DEF UsesAdded
  <2> QED
    BY <1>t, <1>1, <2>1, NamesAssumption DEF FillersPlaced
<1>4. "use" \in Asked
  BY DEF Asked
<1>5. /\ StartCall("use", c) \in Call /\ StartCall("use", c).pc = "take"
      /\ StartCall("use", c).conn = c /\ StartCall("use", c).kind = "use"
  BY <1>2, <1>4, StartCallType
<1>6. ConnInv'
  <2>1. ~Holds(Use(c)) /\ Use(c) \in Process
    BY <1>2, <1>3, ProcessFacts DEF Holds
  <2> QED
    BY <1>1, <1>2, <1>4, <1>5, <2>1, CalmUnchanged, StepCalls DEF Inv
<1>7. filler' = [filler EXCEPT ![f] = n]
  BY <1>t DEF Lock, SessionTypes
<1>8. n \in FillerType /\ n.pc = "use" /\ n.conn = c /\ n.after = filler[f].after
  BY FillerFacts DEF FillerType
<1> HIDE DEF n
<1>9. filler'[f] = n /\ \A g \in Filler : g # f => filler'[g] = filler[g]
  BY <1>t, <1>7 DEF SessionTypes
<1>10. /\ ex'[Use(c)].pc = "take" /\ ex'[Use(c)].conn = c
       /\ \A d \in Conn : d # c => ex'[Use(d)] = ex[Use(d)]
       /\ \A k \in Caller : ex'[Of(k)] = ex[Of(k)]
  <2>1. \A q \in Process : q # Use(c) => ex'[q] = ex[q]
    BY <1>t, <1>1 DEF ConnTypes
  <2>2. ex'[Use(c)] = StartCall("use", c)
    BY <1>t, <1>1, <1>2, ProcessFacts DEF ConnTypes
  <2> QED
    BY <1>2, <1>5, <2>1, <2>2, ProcessFacts
<1>11. FillersPlaced'
  <2>1. \A g \in Filler : filler[g].pc # "use"
    BY <1>t, <1>1, NamesAssumption DEF FillersPlaced
  <2>2. \A g \in Filler : Adds(g)' <=> Adds(g)
    BY <1>1, <1>8, <1>9 DEF Adds
  <2> QED
    BY <1>t, <1>1, <1>8, <1>9, <2>1, <2>2 DEF FillersPlaced
<1>12. UsesAdded'
  BY <1>t, <1>1, <1>8, <1>9, <1>10 DEF UsesAdded, Placed
<1>13. DeadOut'
  BY <1>t, <1>1, <1>10 DEF DeadOut, UseFails
<1>14. SessionInv'
  BY <1>t, <1>1, <1>7, <1>8, <1>10, <1>11, <1>12, <1>13, FillersKeep DEF SessionTypes
<1> QED
  BY <1>6, <1>14 DEF Inv

LEMMA StepAddConn ==
    ASSUME Inv, NEW f \in Filler, AddConn(f)
    PROVE  Inv'
<1> DEFINE c == filler[f].conn
<1>t. ConnTypes /\ SessionTypes /\ ServedInOrder /\ FillersPlaced /\ UsesAdded /\ DeadOut
  BY DEF Inv, ConnInv, SessionInv
<1>1. /\ filler[f].pc = "use" /\ Returned(Use(c)) /\ mu' = NoOne
      /\ ex' = [ex EXCEPT ![Use(c)] = NoCall]
      /\ UNCHANGED <<link, serve, active, resp, free, wire, cache>>
  BY DEF AddConn
<1>2. /\ pool' = pool \/ (pool' = pool \cup {c} /\ ex[Use(c)].got = "use")
      /\ closed' = closed \/ Close(c)
      /\ ConnectDone(f) \/ ConnectFailed(f)
  BY DEF AddConn
<1>3. c \in Conn /\ mu = f
  BY <1>t, <1>1 DEF FillersPlaced, Adds
<1>4. PICK n \in FillerType : /\ n.pc \in {"idle", "add"} /\ n.after = NoOne
                             /\ filler' = [filler EXCEPT ![f] = n]
  BY <1>2, ConnectEnds
<1>5. filler'[f] = n /\ \A g \in Filler : g # f => filler'[g] = filler[g]
  BY <1>t, <1>4 DEF SessionTypes
<1> HIDE DEF c
<1>6. /\ ex'[Use(c)].pc = "none"
      /\ \A d \in Conn : d # c => ex'[Use(d)] = ex[Use(d)]
      /\ \A k \in Caller : ex'[Of(k)] = ex[Of(k)]
  <2>1. \A q \in Process : q # Use(c) => ex'[q] = ex[q]
    BY <1>t, <1>1 DEF ConnTypes
  <2>2. ex'[Use(c)] = NoCall
    BY <1>t, <1>1, <1>3, ProcessFacts DEF ConnTypes
  <2> QED
    BY <1>3, <2>1, <2>2, NoCallType, ProcessFacts
<1>7. ConnInv'
  <2>1. closed' \in [Conn -> BOOLEAN] /\ \A d \in Conn : closed[d] => closed'[d]
    BY <1>t, <1>2, <1>3 DEF ConnTypes, Close
  <2>2. Calm
    BY <1>t, <1>1, <2>1 DEF Calm, ConnTypes, ServedInOrder, IsRead
  <2>3. ~Holds(Use(c)) /\ Use(c) \in Process
    BY <1>1, <1>3, ProcessFacts DEF Holds, Returned
  <2> QED
    BY <1>1, <2>2, <2>3, NoCallType, StepCalls DEF Inv
(* While it holds the lock no other connection is told its keyspace. *)
<1>8. \A d \in Conn : d # c => ex[Use(d)].pc = "none"
  <2> SUFFICES ASSUME NEW d \in Conn, d # c, ex[Use(d)].pc # "none" PROVE FALSE
    OBVIOUS
  <2>1. PICK g \in Filler : filler[g].pc = "use" /\ filler[g].conn = d
    BY <1>t DEF UsesAdded
  <2>2. g = f
    BY <1>t, <1>3, <2>1 DEF FillersPlaced
  <2> QED
    BY <2>1, <2>2 DEF c
<1>9. FillersPlaced'
  <2>1. \A g \in Filler : Adds(g)' => g # f /\ Adds(g)
    BY <1>4, <1>5 DEF Adds
  <2>2. \A g \in Filler : filler'[g].pc # "use"
    BY <1>t, <1>3, <1>4, <1>5 DEF FillersPlaced
  <2> QED
    BY <1>t, <1>1, <1>5, <2>1, <2>2 DEF FillersPlaced
<1>10. UsesAdded'
  BY <1>6, <1>8 DEF UsesAdded, Placed
<1>11. DeadOut'
  <2>1. c \in pool' => c \in pool \/ ex[Use(c)].got = "use"
    BY <1>2
  <2>2. serve[c] = "done" => c \notin pool'
    BY <1>t, <1>1, <1>3, <2>1 DEF DeadOut, UseFails, Returned
  <2> QED
    BY <1>t, <1>1, <1>2, <1>6, <2>2 DEF DeadOut, UseFails
<1>12. SessionInv'
  <2>1. pool' \subseteq Conn /\ token' \in BOOLEAN /\ (query' = query \/ Resume(f))
    BY <1>t, <1>2, <1>3, ConnectEnds DEF SessionTypes
  <2> QED
    BY <1>1, <1>4, <1>6, <1>9, <1>10, <1>11, <2>1, FillersKeep
<1> QED
  BY <1>7, <1>12 DEF Inv

LEMMA FillType ==
    ASSUME NEW k \in Caller \cup {NoOne}
    PROVE  /\ [Idle EXCEPT !.pc = "fill", !.after = k] \in FillerType
           /\ [Idle EXCEPT !.pc = "fill", !.after = k].pc = "fill"
           /\ [Idle EXCEPT !.pc = "fill", !.after = k].after = k
BY IdleType DEF FillerType

LEMMA StepHandleError ==
    ASSUME Inv, NEW c \in Conn, HandleError(c)
    PROVE  Inv'
<1>t. ConnTypes /\ SessionTypes /\ ServedInOrder /\ FillersPlaced /\ UsesAdded /\ DeadOut
  BY DEF Inv, ConnInv, SessionInv
<1>1. /\ serve[c] = "report" /\ mu = NoOne
      /\ serve' = [serve EXCEPT ![c] = "done"] /\ pool' = pool \ {c}
      /\ UNCHANGED <<link, closed, active, resp, free, wire, ex, mu, token, query, cache>>
  BY DEF HandleError
<1>2. PICK f \in Filler :
        /\ filler[f].pc = "idle"
        /\ filler' = [filler EXCEPT ![f] = [Idle EXCEPT !.pc = "fill", !.after = NoOne]]
  BY FillerIsIdle DEF HandleError
<1> DEFINE n == [Idle EXCEPT !.pc = "fill", !.after = NoOne]
<1>3. n \in FillerType /\ n.pc = "fill" /\ n.after = NoOne
  BY FillType
<1>4. filler' = [filler EXCEPT ![f] = n]
  BY <1>2
<1> HIDE DEF n
<1>5. serve'[c] = "done" /\ \A d \in Conn : d # c => serve'[d] = serve[d]
  BY <1>t, <1>1 DEF ConnTypes
<1>6. ConnInv'
  <2>1. Calm
    BY <1>t, <1>1, <1>5 DEF Calm, ConnTypes, ServedInOrder, IsRead
  <2> QED
    BY <1>1, <2>1, StepCalm DEF Inv
<1>7. ex[Use(c)].pc = "none"
  <2> SUFFICES ASSUME ex[Use(c)].pc # "none" PROVE FALSE
    OBVIOUS
  <2>1. PICK g \in Filler : filler[g].pc = "use"
    BY <1>t DEF UsesAdded
  <2> QED
    BY <1>t, <1>1, <2>1, NamesAssumption DEF FillersPlaced
<1>8. DeadOut'
  BY <1>t, <1>1, <1>5, <1>7 DEF DeadOut, UseFails
<1>9. FillersPlaced' /\ UsesAdded'
  BY <1>1, <1>2, <1>3, <1>4, FillersStay
<1>10. SessionInv'
  BY <1>t, <1>1, <1>3, <1>4, <1>8, <1>9, FillersKeep DEF SessionTypes
<1> QED
  BY <1>6, <1>10 DEF Inv

LEMMA StepPick ==
    ASSUME Inv, NEW k \in Caller, Pick(k)
    PROVE  Inv'
<1>t. SessionTypes /\ QueriesPlaced /\ ResumedOnce
  BY DEF Inv, SessionInv
<1>1. /\ query[k].pc = "pick"
      /\ UNCHANGED <<connVars, pool, mu, token, cache>>
  BY DEF Pick
<1>2. ASSUME NEW pc \in {"filling", "choose"}
      PROVE  LET a == [query[k] EXCEPT !.pc = pc]
             IN  /\ a \in QueryType /\ a.pc = pc /\ a.on = NoOne
                 /\ [query EXCEPT ![k].pc = pc] = [query EXCEPT ![k] = a]
  <2>1. query[k] \in QueryType /\ query[k].on = NoOne
    BY <1>1, QueryFacts
  <2> QED
    BY <1>t, <2>1 DEF QueryType, SessionTypes
<1>3. ASSUME query' = [query EXCEPT ![k].pc = "choose"], UNCHANGED filler
      PROVE  Inv'
  <2>1. PICK a \in QueryType : a.pc = "choose" /\ a.on = NoOne /\ query' = [query EXCEPT ![k] = a]
    BY <1>2, <1>3
  <2>2. ex' = [ex EXCEPT ![Of(k)] = ex[Of(k)]]
    BY <1>1, QueryFacts DEF connVars
  <2>3. cache' \in [by : Caller, st : {"flying", "landed", "crashed"}] \cup {NoFlight}
    BY <1>t, <1>1 DEF SessionTypes
  <2> QED
    BY <1>1, <1>3, <2>1, <2>2, <2>3, QueryFacts, StepQuery DEF connVars
<1>4. ASSUME query' = [query EXCEPT ![k].pc = "filling"], StartFill(k)
      PROVE  Inv'
  <2>1. PICK a \in QueryType : a.pc = "filling" /\ a.on = NoOne /\ query' = [query EXCEPT ![k] = a]
    BY <1>2, <1>4
  <2>2. query'[k] = a /\ \A j \in Caller : j # k => query'[j] = query[j]
    BY <1>t, <2>1 DEF SessionTypes
  <2>3. PICK f \in Filler :
          /\ filler[f].pc = "idle"
          /\ filler' = [filler EXCEPT ![f] = [Idle EXCEPT !.pc = "fill", !.after = k]]
    BY <1>4, FillerIsIdle
  <2> DEFINE n == [Idle EXCEPT !.pc = "fill", !.after = k]
  <2>4. n \in FillerType /\ n.pc = "fill" /\ n.after = k /\ filler' = [filler EXCEPT ![f] = n]
    BY <2>3, FillType
  <2> HIDE DEF n
  <2>5. filler'[f] = n /\ \A g \in Filler : g # f => filler'[g] = filler[g]
    BY <1>t, <2>4 DEF SessionTypes
  <2>6. ConnInv'
    BY <1>1, CalmUnchanged, StepCalm DEF connVars, Inv
  <2>7. SessionTypes'
    BY <1>t, <1>1, <2>1, <2>4 DEF SessionTypes
  <2>8. QueriesPlaced'
    <3>1. ex' = ex /\ ex[Of(k)].pc = "none"
      BY <1>1, QueryFacts DEF connVars
    <3> QED
      BY <1>t, <2>1, <2>2, <3>1 DEF QueriesPlaced, QueryPlaced
  <2>9. FillersPlaced' /\ UsesAdded'
    BY <1>1, <2>3, <2>4, FillersStay DEF connVars
  <2>10. ResumedOnce'
    <3>1. \A g \in Filler : filler[g].after # k
      BY <1>t, <1>1, NamesAssumption DEF ResumedOnce
    <3>2. \A g \in Filler : filler[g].after \in Caller \cup {NoOne}
      BY FillerFacts DEF FillerType
    <3> QED
      BY <1>t, <2>1, <2>2, <2>4, <2>5, <3>1, <3>2 DEF ResumedOnce
  <2>11. DeadOut'
    BY <1>1 DEF connVars, Inv, SessionInv, DeadOut, UseFails
  <2> QED
    BY <2>6, <2>7, <2>8, <2>9, <2>10, <2>11 DEF Inv, SessionInv
<1> QED
  BY <1>3, <1>4 DEF Pick

-----------------------------------------------------------------------------
LEMMA StepConns ==
    ASSUME Inv, Calls \/ Serves \/ ConnFault, UNCHANGED sessionVars
    PROVE  Inv'
<1>t. /\ ConnInv /\ SessionTypes /\ QueriesPlaced /\ FillersPlaced /\ UsesAdded /\ ResumedOnce
      /\ DeadOut /\ ConnTypes
  BY DEF Inv, ConnInv, SessionInv
<1>1. UNCHANGED <<pool, mu, filler, token, query, cache>>
  BY DEF sessionVars
<1>2. /\ \A c \in Conn : serve'[c] = "done" => serve[c] = "done"
      /\ \A c \in Conn : link'[c] = "none" => link[c] = "none"
      /\ \A k \in Caller : ex[Of(k)].pc = "none" => ex'[Of(k)].pc = "none"
      /\ \A c \in Conn : ex[Use(c)].pc = "none" => ex'[Use(c)].pc = "none"
      /\ \A c \in Conn : serve[c] = "done" /\ UseFails(c) => UseFails(c)'
      /\ \A c \in Conn : Placed(Use(c))' => Placed(Use(c)) /\ ex'[Use(c)].conn = ex[Use(c)].conn
  <2>1. ASSUME NEW p \in Process, CallStep(p)
        PROVE  /\ UNCHANGED <<link, serve>> /\ ex[p].pc # "none"
               /\ \A q \in Process : q # p => ex'[q] = ex[q]
               /\ \A c \in Conn : p = Use(c) /\ serve[c] = "done" /\ ex[p].conn = c /\ UseFails(c)
                     => UseFails(c)'
    BY <1>t, <2>1, CallsKeep
  <2>2. ASSUME NEW p \in Process, CallStep(p)
        PROVE  /\ Placed(p)
               /\ Placed(p)' => ex'[p].conn = ex[p].conn
    BY <1>t, <2>2, CallPlaced
  <2>3. ASSUME NEW p \in Process, CallStep(p), NEW c \in Conn, serve[c] = "done", UseFails(c)
        PROVE  UseFails(c)'
    <3>1. CASE p = Use(c)
      BY <1>t, <2>1, <2>2, <2>3, <3>1 DEF UsesAdded
    <3>2. CASE p # Use(c)
      BY <2>1, <2>3, <3>2, ProcessFacts DEF UseFails
    <3> QED
      BY <3>1, <3>2
  <2>4. CASE Calls
    BY <2>1, <2>2, <2>3, <2>4, ProcessFacts DEF Calls, Placed
  <2>5. CASE Serves \/ ConnFault
    BY <1>t, <2>5, ServesKeep DEF Serves, Placed, UseFails
  <2> QED
    BY <2>4, <2>5
<1>3. SessionTypes' /\ ResumedOnce'
  BY <1>t, <1>1 DEF SessionTypes, ResumedOnce
<1>4. QueriesPlaced' /\ FillersPlaced'
  BY <1>t, <1>1, <1>2 DEF QueriesPlaced, QueryPlaced, FillersPlaced, Adds
<1>5. UsesAdded' /\ DeadOut'
  BY <1>t, <1>1, <1>2 DEF UsesAdded, DeadOut
<1>6. ConnInv'
  BY <1>t, StepConnPart
<1> QED
  BY <1>3, <1>4, <1>5, <1>6 DEF Inv, SessionInv

LEMMA InitInv == Init => Inv
<1> SUFFICES ASSUME Init PROVE Inv
  OBVIOUS
<1> DEFINE first == Any(Conn)
<1>1. /\ ConnInit(first) /\ first \in Conn
      /\ pool = {first} /\ mu = NoOne /\ token = TRUE
      /\ query = [k \in Caller |-> NoQuery] /\ cache = NoFlight
  BY NamesAssumption DEF Init, Any
<1> HIDE DEF first
<1>2. \A p \in Process : ex[p] = NoCall
  BY <1>1 DEF ConnInit
<1>3. ConnTypes
  BY <1>1, NoCallType, RepliesType DEF ConnInit, ConnTypes
<1>4. ConnInv
  BY <1>1, <1>2, <1>3, NoCallType
  DEF ConnInit, ConnInv, StreamsOwned, Placed, Holds, RequestsAsked, ReplyIsMine,
      WritersUnanswered, ActiveUnanswered, ServedInOrder, IsRead
<1>5. NoQuery \in QueryType /\ NoQuery.pc = "begin" /\ NoQuery.on = NoOne
  BY NumConnsAssumption DEF NoQuery, QueryType
<1>6. /\ filler \in [Filler -> FillerType]
      /\ \A f \in Filler : filler[f].pc \in {"idle", "fill"} /\ filler[f].after = NoOne
  <2> DEFINE n == [Idle EXCEPT !.pc = "fill"]
  <2>1. filler = [f \in Filler |-> IF f = Any(Filler) THEN n ELSE Idle]
    BY DEF Init
  <2>2. n \in FillerType /\ n.pc = "fill" /\ n.after = NoOne
    BY IdleType DEF FillerType
  <2> HIDE DEF n
  <2> QED
    BY <2>1, <2>2, IdleType
<1>7. SessionTypes
  BY <1>1, <1>5, <1>6 DEF SessionTypes
<1>8. QueriesPlaced
  BY <1>1, <1>2, <1>5, NoCallType, ProcessFacts DEF QueriesPlaced, QueryPlaced
<1>9. FillersPlaced /\ UsesAdded /\ ResumedOnce
  BY <1>2, <1>6, NoCallType, ProcessFacts DEF FillersPlaced, Adds, UsesAdded, Placed, ResumedOnce
<1>10. DeadOut
  <2>1. \A c \in Conn : serve[c] # "done"
    BY <1>1 DEF ConnInit
  <2> QED
    BY <2>1 DEF DeadOut
<1> QED
  BY <1>4, <1>7, <1>8, <1>9, <1>10 DEF Inv, SessionInv

LEMMA NextInv == Inv /\ [Next]_vars => Inv'
<1> SUFFICES ASSUME Inv, [Next]_vars PROVE Inv'
  OBVIOUS
<1>1. ASSUME NEW k \in Caller, Begin(k) \/ QueryStep(k) PROVE Inv'
  BY <1>1, StepBegin, StepPick, StepChoose, StepPrepare, StepPrepared, StepRemoveFlight,
     StepExecute, StepExecuted DEF QueryStep
<1>2. ASSUME NEW f \in Filler, FillStep(f) PROVE Inv'
  BY <1>2, StepFillBegins, StepDial, StepDialFails, StepLock, StepAddConn DEF FillStep
<1>3. ASSUME NEW c \in Conn, HandleError(c) PROVE Inv'
  BY <1>3, StepHandleError
<1>4. ASSUME (Calls \/ Serves \/ ConnFault) /\ UNCHANGED sessionVars PROVE Inv'
  BY <1>4, StepConns
<1>5. CASE UNCHANGED vars
  <2>1. UNCHANGED <<link, closed, serve, active, resp, free, wire, ex, pool, mu, filler, token, query, cache>>
    BY <1>5 DEF vars, connVars, sessionVars
  <2>2. ConnInv'
    BY <2>1, CalmUnchanged, StepCalm DEF Inv
  <2>3. SessionInv'
    BY <2>1 DEF Inv, SessionInv, SessionTypes, QueriesPlaced, QueryPlaced, FillersPlaced, Adds,
                UsesAdded, Placed, ResumedOnce, DeadOut, UseFails
  <2> QED
    BY <2>2, <2>3 DEF Inv
<1> QED
  BY <1>1, <1>2, <1>3, <1>4, <1>5 DEF Next

LEMMA InvHolds == Spec => []Inv
BY InitInv, NextInv, PTL DEF Spec

-----------------------------------------------------------------------------
(* The pool, the queries and the connections keep to their values. *)
THEOREM TypeCorrect == Spec => []TypeOK
<1>1. ASSUME Inv PROVE TypeOK
  <2>1. ConnTypes /\ SessionTypes
    BY <1>1 DEF Inv, ConnInv, SessionInv
  <2>2. \A f \in Filler : filler[f] \in FillerType
    BY <2>1 DEF SessionTypes
  <2>3. \A k \in Caller : query[k] \in QueryType
    BY <2>1 DEF SessionTypes
  <2> QED
    BY <2>1, <2>2, <2>3 DEF TypeOK, ConnTypes, SessionTypes, FillerType, QueryType
<1> QED
  BY <1>1, InvHolds, PTL

(* Whatever calls share a connection, in whatever order the server answers   *)
(* and whenever reading fails, a reply reaches the call that asked for it.    *)
THEOREM RepliesMatch == Spec => []ReplyIsMine
<1>1. Inv => ReplyIsMine
  BY DEF Inv, ConnInv
<1> QED
  BY <1>1, InvHolds, PTL

(* dispatch, and the failing of the calls of a connection, find the channel   *)
(* of a stream empty: the goroutine that reads is never blocked.              *)
THEOREM NeverBlocked == Spec => []ReaderNeverBlocks
<1>1. Inv => ReaderNeverBlocks
  BY DEF Inv, ConnInv, ActiveUnanswered, ReaderNeverBlocks, IsRead
<1> QED
  BY <1>1, InvHolds, PTL

(* A connection nobody reads any more is not in the pool, whether it failed   *)
(* before, while or after it was added to it.                                 *)
THEOREM DeadLeave == Spec => []DeadLeavePool
<1>1. Inv => DeadLeavePool
  BY DEF Inv, SessionInv, SessionTypes, DeadOut, DeadLeavePool
<1> QED
  BY <1>1, InvHolds, PTL
=============================================================================
