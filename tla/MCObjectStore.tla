---------------------------- MODULE MCObjectStore ----------------------------
(***************************************************************************)
(* ObjectStore, for TLC: two tasks that are there, one that may be         *)
(* created, and what the requests say of them.                             *)
(***************************************************************************)
EXTENDS ObjectStore, CqlFrames

MCTask == {<<0, 1>>, <<0, 2>>, <<0, 3>>}
MCAction == {<<1, 0>>}

(* Both have a tag, and one a promise. *)
TwoTasks == (<<0, 2>> :> [priority |-> 7, promise |-> <<1, 0>>, when |-> 4, tags |-> <<"a", "b">>])
         @@ (<<0, 3>> :> [priority |-> 0, when |-> 6, tags |-> <<"a">>])

(* A priority above MaxInt64, other tags, and a time with half a millisecond. *)
Bodies == {[priority |-> 9, tags |-> <<"b">>], [tags |-> <<"b", "a">>], [when |-> 5, promise |-> <<1, 0>>]}

(* A time too far away for its nanoseconds. *)
FarAway == {[when |-> 9]}

(* Two handlers that want different tags, of tasks without any. *)
Untagged == [o \in DOMAIN TwoTasks |-> [TwoTasks[o] EXCEPT !.tags = <<>>]]
OneTag == {[tags |-> <<"a">>], [tags |-> <<"b">>]}

(* The second task has no time. *)
Second == {<<0, 3>>}

(* The times of the run fit. *)
ASSUME RunTimesFit == Body = Bodies /\ Unscheduled = {} => TimesFit

-----------------------------------------------------------------------------
(* The frames, over small answers. *)
Cells == {Null, <<>>, <<1>>, <<2, 3>>}
RowsOf(width) == {<<>>} \cup {<<r>> : r \in [1 .. width -> Cells]}
                      \cup {<<r, r>> : r \in [1 .. width -> Cells]}
NoArgument == <<>>
SmallAnswers ==
    {RowsAnswer(SubSeq(TaskColumns, 1, 2), rs) : rs \in RowsOf(2)}
        \cup {RowsAnswer(NoArgument, <<>>), PreparedAnswer(TaskColumns), PreparedAnswer(NoArgument)}
        \cup {ErrorAnswer(errUnprepared, writeShortBytes(<<1>>)), ErrorAnswer(errUnavailable,
                writeShort(Quorum) \o writeInt(2) \o writeInt(1)), ErrorAnswer(0, <<>>)}

(* What follows a frame on a connection is no part of it, and a frame that   *)
(* has not arrived as a whole is not one.                                    *)
ASSUME FramesAreTold ==
    \A f \in SmallAnswers :
        /\ recv(f \o prepareFrame(<<"statement">>)) = f
        /\ \A n \in 0 .. Len(f) - 1 : recv(SubSeq(f, 1, n)) = <<>>

(* A row that is written, or that a query reads, is on the other side what   *)
(* it was: of any values, null and empty ones too, and of every task that    *)
(* the requests can ask for.  ObjectStore may leave the frames out.          *)
TasksAskedFor == {Repair(Decode(b, NewStruct("task"))) : b \in Bodies \cup Range(TwoTasks)}

ASSUME RowsAreKept ==
    /\ \A rs \in RowsOf(2) : Rows(SubSeq(TaskColumns, 1, 2), rs) = rs
    /\ \A values \in [1 .. 3 -> Cells] : ValuesOf(queryFrame(<<1>>, values)) = values
    /\ \A t \in TasksAskedFor : Written(TaskColumns, t) = Bind(TaskColumns, t)

(* An answer that is cut short is an error of the protocol. *)
ASSUME CutShortIsAnError ==
    \A f \in SmallAnswers : \A n \in 0 .. Len(f) - 1 :
        decodeFrame(SubSeq(f, 1, n)).kind = "protocol error"

ASSUME AnswersAreDecoded == \A f \in SmallAnswers : decodeFrame(f).kind # "protocol error"
=============================================================================
