----------------------------- MODULE CqlFrames ------------------------------
(***************************************************************************)
(* The frames that carry statements, their values and the rows of a result *)
(* between gocql and Cassandra, in version 2 of the protocol.              *)
(*                                                                         *)
(* A byte of a number has ByteBase values.  A name is one byte of its own  *)
(* kind, opcodes and kinds are the numbers of the protocol, and so are the *)
(* codes of errors, without the two zeros that they end in.                *)
(***************************************************************************)
EXTENDS CqlMarshal

protoRequest == 2
protoResponse == 130
opError == 0
opReady == 2
opAuthenticate == 3
opSupported == 6
opResult == 8
opPrepare == 9
opExecute == 10
opAuthChallenge == 14
opAuthSuccess == 16
resultKindVoid == 1
resultKindRows == 2
resultKindKeyspace == 3
resultKindPrepared == 4
resultKindSchemaChanged == 5
Quorum == 4

headerSize == 8
IntLen == 4
ShortLen == 2

TypeCode == [varchar |-> 13, bigint |-> 2, timestamp |-> 11, uuid |-> 12]

-----------------------------------------------------------------------------
writeInt(x) == [i \in 1 .. IntLen |-> (x \div Values(IntLen - i)) % ByteBase]
writeShort(x) == [i \in 1 .. ShortLen |-> (x \div Values(ShortLen - i)) % ByteBase]
writeString(s) == writeShort(Len(s)) \o s
writeLongString(s) == writeInt(Len(s)) \o s
writeShortBytes(v) == writeShort(Len(v)) \o v
writeBytes(v) == IF v = Null THEN writeInt(-1) ELSE writeInt(Len(v)) \o v

Concat(parts) == FoldLeft(LAMBDA f, part : f \o part, <<>>, parts)

(* setHeader, and setLength in exec.  Nothing here looks at flags and stream. *)
Framed(version, op, body) == <<version, 0, 0, op>> \o writeInt(Len(body)) \o body

prepareFrame(stmt) == Framed(protoRequest, opPrepare, writeLongString(stmt))

(* Of a statement that is prepared; horae does not page. *)
queryFrame(prepared, values) ==
    Framed(protoRequest, opExecute,
        writeShortBytes(prepared) \o writeShort(Quorum) \o
        IF values = <<>> THEN <<0>>
        ELSE <<1>> \o writeShort(Len(values))
                   \o Concat([i \in DOMAIN values |-> writeBytes(values[i])]))

-----------------------------------------------------------------------------
(* What is read at the beginning of f. *)
Length32(f) == Number(SubSeq(f, 1, IntLen))
readInt(f) ==
    IF Length32(f) >= Values(IntLen) \div 2 THEN Length32(f) - Values(IntLen) ELSE Length32(f)
readShort(f) == Number(SubSeq(f, 1, ShortLen))
readBytes(f) == IF readInt(f) < 0 THEN Null ELSE SubSeq(f, IntLen + 1, IntLen + readInt(f))
readShortBytes(f) == SubSeq(f, ShortLen + 1, ShortLen + readShort(f))
readString(f) == readShortBytes(f)

(* Of a type without parameters. *)
readTypeInfo(f) == CHOOSE type \in DOMAIN TypeCode : TypeCode[type] = readShort(f)

ReadByKind(f, kind) ==
    CASE kind = "byte"   -> f[1]
      [] kind = "int"    -> readInt(f)
      [] kind = "short"  -> readShort(f)
      [] kind = "string" -> readString(f)
      [] kind = "id"     -> readShortBytes(f)
      [] kind = "bytes"  -> readBytes(f)
      [] kind = "type"   -> readTypeInfo(f)

(* The bytes that a field takes, once what says so is there. *)
SizeOf(f, kind) ==
    CASE kind = "byte" -> 1
      [] kind \in {"short", "type"} -> ShortLen
      [] kind = "int" -> IntLen
      [] kind \in {"string", "id"} ->
            IF Len(f) < ShortLen THEN ShortLen ELSE ShortLen + readShort(f)
      [] kind = "bytes" ->
            IF Len(f) < IntLen \/ readInt(f) < 0 THEN IntLen ELSE IntLen + readInt(f)

(* A field is taken off the frame; one that is not whole is a panic, from    *)
(* which decodeFrame recovers with an error of the protocol.                 *)
ReadField(cursor, kind) ==
    LET f == cursor.rest
    IN  IF ~cursor.ok \/ Len(f) < SizeOf(f, kind) THEN [cursor EXCEPT !.ok = FALSE]
        ELSE [cursor EXCEPT !.rest = SubSeq(f, SizeOf(f, kind) + 1, Len(f)),
                            !.read = Append(@, ReadByKind(f, kind))]

(* The fields of these kinds, at the beginning of f. *)
ReadFields(f, kinds) == FoldLeft(ReadField, [ok |-> TRUE, read |-> <<>>, rest |-> f], kinds)

Times(n, kinds) == Concat([i \in 1 .. n |-> kinds])

ErrProtocol == [kind |-> "protocol error"]

(* flags: 1 for one keyspace and table of all columns, and 2 for a page. *)
MetaDataKinds(flags) ==
    (IF flags \div 2 % 2 = 1 THEN <<"bytes">> ELSE <<>>)
        \o (IF flags % 2 = 1 THEN <<"string", "string">> ELSE <<>>)
ColumnKinds(flags) ==
    (IF flags % 2 = 1 THEN <<>> ELSE <<"string", "string">>) \o <<"string", "type">>

(* The name and type are the last two fields of each column. *)
readMetaData(f) ==
    LET head == ReadFields(f, <<"int", "int">>)
        kinds == ColumnKinds(head.read[1])
        common == ReadFields(head.rest, MetaDataKinds(head.read[1]))
        each == ReadFields(common.rest, Times(head.read[2], kinds))
        Of(i, k) == each.read[(i - 1) * Len(kinds) + Len(kinds) - k]
    IN  IF ~head.ok \/ ~common.ok \/ ~each.ok THEN [ok |-> FALSE]
        ELSE [ok |-> TRUE, rest |-> each.rest,
              columns |-> [i \in 1 .. head.read[2] |-> [name |-> Of(i, 1), type |-> Of(i, 0)]]]

(* The values of all rows follow one another. *)
readRows(f) ==
    LET meta == readMetaData(f)
        width == Len(meta.columns)
        count == ReadFields(meta.rest, <<"int">>)
        cells == ReadFields(count.rest, Times(count.read[1] * width, <<"bytes">>))
    IN  IF ~meta.ok \/ ~count.ok \/ ~cells.ok THEN ErrProtocol
        ELSE [kind |-> "rows", columns |-> meta.columns,
              rows |-> [i \in 1 .. count.read[1] |->
                           SubSeq(cells.read, (i - 1) * width + 1, i * width)]]

readPrepared(f) ==
    LET id == ReadFields(f, <<"id">>)
        args == readMetaData(id.rest)
        results == readMetaData(args.rest)
    IN  IF ~id.ok \/ ~args.ok \/ ~results.ok THEN ErrProtocol
        ELSE [kind |-> "prepared", id |-> id.read[1], columns |-> args.columns]

(* An answer of one field. *)
ReadOne(f, field, kind) == IF ReadFields(f, <<field>>).ok THEN [kind |-> kind] ELSE ErrProtocol

readResult(f) ==
    LET head == ReadFields(f, <<"int">>)
        kind == head.read[1]
    IN  IF ~head.ok THEN ErrProtocol
        ELSE CASE kind \in {resultKindVoid, resultKindSchemaChanged} -> [kind |-> "void"]
               [] kind = resultKindKeyspace -> ReadOne(head.rest, "string", "keyspace")
               [] kind = resultKindRows     -> readRows(head.rest)
               [] kind = resultKindPrepared -> readPrepared(head.rest)
               [] OTHER                     -> ErrProtocol

(* What an error says besides its code and message, which nobody looks at.   *)
(* (The byte of errReadTimeout is read without a look at the length, which   *)
(* matters only if Cassandra leaves it out.)                                 *)
errUnavailable == 16
errWriteTimeout == 17
errReadTimeout == 18
errAlreadyExists == 36
errUnprepared == 37
ErrorKinds(code) ==
    CASE code = errUnavailable   -> <<"short", "int", "int">>
      [] code = errWriteTimeout  -> <<"short", "int", "int", "string">>
      [] code = errReadTimeout   -> <<"short", "int", "int", "byte">>
      [] code = errAlreadyExists -> <<"string", "string">>
      [] code = errUnprepared    -> <<"id">>
      [] OTHER                   -> <<>>

readError(f) ==
    LET head == ReadFields(f, <<"int", "string">>)
    IN  IF ~head.ok \/ ~ReadFields(head.rest, ErrorKinds(head.read[1])).ok THEN ErrProtocol
        ELSE [kind |-> "error", code |-> head.read[1]]

decodeFrame(f) ==
    LET body == SubSeq(f, headerSize + 1, Len(f))
    IN  IF Len(f) < headerSize \/ f[1] # protoResponse THEN ErrProtocol
        ELSE CASE f[4] = opReady         -> [kind |-> "ready"]
               [] f[4] = opResult        -> readResult(body)
               [] f[4] = opAuthenticate  -> ReadOne(body, "string", "authenticate")
               [] f[4] = opAuthChallenge -> ReadOne(body, "bytes", "challenge")
               [] f[4] = opAuthSuccess   -> ReadOne(body, "bytes", "success")
               [] f[4] = opSupported     -> [kind |-> "supported"]
               [] f[4] = opError         -> readError(body)
               [] OTHER                  -> ErrProtocol

(* recv: the first frame of what arrives, once all of it has arrived. *)
recv(bytes) ==
    LET size == headerSize + Length32(SubSeq(bytes, 5, headerSize))
    IN  IF Len(bytes) < headerSize \/ Len(bytes) < size THEN <<>> ELSE SubSeq(bytes, 1, size)

-----------------------------------------------------------------------------
(* What Cassandra makes of a request, and how it answers one. *)
MetaData(columns) ==
    writeInt(1) \o writeInt(Len(columns)) \o writeString(<<"keyspace">>) \o writeString(<<"table">>)
        \o Concat([i \in DOMAIN columns |->
               writeString(<<columns[i].name>>) \o writeShort(TypeCode[columns[i].type])])

RowsAnswer(columns, rows) ==
    Framed(protoResponse, opResult, writeInt(resultKindRows) \o MetaData(columns) \o writeInt(Len(rows))
        \o Concat([r \in DOMAIN rows |-> Concat([i \in DOMAIN rows[r] |-> writeBytes(rows[r][i])])]))

PreparedAnswer(columns) ==
    Framed(protoResponse, opResult, writeInt(resultKindPrepared) \o writeShortBytes(<<0>>)
        \o MetaData(columns) \o MetaData(<<>>))

ErrorAnswer(code, more) ==
    Framed(protoResponse, opError, writeInt(code) \o writeString(<<"message">>) \o more)

(* The values of an EXECUTE. *)
ValuesOf(request) ==
    LET head == ReadFields(SubSeq(request, headerSize + 1, Len(request)), <<"id", "short", "byte">>)
        count == ReadFields(head.rest, <<"short">>)
    IN  IF head.read[3] = 0 THEN <<>>
        ELSE ReadFields(count.rest, Times(count.read[1], <<"bytes">>)).read

-----------------------------------------------------------------------------
(* The columns that a result or a statement names, as cqlr finds their       *)
(* fields, with the types that Cassandra says they have.                     *)
Matched(columns, named) ==
    [i \in DOMAIN named |->
        [(CHOOSE c \in Range(columns) : <<c.name>> = named[i].name) EXCEPT !.type = named[i].type]]

(* Conn.executeQuery, of a statement that writes a row: it is prepared, the  *)
(* values are encoded as the types of its arguments say and executed with.   *)
(* What Cassandra has then, or Failed.                                       *)
Written(columns, struct) ==
    LET statement == decodeFrame(recv(PreparedAnswer(columns)))
        values == Bind(Matched(columns, statement.columns), struct)
    IN  IF values = Failed THEN Failed ELSE ValuesOf(queryFrame(statement.id, values))

(* Of one that reads: the rows of an iterator. *)
Rows(columns, rows) == decodeFrame(recv(RowsAnswer(columns, rows))).rows
=============================================================================
