----------------------------- MODULE CqlMarshal -----------------------------
(***************************************************************************)
(* How gocql and cqlr put the fields of a Go struct into the columns of a  *)
(* row of Cassandra, and a row back into a struct.                         *)
(*                                                                         *)
(* The widths are scaled down: a byte has ByteBase values and a bigint     *)
(* BigIntLen bytes, so that int64 is -8 .. 7 and uint64 0 .. 15.  A string *)
(* is the sequence of its bytes, and so is a UUID, of UUIDLen bytes; a     *)
(* time is the number of its nanoseconds since 1970, however far away it   *)
(* is, of which NanosPerMilli make a millisecond.                          *)
(***************************************************************************)
EXTENDS Integers, SequencesExt

ByteBase == 4
BigIntLen == 2
UUIDLen == 2
NanosPerMilli == 2

Values(bytes) == ByteBase ^ bytes
MaxInt64 == Values(BigIntLen) \div 2 - 1

(* No data, which has the length -1 on the wire, and a nil pointer. *)
Null == <<-1>>

(* An error of Marshal or of Unmarshal, of a length that no data here have. *)
Failed == <<-2, -2, -2>>

IsNullData(data) == data \in {Null, <<>>}
Length(data) == IF data = Null THEN 0 ELSE Len(data)

UUID == [1 .. UUIDLen -> 0 .. ByteBase - 1]
ZeroUUID == [i \in 1 .. UUIDLen |-> 0]

-----------------------------------------------------------------------------
marshalVarchar(string) == string

unmarshalVarchar(data) == IF data = Null THEN <<>> ELSE data

(* The number that bytes make, the high one first. *)
Number(bytes) ==
    LET number[i \in 0 .. Len(bytes)] ==
            IF i = 0 THEN 0 ELSE number[i - 1] * ByteBase + bytes[i]
    IN  number[Len(bytes)]

(* Integers: two's complement, the high byte first. *)
encBigInt(x) == [i \in 1 .. BigIntLen |-> (x \div Values(BigIntLen - i)) % ByteBase]

Signed(x) == IF x > MaxInt64 THEN x - Values(BigIntLen) ELSE x

decBigInt(data) ==
    IF Length(data) # BigIntLen THEN 0
    ELSE Signed(Number(data))

(* An int64 that overflows. *)
Wrap(x) == Signed(x % Values(BigIntLen))

(* Go's division drops what is behind the point. *)
Quot(x, y) == IF x >= 0 THEN x \div y ELSE -((-x) \div y)

(* Mutant: the number is taken as it comes. *)
marshalBigIntUnchecked(x) == encBigInt(x)

(* Of a uint64. *)
marshalBigInt(x) == IF x > MaxInt64 THEN Failed ELSE encBigInt(x)

(* Into a uint64. *)
unmarshalIntlike(x) == IF x < 0 THEN Failed ELSE <<x>>

marshalTimestamp(time) == encBigInt(Quot(Wrap(time), NanosPerMilli))

(* The time is left as it was if the column is null. *)
unmarshalTimestamp(data, time) ==
    IF IsNullData(data) THEN time ELSE decBigInt(data) * NanosPerMilli

marshalUUID(uuid) == uuid

unmarshalUUID(data) ==
    CASE IsNullData(data)           -> <<ZeroUUID>>
      [] Length(data) = UUIDLen     -> <<data>>
      [] OTHER                      -> Failed

-----------------------------------------------------------------------------
(* The columns that a strategy of cqlr maps to fields, by the cql tags of    *)
(* the struct: the name of the column, its type and its field.  Only fields  *)
(* that are pointers are null when they are nil.                             *)
Column(name, type, field) == [name |-> name, type |-> type, field |-> field, pointer |-> FALSE]
NullColumn(name, type, field) == [Column(name, type, field) EXCEPT !.pointer = TRUE]

Marshal(column, value) ==
    CASE column.pointer /\ value = Null -> Null
      [] column.type = "varchar"        -> marshalVarchar(value)
      [] column.type = "bigint"         -> marshalBigInt(value)
      [] column.type = "timestamp"      -> marshalTimestamp(value)
      [] column.type = "uuid"           -> marshalUUID(value)

(* Mutant: a nullable value that is null is left as it was. *)
unmarshalNullableKeeps(data, old) == IF IsNullData(data) THEN <<old>> ELSE unmarshalUUID(data)

(* A pointer to a UUID: nil if there are no data, or else a new one. *)
unmarshalNullable(data, old) == IF IsNullData(data) THEN <<Null>> ELSE unmarshalUUID(data)

(* <<the new value of the field>>, or Failed. *)
Unmarshal(column, data, old) ==
    CASE column.pointer             -> unmarshalNullable(data, old)
      [] column.type = "varchar"    -> <<unmarshalVarchar(data)>>
      [] column.type = "bigint"     -> unmarshalIntlike(decBigInt(data))
      [] column.type = "timestamp"  -> <<unmarshalTimestamp(data, old)>>
      [] OTHER                       -> unmarshalUUID(data)

-----------------------------------------------------------------------------
(* Binding.bind and Conn.executeQuery: the values of a row, or Failed if one *)
(* of them has no encoding, in which case nothing is sent.                   *)
Bind(columns, struct) ==
    LET Data(c) == Marshal(c, struct[c.field])
    IN  IF \E i \in DOMAIN columns : Data(columns[i]) = Failed THEN Failed
        ELSE [i \in DOMAIN columns |-> Data(columns[i])]

(* Iter.Scan: column after column is stored in its field; the first that     *)
(* cannot be is the end of the iteration, and the fields before it are       *)
(* changed.                                                                  *)
ScanColumn(done, column, data) ==
    IF ~done.ok THEN done
    ELSE LET value == Unmarshal(column, data, done.struct[column.field])
         IN  IF value = Failed THEN [done EXCEPT !.ok = FALSE]
             ELSE [done EXCEPT !.struct = [@ EXCEPT ![column.field] = value[1]]]

Scan(columns, row, struct) ==
    LET done[i \in 0 .. Len(columns)] ==
            IF i = 0 THEN [ok |-> TRUE, struct |-> struct]
            ELSE ScanColumn(done[i - 1], columns[i], row[i])
    IN  done[Len(columns)]
=============================================================================
