---------------------------- MODULE MysqlPackets ----------------------------
(***************************************************************************)
(* The encodings of net/mysql_communicator.cpp, as sequences of bytes, and  *)
(* the reader of the MySQL protocol that they are meant for.                *)
(***************************************************************************)
EXTENDS Integers, Sequences, SequencesExt

CONSTANTS LengthValues   \* integers that are encoded

VARIABLE encoded         \* a value and its encodings

Byte(value, i) == (value \div 256 ^ i) % 256
StoreInt(value, width) == [i \in 1 .. width |-> Byte(value, i - 1)]

\* A mutant: the high byte first.
StoreLenencIntMut(value) ==
    IF value < 251 THEN StoreInt(value, 1)
    ELSE IF value < 2 * 65536 THEN <<252, Byte(value, 1), Byte(value, 0)>>
    ELSE IF value < 2 * 16777216 THEN <<253>> \o StoreInt(value, 3)
    ELSE <<254>> \o StoreInt(value, 4) \o StoreInt(0, 4)

\* store_lenenc_int, whose limits are 2UL << 16 and 2UL << 24 (values here fit
\* in 31 bits).
StoreLenencInt(value) ==
    IF value < 251 THEN StoreInt(value, 1)
    ELSE IF value < 2 * 65536 THEN <<252>> \o StoreInt(value, 2)
    ELSE IF value < 2 * 16777216 THEN <<253>> \o StoreInt(value, 3)
    ELSE <<254>> \o StoreInt(value, 4) \o StoreInt(0, 4)

LenencString(s) == StoreLenencInt(Len(s)) \o s
NullTerminated(s) == IF s = <<>> THEN <<>> ELSE s \o <<0>>
Letters(n) == [i \in 1 .. n |-> 65 + (i % 26)]

\* The packets, from the fields that vary: a header whose length and number
\* come first, then the payload.
Pack(number, payload) == StoreInt(Len(payload), 3) \o <<number>> \o payload
OkPacket(number, affected, info) ==
    Pack(number, <<0>> \o StoreLenencInt(affected) \o StoreLenencInt(0)
                     \o StoreInt(34, 2) \o StoreInt(0, 2)
                     \o StoreLenencInt(Len(info)) \o info)
EofPacket(number) == Pack(number, <<254>> \o StoreInt(0, 2) \o StoreInt(34, 2))
ErrPacket(number, code, message) ==
    Pack(number, <<255>> \o StoreInt(code, 2) \o <<35, 72, 89, 48, 48, 48>> \o message)

\* The server's greeting: version and salts are constants of those lengths.
HandshakeV10(number) ==
    Pack(number, <<10>> \o NullTerminated(Letters(6)) \o StoreInt(21501807, 4)
                      \o NullTerminated(Letters(8)) \o StoreInt(63455, 2) \o <<83>>
                      \o StoreInt(0, 2) \o StoreInt(0, 2) \o StoreInt(0, 1)
                      \o [i \in 1 .. 10 |-> 0] \o NullTerminated(Letters(12)))
ColumnDefinition(number, table, name) ==
    Pack(number, LenencString(<<100, 101, 102>>) \o LenencString(<<115, 121, 115>>)
                      \o LenencString(table) \o LenencString(table)
                      \o LenencString(name) \o LenencString(name)
                      \o StoreLenencInt(12) \o StoreInt(33, 2) \o StoreInt(16384, 4)
                      \o <<253>> \o StoreInt(0, 2) \o <<31>> \o StoreInt(0, 2))
ResultRow(number, cells) == Pack(number, FlattenSeq([i \in DOMAIN cells |-> LenencString(cells[i])]))

\* The reader: the length of a length-encoded integer and its value.
Width(bytes) == CASE bytes[1] < 251 -> 0 [] bytes[1] = 252 -> 2
                  [] bytes[1] = 253 -> 3 [] OTHER -> 8
RECURSIVE ReadInt(_, _)
ReadInt(bytes, width) ==
    IF width = 0 THEN 0
    ELSE bytes[1] + 256 * ReadInt(Tail(bytes), IF width > 4 THEN 3 ELSE width - 1)
ReadLenencInt(bytes) ==
    IF Width(bytes) = 0 THEN bytes[1] ELSE ReadInt(Tail(bytes), Width(bytes))
ReadLength(packet) == ReadInt(packet, 3)
RECURSIVE ReadStrings(_, _)
ReadStrings(bytes, n) ==
    IF n = 0 THEN <<>>
    ELSE LET first == IF Width(bytes) = 0 THEN 2 ELSE 2 + Width(bytes)
             end   == first + ReadLenencInt(bytes)
         IN  <<SubSeq(bytes, first, end - 1)>> \o ReadStrings(SubSeq(bytes, end, Len(bytes)), n - 1)
Payload(packet) == SubSeq(packet, 5, Len(packet))
\* Where a string that ends with a zero ends.
ReadToZero(bytes) == CHOOSE n \in DOMAIN bytes : bytes[n] = 0 /\ \A i \in 1 .. n - 1 : bytes[i] # 0

Nothing == [value |-> -1]
PacketsInit == encoded = Nothing

Encode(value) ==
    \E number \in {value % 256}, info \in {[i \in 1 .. value % 3 |-> 65]} :
        encoded' = [value |-> value, bytes |-> StoreLenencInt(value),
                    ok |-> OkPacket(number, value, info),
                    eof |-> EofPacket(number),
                    err |-> ErrPacket(number, value % 65536, info),
                    handshake |-> HandshakeV10(number),
                    column |-> ColumnDefinition(number, Letters(value % 260), info),
                    row |-> ResultRow(number, <<info, Letters(value % 260), <<>>>>)]

\* The functions keep nothing from one call to the next: one call is enough.
PacketsNext == encoded = Nothing /\ \E v \in LengthValues : Encode(v)

\* A reader of the protocol finds the value that was stored, each packet as
\* long as its header says with the number that it was given, and the strings
\* of the greeting, of column definitions and of rows where they are expected.
\* (From 65536 up to 131071 and from 2^24 up to 2^25 - 1 store_lenenc_int
\* stores too few bytes; LengthValues of the passing run leaves them out.)
EncodingsReadBack ==
    encoded.value >= 0 =>
        LET cell == Letters(encoded.value % 260)
            info == [i \in 1 .. encoded.value % 3 |-> 65]
        IN  /\ ReadLenencInt(encoded.bytes) = encoded.value
            /\ \A p \in {encoded.ok, encoded.eof, encoded.err, encoded.handshake,
                         encoded.column, encoded.row} :
                   Len(p) = ReadLength(p) + 4 /\ p[4] = encoded.value % 256
            /\ ReadLenencInt(SubSeq(encoded.ok, 6, Len(encoded.ok))) = encoded.value
            /\ ReadToZero(SubSeq(Payload(encoded.handshake), 2, 20)) = 7
            /\ ReadStrings(Payload(encoded.column), 6)
                   = <<<<100, 101, 102>>, <<115, 121, 115>>, cell, cell, info, info>>
            /\ ReadStrings(Payload(encoded.row), 3) = <<info, cell, <<>>>>
=============================================================================
