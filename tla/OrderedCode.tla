---------------------------- MODULE OrderedCode ----------------------------
(* The order preserving encoding of keys (storage/common/codec.h): integers, *)
(* floats and strings are written so that comparing the bytes compares the   *)
(* values. A 64-bit number is the sequence of its significant bytes, highest *)
(* first; an int64_t is its sign and the bytes of x, or of ~x below zero; a  *)
(* double is its sign bit and the bytes of the other 63 bits.                *)
EXTENDS Integers, Sequences, FiniteSets, FiniteSetsExt, SequencesExt

CONSTANTS Magnitudes,  \* significant bytes of the numbers, at most 63 bits
          Strings      \* sequences of bytes

VARIABLES coded, another  \* values of one kind
codeVars == <<coded, another>>

\* all exponent bits set and a fraction: append refuses it
IsNan(m) == Len(m) = 8 /\ m[1] = 127 /\ m[2] >= 240 /\ (m[2] > 240 \/ \E i \in 3 .. 8 : m[i] # 0)

CodeKinds == {"uint64", "int64", "float64", "string"}
ValuesOf(kind) ==
    CASE kind = "uint64" -> Magnitudes
      [] kind = "int64" -> [neg : BOOLEAN, mag : Magnitudes]
      [] kind = "float64" -> [neg : BOOLEAN, mag : {m \in Magnitudes : ~IsNan(m)}]
      [] OTHER -> Strings

----------------------------------------------------------------------------
Term == <<0, 1>>
Lit00 == <<0, 255>>
LitFF == <<255, 0>>
Msb == <<0, 128, 192, 224, 240, 248, 252, 254>>

\* decreasing order: every byte is inverted
Invert(s) == [i \in DOMAIN s |-> 255 - s[i]]
Xor(byte, dir) == IF dir = "decreasing" THEN 255 - byte ELSE byte
Flip(dir) == IF dir = "decreasing" THEN "increasing" ELSE "decreasing"
From(s, i) == SubSeq(s, i, Len(s))

AppendUint(x) == <<Len(x)>> \o x

\* the mutant leaves out the byte of ones
AppendMagnitudeMut(x) ==
    LET n == IF Len(x) + 1 > 7 THEN Len(x) - 6 ELSE Len(x) + 1
    IN  IF x[1] < 2 ^ (8 - n) THEN <<x[1] + Msb[n]>> \o Tail(x) ELSE <<Msb[n + 1]>> \o x
\* n counts the bytes and the unary length in front of them; a length above
\* seven is written as a byte of ones and the rest
AppendMagnitude(x) ==
    LET long == Len(x) + 1 > 7
        n    == Len(x) + 1 - (IF long THEN 7 ELSE 0)
        \* the first byte has room for the length when its top n bits are free
        body == IF x[1] < 2 ^ (8 - n) THEN <<x[1] + Msb[n]>> \o Tail(x) ELSE <<Msb[n + 1]>> \o x
    IN  (IF long THEN <<255>> ELSE <<>>) \o body
AppendInt(x) ==
    LET small == x.mag = <<>> \/ (Len(x.mag) = 1 /\ x.mag[1] < 64)
        low   == IF x.mag = <<>> THEN 0 ELSE x.mag[1]
    IN  IF small THEN <<IF x.neg THEN 127 - low ELSE 128 + low>>
        ELSE IF x.neg THEN Invert(AppendMagnitude(x.mag)) ELSE AppendMagnitude(x.mag)

Strip(s) == LET i == SelectInSeq(s, LAMBDA b : b # 0) IN IF i = 0 THEN <<>> ELSE From(s, i)
\* one less, and one more, of a number
Decrement(x) ==
    LET i == Max({k \in DOMAIN x : x[k] # 0})
    IN  Strip([k \in DOMAIN x |-> IF k < i THEN x[k] ELSE IF k = i THEN x[k] - 1 ELSE 255])
Increment(x) ==
    LET free == {k \in DOMAIN x : x[k] # 255}
        y    == [k \in DOMAIN x |-> IF free = {} \/ k > Max(free) THEN 0 ELSE IF k = Max(free) THEN x[k] + 1 ELSE x[k]]
    IN  IF free = {} THEN <<1>> \o y ELSE y

\* the bits of a double as an int64_t in the order of the doubles
FloatBits(x) == IF x.neg /\ x.mag # <<>> THEN [neg |-> TRUE, mag |-> Decrement(x.mag)] ELSE [neg |-> FALSE, mag |-> x.mag]
AppendFloat(x) == AppendInt(FloatBits(x))

\* the mutant leaves a 0xff of the string as it is
AppendStringMut(x) ==
    FlattenSeq([i \in DOMAIN x |-> IF x[i] = 0 THEN Lit00 ELSE <<x[i]>>]) \o Term
AppendString(x) ==
    FlattenSeq([i \in DOMAIN x |-> CASE x[i] = 0 -> Lit00 [] x[i] = 255 -> LitFF [] OTHER -> <<x[i]>>]) \o Term

EncodeValue(kind, x) ==
    CASE kind = "uint64" -> AppendUint(x) [] kind = "int64" -> AppendInt(x)
      [] kind = "float64" -> AppendFloat(x) [] OTHER -> AppendString(x)

----------------------------------------------------------------------------
Bad == [ok |-> FALSE]
Read(value, rest) == [ok |-> TRUE, value |-> value, rest |-> rest]

ParseUint(s, dir) ==
    IF s = <<>> \/ Xor(s[1], dir) > 8 \/ Len(s) < 1 + Xor(s[1], dir) THEN Bad
    ELSE LET n == Xor(s[1], dir)
         IN  Read(Strip([i \in 1 .. n |-> Xor(s[1 + i], dir)]), From(s, n + 2))

LeadingOnes(c) == Max({k \in 0 .. 8 : c >= 256 - 2 ^ (8 - k)})
ParseInt(s, dir) ==
    LET first == Xor(s[1], dir)
        neg   == first < 128
        way   == IF neg THEN Flip(dir) ELSE dir
        long  == Xor(s[1], way) = 255
        t     == IF long THEN Tail(s) ELSE s
        c     == Xor(t[1], way)
        ones  == LeadingOnes(c)
        n     == ones + (IF long THEN 7 ELSE 0)
    IN  CASE s = <<>> -> Bad
          [] s # <<>> /\ first \in 64 .. 191 ->
               Read([neg |-> first < 128, mag |-> Strip(<<IF first < 128 THEN 127 - first ELSE first - 128>>)], Tail(s))
          [] s # <<>> /\ first \notin 64 .. 191 /\ long /\ (Len(s) = 1 \/ c > 192) -> Bad
          [] s # <<>> /\ first \notin 64 .. 191 /\ ~(long /\ (Len(s) = 1 \/ c > 192)) /\ Len(t) < n -> Bad
          [] OTHER ->
               Read([neg |-> neg, mag |-> Strip(<<c - (256 - 2 ^ (8 - ones))>> \o [i \in 1 .. n - 1 |-> Xor(t[i + 1], way)])],
                    From(t, n + 1))

ParseFloat(s, dir) ==
    LET i == ParseInt(s, dir)
    IN  IF i.ok /\ i.value.neg THEN [i EXCEPT !.value = [neg |-> TRUE, mag |-> Increment(@.mag)]] ELSE i

RECURSIVE ParseString(_, _)
ParseString(s, dir) ==
    LET two  == Len(s) >= 2
        here == IF s = <<>> THEN -1 ELSE Xor(s[1], dir)
        next == IF two THEN Xor(s[2], dir) ELSE -1
        more == IF here \in {0, 255} THEN ParseString(From(s, 3), dir) ELSE ParseString(Tail(s), dir)
        Join == IF more.ok THEN Read(<<here>> \o more.value, more.rest) ELSE Bad
    IN  CASE here = -1 -> Bad
          [] here = 0 /\ next = 1 -> Read(<<>>, From(s, 3))
          [] here = 0 /\ next = 255 -> Join
          [] here = 255 /\ next = 0 -> Join
          [] here \in 1 .. 254 -> Join
          [] OTHER -> Bad

Parse(kind, s, dir) ==
    CASE kind = "uint64" -> ParseUint(s, dir) [] kind = "int64" -> ParseInt(s, dir)
      [] kind = "float64" -> ParseFloat(s, dir) [] OTHER -> ParseString(s, dir)

----------------------------------------------------------------------------
TablePrefix == <<116>>
RowkeyPrefix == <<114>>
\* the mutant writes the table as an unsigned number
EncodeTablePrefixMut(table) == AppendString(TablePrefix) \o AppendInt([table EXCEPT !.neg = FALSE]) \o AppendString(RowkeyPrefix)
EncodeTablePrefix(table) == AppendString(TablePrefix) \o AppendInt(table) \o AppendString(RowkeyPrefix)
EncodeKey(table, rid) == EncodeTablePrefix(table) \o AppendUint(rid)
DecodeKey(key) == LET prefix == ParseString(key, "increasing") IN ParseInt(prefix.rest, "increasing")

----------------------------------------------------------------------------
CodeInit == \E kind \in CodeKinds : \E x \in ValuesOf(kind) : coded = [kind |-> kind, value |-> x] /\ another = x
Compare == another = coded.value /\ \E y \in ValuesOf(coded.kind) : another' = y /\ UNCHANGED coded
CodeNext == Compare

BytesLess(s, t) ==
    LET n == Min({Len(s), Len(t)})
        d == {i \in 1 .. n : s[i] # t[i]}
    IN  IF d = {} THEN Len(s) < Len(t) ELSE s[Min(d)] < t[Min(d)]
MagnitudeLess(x, y) == Len(x) < Len(y) \/ (Len(x) = Len(y) /\ BytesLess(x, y))
SignedLess(x, y) ==
    CASE x.neg /\ ~y.neg -> TRUE [] ~x.neg /\ y.neg -> FALSE
      [] x.neg /\ y.neg -> MagnitudeLess(y.mag, x.mag) [] OTHER -> MagnitudeLess(x.mag, y.mag)
\* below zero a double counts downwards from -0, which equals 0
FloatLess(x, y) == (x.mag # <<>> \/ y.mag # <<>>) /\ SignedLess(x, y)
ValueLess(kind, x, y) ==
    CASE kind = "uint64" -> MagnitudeLess(x, y) [] kind = "int64" -> SignedLess(x, y)
      [] kind = "float64" -> FloatLess(x, y) [] OTHER -> BytesLess(x, y)

(* Comparing encodings as bytes compares the values, and inverted encodings  *)
(* compare the other way round, at every change of length (codec.h:71-159).  *)
EncodingKeepsOrder ==
    LET k == coded.kind  x == coded.value  y == another IN
    /\ ValueLess(k, x, y) <=> BytesLess(EncodeValue(k, x), EncodeValue(k, y))
    /\ ValueLess(k, x, y) <=> BytesLess(Invert(EncodeValue(k, y)), Invert(EncodeValue(k, x)))

(* A value read back from its encoding is the value, and what follows it is  *)
(* left, in increasing and in decreasing order; only -0 comes back as 0.     *)
EncodingReadsBack ==
    LET k == coded.kind  x == coded.value
        back == IF k = "float64" /\ x.mag = <<>> THEN [x EXCEPT !.neg = FALSE] ELSE x
        rest == EncodeValue(k, another)
    IN  /\ Parse(k, EncodeValue(k, x) \o rest, "increasing") = Read(back, rest)
        /\ Parse(k, Invert(EncodeValue(k, x)) \o rest, "decreasing") = Read(back, rest)

(* The keys of a table lie together and in the order of their rows: the      *)
(* prefix of a table begins each of its keys and no key of another table     *)
(* (codec.h:389-415).                                                        *)
KeysOfATableAreTogether ==
    coded.kind = "int64" =>
        \A rid \in Magnitudes :
            /\ IsPrefix(EncodeTablePrefix(coded.value), EncodeKey(another, rid)) <=> coded.value = another
            /\ DecodeKey(EncodeKey(coded.value, rid)).value = coded.value
            /\ SignedLess(coded.value, another) => BytesLess(EncodeKey(coded.value, rid), EncodeTablePrefix(another))

(* Keys can be compared without being decoded, and decoded.                  *)
EncodingIsFaithful == EncodingKeepsOrder /\ EncodingReadsBack /\ KeysOfATableAreTogether
============================================================================
