----------------------------- MODULE PackStream -------------------------------
(***************************************************************************)
(* The bytes of the Bolt server: PackStream values and chunked messages.   *)
(* A value is a pair <<type, v>>.  An int is a Go int64, given by the eight *)
(* bytes of its two's complement (TLC's integers have 32 bits), a float64  *)
(* by its eight bytes, a string by its bytes; a map is a function whose    *)
(* domain holds such strings.  "other" is any type the encoder lacks.      *)
(***************************************************************************)
EXTENDS Integers, Sequences, FiniteSets, SequencesExt

CONSTANTS
    MaxChunk,   \* maxChunk, 65535 in the code
    Values,     \* the values that the properties are about
    Lengths,    \* the lengths of strings, lists and maps they are about
    Streams     \* sequences of messages sent on one connection

ASSUME ChunkAssumption == MaxChunk \in 1..65535

Val(type, v) == <<type, v>>
Nil == Val("nil", 0)
Unknown == Val("other", 0)

psNil == 192
psFloat64 == 193
psFalse == 194
psTrue == 195
psInt8 == 200
psInt16 == 201
psInt32 == 202
psInt64 == 203
psString8 == 208
psString16 == 209
psString32 == 210
psList8 == 212
psList16 == 213
psMap8 == 216
psMap16 == 217
psStruct8 == 220
-----------------------------------------------------------------------------
(* Encoding.                                                                 *)

\* binary.Write of an unsigned number in big-endian order: its low w bytes.
BigEndian(n, w) == [k \in 1..w |-> (n \div 256^(w - k)) % 256]

\* The int64 v lies in the range of an int of w bytes: the bytes in front of its
\* low w ones repeat their sign.
Sign(byte) == IF byte >= 128 THEN 255 ELSE 0
Low(v, w) == SubSeq(v, 9 - w, 8)
Fits(v, w) == \A k \in 1..8 - w : v[k] = Sign(v[9 - w])

\* Faulty variant: the range of an int32 is taken to end where a uint32's does.
packIntUnsigned(v) ==
    CASE Fits(v, 1) /\ v[8] \notin 128..239 -> Low(v, 1)
      [] Fits(v, 1) /\ v[8] \in 128..239    -> <<psInt8>> \o Low(v, 1)
      [] ~Fits(v, 1) /\ Fits(v, 2)          -> <<psInt16>> \o Low(v, 2)
      [] ~Fits(v, 2) /\ \A k \in 1..4 : v[k] \in {0, 255} -> <<psInt32>> \o Low(v, 4)
      [] OTHER                              -> <<psInt64>> \o v

packInt(v) ==
    CASE Fits(v, 1) /\ v[8] \notin 128..239 -> Low(v, 1)
      [] Fits(v, 1) /\ v[8] \in 128..239    -> <<psInt8>> \o Low(v, 1)
      [] ~Fits(v, 1) /\ Fits(v, 2)          -> <<psInt16>> \o Low(v, 2)
      [] ~Fits(v, 2) /\ Fits(v, 4)          -> <<psInt32>> \o Low(v, 4)
      [] OTHER                              -> <<psInt64>> \o v

\* The length in front of a string, list or map; wide lists the markers.  A list
\* and a map have no 32-bit form: their length is cut to its low 16 bits.
packSize(tiny, wide, n) ==
    CASE n < 16               -> <<tiny + n>>
      [] n \in 16..255        -> <<wide[1]>> \o BigEndian(n, 1)
      [] n > 255 /\ (n <= 65535 \/ Len(wide) = 2) -> <<wide[2]>> \o BigEndian(n, 2)
      [] OTHER                -> <<wide[3]>> \o BigEndian(n, 4)

packString(s) == packSize(128, <<psString8, psString16, psString32>>, Len(s)) \o s

RECURSIVE PackStreamEncode(_)

packList(l) ==
    packSize(144, <<psList8, psList16>>, Len(l)) \o FoldLeft(LAMBDA b, x : b \o PackStreamEncode(x), <<>>, l)

\* The order in which Go ranges over a map is any order.
packMap(m) ==
    packSize(160, <<psMap8, psMap16>>, Cardinality(DOMAIN m))
    \o FoldSet(LAMBDA k, b : b \o packString(k) \o PackStreamEncode(m[k]), <<>>, DOMAIN m)

PackStreamEncode(x) ==
    CASE x[1] = "nil"   -> <<psNil>>
      [] x[1] = "bool"  -> <<IF x[2] THEN psTrue ELSE psFalse>>
      [] x[1] = "int"   -> packInt(x[2])
      [] x[1] = "float" -> <<psFloat64>> \o x[2]
      [] x[1] = "str"   -> packString(x[2])
      [] x[1] = "list"  -> packList(x[2])
      [] x[1] = "map"   -> packMap(x[2])

RECURSIVE Encodable(_)
Encodable(x) ==
    CASE x[1] \in {"list", "map"} -> \A i \in DOMAIN x[2] : Encodable(x[2][i])
      [] OTHER                   -> x[1] # "other"

\* A message: [type, fields].  EncodeMessage fails on a sixteenth field.
Message(type, fields) == Val("struct", [type |-> type, fields |-> fields])
CanEncode(msg) == Len(msg[2].fields) <= 15 /\ \A i \in DOMAIN msg[2].fields : Encodable(msg[2].fields[i])
EncodeMessage(msg) ==
    <<176 + Len(msg[2].fields), msg[2].type>>
    \o FoldLeft(LAMBDA b, x : b \o PackStreamEncode(x), <<>>, msg[2].fields)
-----------------------------------------------------------------------------
(* Decoding, from position i of the bytes b: [ok, v, at], at the first byte  *)
(* that was not read; ok fails with too few bytes or an unknown marker.      *)

Got(v, at) == [ok |-> TRUE, v |-> v, at |-> at]
Failed(i) == [ok |-> FALSE, v |-> <<>>, at |-> i]

Has(b, i, w) == i + w - 1 <= Len(b)
UInt(b, i, w) == FoldLeft(LAMBDA n, x : n * 256 + x, 0, SubSeq(b, i, i + w - 1))
\* The int64 that the signed number of the w bytes at i is converted to.
Int64(b, i, w) == Val("int", [k \in 1..8 |-> IF k <= 8 - w THEN Sign(b[i]) ELSE b[i + w + k - 9]])

readStringN(b, i, n) == IF Has(b, i, n) THEN Got(Val("str", SubSeq(b, i, i + n - 1)), i + n) ELSE Failed(i)

RECURSIVE PackStreamDecode(_, _)

\* n values, one after the other: [ok, v |-> sequence of values, at].
RECURSIVE ReadMore(_, _, _)
ReadMore(b, acc, n) ==
    IF n = 0 \/ ~acc.ok THEN acc
    ELSE LET r == PackStreamDecode(b, acc.at)
         IN  ReadMore(b, IF r.ok THEN Got(Append(acc.v, r.v), r.at) ELSE Failed(acc.at), n - 1)
ReadN(b, i, n) == ReadMore(b, Got(<<>>, i), n)

readListN(b, i, n) ==
    LET r == ReadN(b, i, n) IN IF ~r.ok THEN r ELSE Got(Val("list", r.v), r.at)

\* A later entry replaces an earlier one with the same key.  fmt.Sprint of a key
\* that is no string is its text; keys are strings here.
readMapN(b, i, n) ==
    LET r == ReadN(b, i, 2 * n)
        Key(k) == r.v[2 * k - 1][2]
        keys == {Key(k) : k \in 1..n}
        Latest(key) == CHOOSE k \in 1..n : Key(k) = key /\ \A j \in k + 1..n : Key(j) # key
    IN  IF ~r.ok THEN r ELSE Got(Val("map", [key \in keys |-> r.v[2 * Latest(key)]]), r.at)

readStruct(b, i, n) ==
    LET r == ReadN(b, i + 1, n)
    IN  IF ~Has(b, i, 1) \/ ~r.ok THEN Failed(i) ELSE Got(Message(b[i], r.v), r.at)

\* A size of w bytes at i and what it is the size of.
Sized(b, i, w, Read(_, _, _)) == IF Has(b, i, w) THEN Read(b, i + w, UInt(b, i, w)) ELSE Failed(i)
Fixed(b, i, w, v) == IF Has(b, i, w) THEN Got(v, i + w) ELSE Failed(i)

PackStreamDecode(b, i) ==
    IF ~Has(b, i, 1) THEN Failed(i)
    ELSE LET m == b[i]
             j == i + 1
         IN  CASE m <= 127         -> Got(Int64(b, i, 1), j)
               [] m >= 240        -> Got(Int64(b, i, 1), j)
               [] m \in 128..143  -> readStringN(b, j, m % 16)
               [] m \in 144..159  -> readListN(b, j, m % 16)
               [] m \in 160..175  -> readMapN(b, j, m % 16)
               [] m \in 176..191  -> readStruct(b, j, m % 16)
               [] m = psNil       -> Got(Nil, j)
               [] m = psFalse     -> Got(Val("bool", FALSE), j)
               [] m = psTrue      -> Got(Val("bool", TRUE), j)
               [] m = psFloat64   -> Fixed(b, j, 8, Val("float", SubSeq(b, j, j + 7)))
               [] m = psInt8      -> Fixed(b, j, 1, Int64(b, j, 1))
               [] m = psInt16     -> Fixed(b, j, 2, Int64(b, j, 2))
               [] m = psInt32     -> Fixed(b, j, 4, Int64(b, j, 4))
               [] m = psInt64     -> Fixed(b, j, 8, Int64(b, j, 8))
               [] m = psString8   -> Sized(b, j, 1, readStringN)
               [] m = psString16  -> Sized(b, j, 2, readStringN)
               [] m = psString32  -> Sized(b, j, 4, readStringN)
               [] m = psList8     -> Sized(b, j, 1, readListN)
               [] m = psList16    -> Sized(b, j, 2, readListN)
               [] m = psMap8      -> Sized(b, j, 1, readMapN)
               [] m = psMap16     -> Sized(b, j, 2, readMapN)
               [] m = psStruct8   -> Sized(b, j, 1, readStruct)
               [] OTHER           -> Failed(i)
-----------------------------------------------------------------------------
(* Chunks.                                                                   *)

\* Faulty variant: the end marker is written after a full last chunk only.
RECURSIVE WriteChunkedEndless(_)
WriteChunkedEndless(data) ==
    IF data = <<>> THEN BigEndian(0, 2)
    ELSE IF Len(data) < MaxChunk THEN BigEndian(Len(data), 2) \o data
    ELSE BigEndian(MaxChunk, 2) \o SubSeq(data, 1, MaxChunk) \o WriteChunkedEndless(SubSeq(data, MaxChunk + 1, Len(data)))

RECURSIVE WriteChunked(_)
WriteChunked(data) ==
    IF data = <<>> THEN BigEndian(0, 2)
    ELSE LET n == IF Len(data) > MaxChunk THEN MaxChunk ELSE Len(data)
         IN  BigEndian(n, 2) \o SubSeq(data, 1, n) \o WriteChunked(SubSeq(data, n + 1, Len(data)))

\* The chunks from i on, up to the empty one: [v |-> bytes, at].
RECURSIVE ReadChunkedFrom(_, _, _)
ReadChunkedFrom(b, i, data) ==
    IF ~Has(b, i, 2) THEN Failed(i)
    ELSE LET n == UInt(b, i, 2)
         IN  CASE n = 0               -> Got(data, i + 2)
               [] n > 0 /\ Has(b, i + 2, n) -> ReadChunkedFrom(b, i + 2 + n, data \o SubSeq(b, i + 2, i + 1 + n))
               [] OTHER               -> Failed(i)
ReadChunked(b, i) == ReadChunkedFrom(b, i, <<>>)

SendMessage(msg) == WriteChunked(EncodeMessage(msg))

\* What is not a struct is an error; bytes behind the value are ignored.
DecodeMessage(b, i) ==
    LET r == ReadChunked(b, i)
        d == PackStreamDecode(r.v, 1)
    IN  IF r.ok /\ d.ok /\ d.v[1] = "struct" THEN Got(d.v, r.at) ELSE Failed(r.at)
-----------------------------------------------------------------------------
(* What the encoder and the decoder promise each other.                      *)

\* PackStreamDecode reads what PackStreamEncode wrote and not a byte more, and
\* takes no cut-off value for a whole.
Whole(v) ==
    LET b == PackStreamEncode(v)
    IN  /\ PackStreamDecode(b \o <<psNil>>, 1) = Got(v, Len(b) + 1)
        /\ \A n \in 0..Len(b) - 1 : n < 40 => ~PackStreamDecode(SubSeq(b, 1, n), 1).ok

\* The length in front of a string, list or map, read back: of a tiny one from the
\* marker, of another from the bytes behind it.
SizeRead(h, tiny) == IF Len(h) = 1 THEN h[1] - tiny ELSE UInt(h, 2, Len(h) - 1)
SizeKept(n) ==
    /\ SizeRead(packSize(128, <<psString8, psString16, psString32>>, n), 128) = n
    /\ n <= 65535 => /\ SizeRead(packSize(144, <<psList8, psList16>>, n), 144) = n
                     /\ SizeRead(packSize(160, <<psMap8, psMap16>>, n), 160) = n
CodecExact == (\A v \in Values : Encodable(v) => Whole(v)) /\ (\A n \in Lengths : SizeKept(n))

\* Messages written one after the other with SendMessage are read one after the
\* other with DecodeMessage, whatever their sizes are relative to a chunk's.
Delivered(msgs) ==
    LET b == FoldLeft(LAMBDA s, m : s \o SendMessage(m), <<>>, msgs)
        read == FoldLeft(LAMBDA acc, m : LET r == DecodeMessage(b, acc.at) IN Got(Append(acc.v, r.v), r.at),
                         Got(<<>>, 1), msgs)
    IN  read = Got(msgs, Len(b) + 1)
StreamExact == \A msgs \in Streams : (\A i \in DOMAIN msgs : CanEncode(msgs[i])) => Delivered(msgs)
=============================================================================
