-------------------------------- MODULE MCBolt --------------------------------
(* A client that pipelines up to three requests, and values at the boundaries  *)
(* of PackStream's markers.                                                    *)
EXTENDS Bolt, PackStream

\* The supported version in the third place, not at all, and another protocol.
Handshakes ==
    {[magic |-> BoltMagic, versions |-> <<5, 1027, BoltVersion4_4, 0>>],
     [magic |-> BoltMagic, versions |-> <<5, 3, 0, 0>>],
     [magic |-> 1195725856, versions |-> <<BoltVersion4_4, 0, 0, 0>>]}

\* The int64 of a number of 31 bits, and others that need more.
Long(n) == LET s == IF n < 0 THEN 255 ELSE 0 IN Val("int", <<s, s, s, s>> \o BigEndian(n, 4))
LongInts ==
    {Val("int", <<s, s, s, s, b, x, x, x>>) : s \in {0, 255}, b \in {0, 127, 128, 255}, x \in {0, 255}}
    \cup {Val("int", <<b, x, x, x, x, x, x, x>>) : b \in {127, 128}, x \in {0, 255}}
    \cup {Val("int", <<s, s, s, 1, 0, 0, 0, 0>>) : s \in {0, 255}}

Str(n) == Val("str", [i \in 1..n |-> i % 256])
Key(i) == <<107, i \div 256, i % 256>>
Map(n, v) == Val("map", [k \in {Key(i) : i \in 1..n} |-> v])
Bits == <<255, 239, 0, 1, 127, 128, 192, 176>>
Scalars ==
    {Nil, Val("bool", TRUE), Val("bool", FALSE), Val("float", Bits)} \cup LongInts
    \cup {Long(n) : n \in {-32769, -32768, -129, -128, -127, -17, -16, -1, 0, 1, 127, 128, 255, 256, 32767, 32768, 65536}}
Boundary ==
    Scalars \cup {Str(n) : n \in {0, 1, 15, 16, 255, 256, 65535, 65536}}
    \cup {Val("list", [i \in 1..n |-> v]) : n \in {0, 1, 15, 16, 255, 256}, v \in {Nil, Long(200)}}
    \cup {Map(n, v) : n \in {0, 1, 15, 16, 255, 256}, v \in {Nil, Str(2)}}
    \cup {Map(2, Val("list", <<v, Map(1, v), Val("list", <<>>), v>>)) : v \in Scalars}
    \cup {Unknown, Val("list", <<Nil, Unknown>>)}
Sizes == {0, 15, 16, 255, 256, 65534, 65535, 65536, 16777216}

Meta == Map(1, Val("list", <<Str(1), Str(2)>>))
SomeMessages == {Message(112, <<>>), Message(112, <<Meta>>), Message(113, <<Val("list", <<Nil, Str(3)>>)>>),
                 Message(16, <<Str(4), Map(0, Nil), Nil>>), Message(113, [i \in 1..15 |-> Nil]),
                 Message(113, [i \in 1..16 |-> Nil]), Message(113, <<Unknown>>)}
    \cup {Message(16, <<Str(n)>>) : n \in 5..12}
Conversations == {<<m>> : m \in SomeMessages} \cup {<<m, n>> : m \in SomeMessages, n \in SomeMessages}
-----------------------------------------------------------------------------
(* The bytes do not depend on the state: one state of the connection is enough. *)

\* PackStreamDecode reads back every value of Boundary, to its last byte and no
\* cut-off one: the int64s at both ends of every form packInt chooses, strings on
\* both sides of every length marker, lists and maps up to 256 entries; and the
\* length in front of a list or map up to the 65535 where packList cuts it off.
CodecRoundTrip == client = "new" => CodecExact

\* DecodeMessage reads back the messages SendMessage wrote one after the other,
\* whatever their sizes are relative to a chunk's.
StreamRoundTrip == client = "new" => StreamExact
=============================================================================
