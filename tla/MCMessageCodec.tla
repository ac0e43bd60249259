--------------------------- MODULE MCMessageCodec ---------------------------
EXTENDS MessageCodec

Header(version, community, pduType, id, errorVal, errorIdx) ==
  [version |-> version, community |-> community, pduType |-> pduType,
   id |-> id, errorVal |-> errorVal, errorIdx |-> errorIdx]

public == <<112, 117>>

\* Requests of a client, with ids around the lengths of an integer, and
\* responses of an agent, which carry no community.
SomeHeaders ==
  {Header(1, public, GET_REQUEST, 127, 0, 0),
   Header(1, public, SET_REQUEST, 128, 0, 0),
   Header(1, <<>>, RESPONSE, 8388608, 13, 1),
   Header(0, <<>>, RESPONSE, 2147483647, 0, 0)}

\* Around the limits of base 128, of the first byte and of what is encoded.
SomeOids ==
  {<<1, 3, 0, 127, 128, 16384>>, <<6, 15, 268435455>>, <<1, 3, 268435456>>,
   <<6, 16, 1>>, <<1, 40, 1>>, <<1, 3>>}

SomeIntegers == {-129, 128}

Zeros(n) == [i \in 1 .. n |-> 0]

\* With 94 bytes, and no other varbind, a response under the second identifier has
\* 126 bytes, the most that a short length tells; under a longer one it has 129.
SomeOctetStrings == {<<>>, <<128>>, Zeros(94), Zeros(300)}

SomeOidValues == {<<1, 3>>, <<1, 3, 300>>, <<1, 3, 268435456>>, <<6, 39, 1>>, <<7, 1, 1>>}

\* IPv4 in both forms, and IPv6.
SomeAddresses == {<<10, 0, 0, 1>>, Mapped(<<10, 0, 0, 1>>), Zeros(16)}

\* Whole bytes, and one bit more.
SomeBitLengths == {0, 8, 9}
SomeBitIndices == {-1, 0, 8, 9}
=============================================================================
