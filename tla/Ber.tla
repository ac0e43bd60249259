-------------------------------- MODULE Ber --------------------------------
(***************************************************************************)
(* The BER encoding of the values in an SNMP message, byte by byte, and    *)
(* its decoder as a function of the bytes that are left to read.           *)
(*                                                                         *)
(* An encoder returns the buffers that it appends to its chain, in order.  *)
(* A decoder returns what it has read and what is left, an error, or that  *)
(* it panics.  Numbers are those that TLC has, -2^31..2^31-1.              *)
(***************************************************************************)
EXTENDS Integers, SequencesExt

Bytes == 0 .. 255

OK(val, rest) == [status |-> "ok", val |-> val, rest |-> rest]

\* An error leaves the decoder where it was found.
Error(rest) == [status |-> "error", rest |-> rest]

Panic == [status |-> "panic"]

\* What a decoder does with the result of the one before it.
Then(res, Continue(_, _)) == IF res.status = "ok" THEN Continue(res.val, res.rest) ELSE res

\* The buffer has fewer than n bytes only when an error is to be reported.
Read(n, bytes) ==
  IF n > Len(bytes) THEN Error(<<>>)
  ELSE OK(SubSeq(bytes, 1, n), SubSeq(bytes, n + 1, Len(bytes)))

ReadByte(bytes) == IF bytes = <<>> THEN Error(<<>>) ELSE OK(Head(bytes), Tail(bytes))

\* Block types.
INTEGER == 2
BIT_STRING == 3
OCTET_STRING == 4
NULL == 5
OBJECT_IDENTIFIER == 6
SEQUENCE == 48
IP_ADDRESS == 64
NO_SUCH_OBJECT == 128
NO_SUCH_INSTANCE == 129
END_OF_MIB_VIEW == 130

\* 256 ^ k and 128 ^ k, as far as a number that TLC has can have digits.
Power256(k) == <<1, 256, 65536, 16777216>>[k + 1]
Power128(k) == <<1, 128, 16384, 2097152, 268435456>>[k + 1]

\* The number that digits continue which begins with first.
Number(base, first, digits) ==
  LET value[i \in 0 .. Len(digits)] ==
        IF i = 0 THEN first ELSE base * value[i - 1] + digits[i]
  IN value[Len(digits)]

-----------------------------------------------------------------------------
(***************************************************************************)
(* Blocks and their headers (encoder.go, decoder.go).                      *)
(***************************************************************************)

calculateLengthLen(l) == 1 + Max({0} \union {k \in 1 .. 3 : l \div Power256(k) > 0})

encodeLength(l) ==
  IF l < 127 THEN <<l>>
  ELSE LET n == calculateLengthLen(l)
       IN <<128 + n>> \o [i \in 1 .. n |-> (l \div Power256(n - i)) % 256]

\* A block around the buffers that have been appended after its header.
Block(type, chain) ==
  <<<<type>> \o encodeLength(Len(FlattenSeq(chain)))>> \o chain

\* An int holds the last eight bytes of a length.  If one of the first five
\* of these is not zero it is negative or beyond every message.
LengthValue(digits) ==
  LET int  == SubSeq(digits, IF Len(digits) > 8 THEN Len(digits) - 7 ELSE 1, Len(digits))
      high == Len(int) - 3
  IN IF \E i \in 1 .. high : int[i] # 0 THEN -1
     ELSE Number(256, 0, int)

\* The first byte of the long form is taken whole for the number of digits,
\* its highest bit included.
decodeLength(bytes) ==
  Then(ReadByte(bytes), LAMBDA first, rest :
    IF first < 127 THEN OK(first, rest)
    ELSE Then(Read(first, rest), LAMBDA digits, left :
           IF LengthValue(digits) < 0 THEN Error(left) ELSE OK(LengthValue(digits), left)))

decodeHeader(bytes) ==
  Then(ReadByte(bytes), LAMBDA type, rest :
    Then(decodeLength(rest), LAMBDA length, left :
      IF length > Len(left) THEN Error(left) ELSE OK([type |-> type, length |-> length], left)))

\* The header of a block that must be of the given type.
decodeHeaderOf(type, bytes) ==
  Then(decodeHeader(bytes), LAMBDA header, rest :
    IF header.type # type THEN Error(rest) ELSE OK(header.length, rest))

-----------------------------------------------------------------------------
(***************************************************************************)
(* Integers (integer.go).                                                  *)
(***************************************************************************)

\* Mutation: the sign bit is forgotten.
calculateUnsignedIntLen(val) ==
  1 + Max({0} \union {k \in 1 .. 3 : val \div Power256(k - 1) \notin -256 .. 255})

calculate2sComplementIntLen(val) ==
  1 + Max({0} \union {k \in 1 .. 3 : val \div Power256(k - 1) \notin -128 .. 127})

encodeInteger(val) ==
  LET n == calculate2sComplementIntLen(val)
  IN Block(INTEGER, <<[i \in 1 .. n |-> (val \div Power256(n - i)) % 256]>>)

\* Shifting up and down extends the sign of the first byte.
extendSign(b) == IF b > 127 THEN b - 256 ELSE b

decodeInteger(n, bytes) ==
  Then(Read(n, bytes), LAMBDA digits, rest :
    IF n = 0 THEN OK(0, rest)
    ELSE OK(Number(256, extendSign(digits[1]), Tail(digits)), rest))

decodeIntegerWithHeader(bytes) ==
  Then(decodeHeaderOf(INTEGER, bytes), LAMBDA n, rest : decodeInteger(n, rest))

\* Every number that TLC has is an int32, those from 0 are uint32.
decodeInt32WithHeader(bytes) == decodeIntegerWithHeader(bytes)

decodeUint32WithHeader(bytes) ==
  Then(decodeIntegerWithHeader(bytes), LAMBDA v, rest : IF v < 0 THEN Error(rest) ELSE OK(v, rest))

-----------------------------------------------------------------------------
(***************************************************************************)
(* Object identifiers (objectIdentifier.go, integer.go).                   *)
(***************************************************************************)

calculateBase128IntLen(val) == 1 + Max({0} \union {k \in 1 .. 4 : val \div Power128(k) > 0})

encodeBase128Int(val) ==
  LET n == calculateBase128IntLen(val)
  IN [i \in 1 .. n |-> ((val \div Power128(n - i)) % 128) + (IF i < n THEN 128 ELSE 0)]

\* What encodeObjectIdentifier does not refuse.
Encodable(oid) == Len(oid) >= 2 /\ oid[1] <= 6 /\ oid[2] < 40

encodeObjectIdentifier(oid) ==
  Block(OBJECT_IDENTIFIER,
        <<<<(40 * oid[1] + oid[2]) % 256>>
            \o FlattenSeq([i \in 1 .. Len(oid) - 2 |-> encodeBase128Int(oid[i + 2])])>>)

\* Mutation: the bit that says that more digits follow is kept.
KeepTopBit(b) == b

Digit(b) == b % 128

\* At most four digits are read.
decodeBase128Int(bytes) ==
  LET last == {i \in 1 .. 4 : i <= Len(bytes) /\ bytes[i] < 128}
  IN IF last = {} THEN Error(SubSeq(bytes, 5, Len(bytes)))
     ELSE Then(Read(Min(last), bytes), LAMBDA digits, rest :
            OK(Number(128, 0, [i \in DOMAIN digits |-> Digit(digits[i])]), rest))

\* The slice that an identifier is decoded into has room for so many elements
\* more, and so many bytes of the identifier are left to read.
At(room, left, bytes) == [room |-> room, left |-> left, bytes |-> bytes]

\* Where the loop over the elements may stand.
Places == [room : Nat, left : Int, bytes : Seq(Bytes)]

\* The elements in the bytes that are left.
decodeIdentifiers[at \in Places] ==
  Then(decodeBase128Int(at.bytes), LAMBDA val, rest :
    LET left == at.left - (Len(at.bytes) - Len(rest))
    IN IF at.room = 0 THEN Panic
       ELSE IF left = 0 THEN OK(<<val>>, rest)
       ELSE IF left < 0 THEN Error(rest)
       ELSE Then(decodeIdentifiers[At(at.room - 1, left, rest)], LAMBDA vals, end :
              OK(<<val>> \o vals, end)))

\* Mutation: room for one element for each byte.
OnePerByte(n) == n

\* The first byte gives two elements, any other at most one.
MaxElements(n) == n + 1

\* The two elements of the first byte are stored, and another one is read,
\* before the bytes read are compared with n.
decodeObjectIdentifier(n, bytes) ==
  IF n > Len(bytes) THEN Error(bytes)
  ELSE Then(ReadByte(bytes), LAMBDA first, rest :
         IF MaxElements(n) < 2 THEN Panic
         ELSE Then(decodeIdentifiers[At(MaxElements(n) - 2, n - 1, rest)], LAMBDA vals, end :
                OK(<<first \div 40, first % 40>> \o vals, end)))

decodeObjectIdentifierWithHeader(bytes) ==
  Then(decodeHeaderOf(OBJECT_IDENTIFIER, bytes), LAMBDA n, rest :
    decodeObjectIdentifier(n, rest))

-----------------------------------------------------------------------------
(***************************************************************************)
(* Strings and addresses (octetstring.go, bitstring.go, ipAddress.go).     *)
(***************************************************************************)

encodeOctetString(val) == Block(OCTET_STRING, <<val>>)

decodeOctetStringWithHeader(bytes) ==
  Then(decodeHeaderOf(OCTET_STRING, bytes), LAMBDA n, rest : Read(n, rest))

encodeBitString(val) ==
  Block(BIT_STRING, <<<<(8 - (val.bitLength % 8)) % 8>> \o val.bytes>>)

\* Mutation: the byte that holds the padding is counted.
CountAllBytes(n, padding) == 8 * n - padding

BitLength(n, padding) == 8 * (n - 1) - padding

decodeBitString(n, bytes) ==
  IF n < 1 THEN Error(bytes)
  ELSE Then(ReadByte(bytes), LAMBDA padding, rest :
         IF padding > 7 THEN Error(rest)
         ELSE Then(Read(n - 1, rest), LAMBDA val, left :
                OK([bytes |-> val, bitLength |-> BitLength(n, padding)], left)))

\* net.IP holds an IPv4 address in four bytes or, mapped, in sixteen.
Mapped(addr) == [i \in 1 .. 10 |-> 0] \o <<255, 255>> \o addr

\* What encodeIPv4Address does not refuse.  It writes either form as it is.
IsIPv4(val) == Len(val) = 4 \/ (Len(val) = 16 /\ val = Mapped(SubSeq(val, 13, 16)))

encodeIPv4Address(val) == Block(IP_ADDRESS, <<val>>)

decodeIPv4Address(n, bytes) ==
  IF n # 4 THEN Error(bytes)
  ELSE Then(Read(4, bytes), LAMBDA addr, rest : OK(Mapped(addr), rest))
=============================================================================
