---------------------------- MODULE MessageCodec ----------------------------
(***************************************************************************)
(* Messages, one after the other: from the varbinds that a user adds to    *)
(* one, through encode and the pool of buffers that it uses, to what       *)
(* decodeMsg makes of the datagram at the other end.  A bit string is      *)
(* built bit by bit before it is added.                                    *)
(***************************************************************************)
EXTENDS Ber, BitStrings

CONSTANTS
  Headers,      \* messages before varbinds are added
  Oids,         \* names of varbinds
  Integers32,   \* values of varbinds, by type
  OctetStrings,
  OidValues,
  Addresses,
  BitLengths,   \* of the bit strings that are built
  BitIndices,   \* of the bits that are set and cleared
  MaxVarbinds,  \* bound: varbinds in a message
  PoolSize      \* buffers that the pool has room for

Version1 == 0

\* PDU types.
GET_REQUEST == 160
GET_NEXT_REQUEST == 161
RESPONSE == 162
SET_REQUEST == 163
V1_TRAP == 164
GET_BULK_REQUEST == 165

SnmpRequestErrorType_MAX == 18

Int32 == {v \in Int : -2147483647 - 1 <= v /\ v <= 2147483647}

\* As much of uint32 as TLC has.
Uint31 == {v \in Nat : v <= 2147483647}

\* Requests of allocateV2cRequest and responses to the requests of either version.
ASSUME MessageAssumption ==
  /\ Headers \subseteq
       [version : {0, 1}, community : Seq(Bytes),
        pduType : {GET_REQUEST, GET_NEXT_REQUEST, SET_REQUEST, RESPONSE},
        id : Uint31, errorVal : 0 .. SnmpRequestErrorType_MAX, errorIdx : Int32]
  /\ Oids \subseteq Seq(Uint31) /\ OidValues \subseteq Seq(Uint31)
  /\ Integers32 \subseteq Int32
  /\ OctetStrings \subseteq Seq(Bytes) /\ Addresses \subseteq Seq(Bytes)
  /\ MaxVarbinds \in Nat /\ PoolSize \in Nat

ASSUME BitsAssumption == BitLengths \subseteq Nat /\ BitIndices \subseteq Int

VARIABLES
  phase,     \* "compose", "refused", "sent" or "received", or "panicked"
  msg,       \* the message being composed
  bits,      \* the bit string being built
  chosen,    \* history: the bits of it that are set and not cleared
  wire,      \* the bytes of the message
  freeList,  \* what the buffers in the pool hold
  received   \* what the other end decodes

vars == <<phase, msg, bits, chosen, wire, freeList, received>>

NoBits == [bitLength |-> -1]

\* What decodeMsg has filled in of a message that is not yet decoded.
Nothing == [status |-> "none"]

Message(version, community, pduType, id, errorVal, errorIdx, varbinds) ==
  [version |-> version, community |-> community, pduType |-> pduType,
   id |-> id, errorVal |-> errorVal, errorIdx |-> errorIdx, varbinds |-> varbinds]

NewMessage(h) ==
  Message(h.version, h.community, h.pduType, h.id, h.errorVal, h.errorIdx, <<>>)

Init ==
  /\ phase = "compose"
  /\ \E header \in Headers : msg = NewMessage(header)
  /\ bits = NoBits /\ chosen = {}
  /\ wire = <<>>
  /\ freeList = <<>>
  /\ received = Nothing

\* The next message, when the one before is refused or with its receiver.
Compose(header) ==
  /\ phase \in {"refused", "received"}
  /\ phase' = "compose"
  /\ msg' = NewMessage(header)
  /\ wire' = <<>>
  /\ received' = Nothing
  /\ UNCHANGED <<bits, chosen, freeList>>

-----------------------------------------------------------------------------
(***************************************************************************)
(* A bit string (bitstring.go).  It is built for the first varbind.        *)
(***************************************************************************)

NewBits(numBits) ==
  /\ phase = "compose" /\ bits = NoBits
  /\ msg.varbinds = <<>>
  /\ bits' = NewBitString(numBits)
  /\ chosen' = {}
  /\ UNCHANGED <<phase, msg, wire, freeList, received>>

\* Set or Clear is called, and returns no error.
Accepted(bitIdx) ==
  /\ phase = "compose" /\ bits # NoBits
  /\ ~OutOfRange(bits, bitIdx)

SetBit(bitIdx) ==
  /\ Accepted(bitIdx) /\ ~BeyondBytes(bits, bitIdx)
  /\ bits' = Set(bits, bitIdx)
  /\ chosen' = chosen \union {bitIdx}
  /\ UNCHANGED <<phase, msg, wire, freeList, received>>

ClearBit(bitIdx) ==
  /\ Accepted(bitIdx) /\ ~BeyondBytes(bits, bitIdx)
  /\ bits' = Clear(bits, bitIdx)
  /\ chosen' = chosen \ {bitIdx}
  /\ UNCHANGED <<phase, msg, wire, freeList, received>>

\* The index after the last bit is accepted, and there is no byte for it.
IndexPanics(bitIdx) ==
  /\ Accepted(bitIdx) /\ BeyondBytes(bits, bitIdx)
  /\ phase' = "panicked"
  /\ UNCHANGED <<msg, bits, chosen, wire, freeList, received>>

-----------------------------------------------------------------------------
(***************************************************************************)
(* Composition: a constructor for each type of varbind, and AddVarbind.    *)
(***************************************************************************)

Varbind(oid, type, val) == [oid |-> oid, type |-> type, val |-> val]

\* The bit string that is being built, if any, is the next to be added.
AddVarbind(vb) ==
  /\ phase = "compose"
  /\ vb.type = BIT_STRING \/ bits = NoBits
  /\ Len(msg.varbinds) < MaxVarbinds
  /\ msg' = [msg EXCEPT !.varbinds = Append(@, vb)]
  /\ bits' = NoBits /\ chosen' = {}
  /\ UNCHANGED <<phase, wire, freeList, received>>

Nulls == {NULL, NO_SUCH_OBJECT, NO_SUCH_INSTANCE, END_OF_MIB_VIEW}

AddNull(oid) == \E type \in Nulls : AddVarbind(Varbind(oid, type, <<>>))

AddOctetString(oid) ==
  \E val \in OctetStrings : AddVarbind(Varbind(oid, OCTET_STRING, val))
AddInteger(oid)     == \E val \in Integers32 : AddVarbind(Varbind(oid, INTEGER, val))
AddBitString(oid)   == bits # NoBits /\ AddVarbind(Varbind(oid, BIT_STRING, bits))
AddIPv4Address(oid) == \E val \in Addresses : AddVarbind(Varbind(oid, IP_ADDRESS, val))
AddObjectIdentifier(oid) ==
  \E val \in OidValues : AddVarbind(Varbind(oid, OBJECT_IDENTIFIER, val))

-----------------------------------------------------------------------------
(***************************************************************************)
(* Encoding (varbind.go, msg.go).                                          *)
(***************************************************************************)

encodeValue(vb) ==
  CASE vb.type = INTEGER           -> encodeInteger(vb.val)
    [] vb.type = OCTET_STRING      -> encodeOctetString(vb.val)
    [] vb.type = BIT_STRING        -> encodeBitString(vb.val)
    [] vb.type = OBJECT_IDENTIFIER -> encodeObjectIdentifier(vb.val)
    [] vb.type = IP_ADDRESS        -> encodeIPv4Address(vb.val)
    [] OTHER                       -> Block(vb.type, <<>>)

ValueEncodable(vb) ==
  /\ vb.type = OBJECT_IDENTIFIER => Encodable(vb.val)
  /\ vb.type = IP_ADDRESS => IsIPv4(vb.val)

VarbindEncodable(vb) == Encodable(vb.oid) /\ ValueEncodable(vb)

encodeVarbind(vb) == Block(SEQUENCE, encodeObjectIdentifier(vb.oid) \o encodeValue(vb))

encodeVarbinds(vbs) == FlattenSeq([i \in DOMAIN vbs |-> encodeVarbind(vbs[i])])

HeaderFields(m) == encodeInteger(m.version) \o encodeOctetString(m.community)

PduControlFields(m) ==
  encodeInteger(m.id) \o encodeInteger(m.errorVal) \o encodeInteger(m.errorIdx)

\* The encode method of requests and responses.
encode(m) ==
  Block(SEQUENCE, HeaderFields(m) \o
    Block(m.pduType, PduControlFields(m) \o
      Block(SEQUENCE, encodeVarbinds(m.varbinds))))

Unencodable(m) == {i \in DOMAIN m.varbinds : ~VarbindEncodable(m.varbinds[i])}

\* The chain when the first varbind that cannot be encoded is met.  A header
\* that waits for its length is only a type.
Abandoned(m) ==
  LET first == Min(Unencodable(m))
      vb    == m.varbinds[first]
  IN <<<<SEQUENCE>>>> \o HeaderFields(m) \o <<<<m.pduType>>>> \o PduControlFields(m)
       \o <<<<SEQUENCE>>>> \o encodeVarbinds(SubSeq(m.varbinds, 1, first - 1))
       \o <<<<SEQUENCE>>>> \o IF Encodable(vb.oid) THEN encodeObjectIdentifier(vb.oid) ELSE <<>>

-----------------------------------------------------------------------------
(***************************************************************************)
(* The buffers of an encoder (encoder.go, bufferPool.go).                  *)
(***************************************************************************)

\* Each buffer is the next in the pool, or a new one if there is none.
getBuffer(i) == IF i <= Len(freeList) THEN freeList[i] ELSE <<>>

Written(chain) == [i \in DOMAIN chain |-> getBuffer(i) \o chain[i]]

\* Mutation: a buffer is returned as it is.
KeepContents(buf) == buf

Reset(buf) == <<>>

\* Buffers are put back in order while there is room, and the others dropped.
putBuffers(pool, chain) ==
  pool \o [i \in 1 .. Min({Len(chain), PoolSize - Len(pool)}) |-> Reset(chain[i])]

\* The pool when the buffers taken for a chain are put back.
destroy(chain) == putBuffers(SubSeq(freeList, Len(chain) + 1, Len(freeList)), chain)

\* WriteTo drains the buffers.
Drained(chain) == [i \in DOMAIN chain |-> <<>>]

\* processOutboundQueue encodes the message and writes it to the socket.
Transmit ==
  /\ phase = "compose" /\ bits = NoBits
  /\ Unencodable(msg) = {}
  /\ phase' = "sent"
  /\ \E chain \in {encode(msg)} :
       /\ wire' = FlattenSeq(Written(chain))
       /\ freeList' = destroy(Drained(chain))
  /\ UNCHANGED <<msg, bits, chosen, received>>

EncodeFails ==
  /\ phase = "compose" /\ bits = NoBits
  /\ Unencodable(msg) # {}
  /\ phase' = "refused"
  /\ freeList' = destroy(Written(Abandoned(msg)))
  /\ UNCHANGED <<msg, bits, chosen, wire, received>>

-----------------------------------------------------------------------------
(***************************************************************************)
(* Decoding (varbind.go, decoder.go, msg.go).                              *)
(***************************************************************************)

\* The value of a varbind that has none, and of an identifier or a string that
\* decodeValue returns with an error it does not report.
NoVal == <<>>

DecodedTypes == {INTEGER, BIT_STRING, OCTET_STRING, OBJECT_IDENTIFIER, IP_ADDRESS} \union Nulls

decodeValueOf(type, n, bytes) ==
  CASE type = INTEGER           -> decodeInteger(n, bytes)
    [] type = BIT_STRING        -> decodeBitString(n, bytes)
    [] type = OCTET_STRING      -> Read(n, bytes)
    [] type = OBJECT_IDENTIFIER -> decodeObjectIdentifier(n, bytes)
    [] type = IP_ADDRESS        -> decodeIPv4Address(n, bytes)
    [] type \in Nulls           -> OK(NoVal, bytes)

\* An error in the value is dropped, what has been read of it stays read.
Unreported(type, res) ==
  IF res.status # "error" THEN res
  ELSE OK(CASE type = IP_ADDRESS -> Mapped(<<0, 0, 0, 0>>)
            [] type = BIT_STRING -> NoBits
            [] OTHER             -> NoVal, res.rest)

decodeValue(bytes) ==
  Then(decodeHeader(bytes), LAMBDA header, rest :
    IF header.type \notin DecodedTypes THEN Error(rest)
    ELSE Then(Unreported(header.type, decodeValueOf(header.type, header.length, rest)),
              LAMBDA val, left : OK([type |-> header.type, val |-> val], left)))

\* decodeVarbind asserts that the int64 of an integer is an int32.
decodeVarbind(bytes) ==
  Then(decodeHeaderOf(SEQUENCE, bytes), LAMBDA length, rest :
    Then(decodeObjectIdentifierWithHeader(rest), LAMBDA oid, left :
      Then(decodeValue(left), LAMBDA value, end :
        IF value.type = INTEGER THEN Panic
        ELSE IF Len(rest) - Len(end) # length THEN Error(end)
        ELSE OK(Varbind(oid, value.type, value.val), end))))

\* There is at least one varbind.
decodeVarbindList[bytes \in Seq(Bytes)] ==
  Then(decodeVarbind(bytes), LAMBDA vb, rest :
    IF rest = <<>> THEN OK(<<vb>>, rest)
    ELSE Then(decodeVarbindList[rest], LAMBDA vbs, end : OK(<<vb>> \o vbs, end)))

\* Mutation: an empty list is accepted.
decodeAnyVarbinds(bytes) ==
  Then(decodeHeaderOf(SEQUENCE, bytes), LAMBDA length, rest :
    IF length # Len(rest) THEN Error(rest)
    ELSE IF rest = <<>> THEN OK(<<>>, rest) ELSE decodeVarbindList[rest])

decodeVarbinds(bytes) ==
  Then(decodeHeaderOf(SEQUENCE, bytes), LAMBDA length, rest :
    IF length # Len(rest) THEN Error(rest) ELSE decodeVarbindList[rest])

\* The decode method of requests and responses.
decode(m, bytes) ==
  Then(decodeUint32WithHeader(bytes), LAMBDA id, r1 :
    Then(decodeInt32WithHeader(r1), LAMBDA errorVal, r2 :
      IF errorVal > SnmpRequestErrorType_MAX THEN Error(r2)
      ELSE Then(decodeInt32WithHeader(r2), LAMBDA errorIdx, r3 :
             Then(decodeVarbinds(r3), LAMBDA vbs, r4 :
               OK(Message(m.version, m.community, m.pduType, id, errorVal, errorIdx, vbs),
                  r4)))))

AcceptedPduTypes(version) ==
  IF version = Version1 THEN {GET_REQUEST, GET_NEXT_REQUEST, SET_REQUEST, RESPONSE, V1_TRAP}
  ELSE {GET_REQUEST, GET_NEXT_REQUEST, SET_REQUEST, RESPONSE, GET_BULK_REQUEST}

\* The decode method of a trap reads nothing.
decodeCommunityMessage(version, bytes) ==
  Then(decodeOctetStringWithHeader(bytes), LAMBDA community, r1 :
    Then(decodeHeader(r1), LAMBDA pdu, r2 :
      LET m == [version |-> version, community |-> community, pduType |-> pdu.type]
      IN IF pdu.length # Len(r2) \/ pdu.type \notin AcceptedPduTypes(version) THEN Error(r2)
         ELSE IF pdu.type = V1_TRAP
         THEN OK(Message(version, community, pdu.type, 0, 0, 0, <<>>), r2)
         ELSE decode(m, r2)))

decodeMsg(bytes) ==
  Then(decodeHeaderOf(SEQUENCE, bytes), LAMBDA length, r1 :
    IF length # Len(r1) THEN Error(r1)
    ELSE Then(decodeIntegerWithHeader(r1), LAMBDA version, r2 :
           IF version \notin {0, 1} THEN Error(r2) ELSE decodeCommunityMessage(version, r2)))

Receive ==
  /\ phase = "sent"
  /\ phase' = "received"
  /\ received' = decodeMsg(wire)
  /\ UNCHANGED <<msg, bits, chosen, wire, freeList>>

-----------------------------------------------------------------------------

Next ==
  \/ \E header \in Headers : Compose(header)
  \/ \E numBits \in BitLengths : NewBits(numBits)
  \/ \E bitIdx \in BitIndices : SetBit(bitIdx) \/ ClearBit(bitIdx) \/ IndexPanics(bitIdx)
  \/ \E oid \in Oids :
       \/ AddNull(oid)
       \/ AddInteger(oid)
       \/ AddOctetString(oid)
       \/ AddBitString(oid)
       \/ AddObjectIdentifier(oid)
       \/ AddIPv4Address(oid)
  \/ Transmit
  \/ EncodeFails
  \/ Receive

Spec == Init /\ [][Next]_vars

-----------------------------------------------------------------------------

\* The varbinds of a decoded message.
ReceivedVarbinds ==
  IF received.status = "ok"
  THEN {received.val.varbinds[i] : i \in DOMAIN received.val.varbinds} ELSE {}

(***************************************************************************)
(* The values the variables take.  In particular everything on the wire is *)
(* a byte, and a bit string that was received has as many bytes as its     *)
(* bits need (decodeBitString).                                            *)
(***************************************************************************)
TypeOK ==
  /\ phase \in {"compose", "refused", "sent", "received", "panicked"}
  /\ Len(msg.varbinds) <= MaxVarbinds
  /\ \A i \in DOMAIN wire : wire[i] \in Bytes
  /\ Len(freeList) <= PoolSize
  /\ received.status \in IF phase = "received" THEN {"ok", "error", "panic"} ELSE {"none"}
  /\ \A vb \in ReceivedVarbinds :
       vb.type = BIT_STRING /\ vb.val # NoBits => 8 * Len(vb.val.bytes) - vb.val.bitLength \in 0 .. 7

(***************************************************************************)
(* Whatever the order in which bits are set and cleared, IsSet says of     *)
(* each what was last done to it, and "Padding bits will be zero"          *)
(* (bitstring.go:8), except for the first one: Set accepts the index after *)
(* the last bit.                                                           *)
(***************************************************************************)
BitsAreThoseSet ==
  bits # NoBits =>
    /\ \A i \in 0 .. bits.bitLength - 1 : IsSet(bits, i) <=> i \in chosen
    /\ \A i \in bits.bitLength .. 8 * Len(bits.bytes) - 1 :
         Bit(bits.bytes[Len(bits.bytes)], i) = 1 => i = bits.bitLength /\ i \in chosen

\* An identifier that takes at most four digits, and a first byte that is not cut off.
PlainOid(oid) ==
  /\ Encodable(oid) /\ Len(oid) >= 3
  /\ 40 * oid[1] + oid[2] < 256
  /\ \A i \in 3 .. Len(oid) : oid[i] < Power128(4)

PlainVarbind(vb) ==
  /\ PlainOid(vb.oid)
  /\ vb.type # INTEGER
  /\ vb.type = OBJECT_IDENTIFIER => PlainOid(vb.val)
  /\ vb.type = IP_ADDRESS => Len(vb.val) = 4

\* Addresses are received in their long form.
LongAddress(addr) == IF Len(addr) = 4 THEN Mapped(addr) ELSE addr

SameVarbind(sent, got) ==
  /\ got.oid = sent.oid
  /\ got.type = sent.type
  /\ got.val = IF sent.type = IP_ADDRESS THEN LongAddress(sent.val) ELSE sent.val

SameMessage(sent, got) ==
  /\ <<got.version, got.community, got.pduType, got.id, got.errorVal, got.errorIdx>> =
       <<sent.version, sent.community, sent.pduType, sent.id, sent.errorVal, sent.errorIdx>>
  /\ Len(got.varbinds) = Len(sent.varbinds)
  /\ \A i \in DOMAIN sent.varbinds : SameVarbind(sent.varbinds[i], got.varbinds[i])

\* The bytes between the header of the message and its end, in short form.
Short == Len(wire) - 2 < 127

PlainMessage ==
  /\ msg.varbinds # <<>>
  /\ \A i \in DOMAIN msg.varbinds : PlainVarbind(msg.varbinds[i])

(***************************************************************************)
(* A message of at least one varbind, all of them of the kinds that both   *)
(* sides support, is received exactly as it was composed, if it is short   *)
(* (encode and decode, of messages and of every type of varbind).          *)
(***************************************************************************)
RoundTrip ==
  phase = "received" /\ PlainMessage /\ Short =>
    received.status = "ok" /\ SameMessage(msg, received.val)

\* An identifier that loses bits when it is encoded.
CutOff(oid) == 40 * oid[1] + oid[2] > 255

Names(vb) == {vb.oid} \union IF vb.type = OBJECT_IDENTIFIER THEN {vb.val} ELSE {}

(***************************************************************************)
(* Whatever is composed, it is received as it was or not at all: a message *)
(* that the receiver cannot take must not be taken for another one.  Three *)
(* exceptions are known: a message that is not short, of which lengths are *)
(* read in the wrong place and any part may be taken for the message; a    *)
(* first byte that is cut off; and, as the last value, an identifier of    *)
(* two elements, whose error decodeValue drops.                            *)
(***************************************************************************)
NeverMistaken ==
  phase = "received" /\ received.status = "ok" /\ Short
    /\ (\A i \in DOMAIN msg.varbinds : \A oid \in Names(msg.varbinds[i]) :
          ~CutOff(oid) /\ Len(oid) > 2)
  => SameMessage(msg, received.val)

(***************************************************************************)
(* What is composed with this library, and short, ends the program that    *)
(* receives it only through an integer (decodeVarbind) or an identifier of *)
(* two elements (decodeObjectIdentifier).                                  *)
(***************************************************************************)
PanicsAreKnown ==
  received.status = "panic" /\ Short =>
    \E i \in DOMAIN msg.varbinds :
      \/ msg.varbinds[i].type = INTEGER
      \/ \E oid \in Names(msg.varbinds[i]) : Len(oid) = 2

(***************************************************************************)
(* A message without varbinds is encoded and sent, and never received: the *)
(* answer of an agent, which carries no community and so is short, to a    *)
(* request of which its handlers refuse every varbind (agent.go:55-57,     *)
(* 62-63) reaches no caller (decodeVarbinds).                              *)
(***************************************************************************)
EmptyIsRefused ==
  phase = "received" /\ msg.varbinds = <<>> /\ Short => received.status = "error"

(***************************************************************************)
(* decodeHeader "returns the decoded type and length of the block"         *)
(* (decoder.go:18), of a block of any length: a message of supported       *)
(* varbinds is received however long it is.                                *)
(***************************************************************************)
AnyLengthIsDecoded == phase = "received" /\ PlainMessage => received.status = "ok"
=============================================================================
